------------------------------- MODULE Approvals -------------------------------
(***************************************************************************)
(* What the parallel tasks of one wave do to the workspace and what they   *)
(* ask the user: the tool loop of the adapters, fs_write, bash and         *)
(* ask_user (server/tools), the three in-memory stores of requests         *)
(* (pending-writes.ts, pending-bash-commands.ts, pending-questions.ts),    *)
(* their routes, and the conflict check at the end of the wave             *)
(* (dispatch-file-writes.ts).                                              *)
(*                                                                         *)
(* The database driver and the file calls are synchronous, so a handler    *)
(* lets other work run only where it waits for the model, a user or a      *)
(* child process.  A task in state "calling" is in such an uninterrupted   *)
(* stretch; nothing but the tasks in that state moves until it is over.    *)
(***************************************************************************)
EXTENDS Integers, Sequences, FiniteSets

CONSTANTS Task,          \* the tasks of the wave
          SdkTask,       \* those run by the Claude Code SDK, which writes files itself
          Path, Content, \* the files and what is written to them
          None,          \* no content
          MaxBatch,      \* bound: tool calls in one answer of the model
          MaxAttempts,   \* MAX_CHILD_TASK_ATTEMPTS
          MaxRequests    \* bound: requests to the user in a behaviour

ASSUME ApprovalsAssumption ==
  /\ IsFiniteSet(Task)
  /\ SdkTask \subseteq Task
  /\ None \notin Content
  /\ MaxBatch \in Nat \ {0} /\ MaxAttempts \in Nat \ {0}
  /\ MaxRequests \in Nat

VARIABLES at,        \* where the task's current run is
          attempt,   \* which run of the task that is
          batch,     \* tool calls of the model's answer still to be made
          aborted,   \* the tasks whose run has its signal aborted
          killed,    \* the tasks whose running command was sent the signal
          requests,  \* every request registered so far; its index is its id
          file,      \* the workspace
          records,   \* writesByRun: what each run of a task wrote last
          own,       \* history: what each task's fs_write last put in a file
          outside,   \* history: the files the SDK or a command wrote
          wave,      \* "open", "aborted" from the abort of the dispatch on, then "done" or "thrown"
          reported   \* the files executeDag reports as conflicts

runVars == <<at, attempt, batch, aborted, killed>>
diskVars == <<file, records, own, outside>>
waveVars == <<wave, reported>>
vars == <<runVars, requests, diskVars, waveVars>>

At == {"model", "calling", "waiting", "executing", "writing", "verifying", "settled", "dropped"}
Kind == {"write", "command", "question"}
Request == [kind : Kind, task : Task, path : Path \cup {None}, content : Content \cup {None},
            verdict : {"open", "granted", "refused"}]

Ids == 1..Len(requests)
Open == {i \in Ids : requests[i].verdict = "open"}
Attempts == 1..MaxAttempts

(* No uninterrupted stretch is under way.                                  *)
Quiet == \A t \in Task : at[t] # "calling"

Init ==
  /\ at = [t \in Task |-> "model"]
  /\ attempt = [t \in Task |-> 1]
  /\ batch = [t \in Task |-> 0]
  /\ aborted = {} /\ killed = {}
  /\ requests = <<>>
  /\ file = [p \in Path |-> None]
  /\ records = [t \in Task |-> [n \in Attempts |-> [p \in Path |-> None]]]
  /\ own = [t \in Task |-> [p \in Path |-> None]]
  /\ outside = {}
  /\ wave = "open" /\ reported = {}
-------------------------------------------------------------------------------
(* The tool loop.  The model's answer is read while the signal is not      *)
(* aborted; its tool calls are then made one after the other, without      *)
(* another look at the signal until the loop comes back to the model.  The *)
(* SDK has a loop of its own and hands over one call at a time.            *)
Go(t, s) == at' = [at EXCEPT ![t] = s]

Answer(t, n) ==
  /\ Quiet
  /\ at[t] = "model" /\ t \notin aborted
  /\ t \in SdkTask => n = 1
  /\ Go(t, "calling")
  /\ batch' = [batch EXCEPT ![t] = n]
  /\ UNCHANGED <<attempt, aborted, killed, requests, diskVars, waveVars>>

(* A run that was aborted settles its task; any other is followed by the   *)
(* required commands and the gates of the task.                            *)
TurnEnds(t) ==
  /\ at[t] = "calling" /\ batch[t] = 0
  /\ Go(t, IF t \in aborted THEN "settled" ELSE "model")
  /\ UNCHANGED <<attempt, batch, aborted, killed, requests, diskVars, waveVars>>

RunEnds(t) ==
  /\ Quiet
  /\ at[t] = "model"
  /\ Go(t, IF t \in aborted THEN "settled" ELSE "verifying")
  /\ UNCHANGED <<attempt, batch, aborted, killed, requests, diskVars, waveVars>>

(* The gates are met, or there is no attempt left.                         *)
TaskSettles(t) ==
  /\ Quiet
  /\ at[t] = "verifying"
  /\ Go(t, "settled")
  /\ UNCHANGED <<attempt, batch, aborted, killed, requests, diskVars, waveVars>>

(* They are missed: another run follows, or, when the dispatch has been    *)
(* aborted meanwhile, a result that names none of the task's runs.         *)
Retry(t) ==
  /\ Quiet
  /\ at[t] = "verifying" /\ t \notin aborted /\ attempt[t] < MaxAttempts
  /\ attempt' = [attempt EXCEPT ![t] = @ + 1]
  /\ Go(t, "model")
  /\ UNCHANGED <<batch, aborted, killed, requests, diskVars, waveVars>>

TaskDropped(t) ==
  /\ Quiet
  /\ at[t] = "verifying" /\ t \in aborted /\ attempt[t] < MaxAttempts
  /\ Go(t, "dropped")
  /\ UNCHANGED <<attempt, batch, aborted, killed, requests, diskVars, waveVars>>

(* The next tool call of the answer.                                       *)
Calls(t) ==
  /\ at[t] = "calling" /\ batch[t] > 0
  /\ batch' = [batch EXCEPT ![t] = @ - 1]
  /\ UNCHANGED <<attempt, aborted>>

(* writeFileInWorkspace and recordFileWrite.                               *)
Written(p, c) == file' = [file EXCEPT ![p] = c]
Unrecorded(t, p, c) ==                     \* mutant: only the first run is recorded
  records' = IF attempt[t] = 1 THEN [records EXCEPT ![t][1][p] = c] ELSE records
Recorded(t, p, c) == records' = [records EXCEPT ![t][attempt[t]][p] = c]

(* fs_write in auto mode; the mode may change between two calls.  The SDK  *)
(* writes without a trace in the records.                                  *)
WriteDirectly(t, p, c) ==
  /\ Calls(t)
  /\ Written(p, c)
  /\ IF t \in SdkTask
     THEN outside' = outside \cup {p} /\ UNCHANGED <<records, own>>
     ELSE /\ Recorded(t, p, c)
          /\ own' = [own EXCEPT ![t][p] = c]
          /\ UNCHANGED outside
  /\ UNCHANGED <<at, killed, requests, waveVars>>

(* A call refused by its arguments, the sandbox or the banned patterns.    *)
Refused(t) ==
  /\ Calls(t)
  /\ UNCHANGED <<at, killed, requests, diskVars, waveVars>>

(* A command that needs no approval is spawned at once.  The listener that *)
(* kills it is added to the signal without a look at its state.            *)
RunCommand(t) ==
  /\ Calls(t)
  /\ Go(t, "executing")
  /\ killed' = killed \ {t}
  /\ UNCHANGED <<requests, diskVars, waveVars>>

(* register, attachResolver and the check of the signal in one stretch: a  *)
(* request of an aborted run is cancelled at once.                         *)
AskAnyway(t, kind, p, c) ==                \* mutant: signal.aborted not looked at
  /\ Calls(t)
  /\ Len(requests) < MaxRequests
  /\ requests' = Append(requests, [kind |-> kind, task |-> t, path |-> p, content |-> c,
                                   verdict |-> "open"])
  /\ Go(t, "waiting")
  /\ UNCHANGED <<killed, diskVars, waveVars>>
Ask(t, kind, p, c) ==
  /\ Calls(t)
  /\ Len(requests) < MaxRequests
  /\ LET late == t \in aborted
     IN /\ requests' = Append(requests, [kind |-> kind, task |-> t, path |-> p, content |-> c,
                                         verdict |-> IF late THEN "refused" ELSE "open"])
        /\ Go(t, IF late THEN "calling" ELSE "waiting")
  /\ UNCHANGED <<killed, diskVars, waveVars>>
-------------------------------------------------------------------------------
(* The requests of the clients, desktop or mobile.  A route looks the id   *)
(* up and decides in one stretch; a decided id is gone from the map.       *)
Decided(i, v) == [requests EXCEPT ![i].verdict = v]

Settle(i, v, s) ==
  /\ Quiet
  /\ i \in Open
  /\ requests' = Decided(i, v)
  /\ Go(requests[i].task, s)
  /\ UNCHANGED <<attempt, batch, aborted, waveVars>>

(* approve writes the file first, unless the SDK is to do it.              *)
ApproveWrite(i) ==
  LET r == requests[i]
  IN /\ r.kind = "write"
     /\ IF r.task \in SdkTask
        THEN Settle(i, "granted", "writing") /\ UNCHANGED diskVars
        ELSE /\ Settle(i, "granted", "calling")
             /\ Written(r.path, r.content)
             /\ Recorded(r.task, r.path, r.content)
             /\ own' = [own EXCEPT ![r.task][r.path] = r.content]
             /\ UNCHANGED outside
     /\ UNCHANGED killed

(* ... and a write that fails counts as not applied.                       *)
WriteFails(i) ==
  /\ requests[i].kind = "write" /\ requests[i].task \notin SdkTask
  /\ Settle(i, "refused", "calling")
  /\ UNCHANGED <<killed, diskVars>>

ApproveCommand(i) ==
  /\ requests[i].kind = "command"
  /\ Settle(i, "granted", "executing")
  /\ killed' = killed \ {requests[i].task}
  /\ UNCHANGED diskVars

Reject(i) ==
  /\ requests[i].kind \in {"write", "command"}
  /\ Settle(i, "refused", "calling")
  /\ UNCHANGED <<killed, diskVars>>

AnswerQuestion(i) ==
  /\ requests[i].kind = "question"
  /\ Settle(i, "granted", "calling")
  /\ UNCHANGED <<killed, diskVars>>

Decide == \E i \in Open : ApproveWrite(i) \/ WriteFails(i) \/ ApproveCommand(i)
                          \/ Reject(i) \/ AnswerQuestion(i)
-------------------------------------------------------------------------------
(* A command, of the model or one of the required ones, is a process of its*)
(* own and may write files at any moment.  It ends by itself, by its       *)
(* timeout or by the kill.                                                 *)
CommandWrites(t, p, c) ==
  /\ at[t] \in {"executing", "verifying"}
  /\ Written(p, c)
  /\ outside' = outside \cup {p}
  /\ UNCHANGED <<runVars, requests, records, own, waveVars>>

CommandEnds(t) ==
  /\ Quiet
  /\ at[t] = "executing"
  /\ Go(t, "calling")
  /\ killed' = killed \ {t}
  /\ UNCHANGED <<attempt, batch, aborted, requests, diskVars, waveVars>>

(* The SDK writes the file it was allowed to write, or drops it.           *)
Granted(t) == {i \in Ids : requests[i].task = t /\ requests[i].verdict = "granted"}
Latest(S) == CHOOSE i \in S : \A j \in S : j <= i

SdkWrites(t) ==
  /\ Quiet
  /\ at[t] = "writing"
  /\ Go(t, "calling")
  /\ LET r == requests[Latest(Granted(t))]
     IN \/ Written(r.path, r.content) /\ outside' = outside \cup {r.path}
        \/ UNCHANGED <<file, outside>>
  /\ UNCHANGED <<attempt, batch, aborted, killed, requests, records, own, waveVars>>

(* Abort of some runs: one by the user, or all with the orchestrator run.  *)
(* Every open request of theirs is cancelled, every command is killed.     *)
Waiting(S) == {i \in Open : requests[i].task \in S}
LeaveOpen(S) == requests                   \* mutant: the entry stays in the map
CancelAll(S) == [i \in Ids |-> IF i \in Waiting(S)
                               THEN [requests[i] EXCEPT !.verdict = "refused"]
                               ELSE requests[i]]

(* The SDK makes no further call once its session is aborted.  A signal    *)
(* fires its listeners once.                                               *)
Signal(S) ==
  /\ Quiet
  /\ aborted' = aborted \cup S
  /\ requests' = CancelAll(S)
  /\ killed' = killed \cup {t \in S \ aborted : at[t] = "executing"}
  /\ at' = [t \in Task |-> IF t \in S /\ at[t] = "waiting" THEN "calling" ELSE at[t]]
  /\ batch' = [t \in Task |-> IF t \in S \cap SdkTask THEN 0 ELSE batch[t]]
  /\ UNCHANGED <<attempt, diskVars, reported>>

AbortRun(t) ==
  /\ at[t] \notin {"verifying", "settled", "dropped"} /\ t \notin aborted
  /\ Signal({t})
  /\ UNCHANGED wave

(* The abort of the orchestrator run reaches all of them.                  *)
AbortDispatch ==
  /\ wave = "open"
  /\ Signal(Task)
  /\ wave' = "aborted"

(* When its last task has a result the wave is over: the records of the    *)
(* runs of each task are merged, a later run over an earlier one, and      *)
(* compared.  After an abort executeDag still returns them when no task is *)
(* left for another wave, and throws otherwise.                            *)
FirstRunOnly(t, p) == records[t][1][p]     \* mutant: the records of retries are not merged
MergedRecord(t, p) ==
  LET wrote == {n \in Attempts : records[t][n][p] # None}
  IN IF wrote = {} THEN None ELSE records[t][Latest(wrote)][p]

Settled == {t \in Task : at[t] = "settled"}
Versions(p) == {MergedRecord(t, p) : t \in Settled} \ {None}

WaveEnds ==
  /\ wave \in {"open", "aborted"} /\ \A t \in Task : at[t] \in {"settled", "dropped"}
  /\ \/ wave' = "done" /\ reported' = {p \in Path : Cardinality(Versions(p)) > 1}
     \/ wave = "aborted" /\ wave' = "thrown" /\ UNCHANGED reported
  /\ UNCHANGED <<runVars, requests, diskVars>>
-------------------------------------------------------------------------------
Call(t) ==
  \/ \E p \in Path, c \in Content : WriteDirectly(t, p, c) \/ Ask(t, "write", p, c)
  \/ \E kind \in {"command", "question"} : Ask(t, kind, None, None)
  \/ Refused(t) \/ RunCommand(t)

Step(t) == TurnEnds(t) \/ Call(t) \/ CommandEnds(t) \/ SdkWrites(t)

Next ==
  \/ \E t \in Task : \/ \E n \in 1..MaxBatch : Answer(t, n)
                    \/ \E p \in Path, c \in Content : CommandWrites(t, p, c)
                    \/ Step(t) \/ RunEnds(t) \/ AbortRun(t)
                    \/ TaskSettles(t) \/ Retry(t) \/ TaskDropped(t)
  \/ AbortDispatch \/ WaveEnds \/ Decide

Spec == Init /\ [][Next]_vars
-------------------------------------------------------------------------------
(* Types.                                                                  *)
TypeOK ==
  /\ at \in [Task -> At] /\ attempt \in [Task -> Attempts] /\ batch \in [Task -> 0..MaxBatch]
  /\ aborted \subseteq Task /\ killed \subseteq Task
  /\ requests \in Seq(Request)
  /\ file \in [Path -> Content \cup {None}] /\ own \in [Task -> [Path -> Content \cup {None}]]
  /\ records \in [Task -> [Attempts -> [Path -> Content \cup {None}]]]
  /\ outside \subseteq Path /\ reported \subseteq Path
  /\ wave \in {"open", "aborted", "done", "thrown"}

(* A tool call and its entry in a store live and die together, through     *)
(* decisions, failed writes and aborts: a call that waits has exactly one  *)
(* open request, of a run that is not aborted, and no request outlives the *)
(* call that made it.                                                      *)
WaitersMatchStore ==
  \A t \in Task :
    /\ at[t] = "waiting" <=> \E i \in Open : requests[i].task = t
    /\ \A i, j \in Open : requests[i].task = t /\ requests[j].task = t => i = j
    /\ at[t] = "waiting" => t \notin aborted

(* A click that comes after the abort changes nothing: nothing is granted  *)
(* to a run that has its signal aborted.  (The SDK may still make a write  *)
(* that it was granted before.)                                            *)
LateApprovalIsVoid ==
  [][\A i \in Ids : requests[i].verdict # "granted" /\ requests'[i].verdict = "granted"
                    => requests[i].task \notin aborted]_requests

(* The conflicts executeDag hands to the aggregation are the real ones,    *)
(* also after an abort in its last wave: a reported file was given         *)
(* different contents by two tasks of the wave, and in a file that is not  *)
(* reported every task finds what its fs_write last put there, in whatever *)
(* order the tasks, their attempts and the approvals wrote.  Two kinds of  *)
(* files are excepted: the documented blind spot, those the SDK or a       *)
(* command wrote, and those of a task that was aborted between two         *)
(* attempts, whose result names none of its runs.                          *)
Unseen(p) == p \in outside \/ \E t \in Task : at[t] = "dropped" /\ own[t][p] # None
ConflictsExact ==
  wave = "done" =>
    \A p \in Path :
      /\ p \in reported => \E t, u \in Task : Cardinality({own[t][p], own[u][p], None}) = 3
      /\ p \notin reported /\ ~Unseen(p) => \A t \in Task : own[t][p] \in {None, file[p]}

(* Spec 07: the abort signal kills the process tree of a running command.  *)
AbortKillsCommands ==
  \A t \in Task \ SdkTask : t \in aborted /\ at[t] = "executing" => t \in killed
===============================================================================
