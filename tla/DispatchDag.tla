------------------------------ MODULE DispatchDag ------------------------------
(***************************************************************************)
(* The EXECUTE stage of orchestrator runs: executeDag() and the            *)
(* runChildTask() calls it makes, for several orchestrator runs that share *)
(* the semaphore of SubAgentSemaphore (src/src/server/agent-runner.ts).    *)
(*                                                                         *)
(* executeDag works in waves.  Between two waves it is one synchronous     *)
(* block: note an abort, skip what can no longer run, start every task     *)
(* whose dependencies are complete.  It then awaits the whole wave.        *)
(* A task of the wave waits for a slot, starts child runs until one        *)
(* passes the completion gates or the attempts are used up, publishes      *)
(* dispatch.end and gives the slot back.  Every await is a place where     *)
(* other tasks, other orchestrator runs and aborts interleave.             *)
(***************************************************************************)
EXTENDS SubAgentSemaphore

CONSTANTS
  External,      \* tasks of earlier rounds that this plan may depend on
  Plan,          \* the approved plan of each run: a sequence of tasks
  DependsOn,     \* DispatchPlanItem.dependsOn
  Inputs,        \* the dependencies whose output artifact the task requires
  MaxAttempts,   \* MAX_CHILD_TASK_ATTEMPTS
  Faulty         \* the tasks for which a database or file operation may throw

ASSUME DagAssumption ==
  /\ IsFiniteSet(Parent)
  /\ External \cap Task = {}
  /\ Plan \in [Parent -> Seq(Task)]
  /\ \A p \in Parent : /\ \A t \in TasksOf(p) : \E i \in 1..Len(Plan[p]) : Plan[p][i] = t
                       /\ \A i \in 1..Len(Plan[p]) : ParentOf[Plan[p][i]] = p
                       /\ Distinct(Plan[p])
  /\ DependsOn \in [Task -> SUBSET (Task \cup External)]
  /\ Inputs \in [Task -> SUBSET (Task \cup External)]
  /\ \A t \in Task : Inputs[t] \subseteq DependsOn[t]
  /\ MaxAttempts \in Nat \ {0}
  /\ Faulty \subseteq Task

VARIABLES
  dag,      \* how far each run's executeDag is
  result,   \* the results map, seeded with the external tasks
  bound,    \* the tasks whose result binds their output artifact
  stage,    \* how far each runChildTask call is
  attempt,  \* the child runs started for the task
  raw,      \* the RunResult.status the current child run settles with
  childSig, \* the tasks whose current child run has its own signal aborted
  ends,     \* the statuses of the dispatch.end events of the task, in order
  gone      \* the orchestrator runs that are finalized and out of activeRuns

dagVars == <<dag, result, bound, stage, attempt, raw, childSig, ends, gone>>
vars == <<semVars, dagVars>>

EndStatus == {"complete", "failed", "aborted", "skipped"}
DagState  == {"start", "wave", "done", "threw"}
Stage     == {"idle", "acquiring", "building", "running", "finalizing",
              "verifying", "packing", "settled", "threw"}
RawStatus == {"complete", "failed", "aborted"}

Known == Task \cup External
HasSlot == {"building", "running", "finalizing", "verifying", "packing"}
Quiet   == {"idle", "settled", "threw"}
LastEnd(t) == ends[t][Len(ends[t])]

Init ==
  /\ SemInit
  /\ dag = [p \in Parent |-> "start"]
  /\ \E seed \in [External -> EndStatus] :
       result = [t \in Known |-> IF t \in External THEN seed[t] ELSE "none"]
  /\ bound \in SUBSET External
  /\ stage = [t \in Task |-> "idle"]
  /\ attempt = [t \in Task |-> 0]
  /\ raw = [t \in Task |-> "none"]
  /\ childSig = {}
  /\ ends = [t \in Task |-> <<>>]
  /\ gone = {}

-------------------------------------------------------------------------------
(* executeDag: the synchronous block at the top of the while loop.  The    *)
(* results of the wave that has just settled are recorded first.           *)

Wave(p) == {t \in TasksOf(p) : stage[t] # "idle" /\ result[t] = "none"}

AtLoopTop(p) ==
  \/ dag[p] = "start"
  \/ /\ dag[p] = "wave"
     /\ \A t \in Wave(p) : stage[t] = "settled"

RewriteAborted(p) ==                \* mutant: an abort rewrites the whole round
  [t \in Known |-> IF t \in Wave(p) THEN LastEnd(t)
                   ELSE IF p \in aborted /\ t \in TasksOf(p) THEN "aborted"
                   ELSE result[t]]
Recorded(p) == [t \in Known |-> IF t \in Wave(p) THEN LastEnd(t) ELSE result[t]]
Remaining(p, res) == {t \in TasksOf(p) : res[t] = "none"}

(* publishDispatchEnd for each task of S with status s.                    *)
EndAll(S, s) == [t \in Task |-> IF t \in S THEN Append(ends[t], s) ELSE ends[t]]

(* markRemainingTasksAborted, then the throw.                              *)
StopUnmarked(p) ==                  \* mutant: no markRemainingTasksAborted
  /\ AtLoopTop(p)
  /\ p \in aborted
  /\ Remaining(p, Recorded(p)) # {}
  /\ result' = Recorded(p)
  /\ dag' = [dag EXCEPT ![p] = "threw"]
  /\ UNCHANGED <<semVars, bound, stage, attempt, raw, childSig, ends, gone>>

StopAborted(p) ==
  /\ AtLoopTop(p)
  /\ p \in aborted
  /\ Remaining(p, Recorded(p)) # {}
  /\ LET rest == Remaining(p, Recorded(p))
     IN  /\ result' = [t \in Known |-> IF t \in rest THEN "aborted" ELSE Recorded(p)[t]]
         /\ ends' = EndAll(rest, "aborted")
  /\ dag' = [dag EXCEPT ![p] = "threw"]
  /\ UNCHANGED <<semVars, bound, stage, attempt, raw, childSig, gone>>

(* The pass over the plan, in plan order, that skips a task one of whose   *)
(* dependencies has a result other than complete.  A task skipped earlier  *)
(* in the pass counts, one that comes later in the plan does not: S is the *)
(* set the pass skips.                                                     *)
Before(p, d, t) == \E i, j \in 1..Len(Plan[p]) : i < j /\ Plan[p][i] = d /\ Plan[p][j] = t
SkipDirect(p, res, S) ==            \* mutant: the pass looks at old results only
  \A t \in Remaining(p, res) :
    t \in S <=> \E d \in DependsOn[t] : res[d] \notin {"none", "complete"}
IsSkipPass(p, res, S) ==
  \A t \in Remaining(p, res) :
    t \in S <=> \E d \in DependsOn[t] : \/ res[d] \notin {"none", "complete"}
                                        \/ d \in S /\ Before(p, d, t)

AfterSkip(p, S) == [t \in Known |-> IF t \in S THEN "skipped" ELSE Recorded(p)[t]]
ReadyAtOnce(p, res) == Remaining(p, res)    \* mutant: dependsOn not looked at
Ready(p, res) ==
  {t \in Remaining(p, res) : \A d \in DependsOn[t] : res[d] = "complete"}

(* The required inputs of a ready task that no upstream result binds.      *)
MissingInput(t) == \E d \in Inputs[t] : d \notin bound

(* Nothing is left after the pass: executeDag returns its results.         *)
Finish(p, S) ==
  /\ Remaining(p, AfterSkip(p, S)) = {}
  /\ dag' = [dag EXCEPT ![p] = "done"]
  /\ ends' = EndAll(S, "skipped")
  /\ UNCHANGED <<semVars, stage>>

(* Tasks are left and none is ready: 'Circular dependency or unresolved    *)
(* task in plan'.                                                          *)
StopUnresolved(p, S) ==
  /\ Remaining(p, AfterSkip(p, S)) # {}
  /\ Ready(p, AfterSkip(p, S)) = {}
  /\ dag' = [dag EXCEPT ![p] = "threw"]
  /\ ends' = EndAll(S, "skipped")
  /\ UNCHANGED <<semVars, stage>>

(* The ready tasks start together, in plan order: a task with a missing    *)
(* required input ends as skipped at once, the others call acquire().      *)
StartWave(p, S) ==
  LET ready == Ready(p, AfterSkip(p, S))
      lost  == {t \in ready : MissingInput(t)}
  IN  /\ ready # {}
      /\ dag' = [dag EXCEPT ![p] = "wave"]
      /\ ends' = EndAll(S \cup lost, "skipped")
      /\ stage' = [t \in Task |-> IF t \in lost THEN "settled"
                                  ELSE IF t \in ready THEN "acquiring"
                                  ELSE stage[t]]
      /\ \E calls \in Filtered(Plan[p], ready \ lost) : Acquire(calls)

LoopTop(p) ==
  /\ AtLoopTop(p)
  /\ p \in aborted => Remaining(p, Recorded(p)) = {}
  /\ \E S \in SUBSET Remaining(p, Recorded(p)) :
       /\ IsSkipPass(p, Recorded(p), S)
       /\ result' = AfterSkip(p, S)
       /\ Finish(p, S) \/ StopUnresolved(p, S) \/ StartWave(p, S)
  /\ UNCHANGED <<bound, attempt, raw, childSig, gone>>

(* A runChildTask call threw, so Promise.all rejects and executeDag with   *)
(* it; the other tasks of the wave keep running.                           *)
WaveRejects(p) ==
  /\ dag[p] = "wave"
  /\ \E t \in Wave(p) : stage[t] = "threw"
  /\ dag' = [dag EXCEPT ![p] = "threw"]
  /\ UNCHANGED <<semVars, result, bound, stage, attempt, raw, childSig, ends, gone>>

-------------------------------------------------------------------------------
(* runChildTask: what follows each of its awaits.                          *)

(* publishDispatchEnd and return, with the slot given back by finally.     *)
KeepsSlot(t, s) ==                  \* mutant: a return without finally
  /\ ends' = [ends EXCEPT ![t] = Append(@, s)]
  /\ stage' = [stage EXCEPT ![t] = "settled"]
  /\ UNCHANGED semVars
SettleWith(t, s) ==
  /\ ends' = [ends EXCEPT ![t] = Append(@, s)]
  /\ stage' = [stage EXCEPT ![t] = "settled"]
  /\ Release(t)

(* acquire() rejected: the task ends as aborted and never had a slot.      *)
SlotDenied(t) ==
  /\ stage[t] = "acquiring"
  /\ slot[t] = "rejected"
  /\ ends' = [ends EXCEPT ![t] = Append(@, "aborted")]
  /\ stage' = [stage EXCEPT ![t] = "settled"]
  /\ UNCHANGED <<semVars, dag, result, bound, attempt, raw, childSig, gone>>

SlotGranted(t) ==
  /\ stage[t] = "acquiring"
  /\ slot[t] = "held"
  /\ stage' = [stage EXCEPT ![t] = "building"]
  /\ UNCHANGED <<semVars, dag, result, bound, attempt, raw, childSig, ends, gone>>

(* The head of the attempt loop: an aborted parent ends the task before    *)
(* another child run starts; otherwise AgentRunner.run starts one, with a  *)
(* signal of its own that the parent's aborts.                             *)
AbortGoesOn(t) ==                   \* mutant: no return after the abort check
  /\ ends' = IF Aborted(t) THEN [ends EXCEPT ![t] = Append(@, "aborted")] ELSE ends
  /\ attempt' = [attempt EXCEPT ![t] = @ + 1]
  /\ raw' = [raw EXCEPT ![t] = "none"]
  /\ childSig' = childSig \ {t}
  /\ stage' = [stage EXCEPT ![t] = "running"]
  /\ UNCHANGED semVars

NextAttempt(t) ==
  \/ /\ Aborted(t)
     /\ SettleWith(t, "aborted")
     /\ UNCHANGED <<attempt, raw, childSig>>
  \/ /\ ~Aborted(t)
     /\ attempt' = [attempt EXCEPT ![t] = @ + 1]
     /\ raw' = [raw EXCEPT ![t] = "none"]
     /\ childSig' = childSig \ {t}
     /\ stage' = [stage EXCEPT ![t] = "running"]
     /\ UNCHANGED <<semVars, ends>>

PromptBuilt(t) ==
  /\ stage[t] = "building"
  /\ NextAttempt(t)
  /\ UNCHANGED <<dag, result, bound, gone>>

(* AgentRunner.abort on the child run itself.                              *)
AbortChild(t) ==
  /\ stage[t] \in {"running", "finalizing"}
  /\ t \notin childSig
  /\ childSig' = childSig \cup {t}
  /\ UNCHANGED <<semVars, dag, result, bound, stage, attempt, raw, ends, gone>>

(* executeRun of the child reads its signal once the agent has stopped,    *)
(* then awaits finalize().  When its agent, workspace or trigger message   *)
(* is gone it fails without a look at the signal.                          *)
ChildStops(t) ==
  /\ stage[t] = "running"
  /\ \E s \in {"failed", IF Aborted(t) \/ t \in childSig THEN "aborted" ELSE "complete"} :
       raw' = [raw EXCEPT ![t] = s]
  /\ stage' = [stage EXCEPT ![t] = "finalizing"]
  /\ UNCHANGED <<semVars, dag, result, bound, attempt, childSig, ends, gone>>

(* The child run's promise resolves: an aborted run ends the task, after   *)
(* any other the required commands run.                                    *)
ChildResolves(t) ==
  /\ stage[t] = "finalizing"
  /\ \/ /\ raw[t] = "aborted"
        /\ SettleWith(t, "aborted")
     \/ /\ raw[t] # "aborted"
        /\ stage' = [stage EXCEPT ![t] = "verifying"]
        /\ UNCHANGED <<semVars, ends>>
  /\ UNCHANGED <<dag, result, bound, attempt, raw, childSig, gone>>

(* A completion gate failed: another attempt, or after the last one the    *)
(* task ends as failed.                                                    *)
OneMore(t) ==                       \* mutant: attempt compared with <=
  \/ attempt[t] <= MaxAttempts /\ NextAttempt(t)
  \/ /\ attempt[t] > MaxAttempts
     /\ SettleWith(t, "failed")
     /\ UNCHANGED <<attempt, raw, childSig>>
GateFails(t) ==
  \/ attempt[t] < MaxAttempts /\ NextAttempt(t)
  \/ /\ attempt[t] = MaxAttempts
     /\ SettleWith(t, "failed")
     /\ UNCHANGED <<attempt, raw, childSig>>

(* The required commands are done and the report is evaluated: the gates   *)
(* pass, or one fails, or the report says blocked and the task ends.       *)
Evaluate(t) ==
  /\ stage[t] = "verifying"
  /\ \/ /\ raw[t] = "complete"
        /\ stage' = [stage EXCEPT ![t] = "packing"]
        /\ UNCHANGED <<semVars, attempt, raw, childSig, ends>>
     \/ /\ raw[t] = "complete"
        /\ SettleWith(t, "failed")
        /\ UNCHANGED <<attempt, raw, childSig>>
     \/ GateFails(t)
  /\ UNCHANGED <<dag, result, bound, gone>>

(* maybeCreateProjectArtifact is done: a required project output may still *)
(* be missing; otherwise the task is complete, its output bound or not.    *)
Pack(t) ==
  /\ stage[t] = "packing"
  /\ \/ /\ SettleWith(t, "complete")
        /\ bound' \in {bound, bound \cup {t}}
        /\ UNCHANGED <<attempt, raw, childSig>>
     \/ GateFails(t) /\ UNCHANGED bound
  /\ UNCHANGED <<dag, result, gone>>

(* An awaited database or file operation throws: finally releases the slot *)
(* and no dispatch.end is published.                                       *)
TaskThrows(t) ==
  /\ t \in Faulty
  /\ stage[t] \in HasSlot
  /\ stage' = [stage EXCEPT ![t] = "threw"]
  /\ Release(t)
  /\ UNCHANGED <<dag, result, bound, attempt, raw, childSig, ends, gone>>

-------------------------------------------------------------------------------
(* AgentRunner.abort on the orchestrator run, while it is in activeRuns.   *)
AbortRun(p) ==
  /\ p \notin gone
  /\ Abort(p)
  /\ UNCHANGED dagVars

(* executeDag is over; the run aggregates or fails, and leaves activeRuns. *)
NotAwaited(p) ==                    \* mutant: executeDag is not awaited
  /\ p \notin gone
  /\ gone' = gone \cup {p}
  /\ UNCHANGED <<semVars, dag, result, bound, stage, attempt, raw, childSig, ends>>
RunGone(p) ==
  /\ dag[p] \in {"done", "threw"}
  /\ p \notin gone
  /\ gone' = gone \cup {p}
  /\ UNCHANGED <<semVars, dag, result, bound, stage, attempt, raw, childSig, ends>>

Over ==
  /\ gone = Parent
  /\ \A t \in Task : stage[t] \in Quiet

Terminating == Over /\ UNCHANGED vars

DagStep(p) == StopAborted(p) \/ LoopTop(p) \/ WaveRejects(p) \/ RunGone(p)
OwnStep(t) == SlotDenied(t) \/ SlotGranted(t) \/ PromptBuilt(t) \/ ChildResolves(t) \/ Pack(t)
TaskStep(t) == OwnStep(t) \/ ChildStops(t) \/ Evaluate(t)

Next ==
  \/ \E p \in Parent : DagStep(p) \/ AbortRun(p)
  \/ \E t \in Task : TaskStep(t) \/ AbortChild(t) \/ TaskThrows(t)
  \/ Terminating

(* The event loop runs every continuation that is due.  A child run may    *)
(* wait for a user without a timeout: for an answer to ask_user or for the *)
(* review of a write; a required command may wait for an approval.  All of *)
(* these waits listen to a signal, so a child run is sure to stop once its *)
(* own signal or its parent's is aborted, a required command once the      *)
(* parent's is.  No fairness on aborts and failures.                       *)
Fairness ==
  /\ \A p \in Parent : WF_vars(DagStep(p))
  /\ \A t \in Task : /\ WF_vars(OwnStep(t))
                     /\ WF_vars((Aborted(t) \/ t \in childSig) /\ ChildStops(t))
                     /\ WF_vars(Aborted(t) /\ Evaluate(t))

Spec == Init /\ [][Next]_vars
FairSpec == Spec /\ Fairness
-------------------------------------------------------------------------------
(* Properties.                                                             *)

(* Types of the state of executeDag and runChildTask.                      *)
TypeOK ==
  /\ SemTypeOK
  /\ dag \in [Parent -> DagState]
  /\ result \in [Known -> EndStatus \cup {"none"}]
  /\ bound \subseteq Known
  /\ stage \in [Task -> Stage]
  /\ attempt \in [Task -> 0..MaxAttempts]
  /\ raw \in [Task -> RawStatus \cup {"none"}]
  /\ childSig \subseteq Task
  /\ ends \in [Task -> Seq(EndStatus)]
  /\ gone \subseteq Parent

(* A task owns a slot exactly from the grant to the end of runChildTask,   *)
(* on every path out of it: no slot leaks, none is given back twice, and   *)
(* no child run is alive without one.                                      *)
SlotsFollowTasks ==
  \A t \in Task :
    /\ stage[t] \in HasSlot => slot[t] = "held"
    /\ slot[t] = "held" => stage[t] \in HasSlot \cup {"acquiring"}
    /\ slot[t] = "waiting" => stage[t] = "acquiring"

(* At most Limit child runs are in progress, over all orchestrator runs.   *)
ChildRunsBounded == Cardinality({t \in Task : stage[t] \in HasSlot}) <= Limit

(* A child run starts only when every dependency of its task, of this      *)
(* round or an earlier one, is complete and every input artifact is bound. *)
DependenciesFirst ==
  \A t \in Task : attempt[t] > 0 =>
    /\ \A d \in DependsOn[t] : result[d] = "complete"
    /\ Inputs[t] \subseteq bound

(* A runChildTask call threw: the Promise.all of its wave has rejected.    *)
Rejected(p) == \E t \in TasksOf(p) : stage[t] = "threw"

(* dispatch.end is published once per task at most, and what it said is    *)
(* what the results map holds.                                             *)
DispatchEndOnce ==
  \A t \in Task :
    /\ Len(ends[t]) <= 1
    /\ result[t] # "none" => ends[t] = <<result[t]>>

(* When executeDag returns, every task of the plan has its result; when it *)
(* throws because of an abort, so has every task too, unless it threw      *)
(* because a runChildTask call did: spec 06 lines 332-336 catch the        *)
(* exception and report the task as failed, the code does not.             *)
EveryTaskAccounted ==
  \A p \in Parent : dag[p] = "done" \/ (dag[p] = "threw" /\ p \in aborted /\ ~Rejected(p)) =>
    \A t \in TasksOf(p) : result[t] # "none"

(* Spec 17 and spec 06: once the parent run is aborted no child run is     *)
(* launched, whichever await the abort falls into.                         *)
NoLaunchAfterAbort ==
  [][\A t \in Task : attempt'[t] # attempt[t] => ~Aborted(t)]_vars

(* A recorded result is final: no later wave, skip or abort rewrites it.   *)
ResultsAreFinal ==
  [][\A t \in Known : result[t] # "none" => result'[t] = result[t]]_vars

(* An orchestrator run that is finalized leaves no child run behind, but   *)
(* for the siblings of a call that threw: Promise.all rejects at the first *)
(* exception and the run fails while they go on.                           *)
NoOrphans ==
  \A p \in gone : ~Rejected(p) => \A t \in TasksOf(p) : stage[t] \in Quiet

(* Only a child run or a required command can hold an EXECUTE stage up: if *)
(* none of them, of any orchestrator run, lasts for ever, every stage      *)
(* ends, whatever the outcome of its tasks.                                *)
ChildrenEnd == \A t \in Task : []<>(stage[t] \notin {"running", "verifying"})
DispatchTerminates == ChildrenEnd => \A p \in Parent : <>(p \in gone)

(* An aborted run's tasks all come to rest.                                *)
AbortTakesEffect ==
  \A p \in Parent : p \in aborted ~> \A t \in TasksOf(p) : stage[t] \in Quiet

(* Spec 06: a task downstream of one that failed, was aborted or skipped   *)
(* is skipped, with a dispatch.end of its own, unless a call that throws   *)
(* ends the stage.                                                         *)
SkipReachesDownstream ==
  \A p \in Parent : dag[p] = "threw" /\ p \notin aborted /\ ~Rejected(p) =>
    \A t \in TasksOf(p) : result[t] # "none"

===============================================================================
