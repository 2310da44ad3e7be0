----------------------------- MODULE ApprovalsProofs -----------------------------
(***************************************************************************)
(* Proofs about Approvals: for any tasks, files, requests, attempts and    *)
(* aborts, the calls that wait and the entries of the stores match, a late *)
(* approval is void, and the conflicts reported of a wave are exact.       *)
(***************************************************************************)
EXTENDS Approvals, SequenceTheorems, FiniteSetTheorems, TLAPS

(* What is asked of the user about a file names the file and its content.  *)
Entry == {q \in Request : q.kind = "write" => q.path \in Path /\ q.content \in Content}

(* The part of the state that the calls and the stores share.              *)
CallTypes ==
  /\ at \in [Task -> At]
  /\ aborted \subseteq Task
  /\ requests \in Seq(Entry)
CallInv == CallTypes /\ WaitersMatchStore

(* WaitersMatchStore of one task.                                          *)
Matched(t) ==
  /\ at[t] = "waiting" <=> \E i \in Open : requests[i].task = t
  /\ \A i, j \in Open : requests[i].task = t /\ requests[j].task = t => i = j
  /\ at[t] = "waiting" => t \notin aborted

LEMMA EntryOf ==
  ASSUME CallTypes, NEW i \in Ids
  PROVE  requests[i] \in Entry /\ requests[i].task \in Task
<1>1. requests[i] \in Entry
  BY ElementOfSeq DEF CallTypes, Ids
<1> QED
  BY <1>1 DEF Entry, Request

LEMMA OpenWaits ==
  ASSUME CallInv, NEW i \in Open
  PROVE  /\ i \in Ids /\ requests[i].task \in Task /\ requests[i].verdict = "open"
         /\ at[requests[i].task] = "waiting" /\ requests[i].task \notin aborted
<1>1. i \in Ids /\ requests[i].verdict = "open"
  BY DEF Open
<1>2. requests[i].task \in Task
  BY <1>1, EntryOf DEF CallInv
<1> QED
  BY <1>1, <1>2 DEF CallInv, WaitersMatchStore
-------------------------------------------------------------------------------
(* The steps, by what they do to the calls and the stores.                 *)
LEMMA Moves ==
  ASSUME CallInv, requests' = requests, aborted' = aborted, NEW t \in Task,
         NEW s \in At \ {"waiting"}, at[t] # "waiting", at' = [at EXCEPT ![t] = s]
  PROVE  CallInv'
<1>1. CallTypes' /\ at'[t] = s /\ \A u \in Task \ {t} : at'[u] = at[u]
  BY DEF CallInv, CallTypes
<1>2. Open' = Open
  BY DEF Open, Ids
<1>3. \A u \in Task : at'[u] = "waiting" <=> at[u] = "waiting"
  BY <1>1
<1>4. WaitersMatchStore'
  BY <1>2, <1>3 DEF CallInv, WaitersMatchStore
<1> QED
  BY <1>1, <1>4 DEF CallInv

LEMMA Stays ==
  ASSUME CallInv, requests' = requests, aborted' = aborted, at' = at
  PROVE  CallInv'
BY DEF CallInv, CallTypes, WaitersMatchStore, Open, Ids

LEMMA Asks ==
  ASSUME CallInv, NEW t \in Task, NEW kind \in Kind,
         NEW p \in Path \cup {None}, NEW c \in Content \cup {None},
         kind = "write" => p \in Path /\ c \in Content, Ask(t, kind, p, c)
  PROVE  CallInv'
<1> DEFINE v == IF t \in aborted THEN "refused" ELSE "open"
           e == [kind |-> kind, task |-> t, path |-> p, content |-> c, verdict |-> v]
<1>1. CallTypes /\ at[t] = "calling" /\ aborted' = aborted
  BY DEF CallInv, Ask, Calls
<1>2. e \in Entry /\ e.task = t /\ e.verdict = v
  BY DEF Entry, Request
<1>3. requests' = Append(requests, e) /\ at' = [at EXCEPT ![t] = IF t \in aborted THEN "calling" ELSE "waiting"]
  BY DEF Ask, Go
<1> HIDE DEF e
<1>4. PICK n : n = Len(requests) + 1
  OBVIOUS
<1>5. /\ requests' \in Seq(Entry) /\ Len(requests') = n /\ Len(requests) \in Nat
      /\ requests'[n] = e /\ \A i \in Ids : requests'[i] = requests[i]
  BY <1>1, <1>2, <1>3, <1>4, AppendProperties, LenProperties DEF CallTypes, Ids
<1>6. Ids' = Ids \cup {n} /\ n \notin Ids
  BY <1>4, <1>5 DEF Ids
<1>7. Open' = IF t \in aborted THEN Open ELSE Open \cup {n}
  BY <1>2, <1>5, <1>6 DEF Open
<1>8. CallTypes'
  BY <1>1, <1>3, <1>5 DEF CallTypes, At
<1>9. ~\E i \in Open : requests[i].task = t
  BY <1>1 DEF CallInv, WaitersMatchStore
<1>10. Open \subseteq Ids /\ \A u \in Task : Matched(u)
  BY DEF Open, CallInv, WaitersMatchStore, Matched
<1>11. ASSUME NEW u \in Task PROVE Matched(u)'
  <2>1. CASE u # t
    <3>1. at'[u] = at[u]
      BY <1>1, <1>3, <2>1 DEF CallTypes
    <3> QED
      BY <1>1, <1>2, <1>5, <1>6, <1>7, <1>10, <2>1, <3>1 DEF Matched
  <2>2. CASE u = t
    <3>1. at'[t] = IF t \in aborted THEN "calling" ELSE "waiting"
      BY <1>1, <1>3 DEF CallTypes
    <3> QED
      BY <1>1, <1>2, <1>5, <1>6, <1>7, <1>9, <1>10, <2>2, <3>1 DEF Matched
  <2> QED
    BY <2>1, <2>2
<1> QED
  BY <1>8, <1>11 DEF CallInv, WaitersMatchStore, Matched

LEMMA Settles ==
  ASSUME CallInv, NEW i \in Open, NEW v \in {"granted", "refused"}, NEW s \in At \ {"waiting"},
         Settle(i, v, s)
  PROVE  CallInv'
<1> PICK t : t = requests[i].task
  OBVIOUS
<1> PICK e : e = [requests[i] EXCEPT !.verdict = v]
  OBVIOUS
<1>1. CallTypes /\ i \in Ids /\ t \in Task /\ at[t] = "waiting" /\ requests[i] \in Entry
  BY OpenWaits, EntryOf DEF CallInv
<1>2. e \in Entry /\ e.task = t /\ e.verdict = v
  BY <1>1 DEF Entry, Request
<1>3. requests' = [requests EXCEPT ![i] = e] /\ at' = [at EXCEPT ![t] = s] /\ aborted' = aborted
  BY DEF Settle, Decided, Go
<1>4. /\ requests' \in Seq(Entry) /\ Len(requests') = Len(requests)
      /\ requests'[i] = e /\ \A j \in Ids \ {i} : requests'[j] = requests[j]
  BY <1>1, <1>2, <1>3, ExceptSeq DEF CallTypes, Ids
<1>5. Ids' = Ids /\ Open' = Open \ {i} /\ Open \subseteq Ids
  <2>1. Ids' = Ids
    BY <1>4 DEF Ids
  <2>2. requests'[i].verdict # "open"
    BY <1>2, <1>4
  <2>3. Open' = Open \ {i}
    BY <1>4, <2>1, <2>2 DEF Open
  <2> QED
    BY <2>1, <2>3 DEF Open
<1>6. CallTypes'
  BY <1>1, <1>3, <1>4 DEF CallTypes
<1>7. \A u \in Task : Matched(u)
  BY DEF CallInv, WaitersMatchStore, Matched
<1>8. ASSUME NEW u \in Task PROVE Matched(u)'
  <2>1. CASE u # t
    <3>1. at'[u] = at[u]
      BY <1>1, <1>3, <2>1 DEF CallTypes
    <3> QED
      BY <1>3, <1>4, <1>5, <1>7, <2>1, <3>1 DEF Matched
  <2>2. CASE u = t
    <3>1. at'[t] = s
      BY <1>1, <1>3 DEF CallTypes
    <3>2. \A j \in Open' : requests'[j].task # t
      BY <1>1, <1>4, <1>5, <1>7 DEF Matched
    <3> QED
      BY <1>3, <2>2, <3>1, <3>2 DEF Matched
  <2> QED
    BY <2>1, <2>2
<1> QED
  BY <1>6, <1>8 DEF CallInv, WaitersMatchStore, Matched

LEMMA Signals ==
  ASSUME CallInv, NEW S \in SUBSET Task, Signal(S)
  PROVE  CallInv'
<1>1. /\ CallTypes /\ aborted' = aborted \cup S /\ requests' = CancelAll(S)
      /\ at' = [t \in Task |-> IF t \in S /\ at[t] = "waiting" THEN "calling" ELSE at[t]]
  BY DEF CallInv, Signal
<1>2. \A i \in Ids : requests[i] \in Entry /\ [requests[i] EXCEPT !.verdict = "refused"] \in Entry
  BY <1>1, EntryOf DEF Entry, Request
<1>3. requests' = [i \in Ids |-> IF i \in Open /\ requests[i].task \in S
                                THEN [requests[i] EXCEPT !.verdict = "refused"] ELSE requests[i]]
  BY <1>1 DEF CancelAll, Waiting
<1>4. requests' \in [1..Len(requests) -> Entry]
  BY <1>2, <1>3 DEF Ids
<1>5. requests' \in Seq(Entry) /\ Len(requests') = Len(requests)
  BY <1>1, <1>4, IsASeq, LenProperties DEF CallTypes
<1>6. \A i \in Ids : /\ requests'[i].task = requests[i].task
                     /\ requests'[i].verdict = IF i \in Open /\ requests[i].task \in S
                                               THEN "refused" ELSE requests[i].verdict
  BY <1>2, <1>3 DEF Entry, Request
<1>7. Ids' = Ids /\ Open' = {i \in Open : requests[i].task \notin S} /\ Open \subseteq Ids
  BY <1>5, <1>6 DEF Ids, Open
<1>8. CallTypes'
  BY <1>1, <1>5 DEF CallTypes, At
<1>9. WaitersMatchStore'
  BY <1>1, <1>6, <1>7 DEF CallInv, WaitersMatchStore, CallTypes
<1> QED
  BY <1>8, <1>9 DEF CallInv

(* What becomes of a task once its run is over.                            *)
Verifies(t) == RunEnds(t) \/ TaskSettles(t) \/ Retry(t) \/ TaskDropped(t)

(* Every step of the system is one of these.                               *)
LEMMA CallStep == ASSUME CallInv, [Next]_vars PROVE CallInv'
<1>1. ASSUME NEW t \in Task, NEW n \in 1..MaxBatch, Answer(t, n) PROVE CallInv'
  BY <1>1, Moves DEF Answer, Go, At
<1>2. ASSUME NEW t \in Task, TurnEnds(t) \/ Verifies(t) PROVE CallInv'
  <2>1. /\ requests' = requests /\ aborted' = aborted /\ at[t] # "waiting"
        /\ \E s \in {"model", "verifying", "settled", "dropped"} : at' = [at EXCEPT ![t] = s]
    BY <1>2 DEF TurnEnds, Verifies, RunEnds, TaskSettles, Retry, TaskDropped, Go
  <2> QED
    BY <2>1, Moves DEF At
<1>3. ASSUME NEW t \in Task, RunCommand(t) \/ CommandEnds(t) \/ SdkWrites(t) PROVE CallInv'
  <2>1. /\ requests' = requests /\ aborted' = aborted /\ at[t] # "waiting"
        /\ \E s \in {"executing", "calling"} : at' = [at EXCEPT ![t] = s]
    BY <1>3 DEF RunCommand, CommandEnds, SdkWrites, Calls, Go
  <2> QED
    BY <2>1, Moves DEF At
<1>4. ASSUME NEW t \in Task, NEW p \in Path, NEW c \in Content,
             WriteDirectly(t, p, c)
      PROVE  CallInv'
  BY <1>4, Stays DEF WriteDirectly, Calls
<1>5. ASSUME NEW t \in Task, Refused(t) PROVE CallInv'
  BY <1>5, Stays DEF Refused, Calls
<1>6. ASSUME NEW t \in Task, NEW p \in Path, NEW c \in Content, Ask(t, "write", p, c)
      PROVE  CallInv'
  <2>1. "write" \in Kind
    BY DEF Kind
  <2> QED
    BY <1>6, <2>1, Asks
<1>7. ASSUME NEW t \in Task, NEW kind \in {"command", "question"}, Ask(t, kind, None, None)
      PROVE  CallInv'
  <2>1. kind \in Kind /\ kind # "write"
    BY DEF Kind
  <2> QED
    BY <1>7, <2>1, Asks
<1>8. CASE Decide
  <2>1. PICK i \in Open, v \in {"granted", "refused"}, s \in At \ {"waiting"} : Settle(i, v, s)
    BY <1>8 DEF Decide, ApproveWrite, WriteFails, ApproveCommand, Reject, AnswerQuestion, At
  <2> QED
    BY <2>1, Settles
<1>9. ASSUME NEW t \in Task, AbortRun(t) PROVE CallInv'
  BY <1>9, Signals DEF AbortRun
<1>10. CASE AbortDispatch
  BY <1>10, Signals DEF AbortDispatch
<1>11. CASE WaveEnds \/ UNCHANGED vars
  BY <1>11, Stays DEF WaveEnds, vars, runVars
<1>12. ASSUME NEW t \in Task, Step(t) PROVE CallInv'
  BY <1>2, <1>3, <1>4, <1>5, <1>6, <1>7, <1>12 DEF Step, Call
<1>13. ASSUME NEW t \in Task, NEW p \in Path, NEW c \in Content, CommandWrites(t, p, c)
       PROVE  CallInv'
  BY <1>13, Stays DEF CommandWrites, runVars
<1> QED
  BY <1>1, <1>2, <1>8, <1>9, <1>10, <1>11, <1>12, <1>13 DEF Next, Verifies

LEMMA CallInit == Init => CallInv
<1> SUFFICES ASSUME Init PROVE CallInv
  OBVIOUS
<1>1. requests = <<>> /\ Open = {}
  BY EmptySeq DEF Init, Open, Ids
<1>2. CallTypes
  BY <1>1, EmptySeq DEF Init, CallTypes, At
<1>3. WaitersMatchStore
  BY <1>1 DEF Init, WaitersMatchStore
<1> QED
  BY <1>2, <1>3 DEF CallInv

LEMMA CallInvariant == Spec => []CallInv
<1>1. CallInv /\ [Next]_vars => CallInv'
  BY CallStep
<1> QED
  BY CallInit, <1>1, PTL DEF Spec
-------------------------------------------------------------------------------
(* However many requests, tasks, clients and aborts there are: a call that *)
(* waits has exactly one open entry in the stores, and no entry outlives   *)
(* its call or the signal of its run.                                      *)
THEOREM StoresMatch == Spec => []WaitersMatchStore
<1>1. CallInv => WaitersMatchStore
  BY DEF CallInv
<1> QED
  BY CallInvariant, <1>1, PTL

(* A click that comes after the abort of its run grants nothing.           *)
THEOREM LateIsVoid == Spec => LateApprovalIsVoid
<1>1. ASSUME CallInv, [Next]_vars
      PROVE  [\A i \in Ids : requests[i].verdict # "granted" /\ requests'[i].verdict = "granted"
                             => requests[i].task \notin aborted]_requests
  <2> SUFFICES ASSUME Next, NEW i \in Ids, requests[i].verdict # "granted",
                      requests'[i].verdict = "granted"
               PROVE  requests[i].task \notin aborted
    BY <1>1 DEF vars
  <2>1. CallTypes /\ requests \in Seq(Entry)
    BY <1>1 DEF CallInv, CallTypes
  <2>2. CASE Decide
    <3>1. PICK j \in Open, v \in {"granted", "refused"}, s \in At : Settle(j, v, s)
      BY <2>2 DEF Decide, ApproveWrite, WriteFails, ApproveCommand, Reject, AnswerQuestion, At
    <3>2. requests' = [requests EXCEPT ![j].verdict = v]
      BY <3>1 DEF Settle, Decided
    <3>3. i \in DOMAIN requests
      BY <2>1, LenProperties DEF Ids
    <3>4. i = j
      BY <3>2, <3>3
    <3> QED
      BY <1>1, <3>4, OpenWaits
  <2>3. ASSUME NEW S, Signal(S) PROVE FALSE
    <3>1. requests[i] \in Entry
      BY <2>1, EntryOf
    <3>2. requests'[i].verdict \in {"refused", requests[i].verdict}
      BY <2>3, <3>1 DEF Signal, CancelAll, Entry, Request
    <3> QED
      BY <3>2
  <2>4. ASSUME NEW t \in Task, NEW kind, NEW p, NEW c, Ask(t, kind, p, c),
               kind \in Kind, p \in Path \cup {None}, c \in Content \cup {None},
               kind = "write" => p \in Path /\ c \in Content
        PROVE  FALSE
    <3> DEFINE e == [kind |-> kind, task |-> t, path |-> p, content |-> c,
                     verdict |-> IF t \in aborted THEN "refused" ELSE "open"]
    <3>1. e \in Entry /\ requests' = Append(requests, e)
      BY <2>4 DEF Ask, Entry, Request
    <3> HIDE DEF e
    <3>2. requests'[i] = requests[i]
      BY <2>1, <3>1, AppendProperties DEF Ids
    <3> QED
      BY <3>2
  <2>5. ASSUME NEW t \in Task, Call(t) PROVE FALSE
    <3>1. requests' # requests
      OBVIOUS
    <3> QED
      BY <2>4, <2>5, <3>1 DEF Call, WriteDirectly, Refused, RunCommand, Kind
  <2>6. requests' # requests
    OBVIOUS
  <2> QED
    BY <2>2, <2>3, <2>5, <2>6 DEF Next, Step, Answer, TurnEnds, RunEnds, TaskSettles, Retry,
       TaskDropped, CommandWrites, CommandEnds, SdkWrites, AbortRun, AbortDispatch, WaveEnds
<1> QED
  BY CallInvariant, <1>1, PTL DEF Spec, LateApprovalIsVoid
-------------------------------------------------------------------------------
(* The disk.  The records of a task's runs say what its fs_write last put  *)
(* into a file, and a file that neither the SDK nor a command touched holds *)
(* one of these.                                                           *)
Value == Content \cup {None}
DiskTypes ==
  /\ attempt \in [Task -> Attempts]
  /\ records \in [Task -> [Attempts -> [Path -> Value]]]
  /\ own \in [Task -> [Path -> Value]]
  /\ DOMAIN file = Path /\ file = [p \in Path |-> file[p]]

LastIs(t, n, p) == /\ records[t][n][p] = own[t][p]
                   /\ \A m \in Attempts : m > n => records[t][m][p] = None
RecordsMatch ==
  \A t \in Task, p \in Path :
    /\ \A n \in Attempts : n > attempt[t] => records[t][n][p] = None
    /\ own[t][p] = None => \A n \in Attempts : records[t][n][p] = None
    /\ own[t][p] # None => \E n \in Attempts : LastIs(t, n, p)
FileMatch ==
  \A p \in Path \ outside :
    /\ file[p] = None => \A t \in Task : own[t][p] = None
    /\ file[p] # None => \E t \in Task : own[t][p] = file[p]
ReportMatch ==
  wave = "done" => /\ \A t \in Task : at[t] \in {"settled", "dropped"}
                   /\ reported = {p \in Path : Cardinality(Versions(p)) > 1}

DiskInv == DiskTypes /\ RecordsMatch /\ FileMatch
IInv == CallInv /\ DiskInv /\ ReportMatch

(* What a step may do to the disk.                                         *)
FsWrites(t, p, c) ==
  /\ file' = [file EXCEPT ![p] = c]
  /\ records' = [records EXCEPT ![t][attempt[t]][p] = c]
  /\ own' = [own EXCEPT ![t][p] = c]
  /\ attempt' = attempt /\ outside' = outside

LEMMA WriteKeeps ==
  ASSUME DiskInv, NEW t \in Task, NEW p \in Path, NEW c \in Content, FsWrites(t, p, c)
  PROVE  DiskInv'
<1>1. DiskTypes /\ RecordsMatch /\ FileMatch /\ c # None /\ c \in Value /\ None \in Value
  BY ApprovalsAssumption DEF DiskInv, Value
<1> PICK k : k = attempt[t]
  OBVIOUS
<1>2. k \in Attempts /\ k \in Nat
  BY <1>1 DEF DiskTypes, Attempts
<1>3. /\ \A u \in Task, n \in Attempts, q \in Path :
             records'[u][n][q] = IF u = t /\ n = k /\ q = p THEN c ELSE records[u][n][q]
      /\ records' \in [Task -> [Attempts -> [Path -> Value]]]
  <2> DEFINE row == [records[t] EXCEPT ![k][p] = c]
  <2>1. records[t] \in [Attempts -> [Path -> Value]]
    BY <1>1 DEF DiskTypes
  <2>2. row \in [Attempts -> [Path -> Value]]
    BY <1>1, <1>2, <2>1
  <2>3. \A n \in Attempts, q \in Path : row[n][q] = IF n = k /\ q = p THEN c ELSE records[t][n][q]
    BY <1>1, <1>2, <2>1
  <2>4. records' = [records EXCEPT ![t] = row]
    BY <1>1 DEF FsWrites, DiskTypes
  <2> HIDE DEF row
  <2> QED
    BY <1>1, <2>2, <2>3, <2>4 DEF DiskTypes
<1>4. /\ \A u \in Task, q \in Path : own'[u][q] = IF u = t /\ q = p THEN c ELSE own[u][q]
      /\ own' \in [Task -> [Path -> Value]]
  BY <1>1 DEF FsWrites, DiskTypes
<1>5. /\ \A q \in Path : file'[q] = IF q = p THEN c ELSE file[q]
      /\ DOMAIN file' = Path /\ file' = [q \in Path |-> file'[q]]
  BY <1>1 DEF FsWrites, DiskTypes
<1>6. DiskTypes'
  BY <1>1, <1>3, <1>4, <1>5 DEF FsWrites, DiskTypes
<1>7. RecordsMatch'
  <2> SUFFICES ASSUME NEW u \in Task, NEW q \in Path
      PROVE /\ \A n \in Attempts : n > attempt[u] => records'[u][n][q] = None
            /\ own'[u][q] = None => \A n \in Attempts : records'[u][n][q] = None
            /\ own'[u][q] # None => \E n \in Attempts : LastIs(u, n, q)'
    BY DEF RecordsMatch, FsWrites, Attempts
  <2>1. CASE u = t /\ q = p
    <3>1. \A n \in Attempts : n > k => records'[u][n][q] = None
      BY <1>1, <1>2, <1>3, <2>1 DEF RecordsMatch, Attempts
    <3>2. LastIs(u, k, q)'
      BY <1>2, <1>3, <1>4, <2>1, <3>1 DEF LastIs, Attempts
    <3> QED
      BY <1>1, <1>2, <1>4, <2>1, <3>1, <3>2
  <2>2. CASE ~(u = t /\ q = p)
    <3>1. own'[u][q] = own[u][q] /\ \A n \in Attempts : records'[u][n][q] = records[u][n][q]
      BY <1>3, <1>4, <2>2
    <3>2. \A n \in Attempts : LastIs(u, n, q)' <=> LastIs(u, n, q)
      BY <3>1 DEF LastIs, Attempts
    <3> QED
      BY <1>1, <3>1, <3>2 DEF RecordsMatch
  <2> QED
    BY <2>1, <2>2
<1>8. FileMatch'
  BY <1>1, <1>4, <1>5 DEF FileMatch, FsWrites
<1> QED
  BY <1>6, <1>7, <1>8 DEF DiskInv

(* The SDK or a command changes a file and is known to have done so.       *)
LEMMA OutsideKeeps ==
  ASSUME DiskInv, UNCHANGED <<attempt, records, own>>, NEW p, NEW c,
         file' = [file EXCEPT ![p] = c], outside' = outside \cup {p}
  PROVE  DiskInv'
<1>1. DiskTypes /\ RecordsMatch /\ FileMatch
  BY DEF DiskInv
<1>2. /\ DOMAIN file' = Path /\ file' = [q \in Path |-> file'[q]]
      /\ \A q \in Path \ {p} : file'[q] = file[q]
  BY <1>1 DEF DiskTypes
<1>3. DiskTypes' /\ RecordsMatch'
  BY <1>1, <1>2 DEF DiskTypes, RecordsMatch, LastIs, Attempts
<1>4. FileMatch'
  BY <1>1, <1>2 DEF FileMatch
<1> QED
  BY <1>3, <1>4 DEF DiskInv

LEMMA RetryKeeps ==
  ASSUME DiskInv, NEW t \in Task, attempt[t] < MaxAttempts,
         attempt' = [attempt EXCEPT ![t] = @ + 1], UNCHANGED diskVars
  PROVE  DiskInv'
<1>1. DiskTypes /\ RecordsMatch /\ FileMatch /\ UNCHANGED <<file, records, own, outside>>
  BY DEF DiskInv, diskVars
<1>2. /\ attempt' \in [Task -> Attempts]
      /\ \A u \in Task : attempt'[u] \in Nat /\ attempt[u] \in Nat /\ attempt'[u] >= attempt[u]
  BY <1>1, ApprovalsAssumption DEF DiskTypes, Attempts
<1>3. DiskTypes' /\ FileMatch'
  BY <1>1, <1>2 DEF DiskTypes, FileMatch
<1>4. RecordsMatch'
  <2>1. \A u \in Task, n \in Attempts : n > attempt'[u] => n > attempt[u]
    BY <1>2 DEF Attempts
  <2> QED
    BY <1>1, <2>1 DEF RecordsMatch, LastIs, Attempts
<1> QED
  BY <1>3, <1>4 DEF DiskInv

LEMMA DiskStays == ASSUME DiskInv, UNCHANGED <<attempt, diskVars>> PROVE DiskInv'
BY DEF DiskInv, DiskTypes, RecordsMatch, LastIs, FileMatch, diskVars, Attempts
LEMMA DiskStep == ASSUME CallInv, DiskInv, [Next]_vars PROVE DiskInv'
<1>1. ASSUME NEW t \in Task, NEW p \in Path, NEW c \in Content, WriteDirectly(t, p, c)
      PROVE  DiskInv'
  <2>1. CASE t \in SdkTask
    <3>1. /\ file' = [file EXCEPT ![p] = c] /\ outside' = outside \cup {p}
          /\ UNCHANGED <<attempt, records, own>>
      BY <1>1, <2>1 DEF WriteDirectly, Calls, Written
    <3> QED
      BY <3>1, OutsideKeeps
  <2>2. CASE t \notin SdkTask
    <3>1. FsWrites(t, p, c)
      BY <1>1, <2>2 DEF WriteDirectly, Calls, Written, Recorded, FsWrites
    <3> QED
      BY <3>1, WriteKeeps
  <2> QED
    BY <2>1, <2>2
<1>2. ASSUME NEW i \in Open, ApproveWrite(i) PROVE DiskInv'
  <2>1. /\ requests[i].task \in Task /\ requests[i].kind = "write"
        /\ requests[i].path \in Path /\ requests[i].content \in Content
    <3>1. requests[i] \in Entry /\ requests[i].task \in Task
      BY OpenWaits, EntryOf DEF CallInv
    <3> QED
      BY <1>2, <3>1 DEF Entry, ApproveWrite
  <2>2. CASE requests[i].task \in SdkTask
    <3>1. UNCHANGED <<attempt, diskVars>>
      BY <1>2, <2>2 DEF ApproveWrite, Settle
    <3> QED
      BY <3>1, DiskStays
  <2>3. CASE requests[i].task \notin SdkTask
    <3> PICK t \in Task, p \in Path, c \in Content :
          t = requests[i].task /\ p = requests[i].path /\ c = requests[i].content
      BY <2>1
    <3>1. FsWrites(t, p, c)
      BY <1>2, <2>3 DEF ApproveWrite, Settle, Written, Recorded, FsWrites
    <3> QED
      BY <3>1, WriteKeeps
  <2> QED
    BY <2>2, <2>3
<1>3. ASSUME NEW t \in Task, SdkWrites(t) PROVE DiskInv'
  <2> PICK p, c : p = requests[Latest(Granted(t))].path /\ c = requests[Latest(Granted(t))].content
    OBVIOUS
  <2>1. CASE UNCHANGED <<file, outside>>
    <3>1. UNCHANGED <<attempt, diskVars>>
      BY <1>3, <2>1 DEF SdkWrites, diskVars
    <3> QED
      BY <3>1, DiskStays
  <2>2. CASE file' = [file EXCEPT ![p] = c] /\ outside' = outside \cup {p}
    <3>1. UNCHANGED <<attempt, records, own>>
      BY <1>3 DEF SdkWrites
    <3> QED
      BY <2>2, <3>1, OutsideKeeps
  <2> QED
    BY <1>3, <2>1, <2>2 DEF SdkWrites, Written
<1>4. ASSUME NEW t \in Task, Retry(t) PROVE DiskInv'
  BY <1>4, RetryKeeps DEF Retry
<1>5. ASSUME UNCHANGED <<attempt, diskVars>> PROVE DiskInv'
  BY <1>5, DiskStays
<1>6. ASSUME NEW t \in Task, Call(t) PROVE DiskInv'
  BY <1>1, <1>5, <1>6 DEF Call, Ask, Refused, RunCommand, Calls
<1>7. CASE Decide
  <2>1. PICK i \in Open : ApproveWrite(i) \/ WriteFails(i) \/ ApproveCommand(i)
                          \/ Reject(i) \/ AnswerQuestion(i)
    BY <1>7 DEF Decide
  <2> QED
    BY <1>2, <1>5, <2>1 DEF WriteFails, ApproveCommand, Reject, AnswerQuestion, Settle
<1>8. CASE \E t \in Task : AbortRun(t)
  BY <1>5, <1>8 DEF AbortRun, Signal
<1>9. CASE AbortDispatch \/ WaveEnds \/ UNCHANGED vars
  BY <1>5, <1>9 DEF AbortDispatch, Signal, WaveEnds, vars, runVars
<1>10. CASE \E t \in Task : \/ \E n \in 1..MaxBatch : Answer(t, n)
                            \/ Step(t) \/ Verifies(t)
  BY <1>3, <1>4, <1>5, <1>6, <1>10 DEF Answer, Step, TurnEnds, CommandEnds, Verifies, RunEnds,
     TaskSettles, TaskDropped
<1>11. ASSUME NEW t \in Task, NEW p \in Path, NEW c \in Content, CommandWrites(t, p, c)
       PROVE  DiskInv'
  <2>1. /\ file' = [file EXCEPT ![p] = c] /\ outside' = outside \cup {p}
        /\ UNCHANGED <<attempt, records, own>>
    BY <1>11 DEF CommandWrites, Written, runVars
  <2> QED
    BY <2>1, OutsideKeeps
<1> QED
  BY <1>7, <1>8, <1>9, <1>10, <1>11 DEF Next, Verifies

(* Once the wave is over nothing of it moves any more.                     *)
LEMMA ReportStep == ASSUME IInv, [Next]_vars PROVE ReportMatch'
<1>1. CallInv /\ ReportMatch
  BY DEF IInv
<1>2. ASSUME UNCHANGED <<at, records, wave, reported>> PROVE ReportMatch'
  <2>1. \A p \in Path : Versions(p)' = Versions(p)
    BY <1>2 DEF Versions, Settled, MergedRecord
  <2> QED
    BY <1>1, <1>2, <2>1 DEF ReportMatch
<1>3. CASE wave = "done"
  <2>1. \A t \in Task : at[t] \in {"settled", "dropped"}
    BY <1>1, <1>3 DEF ReportMatch
  <2>2. Open = {}
    BY <1>1, <2>1, OpenWaits
  <2>3. ~Next
    <3>1. ~Decide
      BY <2>2 DEF Decide
    <3>2. ASSUME NEW t \in Task
          PROVE  /\ ~Step(t) /\ ~Verifies(t) /\ ~AbortRun(t)
                 /\ \A p \in Path, c \in Content : ~CommandWrites(t, p, c)
      <4>1. at[t] \in {"settled", "dropped"}
        BY <2>1
      <4>2. ~Call(t)
        BY <4>1 DEF Call, WriteDirectly, Ask, Refused, RunCommand, Calls
      <4> QED
        BY <4>1, <4>2 DEF Step, TurnEnds, CommandEnds, SdkWrites, Verifies, RunEnds, TaskSettles,
           Retry, TaskDropped, AbortRun, CommandWrites
    <3>3. \A t \in Task, n \in 1..MaxBatch : ~Answer(t, n)
      BY <2>1 DEF Answer
    <3>4. ~AbortDispatch /\ ~WaveEnds
      BY <1>3 DEF AbortDispatch, WaveEnds
    <3> QED
      BY <3>1, <3>2, <3>3, <3>4 DEF Next, Verifies
  <2>4. UNCHANGED <<at, records, wave, reported>>
    BY <2>3 DEF vars, runVars, diskVars, waveVars
  <2> QED
    BY <1>2, <2>4
<1>4. CASE wave # "done" /\ WaveEnds
  <2>1. /\ \A t \in Task : at'[t] \in {"settled", "dropped"}
        /\ at' = at /\ records' = records
        /\ wave' = "done" => reported' = {p \in Path : Cardinality(Versions(p)) > 1}
    BY <1>4 DEF WaveEnds, runVars, diskVars
  <2>2. \A p \in Path : Versions(p)' = Versions(p)
    BY <2>1 DEF Versions, Settled, MergedRecord
  <2> QED
    BY <2>1, <2>2 DEF ReportMatch
<1>5. CASE wave # "done" /\ ~WaveEnds
  <2>1. wave' # "done"
    <3>1. CASE Decide
      BY <1>5, <3>1 DEF Decide, ApproveWrite, WriteFails, ApproveCommand, Reject, AnswerQuestion,
         Settle, waveVars
    <3>2. ASSUME NEW t \in Task, Call(t) PROVE wave' = wave
      BY <3>2 DEF Call, WriteDirectly, Ask, Refused, RunCommand, waveVars
    <3>3. ASSUME NEW t \in Task, Step(t) PROVE wave' = wave
      BY <3>2, <3>3 DEF Step, TurnEnds, CommandEnds, SdkWrites, waveVars
    <3>4. ASSUME NEW t \in Task, Verifies(t) \/ AbortRun(t) \/ \E n \in 1..MaxBatch : Answer(t, n)
          PROVE  wave' = wave
      BY <3>4 DEF Verifies, RunEnds, TaskSettles, Retry, TaskDropped, AbortRun, Answer, waveVars
    <3>5. ASSUME NEW t \in Task, NEW p \in Path, NEW c \in Content, CommandWrites(t, p, c)
          PROVE  wave' = wave
      BY <3>5 DEF CommandWrites, waveVars
    <3>6. CASE AbortDispatch \/ UNCHANGED vars
      BY <1>5, <3>6 DEF AbortDispatch, vars, waveVars
    <3> QED
      BY <1>5, <3>1, <3>3, <3>4, <3>5, <3>6 DEF Next, Verifies
  <2> QED
    BY <2>1 DEF ReportMatch
<1> QED
  BY <1>3, <1>4, <1>5

LEMMA Inductive == Spec => []IInv
<1>1. Init => IInv
  <2> SUFFICES ASSUME Init PROVE IInv
    OBVIOUS
  <2>1. DiskTypes
    BY ApprovalsAssumption DEF Init, DiskTypes, Attempts, Value
  <2>2. RecordsMatch /\ FileMatch /\ ReportMatch
    BY DEF Init, RecordsMatch, FileMatch, ReportMatch
  <2> QED
    BY <2>1, <2>2, CallInit DEF IInv, DiskInv
<1>2. IInv /\ [Next]_vars => IInv'
  BY CallStep, DiskStep, ReportStep DEF IInv
<1> QED
  BY <1>1, <1>2, PTL DEF Spec

(* What the merge of a task's records yields is what it last wrote.        *)
LEMMA MergeIsLast ==
  ASSUME DiskInv, NEW t \in Task, NEW p \in Path
  PROVE  MergedRecord(t, p) = own[t][p]
<1> DEFINE wrote == {n \in Attempts : records[t][n][p] # None}
<1>1. CASE own[t][p] = None
  <2>1. wrote = {}
    BY <1>1 DEF DiskInv, RecordsMatch
  <2> QED
    BY <1>1, <2>1 DEF MergedRecord
<1>2. CASE own[t][p] # None
  <2>1. PICK n \in Attempts : LastIs(t, n, p)
    BY <1>2 DEF DiskInv, RecordsMatch
  <2>2. n \in wrote /\ \A m \in wrote : m <= n
    BY <1>2, <2>1 DEF LastIs, Attempts
  <2>3. Latest(wrote) = n
    <3>1. \A m \in wrote : (\A k \in wrote : k <= m) => m = n
      BY <2>2 DEF Attempts
    <3> QED
      BY <2>2, <3>1 DEF Latest
  <2> QED
    BY <2>1, <2>2, <2>3 DEF MergedRecord, LastIs
<1> QED
  BY <1>1, <1>2

LEMMA VersionsFinite == ASSUME NEW p \in Path PROVE IsFiniteSet(Versions(p))
<1> DEFINE f == [t \in Task |-> MergedRecord(t, p)]
           T == {f[t] : t \in Task}
<1>1. f \in Surjection(Task, T)
  BY DEF Surjection
<1>2. IsFiniteSet(T)
  BY <1>1, FS_Surjection, ApprovalsAssumption
<1>3. Versions(p) \subseteq T
  BY DEF Versions, Settled
<1> HIDE DEF T
<1> QED
  BY <1>2, <1>3, FS_Subset

(* For any tasks, files, attempts, commands, aborts and interleavings: what*)
(* executeDag hands to the aggregation as conflicts are the real ones, and *)
(* in a file it does not name every task finds what it wrote, unless the   *)
(* SDK or a command wrote it too, or the task that wrote it was aborted    *)
(* between two attempts.                                                   *)
THEOREM ConflictsAreExact == Spec => []ConflictsExact
<1>1. ASSUME IInv, wave = "done", NEW p \in Path
      PROVE  /\ p \in reported => \E t, u \in Task : Cardinality({own[t][p], own[u][p], None}) = 3
             /\ p \notin reported /\ ~Unseen(p) => \A t \in Task : own[t][p] \in {None, file[p]}
  <2>1. /\ DiskInv /\ FileMatch
        /\ p \in reported <=> Cardinality(Versions(p)) > 1
    BY <1>1 DEF IInv, DiskInv, ReportMatch
  <2>2. Versions(p) = {own[t][p] : t \in Settled} \ {None} /\ Settled \subseteq Task
    <3>1. Settled \subseteq Task
      BY DEF Settled
    <3> QED
      BY <2>1, <3>1, MergeIsLast DEF Versions
  <2>3. IsFiniteSet(Versions(p)) /\ Cardinality(Versions(p)) \in Nat
    BY VersionsFinite, FS_CardinalityType
  <2>4. ASSUME p \in reported
        PROVE  \E t, u \in Task : Cardinality({own[t][p], own[u][p], None}) = 3
    <3>1. \E a, b \in Versions(p) : a # b
      <4> SUFFICES ASSUME \A a, b \in Versions(p) : a = b PROVE FALSE
        OBVIOUS
      <4>1. Versions(p) = {} \/ \E x : Versions(p) = {x}
        OBVIOUS
      <4>2. Cardinality(Versions(p)) \in {0, 1}
        BY <4>1, FS_EmptySet, FS_Singleton
      <4> QED
        BY <2>1, <2>4, <4>2
    <3>2. PICK t \in Task, u \in Task : /\ own[t][p] # own[u][p]
                                        /\ own[t][p] # None /\ own[u][p] # None
      BY <2>2, <3>1
    <3>3. \A a, b, c : a # b /\ b # c /\ a # c => Cardinality({a, b, c}) = 3
      <4> SUFFICES ASSUME NEW a, NEW b, NEW c, a # b, b # c, a # c
                   PROVE  Cardinality({a, b, c}) = 3
        OBVIOUS
      <4>1. IsFiniteSet({a}) /\ Cardinality({a}) = 1
        BY FS_Singleton
      <4>2. IsFiniteSet({a} \cup {b}) /\ Cardinality({a} \cup {b}) = 2
        <5>1. b \notin {a}
          OBVIOUS
        <5>2. /\ IsFiniteSet({a} \cup {b})
              /\ Cardinality({a} \cup {b}) = Cardinality({a}) + 1
          BY <4>1, <5>1, FS_AddElement, Zenon
        <5> QED
          BY <4>1, <5>2
      <4>3. PICK S : S = {a} \cup {b}
        OBVIOUS
      <4>4. IsFiniteSet(S) /\ Cardinality(S) = 2 /\ c \notin S
        BY <4>2, <4>3
      <4>5. Cardinality(S \cup {c}) = 3
        <5>1. Cardinality(S \cup {c}) = Cardinality(S) + 1
          BY <4>4, FS_AddElement, Zenon
        <5> QED
          BY <4>4, <5>1
      <4>6. {a, b, c} = S \cup {c}
        BY <4>3
      <4> QED
        BY <4>5, <4>6
    <3>4. Cardinality({own[t][p], own[u][p], None}) = 3
      BY <3>2, <3>3
    <3> QED
      BY <3>4
  <2>5. ASSUME p \notin reported, ~Unseen(p), NEW t \in Task, own[t][p] # None
        PROVE  own[t][p] = file[p]
    <3>1. PICK u \in Task : own[u][p] = file[p] /\ file[p] # None
      BY <2>1, <2>5 DEF FileMatch, Unseen
    <3>4. t \in Settled /\ u \in Settled
      BY <1>1, <2>5, <3>1 DEF IInv, ReportMatch, Unseen, Settled
    <3>2. own[t][p] \in Versions(p) /\ own[u][p] \in Versions(p)
      BY <2>2, <2>5, <3>1, <3>4
    <3>3. ASSUME own[t][p] # own[u][p] PROVE FALSE
      <4> PICK a, b : a = own[t][p] /\ b = own[u][p]
        OBVIOUS
      <4>1. IsFiniteSet({a}) /\ Cardinality({a}) = 1
        BY FS_Singleton
      <4>2. Cardinality({a} \cup {b}) = 2
        BY <3>3, <4>1, FS_AddElement
      <4>3. {a} \cup {b} \in SUBSET Versions(p)
        BY <3>2
      <4>4. 2 <= Cardinality(Versions(p))
        BY <2>3, <4>2, <4>3, FS_Subset
      <4> QED
        BY <2>1, <2>3, <2>5, <4>4
    <3> QED
      BY <3>1, <3>3
  <2> QED
    BY <2>4, <2>5
<1>2. IInv => ConflictsExact
  BY <1>1 DEF ConflictsExact
<1> QED
  BY Inductive, <1>2, PTL
===============================================================================
