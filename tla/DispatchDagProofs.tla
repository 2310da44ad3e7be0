--------------------------- MODULE DispatchDagProofs ---------------------------
(***************************************************************************)
(* Proofs about DispatchDag: for any plans, any number of orchestrator     *)
(* runs and slots, and any tasks that throw, the EXECUTE stages use the    *)
(* semaphore as SubAgentSemaphore specifies, start a child run only after  *)
(* its dependencies, publish one dispatch.end per task at most, and end    *)
(* with a result for every task when the plans are in dependency order.    *)
(***************************************************************************)
EXTENDS DispatchDag, SubAgentSemaphoreProofs, WellFoundedInduction

(* The part of TypeOK that is about executeDag and runChildTask.           *)
DagTypeOK ==
  /\ dag \in [Parent -> DagState]
  /\ result \in [Known -> EndStatus \cup {"none"}]
  /\ bound \subseteq Known
  /\ stage \in [Task -> Stage]
  /\ attempt \in [Task -> 0..MaxAttempts]
  /\ raw \in [Task -> RawStatus \cup {"none"}]
  /\ childSig \subseteq Task
  /\ ends \in [Task -> Seq(EndStatus)]
  /\ gone \subseteq Parent

(* The tasks whose runChildTask call is on its way.                        *)
Underway(t) == stage[t] \in HasSlot \cup {"acquiring"}

(* SlotsFollowTasks with what it needs about a task that has not started.  *)
SlotsMatch ==
  \A t \in Task :
    /\ stage[t] = "idle" => slot[t] = "none"
    /\ stage[t] \in HasSlot => slot[t] = "held"
    /\ slot[t] \in {"held", "waiting"} => Underway(t)
    /\ slot[t] = "waiting" => stage[t] = "acquiring"

(* A dispatch.end event stands for a task that settled or was never run,   *)
(* and executeDag records it before the next wave.                         *)
EndsMatch ==
  \A t \in Task :
    /\ result[t] # "none" => ends[t] = <<result[t]>> /\ stage[t] \in {"idle", "settled"}
    /\ result[t] = "none" /\ stage[t] = "settled" => Len(ends[t]) = 1
    /\ result[t] = "none" /\ stage[t] # "settled" => ends[t] = <<>>
    /\ dag[ParentOf[t]] = "start" => stage[t] = "idle" /\ result[t] = "none"

(* The dependencies of a task under way, and of one that was, are done.    *)
ReadyFirst ==
  \A t \in Task : Underway(t) \/ attempt[t] > 0 =>
    /\ \A d \in DependsOn[t] : result[d] = "complete"
    /\ Inputs[t] \subseteq bound

FirstAttempt ==
  \A t \in Task : stage[t] \in {"idle", "acquiring", "building"} => attempt[t] = 0

DagInv == DagTypeOK /\ SlotsMatch /\ EndsMatch /\ ReadyFirst /\ FirstAttempt

-------------------------------------------------------------------------------
(* The steps of executeDag between two waves.                              *)

(* What is left when the results of a wave are recorded has not started.   *)
LEMMA RecordedProperties ==
  ASSUME DagInv, NEW p \in Parent, AtLoopTop(p)
  PROVE  /\ Recorded(p) \in [Known -> EndStatus \cup {"none"}]
         /\ \A t \in Known : result[t] # "none" => Recorded(p)[t] = result[t]
         /\ \A t \in Task : Recorded(p)[t] # "none" /\ result[t] = "none" =>
              stage[t] = "settled" /\ ends[t] = <<Recorded(p)[t]>>
         /\ \A t \in Remaining(p, Recorded(p)) :
              /\ t \in Task /\ ParentOf[t] = p
              /\ stage[t] = "idle" /\ slot[t] = "none" /\ ends[t] = <<>>
              /\ result[t] = "none" /\ attempt[t] = 0
<1> USE SemaphoreAssumption, DagAssumption
<1>1. \A t \in Wave(p) : /\ t \in Task /\ result[t] = "none" /\ stage[t] = "settled"
                         /\ LastEnd(t) \in EndStatus /\ ends[t] = <<LastEnd(t)>>
  <2> SUFFICES ASSUME NEW t \in Wave(p)
               PROVE  /\ t \in Task /\ result[t] = "none" /\ stage[t] = "settled"
                      /\ LastEnd(t) \in EndStatus /\ ends[t] = <<LastEnd(t)>>
    OBVIOUS
  <2>1. t \in Task /\ ParentOf[t] = p /\ stage[t] # "idle" /\ result[t] = "none"
    BY DEF Wave, TasksOf
  <2>2. stage[t] = "settled"
    BY <2>1 DEF AtLoopTop, DagInv, EndsMatch
  <2>3. ends[t] \in Seq(EndStatus) /\ Len(ends[t]) = 1
    BY <2>1, <2>2 DEF DagInv, DagTypeOK, EndsMatch
  <2>4. ends[t][1] \in EndStatus /\ ends[t] = <<ends[t][1]>>
    BY <2>3
  <2> QED
    BY <2>1, <2>2, <2>3, <2>4 DEF LastEnd
<1>2. /\ DOMAIN Recorded(p) = Known
      /\ \A t \in Known : Recorded(p)[t] = IF t \in Wave(p) THEN LastEnd(t) ELSE result[t]
  BY DEF Recorded
<1>3. \A t \in Task : t \in Known /\ "none" \notin EndStatus
  BY DEF Known, EndStatus
<1>4. Recorded(p) \in [Known -> EndStatus \cup {"none"}]
  BY <1>1 DEF Recorded, DagInv, DagTypeOK
<1>5. \A t \in Known : result[t] # "none" => Recorded(p)[t] = result[t]
  BY <1>1, <1>2
<1>6. \A t \in Task : Recorded(p)[t] # "none" /\ result[t] = "none" =>
        stage[t] = "settled" /\ ends[t] = <<Recorded(p)[t]>>
  BY <1>1, <1>2, <1>3
<1>7. ASSUME NEW t \in Remaining(p, Recorded(p))
      PROVE  /\ t \in Task /\ ParentOf[t] = p
             /\ stage[t] = "idle" /\ slot[t] = "none" /\ ends[t] = <<>>
             /\ result[t] = "none" /\ attempt[t] = 0
  <2>1. t \in Task /\ ParentOf[t] = p /\ Recorded(p)[t] = "none"
    BY DEF Remaining, TasksOf
  <2>2. t \notin Wave(p) /\ result[t] = "none"
    BY <2>1, <1>1, <1>2, <1>3
  <2>3. stage[t] = "idle"
    BY <2>1, <2>2 DEF Wave, TasksOf
  <2> QED
    BY <2>1, <2>2, <2>3 DEF DagInv, SlotsMatch, EndsMatch, FirstAttempt
<1> QED
  BY <1>4, <1>5, <1>6, <1>7

(* StartWave calls acquire() once for each task it starts, in one block.   *)
Lost(ready) == {t \in ready : MissingInput(t)}
Started(p, S) == Ready(p, AfterSkip(p, S)) \ Lost(Ready(p, AfterSkip(p, S)))
AcquiredOnce(W) ==
  \E calls \in Seq(Task) :
    /\ Distinct(calls)
    /\ Acquire(calls)
    /\ {calls[i] : i \in 1..Len(calls)} = W

LEMMA WaveCalls ==
  ASSUME NEW p \in Parent, NEW S, StartWave(p, S)
  PROVE  AcquiredOnce(Started(p, S))
<1> USE SemaphoreAssumption, DagAssumption
<1> DEFINE ready == Ready(p, AfterSkip(p, S))
           lost == Lost(ready)
<1>1. PICK calls \in Filtered(Plan[p], ready \ lost) : Acquire(calls)
  BY DEF StartWave, Lost
<1>2. Plan[p] \in Seq(Task) /\ Distinct(Plan[p])
  OBVIOUS
<1>3. ready \subseteq TasksOf(p)
  BY DEF Ready, Remaining
<1>4. TasksOf(p) \subseteq {Plan[p][i] : i \in 1..Len(Plan[p])}
  BY DEF TasksOf
<1> HIDE DEF ready, lost
<1>5. PICK W \in SUBSET Task : W = ready \ lost
  BY <1>3 DEF TasksOf
<1>6. calls \in Filtered(Plan[p], W)
  BY <1>5
<1>7. /\ calls \in Seq(Task) /\ Distinct(calls)
      /\ {calls[i] : i \in 1..Len(calls)} = {Plan[p][i] : i \in 1..Len(Plan[p])} \cap W
  BY <1>2, <1>6, FilteredProperties
<1>8. {calls[i] : i \in 1..Len(calls)} = ready \ lost
  BY <1>3, <1>4, <1>5, <1>7
<1> QED
  BY <1>1, <1>7, <1>8 DEF AcquiredOnce, Started, ready, lost

(* A block of acquire() calls is a step of the semaphore, or nothing.      *)
LEMMA AcquireStep ==
  ASSUME SemInv, NEW calls \in Seq(Task), Distinct(calls), Acquire(calls)
  PROVE  [SemNext]_semVars
<1> USE SemaphoreAssumption
<1> DEFINE n == Len(calls)
<1>1. n \in Nat /\ calls \in [1..n -> Task]
  OBVIOUS
<1>2. CASE n = 0
  <2>1. Free \in Nat
    BY DEF SemInv, SemTypeOK, SlotBound, Free
  <2>2. /\ active' = active + 0 /\ queue' = queue \o SubSeq(calls, 1, 0)
        /\ slot' = [t \in Task |->
                    IF \E i \in 1..0 : calls[i] = t THEN "held"
                    ELSE IF \E i \in 1..0 : calls[i] = t THEN "waiting"
                         ELSE slot[t]]
        /\ aborted' = aborted
    BY <1>1, <1>2, <2>1 DEF Acquire
  <2>3. active' = active
    BY <2>2 DEF SemInv, SemTypeOK
  <2>4. slot' = slot
    BY <2>2 DEF SemInv, SemTypeOK
  <2>5. SubSeq(calls, 1, 0) = <<>>
    BY <1>1, SubSeqEmpty
  <2>6. queue' = queue
    BY <2>2, <2>5 DEF SemInv, SemTypeOK
  <2> QED
    BY <2>2, <2>3, <2>4, <2>6 DEF semVars
<1>3. CASE n # 0
  <2>1. {calls[i] : i \in 1..n} \in SUBSET Task
    BY <1>1
  <2>2. Cardinality({calls[i] : i \in 1..n}) = n
    <3>1. n \in 0..Len(calls)
      BY <1>1
    <3> QED
      BY <3>1, PrefixCardinality
  <2>3. n <= Cardinality(Task) /\ Cardinality(Task) \in Nat
    BY <2>1, <2>2, FS_Subset, FS_CardinalityType
  <2>4. n \in 1..Cardinality(Task)
    BY <1>1, <1>3, <2>3
  <2> QED
    BY <1>1, <2>4 DEF SemNext
<1> QED
  BY <1>2, <1>3

(* What acquire() does to the slots of its callers and of everybody else.  *)
LEMMA AcquireSlots ==
  ASSUME SemInv, NEW calls \in Seq(Task), Acquire(calls)
  PROVE  LET called == {calls[i] : i \in 1..Len(calls)}
         IN  /\ aborted' = aborted
             /\ \A t \in called : slot'[t] \in {"held", "waiting"}
             /\ \A t \in Task \ called : slot'[t] = slot[t]
<1> USE SemaphoreAssumption
<1> DEFINE taken == IF Len(calls) <= Free THEN Len(calls) ELSE Free
<1>1. taken \in 0..Len(calls)
  BY DEF SemInv, SemTypeOK, SlotBound, Free
<1>2. /\ aborted' = aborted
      /\ slot' = [t \in Task |->
                    IF \E i \in 1..taken : calls[i] = t THEN "held"
                    ELSE IF \E i \in (taken + 1)..Len(calls) : calls[i] = t
                         THEN "waiting"
                         ELSE slot[t]]
  BY DEF Acquire
<1> HIDE DEF taken
<1>3. \A i \in 1..Len(calls) : i \in 1..taken \/ i \in (taken + 1)..Len(calls)
  BY <1>1
<1>4. /\ \A i \in 1..taken : i \in 1..Len(calls)
      /\ \A i \in (taken + 1)..Len(calls) : i \in 1..Len(calls)
  BY <1>1
<1> QED
  BY <1>2, <1>3, <1>4

-------------------------------------------------------------------------------
(* executeDag keeps the invariant.                                         *)

LEMMA StopAbortedInv ==
  ASSUME SemInv, DagInv, NEW p \in Parent, StopAborted(p)
  PROVE  DagInv'
<1> USE SemaphoreAssumption, DagAssumption
<1> DEFINE rest == Remaining(p, Recorded(p))
<1>1. /\ AtLoopTop(p)
      /\ result' = [t \in Known |-> IF t \in rest THEN "aborted" ELSE Recorded(p)[t]]
      /\ ends' = [t \in Task |-> IF t \in rest THEN Append(ends[t], "aborted") ELSE ends[t]]
      /\ dag' = [dag EXCEPT ![p] = "threw"]
      /\ UNCHANGED <<semVars, bound, stage, attempt, raw, childSig, gone>>
  BY DEF StopAborted, EndAll
<1>2. /\ Recorded(p) \in [Known -> EndStatus \cup {"none"}]
      /\ \A t \in Known : result[t] # "none" => Recorded(p)[t] = result[t]
      /\ \A t \in Task : Recorded(p)[t] # "none" /\ result[t] = "none" =>
           stage[t] = "settled" /\ ends[t] = <<Recorded(p)[t]>>
      /\ \A t \in rest :
           /\ t \in Task /\ ParentOf[t] = p
           /\ stage[t] = "idle" /\ slot[t] = "none" /\ ends[t] = <<>>
           /\ result[t] = "none" /\ attempt[t] = 0
  BY <1>1, RecordedProperties
<1> HIDE DEF rest
<1>3. DagTypeOK'
  BY <1>1, <1>2 DEF DagInv, DagTypeOK, DagState, EndStatus
<1>4. SlotsMatch'
  BY <1>1 DEF DagInv, SlotsMatch, Underway, semVars
<1>5. EndsMatch'
  <2> SUFFICES ASSUME NEW t \in Task
               PROVE  /\ result'[t] # "none" => ends'[t] = <<result'[t]>> /\ stage'[t] \in {"idle", "settled"}
                      /\ result'[t] = "none" /\ stage'[t] = "settled" => Len(ends'[t]) = 1
                      /\ result'[t] = "none" /\ stage'[t] # "settled" => ends'[t] = <<>>
                      /\ dag'[ParentOf[t]] = "start" => stage'[t] = "idle" /\ result'[t] = "none"
    BY DEF EndsMatch
  <2>1. t \in Known /\ ParentOf[t] \in Parent
    BY DEF Known
  <2>2. stage'[t] = stage[t]
    BY <1>1
  <2>3. CASE t \in rest
    <3>1. result'[t] = "aborted" /\ ends'[t] = <<"aborted">> /\ stage[t] = "idle"
      <4>1. result'[t] = "aborted"
        BY <1>1, <2>1, <2>3
      <4>2. ends'[t] = Append(<<>>, "aborted") /\ stage[t] = "idle"
        BY <1>1, <1>2, <2>3
      <4> QED
        BY <4>1, <4>2
    <3>2. dag'[ParentOf[t]] = "threw"
      BY <1>1, <1>2, <2>1, <2>3 DEF DagInv, DagTypeOK
    <3> QED
      BY <2>2, <3>1, <3>2
  <2>4. CASE t \notin rest
    <3>1. result'[t] = Recorded(p)[t] /\ ends'[t] = ends[t]
      BY <1>1, <2>1, <2>4
    <3>2. dag'[ParentOf[t]] = "start" => dag[ParentOf[t]] = "start" /\ ParentOf[t] # p
      BY <1>1, <2>1 DEF DagInv, DagTypeOK
    <3>3. ParentOf[t] # p => Recorded(p)[t] = result[t]
      BY <2>1 DEF Recorded, Wave, TasksOf
    <3> QED
      BY <1>2, <2>1, <2>2, <3>1, <3>2, <3>3 DEF DagInv, EndsMatch
  <2> QED
    BY <2>3, <2>4
<1>6. ReadyFirst'
  <2>1. \A d \in Known : result[d] = "complete" => result'[d] = "complete"
    <3>1. \A d \in rest : result[d] = "none"
      BY <1>2
    <3> QED
      BY <3>1, <1>1, <1>2
  <2>2. \A t \in Task : \A d \in DependsOn[t] : d \in Known
    BY DEF Known
  <2> QED
    BY <1>1, <2>1, <2>2 DEF DagInv, ReadyFirst, Underway
<1>7. FirstAttempt'
  BY <1>1 DEF DagInv, FirstAttempt
<1> QED
  BY <1>3, <1>4, <1>5, <1>6, <1>7 DEF DagInv

(* The three ways out of the block at the top of the loop, in one form:    *)
(* the tasks of S are skipped, those of lost end at once for want of an    *)
(* input, the other ready ones call acquire().                             *)
LoopTopEffect(p, S, ready, lost) ==
  /\ lost \subseteq ready
  /\ ready \subseteq Remaining(p, Recorded(p)) \ S
  /\ result' = AfterSkip(p, S)
  /\ ends' = EndAll(S \cup lost, "skipped")
  /\ stage' = [t \in Task |-> IF t \in lost THEN "settled"
                              ELSE IF t \in ready THEN "acquiring"
                              ELSE stage[t]]
  /\ \E d \in {"wave", "done", "threw"} : dag' = [dag EXCEPT ![p] = d]
  /\ \A t \in ready \ lost : slot'[t] \in {"held", "waiting"}
  /\ \A t \in Task \ (ready \ lost) : slot'[t] = slot[t]
  /\ \A t \in ready : \A d \in DependsOn[t] : AfterSkip(p, S)[d] = "complete"
  /\ \A t \in ready \ lost : Inputs[t] \subseteq bound
  /\ UNCHANGED <<aborted, bound, attempt, raw, childSig, gone>>

LEMMA LoopTopCases ==
  ASSUME SemInv, DagInv, NEW p \in Parent, LoopTop(p)
  PROVE  /\ AtLoopTop(p)
         /\ \E S \in SUBSET Remaining(p, Recorded(p)) :
              \E ready, lost \in SUBSET Task : LoopTopEffect(p, S, ready, lost)
         /\ [SemNext]_semVars
<1> USE SemaphoreAssumption, DagAssumption
<1>1. PICK S \in SUBSET Remaining(p, Recorded(p)) :
        /\ result' = AfterSkip(p, S)
        /\ Finish(p, S) \/ StopUnresolved(p, S) \/ StartWave(p, S)
  BY DEF LoopTop
<1>2. AtLoopTop(p) /\ UNCHANGED <<bound, attempt, raw, childSig, gone>>
  BY DEF LoopTop
<1>3. CASE Finish(p, S) \/ StopUnresolved(p, S)
  <2>1. /\ ends' = EndAll(S, "skipped")
        /\ UNCHANGED <<semVars, stage>>
        /\ \E d \in {"wave", "done", "threw"} : dag' = [dag EXCEPT ![p] = d]
    BY <1>3 DEF Finish, StopUnresolved
  <2>2. stage' = [t \in Task |-> IF t \in {} THEN "settled"
                                 ELSE IF t \in {} THEN "acquiring" ELSE stage[t]]
    BY <2>1 DEF DagInv, DagTypeOK
  <2>3. EndAll(S, "skipped") = EndAll(S \cup {}, "skipped")
    BY DEF EndAll
  <2>4. LoopTopEffect(p, S, {}, {})
    BY <1>1, <1>2, <2>1, <2>2, <2>3 DEF LoopTopEffect, semVars
  <2>5. {} \in SUBSET Task
    OBVIOUS
  <2> QED
    BY <1>2, <2>1, <2>4, <2>5
<1>4. CASE StartWave(p, S)
  <2> DEFINE R == Ready(p, AfterSkip(p, S))
             L == {t \in R : MissingInput(t)}
  <2>1. PICK calls \in Seq(Task) :
          Distinct(calls) /\ Acquire(calls) /\ {calls[i] : i \in 1..Len(calls)} = R \ L
    <3>1. AcquiredOnce(Started(p, S))
      BY <1>4, WaveCalls
    <3> QED
      BY <3>1 DEF AcquiredOnce, Started, Lost
  <2>2. /\ aborted' = aborted
        /\ \A t \in R \ L : slot'[t] \in {"held", "waiting"}
        /\ \A t \in Task \ (R \ L) : slot'[t] = slot[t]
    BY <2>1, AcquireSlots
  <2>3. /\ dag' = [dag EXCEPT ![p] = "wave"]
        /\ ends' = EndAll(S \cup L, "skipped")
        /\ stage' = [t \in Task |-> IF t \in L THEN "settled"
                                    ELSE IF t \in R THEN "acquiring"
                                    ELSE stage[t]]
    BY <1>4 DEF StartWave
  <2>4. R \subseteq Remaining(p, Recorded(p)) \ S
    <3>1. \A t \in Task : t \in Known
      BY DEF Known
    <3> QED
      BY <3>1 DEF Ready, Remaining, AfterSkip, TasksOf
  <2>5. \A t \in R : \A d \in DependsOn[t] : AfterSkip(p, S)[d] = "complete"
    BY DEF Ready
  <2>6. \A t \in R \ L : Inputs[t] \subseteq bound
    BY DEF MissingInput
  <2>7. L \subseteq R /\ R \subseteq Task
    BY DEF Ready, Remaining, TasksOf
  <2> HIDE DEF R, L
  <2>8. LoopTopEffect(p, S, R, L)
    BY <1>1, <1>2, <2>2, <2>3, <2>4, <2>5, <2>6, <2>7 DEF LoopTopEffect
  <2>9. PICK ready \in SUBSET Task, lost \in SUBSET Task : ready = R /\ lost = L
    BY <2>7
  <2>10. LoopTopEffect(p, S, ready, lost)
    BY <2>8, <2>9
  <2>11. [SemNext]_semVars
    BY <2>1, AcquireStep
  <2> QED
    BY <1>2, <2>10, <2>11
<1> QED
  BY <1>1, <1>3, <1>4

LEMMA LoopTopInv ==
  ASSUME SemInv, DagInv, NEW p \in Parent, LoopTop(p)
  PROVE  DagInv'
<1> USE SemaphoreAssumption, DagAssumption
<1>1. PICK S \in SUBSET Remaining(p, Recorded(p)), ready \in SUBSET Task, lost \in SUBSET Task :
        LoopTopEffect(p, S, ready, lost)
  BY LoopTopCases
<1> DEFINE rest == Remaining(p, Recorded(p))
<1>2. /\ Recorded(p) \in [Known -> EndStatus \cup {"none"}]
      /\ \A t \in Known : result[t] # "none" => Recorded(p)[t] = result[t]
      /\ \A t \in Task : Recorded(p)[t] # "none" /\ result[t] = "none" =>
           stage[t] = "settled" /\ ends[t] = <<Recorded(p)[t]>>
      /\ \A t \in rest :
           /\ t \in Task /\ ParentOf[t] = p
           /\ stage[t] = "idle" /\ slot[t] = "none" /\ ends[t] = <<>>
           /\ result[t] = "none" /\ attempt[t] = 0
  BY LoopTopCases, RecordedProperties
<1>3. \A t \in Task : t \in Known
  BY DEF Known
<1>4. PICK next \in {"wave", "done", "threw"} : dag' = [dag EXCEPT ![p] = next]
  BY <1>1 DEF LoopTopEffect
<1>5. /\ lost \subseteq ready /\ ready \subseteq rest \ S /\ S \subseteq rest
      /\ result' = [t \in Known |-> IF t \in S THEN "skipped" ELSE Recorded(p)[t]]
      /\ ends' = [t \in Task |-> IF t \in S \cup lost THEN Append(ends[t], "skipped") ELSE ends[t]]
      /\ stage' = [t \in Task |-> IF t \in lost THEN "settled"
                                  ELSE IF t \in ready THEN "acquiring"
                                  ELSE stage[t]]
      /\ \A t \in ready \ lost : slot'[t] \in {"held", "waiting"}
      /\ \A t \in Task \ (ready \ lost) : slot'[t] = slot[t]
      /\ \A t \in ready : \A d \in DependsOn[t] : result'[d] = "complete"
      /\ \A t \in ready \ lost : Inputs[t] \subseteq bound
      /\ UNCHANGED <<aborted, bound, attempt, raw, childSig, gone>>
  BY <1>1 DEF LoopTopEffect, AfterSkip, EndAll
<1> HIDE DEF rest
<1>6. \A t \in Task \ rest : Recorded(p)[t] = "none" => result[t] = "none" /\ ParentOf[t] # p
  BY <1>2, <1>3 DEF rest, Remaining, TasksOf
<1>7. DagTypeOK'
  <2>1. result' \in [Known -> EndStatus \cup {"none"}]
    BY <1>2, <1>5 DEF EndStatus
  <2>2. ends' \in [Task -> Seq(EndStatus)]
    BY <1>5 DEF DagInv, DagTypeOK, EndStatus
  <2>3. stage' \in [Task -> Stage]
    BY <1>5 DEF DagInv, DagTypeOK, Stage
  <2>4. dag' \in [Parent -> DagState]
    BY <1>4 DEF DagInv, DagTypeOK, DagState
  <2> QED
    BY <1>5, <2>1, <2>2, <2>3, <2>4 DEF DagInv, DagTypeOK
<1>8. SlotsMatch'
  <2> SUFFICES ASSUME NEW t \in Task
               PROVE  /\ stage'[t] = "idle" => slot'[t] = "none"
                      /\ stage'[t] \in HasSlot => slot'[t] = "held"
                      /\ slot'[t] \in {"held", "waiting"} => stage'[t] \in HasSlot \cup {"acquiring"}
                      /\ slot'[t] = "waiting" => stage'[t] = "acquiring"
    BY DEF SlotsMatch, Underway
  <2>1. CASE t \in ready \ lost
    BY <1>5, <2>1 DEF HasSlot
  <2>2. CASE t \in lost
    BY <1>2, <1>5, <2>2 DEF HasSlot
  <2>3. CASE t \notin ready
    <3>1. slot'[t] = slot[t] /\ stage'[t] = stage[t]
      BY <1>5, <2>3
    <3> QED
      BY <3>1 DEF DagInv, SlotsMatch, Underway
  <2> QED
    BY <2>1, <2>2, <2>3
<1>9. EndsMatch'
  <2> SUFFICES ASSUME NEW t \in Task
               PROVE  /\ result'[t] # "none" => ends'[t] = <<result'[t]>> /\ stage'[t] \in {"idle", "settled"}
                      /\ result'[t] = "none" /\ stage'[t] = "settled" => Len(ends'[t]) = 1
                      /\ result'[t] = "none" /\ stage'[t] # "settled" => ends'[t] = <<>>
                      /\ dag'[ParentOf[t]] = "start" => stage'[t] = "idle" /\ result'[t] = "none"
    BY DEF EndsMatch
  <2>1. t \in Known /\ ParentOf[t] \in Parent
    BY <1>3
  <2>2. dag'[ParentOf[t]] = "start" => dag[ParentOf[t]] = "start" /\ ParentOf[t] # p
    BY <1>4, <2>1 DEF DagInv, DagTypeOK
  <2>3. CASE t \in S
    <3>1. ends'[t] = Append(<<>>, "skipped") /\ stage'[t] = "idle" /\ ParentOf[t] = p
      BY <1>2, <1>5, <2>3
    <3>2. result'[t] = "skipped"
      BY <1>5, <2>1, <2>3
    <3> QED
      BY <2>2, <3>1, <3>2
  <2>4. CASE t \in lost
    <3>1. ends'[t] = Append(<<>>, "skipped") /\ stage'[t] = "settled" /\ ParentOf[t] = p
      BY <1>2, <1>5, <2>4
    <3>2. result'[t] = "none"
      BY <1>5, <2>1, <2>4 DEF rest, Remaining
    <3> QED
      BY <2>2, <3>1, <3>2
  <2>5. CASE t \in ready \ lost
    <3>1. ends'[t] = <<>> /\ stage'[t] = "acquiring" /\ ParentOf[t] = p
      BY <1>2, <1>5, <2>5
    <3>2. result'[t] = "none"
      BY <1>5, <2>1, <2>5 DEF rest, Remaining
    <3> QED
      BY <2>2, <3>1, <3>2
  <2>6. CASE t \notin ready /\ t \notin S
    <3>1. result'[t] = Recorded(p)[t] /\ ends'[t] = ends[t] /\ stage'[t] = stage[t]
      BY <1>5, <2>1, <2>6
    <3>2. ParentOf[t] # p => Recorded(p)[t] = result[t]
      BY <2>1 DEF Recorded, Wave, TasksOf
    <3> QED
      BY <1>2, <2>1, <2>2, <3>1, <3>2 DEF DagInv, EndsMatch
  <2> QED
    BY <1>5, <2>3, <2>4, <2>5, <2>6
<1>10. ReadyFirst'
  <2>1. \A d \in Known : result[d] = "complete" => result'[d] = "complete"
    <3>1. \A d \in S : result[d] = "none"
      BY <1>2, <1>5
    <3> QED
      BY <3>1, <1>2, <1>5
  <2>2. \A t \in Task : \A d \in DependsOn[t] : d \in Known
    BY DEF Known
  <2> SUFFICES ASSUME NEW t \in Task, Underway(t)' \/ attempt'[t] > 0
               PROVE  (\A d \in DependsOn[t] : result'[d] = "complete") /\ Inputs[t] \subseteq bound'
    BY DEF ReadyFirst
  <2>3. CASE t \in ready
    <3>1. t \notin lost
      <4>1. attempt'[t] = 0
        BY <1>2, <1>5, <2>3
      <4>2. stage'[t] # "settled"
        BY <4>1 DEF Underway, HasSlot
      <4> QED
        BY <1>5, <4>2
    <3> QED
      BY <1>5, <2>3, <3>1
  <2>4. CASE t \notin ready
    BY <1>5, <2>1, <2>2, <2>4 DEF DagInv, ReadyFirst, Underway
  <2> QED
    BY <2>3, <2>4
<1>11. FirstAttempt'
  BY <1>2, <1>5 DEF DagInv, FirstAttempt
<1> QED
  BY <1>7, <1>8, <1>9, <1>10, <1>11 DEF DagInv

LEMMA WaveRejectsInv ==
  ASSUME DagInv, NEW p \in Parent, WaveRejects(p)
  PROVE  DagInv'
<1> USE SemaphoreAssumption, DagAssumption
<1>1. /\ dag[p] = "wave" /\ dag' = [dag EXCEPT ![p] = "threw"]
      /\ UNCHANGED <<semVars, result, bound, stage, attempt, raw, childSig, ends, gone>>
  BY DEF WaveRejects
<1>2. DagTypeOK'
  BY <1>1 DEF DagInv, DagTypeOK, DagState
<1>3. SlotsMatch' /\ ReadyFirst' /\ FirstAttempt'
  BY <1>1 DEF DagInv, SlotsMatch, ReadyFirst, FirstAttempt, Underway, semVars
<1>4. EndsMatch'
  BY <1>1 DEF DagInv, DagTypeOK, EndsMatch
<1> QED
  BY <1>2, <1>3, <1>4 DEF DagInv

-------------------------------------------------------------------------------
(* The steps of runChildTask.                                              *)

(* A step of a task's runChildTask call is one of these.                   *)
Advances(t) ==      \* on to another stage with its slot
  /\ stage[t] \in HasSlot \cup {"acquiring"}
  /\ slot[t] = "held"
  /\ \E s \in HasSlot \ {"building"} :
       stage' = [stage EXCEPT ![t] = s] /\ attempt' = attempt
  /\ UNCHANGED <<semVars, ends>>
Enters(t) ==        \* from acquire() on to the prompt
  /\ stage[t] = "acquiring"
  /\ slot[t] = "held"
  /\ stage' = [stage EXCEPT ![t] = "building"]
  /\ UNCHANGED <<semVars, ends, attempt>>
Launches(t) ==      \* a child run starts
  /\ stage[t] \in HasSlot
  /\ ~Aborted(t)
  /\ attempt[t] < MaxAttempts
  /\ stage' = [stage EXCEPT ![t] = "running"]
  /\ attempt' = [attempt EXCEPT ![t] = @ + 1]
  /\ UNCHANGED <<semVars, ends>>
Settles(t) ==       \* dispatch.end, and the slot is given back
  /\ stage[t] \in HasSlot
  /\ \E s \in EndStatus : ends' = [ends EXCEPT ![t] = Append(@, s)]
  /\ stage' = [stage EXCEPT ![t] = "settled"]
  /\ Release(t)
  /\ UNCHANGED attempt
Denied(t) ==        \* dispatch.end without a slot
  /\ stage[t] = "acquiring"
  /\ slot[t] = "rejected"
  /\ ends' = [ends EXCEPT ![t] = Append(@, "aborted")]
  /\ stage' = [stage EXCEPT ![t] = "settled"]
  /\ UNCHANGED <<semVars, attempt>>
Throws(t) ==        \* no dispatch.end, and the slot is given back
  /\ stage[t] \in HasSlot
  /\ stage' = [stage EXCEPT ![t] = "threw"]
  /\ Release(t)
  /\ UNCHANGED <<ends, attempt>>
Rests(t) ==         \* the child run's signal only
  UNCHANGED <<semVars, stage, ends, attempt>>

OneOf(t) ==
  \/ Advances(t) \/ Enters(t) \/ Launches(t) \/ Settles(t)
  \/ Denied(t) \/ Throws(t) \/ Rests(t)

LEMMA NextAttemptCases ==
  ASSUME NEW t \in Task, stage[t] \in HasSlot, attempt[t] < MaxAttempts, NextAttempt(t),
         DagInv
  PROVE  OneOf(t) /\ raw' \in [Task -> RawStatus \cup {"none"}] /\ childSig' \subseteq Task
  BY DEF NextAttempt, SettleWith, OneOf, Settles, Launches, EndStatus, DagInv, DagTypeOK

LEMMA GateFailsCases ==
  ASSUME NEW t \in Task, stage[t] \in HasSlot, GateFails(t), DagInv
  PROVE  OneOf(t) /\ raw' \in [Task -> RawStatus \cup {"none"}] /\ childSig' \subseteq Task
<1>1. CASE attempt[t] < MaxAttempts /\ NextAttempt(t)
  BY <1>1, NextAttemptCases
<1>2. CASE SettleWith(t, "failed") /\ UNCHANGED <<attempt, raw, childSig>>
  BY <1>2 DEF SettleWith, OneOf, Settles, EndStatus, DagInv, DagTypeOK
<1> QED
  BY <1>1, <1>2 DEF GateFails

LEMMA TaskCases ==
  ASSUME DagInv, NEW t \in Task, TaskStep(t) \/ AbortChild(t) \/ TaskThrows(t)
  PROVE  /\ OneOf(t)
         /\ raw' \in [Task -> RawStatus \cup {"none"}] /\ childSig' \subseteq Task
         /\ bound \subseteq bound' /\ bound' \subseteq Known
         /\ UNCHANGED <<dag, result, gone>>
<1> USE SemaphoreAssumption, DagAssumption
<1>1. /\ raw \in [Task -> RawStatus \cup {"none"}] /\ childSig \subseteq Task
      /\ bound \subseteq Known /\ t \in Known
      /\ stage[t] \in HasSlot => slot[t] = "held"
  BY DEF DagInv, DagTypeOK, SlotsMatch, Known
<1>2. CASE SlotDenied(t)
  BY <1>1, <1>2 DEF SlotDenied, OneOf, Denied
<1>3. CASE SlotGranted(t)
  BY <1>1, <1>3 DEF SlotGranted, OneOf, Enters
<1>4. CASE PromptBuilt(t)
  <2>1. stage[t] \in HasSlot /\ attempt[t] = 0
    BY <1>4 DEF PromptBuilt, HasSlot, DagInv, FirstAttempt
  <2>2. attempt[t] < MaxAttempts
    BY <2>1
  <2> QED
    BY <1>1, <1>4, <2>1, <2>2, NextAttemptCases DEF PromptBuilt
<1>5. CASE ChildStops(t)
  <2>1. stage[t] = "running" /\ stage' = [stage EXCEPT ![t] = "finalizing"]
        /\ UNCHANGED <<semVars, dag, result, bound, attempt, childSig, ends, gone>>
    BY <1>5 DEF ChildStops
  <2>2. raw' \in [Task -> RawStatus \cup {"none"}]
    <3>1. \E s \in RawStatus : raw' = [raw EXCEPT ![t] = s]
      BY <1>5 DEF ChildStops, RawStatus
    <3> QED
      BY <1>1, <3>1
  <2> QED
    BY <1>1, <2>1, <2>2 DEF OneOf, Advances, HasSlot
<1>6. CASE ChildResolves(t)
  BY <1>1, <1>6 DEF ChildResolves, SettleWith, OneOf, Advances, Settles, HasSlot, EndStatus
<1>7. CASE Evaluate(t)
  <2>1. stage[t] \in HasSlot
    BY <1>7 DEF Evaluate, HasSlot
  <2>2. UNCHANGED <<dag, result, bound, gone>>
    BY <1>7 DEF Evaluate
  <2>3. CASE GateFails(t)
    BY <1>1, <2>1, <2>2, <2>3, GateFailsCases
  <2>4. CASE ~GateFails(t)
    BY <1>1, <1>7, <2>2, <2>4 DEF Evaluate, SettleWith, OneOf, Advances, Settles, HasSlot, EndStatus
  <2> QED
    BY <2>3, <2>4
<1>8. CASE Pack(t)
  <2>1. stage[t] \in HasSlot
    BY <1>8 DEF Pack, HasSlot
  <2>2. bound \subseteq bound' /\ bound' \subseteq Known /\ UNCHANGED <<dag, result, gone>>
    BY <1>1, <1>8 DEF Pack
  <2>3. CASE GateFails(t)
    BY <1>1, <2>1, <2>2, <2>3, GateFailsCases
  <2>4. CASE ~GateFails(t)
    BY <1>1, <1>8, <2>1, <2>2, <2>4 DEF Pack, SettleWith, OneOf, Settles, EndStatus
  <2> QED
    BY <2>3, <2>4
<1>9. CASE AbortChild(t)
  BY <1>1, <1>9 DEF AbortChild, OneOf, Rests
<1>10. CASE TaskThrows(t)
  BY <1>1, <1>10 DEF TaskThrows, OneOf, Throws
<1> QED
  BY <1>2, <1>3, <1>4, <1>5, <1>6, <1>7, <1>8, <1>9, <1>10 DEF TaskStep, OwnStep

(* What release() does to the slots: the releaser's is given back, and at  *)
(* most one waiter gets it.                                                *)
LEMMA ReleaseSlots ==
  ASSUME SemInv, NEW t \in Task, Release(t)
  PROVE  /\ aborted' = aborted /\ slot'[t] = "released"
         /\ \A u \in Task : u # t => \/ slot'[u] = slot[u]
                                     \/ slot[u] = "waiting" /\ slot'[u] = "held"
<1>1. slot \in [Task -> SlotState] /\ slot[t] = "held" /\ aborted' = aborted
  BY ReleaseCases DEF SemInv, SemTypeOK
<1>2. CASE slot' = [slot EXCEPT ![t] = "released"]
  BY <1>1, <1>2
<1>3. CASE /\ queue[1] \in Waiting /\ queue[1] # t
           /\ slot' = [slot EXCEPT ![t] = "released", ![queue[1]] = "held"]
  <2>1. PICK w \in Task : w = queue[1] /\ slot[w] = "waiting"
    BY <1>3 DEF Waiting
  <2> QED
    BY <1>1, <1>3, <2>1
<1> QED
  BY <1>1, <1>2, <1>3, ReleaseCases

LEMMA TaskInv ==
  ASSUME SemInv, DagInv, NEW t \in Task, TaskStep(t) \/ AbortChild(t) \/ TaskThrows(t)
  PROVE  DagInv'
<1> USE SemaphoreAssumption, DagAssumption
<1>1. /\ OneOf(t)
      /\ raw' \in [Task -> RawStatus \cup {"none"}] /\ childSig' \subseteq Task
      /\ bound \subseteq bound' /\ bound' \subseteq Known
      /\ UNCHANGED <<dag, result, gone>>
  BY TaskCases
<1>2. DagTypeOK
  BY DEF DagInv
<1>3. DagTypeOK'
  <2>1. stage' \in [Task -> Stage]
    BY <1>1, <1>2 DEF OneOf, Advances, Enters, Launches, Settles, Denied, Throws, Rests,
                      DagTypeOK, Stage, HasSlot
  <2>2. ends' \in [Task -> Seq(EndStatus)]
    <3>1. ends' = ends \/ \E s \in EndStatus : ends' = [ends EXCEPT ![t] = Append(@, s)]
      BY <1>1 DEF OneOf, Advances, Enters, Launches, Settles, Denied, Throws, Rests, EndStatus
    <3>2. ends \in [Task -> Seq(EndStatus)]
      BY <1>2 DEF DagTypeOK
    <3>3. \A s \in EndStatus : Append(ends[t], s) \in Seq(EndStatus)
      BY <3>2
    <3>4. ASSUME NEW s \in EndStatus, ends' = [ends EXCEPT ![t] = Append(@, s)]
          PROVE  ends' \in [Task -> Seq(EndStatus)]
      BY <3>2, <3>3, <3>4
    <3> QED
      BY <3>1, <3>2, <3>4
  <2>3. attempt' \in [Task -> 0..MaxAttempts]
    <3>1. \/ attempt' = attempt
          \/ attempt[t] < MaxAttempts /\ attempt' = [attempt EXCEPT ![t] = @ + 1]
      BY <1>1 DEF OneOf, Advances, Enters, Launches, Settles, Denied, Throws, Rests
    <3>2. attempt \in [Task -> 0..MaxAttempts]
      BY <1>2 DEF DagTypeOK
    <3>3. ASSUME attempt[t] < MaxAttempts, attempt' = [attempt EXCEPT ![t] = @ + 1]
          PROVE  attempt' \in [Task -> 0..MaxAttempts]
      <4>1. attempt[t] + 1 \in 0..MaxAttempts
        BY <3>2, <3>3
      <4> QED
        BY <3>2, <3>3, <4>1
    <3> QED
      BY <3>1, <3>2, <3>3
  <2> QED
    BY <1>1, <1>2, <2>1, <2>2, <2>3 DEF DagTypeOK
<1>4. \A u \in Task \ {t} : /\ stage'[u] = stage[u] /\ ends'[u] = ends[u] /\ attempt'[u] = attempt[u]
  BY <1>1, <1>2 DEF OneOf, Advances, Enters, Launches, Settles, Denied, Throws, Rests, DagTypeOK
<1>5. \A u \in Task \ {t} : \/ slot'[u] = slot[u]
                            \/ slot[u] = "waiting" /\ slot'[u] = "held"
  <2>1. CASE Release(t)
    BY <2>1, ReleaseSlots
  <2>2. CASE UNCHANGED semVars
    BY <2>2 DEF semVars
  <2> QED
    BY <1>1, <2>1, <2>2 DEF OneOf, Advances, Enters, Launches, Settles, Denied, Throws, Rests
<1>6. SlotsMatch'
  <2> SUFFICES ASSUME NEW u \in Task
               PROVE  /\ stage'[u] = "idle" => slot'[u] = "none"
                      /\ stage'[u] \in HasSlot => slot'[u] = "held"
                      /\ slot'[u] \in {"held", "waiting"} => stage'[u] \in HasSlot \cup {"acquiring"}
                      /\ slot'[u] = "waiting" => stage'[u] = "acquiring"
    BY DEF SlotsMatch, Underway
  <2>1. CASE u # t
    <3>1. /\ stage'[u] = stage[u]
          /\ \/ slot'[u] = slot[u]
             \/ slot[u] = "waiting" /\ slot'[u] = "held"
      BY <1>4, <1>5, <2>1
    <3> QED
      BY <3>1 DEF DagInv, SlotsMatch, Underway, HasSlot
  <2>2. CASE u = t
    <3>1. CASE Advances(t) \/ Enters(t) \/ Launches(t)
      <4>1. slot'[t] = "held"
        BY <3>1 DEF Advances, Enters, Launches, DagInv, SlotsMatch, semVars
      <4>2. stage'[t] \in HasSlot
        BY <1>2, <3>1 DEF Advances, Enters, Launches, DagTypeOK, HasSlot
      <4> QED
        BY <2>2, <4>1, <4>2 DEF HasSlot
    <3>2. CASE Settles(t) \/ Throws(t)
      <4>1. slot'[t] = "released"
        BY <3>2, ReleaseSlots DEF Settles, Throws
      <4>2. stage'[t] \in {"settled", "threw"}
        BY <1>2, <3>2 DEF Settles, Throws, DagTypeOK
      <4> QED
        BY <2>2, <4>1, <4>2 DEF HasSlot
    <3>3. CASE Denied(t)
      BY <1>2, <2>2, <3>3 DEF Denied, DagTypeOK, HasSlot, semVars
    <3>4. CASE Rests(t)
      BY <2>2, <3>4 DEF Rests, DagInv, SlotsMatch, Underway, semVars
    <3> QED
      BY <1>1, <3>1, <3>2, <3>3, <3>4 DEF OneOf
  <2> QED
    BY <2>1, <2>2
<1>7. EndsMatch'
  <2> SUFFICES ASSUME NEW u \in Task
               PROVE  /\ result[u] # "none" => ends'[u] = <<result[u]>> /\ stage'[u] \in {"idle", "settled"}
                      /\ result[u] = "none" /\ stage'[u] = "settled" => Len(ends'[u]) = 1
                      /\ result[u] = "none" /\ stage'[u] # "settled" => ends'[u] = <<>>
                      /\ dag[ParentOf[u]] = "start" => stage'[u] = "idle" /\ result[u] = "none"
    BY <1>1 DEF EndsMatch
  <2>1. CASE u # t \/ Rests(t)
    <3>1. stage'[u] = stage[u] /\ ends'[u] = ends[u]
      BY <1>4, <2>1 DEF Rests
    <3> QED
      BY <3>1 DEF DagInv, EndsMatch
  <2>2. CASE u = t /\ ~Rests(t)
    <3>1. stage[t] \in HasSlot \cup {"acquiring"}
      BY <1>1, <2>2 DEF OneOf, Advances, Enters, Launches, Settles, Denied, Throws
    <3>2. result[t] = "none" /\ ends[t] = <<>> /\ dag[ParentOf[t]] # "start"
      BY <3>1 DEF DagInv, EndsMatch, HasSlot
    <3>3. CASE Settles(t) \/ Denied(t)
      <4>1. PICK s \in EndStatus : ends' = [ends EXCEPT ![t] = Append(@, s)]
        BY <3>3 DEF Settles, Denied, EndStatus
      <4>2. ends'[t] = Append(<<>>, s) /\ stage'[t] = "settled"
        BY <1>2, <3>2, <3>3, <4>1 DEF Settles, Denied, DagTypeOK
      <4> QED
        BY <2>2, <3>2, <4>2
    <3>4. CASE Advances(t) \/ Enters(t) \/ Launches(t) \/ Throws(t)
      <4>1. ends'[t] = <<>> /\ stage'[t] # "settled"
        BY <1>2, <3>2, <3>4 DEF Advances, Enters, Launches, Throws, DagTypeOK, HasSlot
      <4> QED
        BY <2>2, <3>2, <4>1
    <3> QED
      BY <1>1, <2>2, <3>3, <3>4 DEF OneOf
  <2> QED
    BY <2>1, <2>2
<1>8. ReadyFirst'
  <2> SUFFICES ASSUME NEW u \in Task, Underway(u)' \/ attempt'[u] > 0
               PROVE  (\A d \in DependsOn[u] : result[d] = "complete") /\ Inputs[u] \subseteq bound'
    BY <1>1 DEF ReadyFirst
  <2>1. Underway(u) \/ attempt[u] > 0
    <3>1. CASE u # t \/ Rests(t)
      <4>1. stage'[u] = stage[u] /\ attempt'[u] = attempt[u]
        BY <1>4, <3>1 DEF Rests
      <4> QED
        BY <4>1 DEF Underway
    <3>2. CASE u = t /\ ~Rests(t)
      BY <1>1, <3>2 DEF OneOf, Advances, Enters, Launches, Settles, Denied, Throws, Underway
    <3> QED
      BY <3>1, <3>2
  <2> QED
    BY <1>1, <2>1 DEF DagInv, ReadyFirst
<1>9. FirstAttempt'
  <2> SUFFICES ASSUME NEW u \in Task, stage'[u] \in {"idle", "acquiring", "building"}
               PROVE  attempt'[u] = 0
    BY DEF FirstAttempt
  <2>1. CASE u # t \/ Rests(t)
    <3>1. stage'[u] = stage[u] /\ attempt'[u] = attempt[u]
      BY <1>4, <2>1 DEF Rests
    <3> QED
      BY <3>1 DEF DagInv, FirstAttempt
  <2>2. CASE u = t /\ Enters(t)
    BY <2>2 DEF Enters, DagInv, FirstAttempt
  <2>3. CASE u = t /\ ~Enters(t) /\ ~Rests(t)
    <3>1. stage'[t] \notin {"idle", "acquiring", "building"}
      BY <1>1, <1>2, <2>3 DEF OneOf, Advances, Launches, Settles, Denied, Throws, DagTypeOK, HasSlot
    <3> QED
      BY <2>3, <3>1
  <2> QED
    BY <2>1, <2>2, <2>3
<1> QED
  BY <1>3, <1>6, <1>7, <1>8, <1>9 DEF DagInv

-------------------------------------------------------------------------------
(* Every step, and the theorems.                                           *)

LEMMA InitInv == Init => DagInv
<1> SUFFICES ASSUME Init PROVE DagInv
  OBVIOUS
<1> USE SemaphoreAssumption, DagAssumption
<1>1. PICK seed \in [External -> EndStatus] :
        result = [t \in Known |-> IF t \in External THEN seed[t] ELSE "none"]
  BY DEF Init
<1>2. \A t \in Task : t \in Known /\ t \notin External
  BY DEF Known
<1>3. DagTypeOK
  <2>1. result \in [Known -> EndStatus \cup {"none"}]
    BY <1>1
  <2>2. \A t \in Task : ends[t] = <<>>
    BY DEF Init
  <2>3. <<>> \in Seq(EndStatus)
    OBVIOUS
  <2> QED
    BY <2>1, <2>2, <2>3 DEF Init, DagTypeOK, DagState, Stage, Known
<1>4. SlotsMatch /\ EndsMatch /\ ReadyFirst /\ FirstAttempt
  BY <1>1, <1>2 DEF Init, SemInit, SlotsMatch, EndsMatch, ReadyFirst, FirstAttempt, Underway, HasSlot
<1> QED
  BY <1>3, <1>4 DEF DagInv

(* The dispatch code uses the semaphore as SubAgentSemaphore specifies:    *)
(* each step is a step of the semaphore or leaves it alone.                *)
LEMMA SemaphoreStep == SemInv /\ DagInv /\ [Next]_vars => [SemNext]_semVars
<1> SUFFICES ASSUME SemInv, DagInv, [Next]_vars PROVE [SemNext]_semVars
  OBVIOUS
<1>1. ASSUME NEW p \in Parent, LoopTop(p) PROVE [SemNext]_semVars
  BY <1>1, LoopTopCases
<1>2. ASSUME NEW p \in Parent, StopAborted(p) \/ WaveRejects(p) \/ RunGone(p)
      PROVE  [SemNext]_semVars
  BY <1>2 DEF StopAborted, WaveRejects, RunGone
<1>3. ASSUME NEW p \in Parent, AbortRun(p) PROVE [SemNext]_semVars
  BY <1>3 DEF AbortRun, SemNext
<1>4. ASSUME NEW t \in Task, TaskStep(t) \/ AbortChild(t) \/ TaskThrows(t)
      PROVE  [SemNext]_semVars
  <2>1. OneOf(t)
    BY <1>4, TaskCases
  <2>2. CASE Release(t)
    BY <2>2 DEF SemNext
  <2> QED
    BY <2>1, <2>2 DEF OneOf, Advances, Enters, Launches, Settles, Denied, Throws, Rests
<1>5. CASE UNCHANGED vars
  BY <1>5 DEF vars
<1> QED
  BY <1>1, <1>2, <1>3, <1>4, <1>5 DEF Next, DagStep, Terminating

LEMMA NextInv == SemInv /\ DagInv /\ [Next]_vars => DagInv'
<1> SUFFICES ASSUME SemInv, DagInv, [Next]_vars PROVE DagInv'
  OBVIOUS
<1>1. ASSUME NEW p \in Parent, LoopTop(p) PROVE DagInv'
  BY <1>1, LoopTopInv
<1>2. ASSUME NEW p \in Parent, StopAborted(p) PROVE DagInv'
  BY <1>2, StopAbortedInv
<1>3. ASSUME NEW p \in Parent, WaveRejects(p) PROVE DagInv'
  BY <1>3, WaveRejectsInv
<1>4. ASSUME NEW p \in Parent, RunGone(p) PROVE DagInv'
  BY <1>4 DEF RunGone, DagInv, DagTypeOK, SlotsMatch, EndsMatch, ReadyFirst, FirstAttempt,
              Underway, semVars
<1>5. ASSUME NEW p \in Parent, AbortRun(p) PROVE DagInv'
  <2>1. UNCHANGED dagVars /\ Abort(p)
    BY <1>5 DEF AbortRun
  <2>2. \A t \in Task : \/ slot'[t] = slot[t]
                        \/ slot[t] = "waiting" /\ slot'[t] = "rejected"
    BY <2>1 DEF Abort
  <2>3. SlotsMatch'
    BY <2>1, <2>2 DEF DagInv, SlotsMatch, Underway, HasSlot, dagVars
  <2> QED
    BY <2>1, <2>3 DEF DagInv, DagTypeOK, EndsMatch, ReadyFirst, FirstAttempt, Underway, dagVars
<1>6. ASSUME NEW t \in Task, TaskStep(t) \/ AbortChild(t) \/ TaskThrows(t) PROVE DagInv'
  BY <1>6, TaskInv
<1>7. CASE UNCHANGED vars
  BY <1>7 DEF vars, dagVars, semVars, DagInv, DagTypeOK, SlotsMatch, EndsMatch, ReadyFirst,
              FirstAttempt, Underway
<1> QED
  BY <1>1, <1>2, <1>3, <1>4, <1>5, <1>6, <1>7 DEF Next, DagStep, Terminating

LEMMA DagInvariant == Spec => [](SemInv /\ DagInv)
<1>1. Init => SemInv /\ DagInv
  BY InitInv, SemInitInv DEF Init
<1>2. SemInv /\ DagInv /\ [Next]_vars => (SemInv /\ DagInv)'
  BY SemaphoreStep, SemNextInv, NextInv
<1> QED
  BY <1>1, <1>2, PTL DEF Spec

(* The state of executeDag and runChildTask stays within its types: in     *)
(* particular no task starts more than MaxAttempts child runs.             *)
THEOREM DispatchTypes == Spec => []TypeOK
<1>1. SemInv /\ DagInv => TypeOK
  BY DEF SemInv, DagInv, DagTypeOK, TypeOK
<1> QED
  BY <1>1, DagInvariant, PTL

(* runChildTask holds a slot exactly while it should, on every path out of *)
(* it, so that the child runs of all orchestrator runs stay within         *)
(* MAX_CONCURRENT_SUB_AGENT_RUNS.                                          *)
THEOREM DispatchHoldsSlots == Spec => [](SlotsFollowTasks /\ ChildRunsBounded)
<1>1. SemInv /\ DagInv => SlotsFollowTasks
  BY DEF DagInv, SlotsMatch, SlotsFollowTasks, Underway
<1>2. SemInv /\ DagInv => ChildRunsBounded
  <2> SUFFICES ASSUME SemInv, DagInv
               PROVE  Cardinality({t \in Task : stage[t] \in HasSlot}) <= Limit
    BY DEF ChildRunsBounded
  <2>1. {t \in Task : stage[t] \in HasSlot} \in SUBSET Holders
    BY DEF DagInv, SlotsMatch, Holders
  <2>2. IsFiniteSet(Holders) /\ Cardinality(Holders) \in Nat
    BY HoldersFinite
  <2>3. /\ Cardinality({t \in Task : stage[t] \in HasSlot}) <= Cardinality(Holders)
        /\ Cardinality({t \in Task : stage[t] \in HasSlot}) \in Nat
    BY <2>1, <2>2, FS_Subset, FS_CardinalityType
  <2>4. Cardinality(Holders) <= Limit
    BY DEF SemInv, SlotBound
  <2> QED
    BY <2>2, <2>3, <2>4, SemaphoreAssumption
<1> QED
  BY <1>1, <1>2, DagInvariant, PTL

(* No child run starts before its dependencies are complete and its inputs *)
(* are bound, whatever the shape of the plan.                              *)
THEOREM DispatchInOrder == Spec => []DependenciesFirst
<1>1. DagInv => DependenciesFirst
  BY DEF DagInv, ReadyFirst, DependenciesFirst
<1> QED
  BY <1>1, DagInvariant, PTL

(* dispatch.end is published at most once for a task, and it agrees with   *)
(* the results map, though tasks end in runChildTask, in the skip pass and *)
(* in markRemainingTasksAborted.                                           *)
THEOREM DispatchReportsOnce == Spec => []DispatchEndOnce
<1>1. DagInv => DispatchEndOnce
  <2> SUFFICES ASSUME DagInv, NEW t \in Task
               PROVE  Len(ends[t]) <= 1 /\ (result[t] # "none" => ends[t] = <<result[t]>>)
    BY DEF DispatchEndOnce
  <2>1. result[t] # "none" => ends[t] = <<result[t]>>
    BY DEF DagInv, EndsMatch
  <2>2. ends[t] = <<>> \/ ends[t] = <<result[t]>> \/ Len(ends[t]) = 1
    BY <2>1 DEF DagInv, EndsMatch
  <2>3. Len(<<>>) = 0 /\ Len(<<result[t]>>) = 1
    OBVIOUS
  <2>4. Len(ends[t]) = 0 \/ Len(ends[t]) = 1
    BY <2>2, <2>3
  <2>5. Len(ends[t]) <= 1
    <3>1. 0 <= 1 /\ 1 <= 1
      OBVIOUS
    <3> QED
      BY <2>4, <3>1, Zenon
  <2> QED
    BY <2>1, <2>5
<1> QED
  BY <1>1, DagInvariant, PTL

(* After the abort of the parent run nothing is launched, whichever await  *)
(* the abort falls into.                                                   *)
THEOREM DispatchStopsLaunching == Spec => NoLaunchAfterAbort
<1>1. SemInv /\ DagInv /\ [Next]_vars =>
        [\A t \in Task : attempt'[t] # attempt[t] => ~Aborted(t)]_vars
  <2> SUFFICES ASSUME DagInv, SemInv, Next, NEW t \in Task, attempt'[t] # attempt[t]
               PROVE  ~Aborted(t)
    BY DEF NoLaunchAfterAbort
  <2>1. attempt' # attempt
    OBVIOUS
  <2>2. PICK u \in Task : TaskStep(u) \/ AbortChild(u) \/ TaskThrows(u)
    BY <2>1 DEF Next, DagStep, StopAborted, LoopTop, WaveRejects, RunGone, AbortRun,
                Terminating, vars, dagVars
  <2>3. Launches(u)
    BY <2>1, <2>2, TaskCases DEF OneOf, Advances, Enters, Settles, Denied, Throws, Rests
  <2>4. u = t
    BY <2>3 DEF Launches, DagInv, DagTypeOK
  <2> QED
    BY <2>3, <2>4 DEF Launches
<1> QED
  BY <1>1, DagInvariant, PTL DEF Spec, NoLaunchAfterAbort

(* A result, once recorded, is never rewritten by a later wave, skip pass  *)
(* or abort.                                                               *)
THEOREM DispatchResultsFinal == Spec => ResultsAreFinal
<1>1. SemInv /\ DagInv /\ [Next]_vars =>
        [\A t \in Known : result[t] # "none" => result'[t] = result[t]]_vars
  <2> SUFFICES ASSUME DagInv, SemInv, Next, NEW t \in Known, result[t] # "none"
               PROVE  result'[t] = result[t]
    OBVIOUS
  <2>1. ASSUME NEW p \in Parent, StopAborted(p) PROVE result'[t] = result[t]
    <3>1. /\ AtLoopTop(p)
          /\ result' = [u \in Known |-> IF u \in Remaining(p, Recorded(p)) THEN "aborted"
                                        ELSE Recorded(p)[u]]
      BY <2>1 DEF StopAborted
    <3>2. Recorded(p)[t] = result[t] /\ t \notin Remaining(p, Recorded(p))
      BY <3>1, RecordedProperties
    <3> QED
      BY <3>1, <3>2
  <2>2. ASSUME NEW p \in Parent, LoopTop(p) PROVE result'[t] = result[t]
    <3>1. AtLoopTop(p)
      BY <2>2 DEF LoopTop
    <3>2. PICK S \in SUBSET Remaining(p, Recorded(p)) : result' = AfterSkip(p, S)
      BY <2>2 DEF LoopTop
    <3>3. Recorded(p)[t] = result[t] /\ t \notin Remaining(p, Recorded(p))
      BY <3>1, RecordedProperties
    <3> QED
      BY <3>2, <3>3 DEF AfterSkip
  <2>3. CASE result' = result
    BY <2>3
  <2>4. ASSUME NEW u \in Task, TaskStep(u) \/ AbortChild(u) \/ TaskThrows(u)
        PROVE  result' = result
    BY <2>4, TaskCases
  <2> QED
    BY <2>1, <2>2, <2>3, <2>4 DEF Next, DagStep, WaveRejects, RunGone, AbortRun, Terminating,
                                 vars, dagVars
<1> QED
  BY <1>1, DagInvariant, PTL DEF Spec, ResultsAreFinal

(* The EXECUTE stages are a client of the semaphore: everything proved of  *)
(* SubAgentSemaphore holds of it here, in particular that it implements    *)
(* SlotPool.                                                               *)
THEOREM DispatchImplementsSemaphore == Spec => SemSpec /\ PoolSpec
<1>1. Init => SemInit
  BY DEF Init
<1>2. SemInv /\ DagInv /\ [Next]_vars => [SemNext]_semVars
  BY SemaphoreStep
<1>3. Spec => SemSpec
  BY <1>1, <1>2, DagInvariant, PTL DEF Spec, SemSpec
<1> QED
  BY <1>3, SemaphoreImplementsPool, PTL

-------------------------------------------------------------------------------
(* How EXECUTE stages end: no task is left without its result, and no      *)
(* child run is left behind.                                               *)

(* Every plan lists a task after the tasks of its round it depends on: an  *)
(* order that the validation of a plan does not ask for.                   *)
InOrder ==
  \A p \in Parent : \A t \in TasksOf(p) : \A d \in DependsOn[t] :
    d \in External \/ (d \in TasksOf(p) /\ Before(p, d, t))

AllResults(p) == \A t \in TasksOf(p) : result[t] # "none"
AllQuiet(p)   == \A t \in TasksOf(p) : stage[t] \in Quiet

(* A run leaves activeRuns only after its EXECUTE stage, which returns     *)
(* with all results.  Unless a call threw, the stage ends only between two *)
(* waves, and in a plan in order it always has all results.                *)
Endings ==
  /\ \A e \in External : result[e] # "none"
  /\ \A p \in gone : dag[p] \in {"done", "threw"}
  /\ \A p \in Parent : dag[p] = "done" => AllResults(p)
  /\ \A p \in Parent : dag[p] \in {"done", "threw"} /\ ~Rejected(p) => AllQuiet(p)
  /\ InOrder => \A p \in Parent : dag[p] = "threw" /\ ~Rejected(p) => AllResults(p)

(* A task that is recorded is one that was skipped or has settled, and the *)
(* rest of the plan has not started: between two waves nothing runs.       *)
LEMMA QuietBetweenWaves ==
  ASSUME DagInv, NEW p \in Parent, AtLoopTop(p)
  PROVE  AllQuiet(p)
<1> USE SemaphoreAssumption, DagAssumption
<1> SUFFICES ASSUME NEW t \in TasksOf(p) PROVE stage[t] \in Quiet
  BY DEF AllQuiet
<1>1. t \in Task /\ ParentOf[t] = p
  BY DEF TasksOf
<1>2. CASE result[t] # "none"
  BY <1>1, <1>2 DEF DagInv, EndsMatch, Quiet
<1>3. CASE result[t] = "none" /\ stage[t] # "idle"
  <2>1. t \in Wave(p) /\ dag[p] # "start"
    BY <1>1, <1>3 DEF Wave, DagInv, EndsMatch
  <2> QED
    BY <2>1 DEF AtLoopTop, Quiet
<1>4. CASE stage[t] = "idle"
  BY <1>4 DEF Quiet
<1> QED
  BY <1>2, <1>3, <1>4

(* The smallest number of a set of numbers.                                *)
LEMMA LeastOf ==
  ASSUME NEW T \in SUBSET Nat, T # {}
  PROVE  \E x \in T : \A y \in T : x <= y
<1>1. \A x, y \in Nat : y < x => <<y, x>> \in OpToRel(<, Nat)
  BY DEF OpToRel
<1>2. PICK R : R = OpToRel(<, Nat)
  BY Zenon
<1>3. \E x \in T : \A y \in T : ~(<<y, x>> \in R)
  BY <1>2, NatLessThanWellFounded, WFMin, Zenon
<1>4. \A x, y \in Nat : y < x => <<y, x>> \in R
  BY <1>1, <1>2, Zenon
<1>5. PICK x \in T : \A y \in T : ~(<<y, x>> \in R)
  BY <1>3
<1>6. \A y \in T : x \in Nat /\ y \in Nat /\ ~(y < x)
  BY <1>4, <1>5, Zenon
<1>7. \A y \in T : x <= y
  BY <1>6, SMT
<1> QED
  BY <1>7

(* The first task of the plan that the skip pass leaves has dependencies   *)
(* that all have a result, and a result other than complete would have     *)
(* skipped it: it is ready.                                                *)
LEMMA FirstIsReady ==
  ASSUME DagInv, Endings, InOrder, NEW p \in Parent, AtLoopTop(p),
         NEW S \in SUBSET Remaining(p, Recorded(p)), IsSkipPass(p, Recorded(p), S),
         Remaining(p, AfterSkip(p, S)) # {}
  PROVE  Ready(p, AfterSkip(p, S)) # {}
<1> USE SemaphoreAssumption, DagAssumption
<1> DEFINE res  == AfterSkip(p, S)
           left == Remaining(p, res)
           at   == {i \in 1..Len(Plan[p]) : Plan[p][i] \in left}
<1>1. /\ Plan[p] \in Seq(Task)
      /\ \A t \in TasksOf(p) : \E i \in 1..Len(Plan[p]) : Plan[p][i] = t
      /\ Distinct(Plan[p])
  OBVIOUS
<1>2. at \in SUBSET Nat /\ at # {}
  <2>1. left \subseteq TasksOf(p)
    BY DEF Remaining
  <2>2. PICK u : u \in left
    OBVIOUS
  <2>3. PICK i \in 1..Len(Plan[p]) : Plan[p][i] = u
    BY <1>1, <2>1, <2>2
  <2>4. i \in at
    BY <2>2, <2>3
  <2>5. Len(Plan[p]) \in Nat
    BY <1>1
  <2>6. \A j \in at : j \in Nat
    BY <2>5
  <2> QED
    BY <2>4, <2>6
<1>3. PICK i \in at : \A j \in at : i <= j
  BY <1>2, LeastOf
<1> DEFINE t == Plan[p][i]
<1>4. /\ i \in 1..Len(Plan[p]) /\ Len(Plan[p]) \in Nat
      /\ t \in left /\ t \in TasksOf(p) /\ t \in Task /\ t \in Known
      /\ res[t] = "none" /\ t \notin S /\ Recorded(p)[t] = "none"
  <2>1. i \in 1..Len(Plan[p]) /\ t \in left /\ Len(Plan[p]) \in Nat
    BY <1>1
  <2>2. t \in TasksOf(p) /\ res[t] = "none"
    BY <2>1 DEF Remaining
  <2>3. t \in Task /\ t \in Known
    BY <2>2 DEF TasksOf, Known
  <2>4. t \notin S /\ Recorded(p)[t] = "none"
    BY <2>2, <2>3 DEF AfterSkip
  <2> QED
    BY <2>1, <2>2, <2>3, <2>4
<1>5. ASSUME NEW d \in DependsOn[t] PROVE res[d] = "complete"
  <2>1. d \in Known
    BY <1>4 DEF Known
  <2>2. CASE d \in External
    <3>1. d \notin Task /\ result[d] # "none"
      BY <2>2 DEF Endings
    <3>2. d \notin S /\ Recorded(p)[d] = result[d]
      BY <2>1, <3>1, RecordedProperties DEF Remaining, TasksOf
    <3>3. Recorded(p)[d] = "complete"
      <4>1. t \in Remaining(p, Recorded(p))
        BY <1>4 DEF Remaining
      <4> QED
        BY <1>4, <3>1, <3>2, <4>1 DEF IsSkipPass
    <3> QED
      BY <2>1, <3>2, <3>3 DEF AfterSkip
  <2>3. CASE d \in TasksOf(p) /\ Before(p, d, t)
    <3>1. PICK j, k \in 1..Len(Plan[p]) : j < k /\ Plan[p][j] = d /\ Plan[p][k] = t
      BY <2>3 DEF Before
    <3>2. k = i
      BY <1>1, <1>4, <3>1 DEF Distinct
    <3>3. j \notin at
      BY <1>3, <1>4, <3>1, <3>2
    <3>4. res[d] # "none"
      BY <2>3, <3>1, <3>3 DEF Remaining
    <3>5. t \in Remaining(p, Recorded(p))
      BY <1>4 DEF Remaining
    <3>6. d \notin S
      BY <1>4, <2>3, <3>5 DEF IsSkipPass
    <3>7. res[d] = Recorded(p)[d]
      BY <2>1, <3>6 DEF AfterSkip
    <3> QED
      BY <1>4, <3>4, <3>5, <3>7 DEF IsSkipPass
  <2> QED
    BY <1>4, <2>2, <2>3 DEF InOrder
<1>6. t \in Ready(p, res)
  BY <1>4, <1>5 DEF Ready
<1> QED
  BY <1>6

(* A call that is over stays so, also one that threw.                      *)
LEMMA TaskRest ==
  ASSUME DagInv, NEW t \in Task, TaskStep(t) \/ AbortChild(t) \/ TaskThrows(t)
  PROVE  /\ UNCHANGED <<dag, result, gone>>
         /\ \A u \in Task : stage[u] \in Quiet => stage'[u] = stage[u]
<1>1. OneOf(t) /\ UNCHANGED <<dag, result, gone>>
  BY TaskCases
<1>2. stage \in [Task -> Stage]
  BY DEF DagInv, DagTypeOK
<1> QED
  BY <1>1, <1>2 DEF OneOf, Advances, Enters, Launches, Settles, Denied, Throws, Rests,
                    HasSlot, Quiet

LEMMA TaskEndings ==
  ASSUME DagInv, Endings, NEW t \in Task, TaskStep(t) \/ AbortChild(t) \/ TaskThrows(t)
  PROVE  Endings'
<1>1. /\ UNCHANGED <<dag, result, gone>>
      /\ \A u \in Task : stage[u] \in Quiet => stage'[u] = stage[u]
  BY TaskRest
<1>2. \A p \in Parent : Rejected(p) => Rejected(p)'
  BY <1>1 DEF Rejected, TasksOf, Quiet
<1>3. \A p \in Parent : AllQuiet(p) => AllQuiet(p)'
  BY <1>1 DEF AllQuiet, TasksOf
<1>4. \A p \in Parent : AllResults(p) => AllResults(p)'
  BY <1>1 DEF AllResults
<1> QED
  BY <1>1, <1>2, <1>3, <1>4 DEF Endings

LEMMA WaveRejectsEndings ==
  ASSUME DagInv, Endings, NEW p \in Parent, WaveRejects(p)
  PROVE  Endings'
<1>1. Rejected(p)
  BY DEF WaveRejects, Wave, Rejected
<1>2. /\ dag[p] = "wave" /\ dag' = [dag EXCEPT ![p] = "threw"]
      /\ UNCHANGED <<result, stage, gone>> /\ dag \in [Parent -> DagState]
  BY DEF WaveRejects, DagInv, DagTypeOK
<1>3. \A q \in Parent : /\ Rejected(q)' <=> Rejected(q)
                        /\ AllQuiet(q)' <=> AllQuiet(q)
                        /\ AllResults(q)' <=> AllResults(q)
  BY <1>2 DEF Rejected, AllQuiet, AllResults
<1> QED
  BY <1>1, <1>2, <1>3 DEF Endings, DagInv, DagTypeOK

(* A step at the end of a wave changes the state of one run's stage and    *)
(* only adds results.                                                      *)
LEMMA StageStep ==
  ASSUME DagInv, Endings, NEW p \in Parent, NEW d,
         \A q \in Parent : dag'[q] = IF q = p THEN d ELSE dag[q],
         gone' = gone, p \notin gone,
         \A e \in External : result'[e] # "none",
         \A q \in Parent : AllResults(q) => AllResults(q)',
         \A q \in Parent \ {p} : AllQuiet(q) => AllQuiet(q)',
         \A q \in Parent : Rejected(q) => Rejected(q)',
         d = "done" => AllResults(p)' /\ AllQuiet(p)',
         d = "threw" => AllQuiet(p)' /\ (InOrder => AllResults(p)')
  PROVE  Endings'
<1>1. \A q \in gone' : dag'[q] \in {"done", "threw"}
  BY DEF Endings, DagInv, DagTypeOK
<1>2. ASSUME NEW q \in Parent, dag'[q] = "done" PROVE AllResults(q)'
  BY <1>2 DEF Endings
<1>3. ASSUME NEW q \in Parent, dag'[q] \in {"done", "threw"}, ~Rejected(q)' PROVE AllQuiet(q)'
  BY <1>3 DEF Endings
<1>4. ASSUME InOrder, NEW q \in Parent, dag'[q] = "threw", ~Rejected(q)' PROVE AllResults(q)'
  BY <1>4 DEF Endings
<1> QED
  BY <1>1, <1>2, <1>3, <1>4 DEF Endings

(* markRemainingTasksAborted leaves no task without a result.              *)
LEMMA StopAbortedEndings ==
  ASSUME DagInv, Endings, NEW p \in Parent, StopAborted(p)
  PROVE  Endings'
<1> USE SemaphoreAssumption, DagAssumption
<1> DEFINE rest == Remaining(p, Recorded(p))
<1>1. /\ AtLoopTop(p)
      /\ result' = [t \in Known |-> IF t \in rest THEN "aborted" ELSE Recorded(p)[t]]
      /\ dag' = [dag EXCEPT ![p] = "threw"] /\ dag \in [Parent -> DagState]
      /\ UNCHANGED <<stage, gone>>
  BY DEF StopAborted, DagInv, DagTypeOK
<1>2. /\ \A t \in Known : result[t] # "none" => Recorded(p)[t] = result[t]
      /\ \A t \in rest : t \in Task /\ result[t] = "none"
  BY <1>1, RecordedProperties
<1>3. \A t \in Known : result[t] # "none" => result'[t] # "none"
  BY <1>1, <1>2
<1>4. AllResults(p)'
  <2>1. \A t \in TasksOf(p) : t \in Known /\ (t \in rest \/ Recorded(p)[t] # "none")
    BY DEF Remaining, TasksOf, Known
  <2> QED
    BY <1>1, <2>1 DEF AllResults
<1>5. \A q \in Parent : AllResults(q) => AllResults(q)'
  BY <1>3 DEF AllResults, TasksOf, Known
<1>6. \A q \in Parent : AllQuiet(q) => AllQuiet(q)'
  BY <1>1 DEF AllQuiet
<1>7. AllQuiet(p) /\ p \notin gone
  BY <1>1, QuietBetweenWaves DEF Endings, AtLoopTop
<1>8. \A q \in Parent : dag'[q] = IF q = p THEN "threw" ELSE dag[q]
  BY <1>1
<1>9. \A e \in External : result'[e] # "none"
  BY <1>3 DEF Endings, Known
<1>10. \A q \in Parent : Rejected(q) => Rejected(q)'
  BY <1>1 DEF Rejected
<1> HIDE DEF rest
<1> QED
  BY <1>1, <1>4, <1>5, <1>6, <1>7, <1>8, <1>9, <1>10, StageStep

(* Between two waves the stage ends with all results, starts a wave, or    *)
(* stops with tasks left, which a plan in order rules out.                 *)
LEMMA LoopTopEndings ==
  ASSUME SemInv, DagInv, Endings, NEW p \in Parent, LoopTop(p)
  PROVE  Endings'
<1> USE SemaphoreAssumption, DagAssumption
<1>1. PICK S \in SUBSET Remaining(p, Recorded(p)) :
        /\ IsSkipPass(p, Recorded(p), S)
        /\ result' = AfterSkip(p, S)
        /\ Finish(p, S) \/ StopUnresolved(p, S) \/ StartWave(p, S)
  BY DEF LoopTop
<1>2. AtLoopTop(p) /\ gone' = gone
  BY DEF LoopTop
<1>3. /\ \A t \in Known : result[t] # "none" => Recorded(p)[t] = result[t]
      /\ \A t \in Remaining(p, Recorded(p)) : t \in Task /\ stage[t] = "idle" /\ result[t] = "none"
  BY <1>2, RecordedProperties
<1>4. \A t \in Known : result[t] # "none" => result'[t] # "none"
  BY <1>1, <1>3 DEF AfterSkip
<1>5. \A q \in Parent : AllResults(q) => AllResults(q)'
  BY <1>4 DEF AllResults, TasksOf, Known
<1>6. \A e \in External : result'[e] # "none"
  BY <1>4 DEF Endings, Known
<1>7. dag \in [Parent -> DagState] /\ stage \in [Task -> Stage]
  BY DEF DagInv, DagTypeOK
<1>8. p \notin gone \/ dag[p] \in {"done", "threw"}
  BY DEF Endings
<1>9. p \notin gone
  BY <1>2, <1>8 DEF AtLoopTop
<1>10. CASE Finish(p, S)
  <2>1. /\ \A q \in Parent : dag'[q] = IF q = p THEN "done" ELSE dag[q]
        /\ stage' = stage
    BY <1>7, <1>10 DEF Finish
  <2>2. AllResults(p)'
    BY <1>1, <1>10 DEF Finish, Remaining, AllResults
  <2>3. \A q \in Parent : AllQuiet(q) => AllQuiet(q)'
    BY <2>1 DEF AllQuiet
  <2>4. AllQuiet(p)
    BY <1>2, QuietBetweenWaves
  <2>5. \A q \in Parent : Rejected(q) => Rejected(q)'
    BY <2>1 DEF Rejected
  <2> QED
    BY <1>2, <1>5, <1>6, <1>9, <2>1, <2>2, <2>3, <2>4, <2>5, StageStep
<1>11. CASE StopUnresolved(p, S)
  <2>1. /\ \A q \in Parent : dag'[q] = IF q = p THEN "threw" ELSE dag[q]
        /\ stage' = stage
    BY <1>7, <1>11 DEF StopUnresolved
  <2>2. ~InOrder
    BY <1>1, <1>2, <1>11, FirstIsReady DEF StopUnresolved
  <2>3. \A q \in Parent : AllQuiet(q) => AllQuiet(q)'
    BY <2>1 DEF AllQuiet
  <2>4. AllQuiet(p)
    BY <1>2, QuietBetweenWaves
  <2>5. \A q \in Parent : Rejected(q) => Rejected(q)'
    BY <2>1 DEF Rejected
  <2> QED
    BY <1>2, <1>5, <1>6, <1>9, <2>1, <2>2, <2>3, <2>4, <2>5, StageStep
<1>12. CASE StartWave(p, S)
  <2>1. /\ \A q \in Parent : dag'[q] = IF q = p THEN "wave" ELSE dag[q]
        /\ \A t \in Task : \/ stage'[t] = stage[t]
                           \/ t \in TasksOf(p) /\ stage[t] = "idle"
                              /\ stage'[t] \in {"settled", "acquiring"}
    <3>1. /\ stage' = [t \in Task |->
                IF t \in {u \in Ready(p, AfterSkip(p, S)) : MissingInput(u)} THEN "settled"
                ELSE IF t \in Ready(p, AfterSkip(p, S)) THEN "acquiring" ELSE stage[t]]
          /\ dag' = [dag EXCEPT ![p] = "wave"]
      BY <1>12 DEF StartWave
    <3>2. \A t \in Ready(p, AfterSkip(p, S)) : t \in TasksOf(p) /\ stage[t] = "idle"
      <4> SUFFICES ASSUME NEW t \in Ready(p, AfterSkip(p, S))
                   PROVE  t \in TasksOf(p) /\ stage[t] = "idle"
        OBVIOUS
      <4>1. t \in TasksOf(p) /\ AfterSkip(p, S)[t] = "none"
        BY DEF Ready, Remaining
      <4>2. t \in Known
        BY <4>1 DEF TasksOf, Known
      <4>3. t \in Remaining(p, Recorded(p))
        BY <4>1, <4>2 DEF AfterSkip, Remaining
      <4> QED
        BY <1>3, <4>1, <4>3
    <3> QED
      BY <1>7, <3>1, <3>2
  <2>2. \A q \in Parent \ {p} : AllQuiet(q) => AllQuiet(q)'
    BY <2>1 DEF AllQuiet, TasksOf
  <2>3. \A q \in Parent : Rejected(q) => Rejected(q)'
    BY <2>1 DEF Rejected, TasksOf
  <2> QED
    BY <1>2, <1>5, <1>6, <1>9, <2>1, <2>2, <2>3, StageStep
<1> QED
  BY <1>1, <1>10, <1>11, <1>12

LEMMA InitEndings == Init => Endings
<1> SUFFICES ASSUME Init PROVE Endings
  OBVIOUS
<1>1. PICK seed \in [External -> EndStatus] :
        result = [t \in Known |-> IF t \in External THEN seed[t] ELSE "none"]
  BY DEF Init
<1>2. \A e \in External : result[e] # "none"
  BY <1>1 DEF Known, EndStatus
<1> QED
  BY <1>2 DEF Init, Endings

LEMMA NextEndings == SemInv /\ DagInv /\ Endings /\ [Next]_vars => Endings'
<1> SUFFICES ASSUME SemInv, DagInv, Endings, [Next]_vars PROVE Endings'
  OBVIOUS
<1>1. ASSUME NEW p \in Parent, StopAborted(p) PROVE Endings'
  BY <1>1, StopAbortedEndings
<1>2. ASSUME NEW p \in Parent, LoopTop(p) PROVE Endings'
  BY <1>2, LoopTopEndings
<1>3. ASSUME NEW p \in Parent, WaveRejects(p) PROVE Endings'
  BY <1>3, WaveRejectsEndings
<1>4. ASSUME NEW p \in Parent, RunGone(p) PROVE Endings'
  <2>1. /\ dag[p] \in {"done", "threw"} /\ gone' = gone \cup {p}
        /\ UNCHANGED <<dag, result, stage>>
    BY <1>4 DEF RunGone
  <2> QED
    BY <2>1 DEF Endings, AllResults, AllQuiet, Rejected
<1>5. ASSUME NEW p \in Parent, AbortRun(p) PROVE Endings'
  BY <1>5 DEF AbortRun, dagVars, Endings, AllResults, AllQuiet, Rejected
<1>6. ASSUME NEW t \in Task, TaskStep(t) \/ AbortChild(t) \/ TaskThrows(t) PROVE Endings'
  BY <1>6, TaskEndings
<1>7. CASE UNCHANGED vars
  BY <1>7 DEF vars, dagVars, Endings, AllResults, AllQuiet, Rejected
<1> QED
  BY <1>1, <1>2, <1>3, <1>4, <1>5, <1>6, <1>7 DEF Next, DagStep, Terminating

LEMMA EndingsInvariant == Spec => [](DagInv /\ Endings)
<1>1. Init => Endings
  BY InitEndings
<1>2. SemInv /\ DagInv /\ Endings /\ [Next]_vars => Endings'
  BY NextEndings
<1> QED
  BY <1>1, <1>2, DagInvariant, PTL DEF Spec

(* executeDag never returns with a task of the plan left without a result, *)
(* whatever the plan, the aborts and the calls that throw.                 *)
THEOREM DispatchReturnsAll ==
  Spec => [](\A p \in Parent : dag[p] = "done" => \A t \in TasksOf(p) : result[t] # "none")
<1>1. Endings => \A p \in Parent : dag[p] = "done" => \A t \in TasksOf(p) : result[t] # "none"
  BY DEF Endings, AllResults
<1> QED
  BY <1>1, EndingsInvariant, PTL

(* An orchestrator run that has left activeRuns leaves no child run        *)
(* behind, aborted or not, whatever threw in other runs; only a call of    *)
(* its own that threw can.                                                 *)
THEOREM DispatchLeavesNoOrphans == Spec => []NoOrphans
<1>1. DagInv /\ Endings => NoOrphans
  BY DEF DagInv, DagTypeOK, Endings, AllQuiet, NoOrphans
<1> QED
  BY <1>1, EndingsInvariant, PTL

(* When tasks follow their dependencies in every plan, a stage that throws *)
(* because of an abort, and not because a call threw, has accounted for    *)
(* every task, as one that returns.                                        *)
THEOREM DispatchAccounts ==
  ASSUME InOrder
  PROVE  Spec => []EveryTaskAccounted
<1>1. Endings => EveryTaskAccounted
  BY DEF Endings, AllResults, EveryTaskAccounted
<1> QED
  BY <1>1, EndingsInvariant, PTL

(* In such plans the stage does not stop with tasks left unless a call     *)
(* threw: each one downstream of a failure has been skipped.               *)
THEOREM DispatchSkipsDownstream ==
  ASSUME InOrder
  PROVE  Spec => []SkipReachesDownstream
<1>1. Endings => SkipReachesDownstream
  BY DEF Endings, AllResults, SkipReachesDownstream
<1> QED
  BY <1>1, EndingsInvariant, PTL
===============================================================================
