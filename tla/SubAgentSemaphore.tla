--------------------------- MODULE SubAgentSemaphore ---------------------------
(***************************************************************************)
(* The process-wide semaphore that bounds the child runs of all            *)
(* orchestrator runs: class Semaphore of src/src/server/agent-runner.ts    *)
(* and its one instance, subAgentRunSemaphore.  Every dispatched task asks *)
(* for one slot (runChildTask) under the AbortSignal of its parent run.    *)
(*                                                                         *)
(* JavaScript runs a synchronous block to its end, so acquire(), release() *)
(* and the dispatch of an abort event are one step each.                   *)
(***************************************************************************)
EXTENDS Integers, Sequences, FiniteSets

CONSTANTS Task,      \* the dispatched tasks; each calls acquire() at most once
          Parent,    \* the orchestrator runs; each owns one AbortSignal
          ParentOf,  \* the run a task was dispatched by
          Limit      \* MAX_CONCURRENT_SUB_AGENT_RUNS

ASSUME SemaphoreAssumption ==
  /\ IsFiniteSet(Task)
  /\ ParentOf \in [Task -> Parent]
  /\ Limit \in Nat \ {0}

VARIABLES active,    \* Semaphore.active
          queue,     \* Semaphore.queue: the waiters, oldest first
          slot,      \* how far the task's acquire() call and its release() are
          aborted    \* the runs whose signal is aborted

semVars == <<active, queue, slot, aborted>>

SlotState == {"none", "waiting", "held", "released", "rejected"}

Holders == {t \in Task : slot[t] = "held"}
Waiting == {t \in Task : slot[t] = "waiting"}

TasksOf(p) == {t \in Task : ParentOf[t] = p}
Aborted(t) == ParentOf[t] \in aborted

(* Array.filter: the elements of q that are in S, in the order of q.  A    *)
(* set with one element, written without recursion so that proofs can use  *)
(* its definition.                                                         *)
Filtered(q, S) ==
  LET keep  == {i \in 1..Len(q) : q[i] \in S}
      order == {f \in [1..Cardinality(keep) -> keep] :
                  \A i, j \in 1..Cardinality(keep) : i < j => f[i] < f[j]}
  IN  {[i \in 1..Cardinality(keep) |-> q[f[i]]] : f \in order}

SemInit ==
  /\ active = 0
  /\ queue = <<>>
  /\ slot = [t \in Task |-> "none"]
  /\ aborted = {}

-------------------------------------------------------------------------------
(* acquire(signal), called in one synchronous block for each task of the   *)
(* sequence calls.  An aborted signal refuses the call; while a slot is    *)
(* free it is taken; otherwise the call queues.                            *)
FreeOneTooMany == Limit + 1 - active          \* mutant: active <= limit
Free == Limit - active

Acquire(calls) ==
  LET taken == IF Len(calls) <= Free THEN Len(calls) ELSE Free
  IN  /\ \A i \in 1..Len(calls) : slot[calls[i]] = "none" /\ ~Aborted(calls[i])
      /\ active' = active + taken
      /\ queue' = queue \o SubSeq(calls, taken + 1, Len(calls))
      /\ slot' = [t \in Task |->
                    IF \E i \in 1..taken : calls[i] = t THEN "held"
                    ELSE IF \E i \in (taken + 1)..Len(calls) : calls[i] = t
                         THEN "waiting"
                         ELSE slot[t]]
      /\ UNCHANGED aborted

(* drain(): shift waiters until every slot is taken or the queue is empty; *)
(* a waiter whose signal is aborted is dropped, any other gets the slot.   *)
(* k counts the waiters shifted by a release that leaves a active.         *)
Served(k) == {i \in 1..k : ~Aborted(queue[i])}
NoDrain(a, k) == TRUE                         \* mutant: no drain() call
DrainStops(a, k) == a + Cardinality(Served(k)) >= Limit \/ k = Len(queue)

(* The release function of createRelease(): it acts the first time it is   *)
(* called, frees the slot and drains the queue.                            *)
OwnsSlot(t) == slot[t] = "held"

Release(t) ==
  /\ OwnsSlot(t)
  /\ \E k \in 0..Len(queue) :
       /\ DrainStops(active - 1, k)
       /\ \A j \in 0..(k - 1) : ~DrainStops(active - 1, j)
       /\ active' = active - 1 + Cardinality(Served(k))
       /\ queue' = SubSeq(queue, k + 1, Len(queue))
       /\ slot' = [u \in Task |->
                     IF u = t THEN "released"
                     ELSE IF \E i \in Served(k) : queue[i] = u THEN "held"
                     ELSE slot[u]]
  /\ UNCHANGED aborted

(* The run's AbortController fires: the onAbort listener of each of its    *)
(* waiters takes the waiter out of the queue and rejects the call.         *)
AbortUnheard(p) ==                            \* mutant: no onAbort listener
  /\ p \notin aborted
  /\ aborted' = aborted \cup {p}
  /\ UNCHANGED <<active, queue, slot>>

Abort(p) ==
  /\ p \notin aborted
  /\ aborted' = aborted \cup {p}
  /\ queue' \in Filtered(queue, {t \in Task : ParentOf[t] # p})
  /\ slot' = [t \in Task |->
                IF ParentOf[t] = p /\ slot[t] = "waiting" THEN "rejected"
                ELSE slot[t]]
  /\ UNCHANGED active

(* A call under a signal that is aborted already rejects at once.          *)
Refuse(t) ==
  /\ slot[t] = "none"
  /\ Aborted(t)
  /\ slot' = [slot EXCEPT ![t] = "rejected"]
  /\ UNCHANGED <<active, queue, aborted>>

Distinct(q) == \A i, j \in 1..Len(q) : q[i] = q[j] => i = j

SemNext ==
  \/ \E n \in 1..Cardinality(Task) : \E calls \in [1..n -> Task] :
       Distinct(calls) /\ Acquire(calls)
  \/ \E t \in Task : Release(t) \/ Refuse(t)
  \/ \E p \in Parent : Abort(p)

SemSpec == SemInit /\ [][SemNext]_semVars
-------------------------------------------------------------------------------
(* Properties.                                                             *)

(* Types of the semaphore's fields and of the acquire() calls.             *)
SemTypeOK ==
  /\ active \in Nat
  /\ queue \in Seq(Task)
  /\ slot \in [Task -> SlotState]
  /\ aborted \subseteq Parent

(* The counter the class keeps is the number of slots that are really out, *)
(* and it never passes the limit, whatever releases and aborts interleave. *)
SlotBound ==
  /\ active = Cardinality(Holders)
  /\ active <= Limit

(* No lost wakeup: a caller queues only while every slot is taken, and the *)
(* queue holds exactly the pending calls, each once, none of them aborted. *)
NoIdleSlot ==
  /\ queue # <<>> => active = Limit
  /\ Distinct(queue)
  /\ Waiting = {queue[i] : i \in 1..Len(queue)}
  /\ \A t \in Waiting : ~Aborted(t)

(* The semaphore implements the slot pool.                                 *)
Pool == INSTANCE SlotPool WITH
          holders <- Holders,
          waiting <- Waiting,
          gone    <- {t \in Task : slot[t] \in {"released", "rejected"}}
PoolSpec == Pool!Spec
===============================================================================
