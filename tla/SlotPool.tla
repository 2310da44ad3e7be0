------------------------------- MODULE SlotPool -------------------------------
(***************************************************************************)
(* What the semaphore of src/src/server/agent-runner.ts promises to the    *)
(* tasks that share it, without its counter, its FIFO queue or its         *)
(* listeners: at most Limit tasks hold a slot, nobody waits while a slot   *)
(* is free, a slot that is given back goes straight to a waiter when there *)
(* is one, and an abort withdraws the waiters it concerns and no holder.   *)
(***************************************************************************)
EXTENDS Integers, FiniteSets

CONSTANTS Task,     \* the tasks that ask for a slot, each once
          Limit     \* the number of slots

VARIABLES holders,  \* the tasks that hold a slot
          waiting,  \* the tasks whose request is pending
          gone      \* the tasks that gave their slot back or were turned away

poolVars == <<holders, waiting, gone>>

Outside == Task \ (holders \cup waiting \cup gone)

Init ==
  /\ holders = {}
  /\ waiting = {}
  /\ gone = {}

(* A block of requests made together: as many as there are free slots are  *)
(* served, the others wait; either every slot is taken or nobody is left.  *)
Enter(served, parked) ==
  /\ served \cup parked \subseteq Outside
  /\ served \cap parked = {}
  /\ Cardinality(holders \cup served) <= Limit
  /\ parked # {} => Cardinality(holders \cup served) = Limit
  /\ holders' = holders \cup served
  /\ waiting' = waiting \cup parked
  /\ UNCHANGED gone

(* A slot is given back.  With a waiter it changes hands in the same step. *)
Leave(t) ==
  /\ t \in holders
  /\ gone' = gone \cup {t}
  /\ \/ /\ waiting = {}
        /\ holders' = holders \ {t}
        /\ UNCHANGED waiting
     \/ \E w \in waiting :
          /\ holders' = (holders \ {t}) \cup {w}
          /\ waiting' = waiting \ {w}

(* Requests are withdrawn, or refused on arrival: no slot changes hands.   *)
Withdraw(leaving) ==
  /\ leaving \subseteq waiting \cup Outside
  /\ waiting' = waiting \ leaving
  /\ gone' = gone \cup leaving
  /\ UNCHANGED holders

Next ==
  \/ \E served, parked \in SUBSET Task : Enter(served, parked)
  \/ \E t \in Task : Leave(t)
  \/ \E leaving \in SUBSET Task : Withdraw(leaving)

Spec == Init /\ [][Next]_poolVars
===============================================================================
