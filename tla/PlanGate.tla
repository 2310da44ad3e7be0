-------------------------------- MODULE PlanGate --------------------------------
(***************************************************************************)
(* What the review gate promises: a run executes a plan only when a user   *)
(* has granted it while it was on the table, a grant serves one execution, *)
(* and a plan taken off the table is not executed.  What is granted is the *)
(* plan shown or a stricter form of it.                                    *)
(***************************************************************************)
CONSTANTS Run, Plan, NoPlan,
          Stricter     \* the forms of each plan that a grant may stand for

VARIABLES shown,     \* the plan each run has on the table
          granted,   \* the plan that was granted and not yet launched
          running    \* the plan in execution

gateVars == <<shown, granted, running>>

Idle(r) == shown[r] = NoPlan /\ granted[r] = NoPlan /\ running[r] = NoPlan

Init ==
  /\ shown = [r \in Run |-> NoPlan]
  /\ granted = [r \in Run |-> NoPlan]
  /\ running = [r \in Run |-> NoPlan]

Show(r, p) ==
  /\ Idle(r)
  /\ shown' = [shown EXCEPT ![r] = p]
  /\ UNCHANGED <<granted, running>>

Grant(r, p) ==
  /\ shown[r] # NoPlan /\ p \in Stricter[shown[r]]
  /\ granted' = [granted EXCEPT ![r] = p]
  /\ shown' = [shown EXCEPT ![r] = NoPlan]
  /\ UNCHANGED running

TakeBack(r) ==
  /\ shown[r] # NoPlan
  /\ shown' = [shown EXCEPT ![r] = NoPlan]
  /\ UNCHANGED <<granted, running>>

Launch(r) ==
  /\ granted[r] # NoPlan
  /\ running' = [running EXCEPT ![r] = granted[r]]
  /\ granted' = [granted EXCEPT ![r] = NoPlan]
  /\ UNCHANGED shown

Land(r) ==
  /\ running[r] # NoPlan
  /\ running' = [running EXCEPT ![r] = NoPlan]
  /\ UNCHANGED <<shown, granted>>

Next == \E r \in Run :
  \/ \E p \in Plan : Show(r, p) \/ Grant(r, p)
  \/ TakeBack(r) \/ Launch(r) \/ Land(r)

Spec == Init /\ [][Next]_gateVars
===============================================================================
