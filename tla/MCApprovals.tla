------------------------------ MODULE MCApprovals ------------------------------
(* Two tasks on the custom adapter and one on the SDK; versions of a file  *)
(* are told apart by equality only.  One of the two is retried.            *)
EXTENDS Approvals, TLC

MCSymmetry == Permutations(Content) \cup Permutations(Task \ SdkTask)

OneRetry == /\ Cardinality({t \in Task : attempt[t] > 1}) <= 1
            /\ \A t \in SdkTask : attempt[t] = 1
===============================================================================
