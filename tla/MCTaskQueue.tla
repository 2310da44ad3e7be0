------------------------------ MODULE MCTaskQueue ------------------------------
(* Two calls and a workflow node, two resources: calls, items and plans    *)
(* are told apart by equality only.                                        *)
EXTENDS TaskQueue, TLC

MCSymmetry == Permutations(Item) \cup Permutations(Call) \cup Permutations(Plan)
MCNeed == {{CHOOSE r \in Resource : TRUE}, Resource}
===============================================================================
