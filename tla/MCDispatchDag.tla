------------------------------ MODULE MCDispatchDag ------------------------------
(* Two orchestrator runs compete for slots.  Run p has a plan with a join: *)
(* c needs a and b, and an artifact of a; the tasks d and f of run q are a *)
(* chain that builds on a task of an earlier round.                        *)
EXTENDS DispatchDag

MCTask == {"a", "b", "c", "d", "f"}
MCParent == {"p", "q"}
MCParentOf == [t \in MCTask |-> IF t \in {"d", "f"} THEN "q" ELSE "p"]
MCExternal == {"e"}
MCPlan == [p \in MCParent |-> IF p = "p" THEN <<"a", "b", "c">> ELSE <<"d", "f">>]
MCDependsOn == [t \in MCTask |-> CASE t = "c" -> {"a", "b"}
                                   [] t = "d" -> {"e"}
                                   [] t = "f" -> {"d"}
                                   [] OTHER -> {}]
MCInputs == [t \in MCTask |-> CASE t = "c" -> {"a"}
                                [] t = "d" -> {"e"}
                                [] OTHER -> {}]
MCFaulty == {"a"}

(* Retries and failures over a single slot: one task in run p, and in run  *)
(* q the chain listed in the reverse of the dependency order.              *)
FewTask == {"a", "d", "f"}
FewParentOf == [t \in FewTask |-> IF t = "a" THEN "p" ELSE "q"]
FewPlan == [p \in MCParent |-> IF p = "p" THEN <<"a">> ELSE <<"f", "d">>]
FewDependsOn == [t \in FewTask |-> CASE t = "d" -> {"e"}
                                     [] t = "f" -> {"d"}
                                     [] OTHER -> {}]

(* One run with a chain, listed in dependency order and in the reverse.    *)
ChainTask == {"a", "b", "c"}
ChainParent == {"p"}
ChainParentOf == [t \in ChainTask |-> "p"]
ChainPlan == [p \in ChainParent |-> <<"a", "b", "c">>]
ReversedPlan == [p \in ChainParent |-> <<"c", "b", "a">>]
ChainDependsOn == [t \in ChainTask |-> CASE t = "a" -> {}
                                         [] t = "b" -> {"a"}
                                         [] t = "c" -> {"b"}]
ChainInputs == [t \in ChainTask |-> {}]
===============================================================================
