--------------------------- MODULE MCOrchestratorRun ---------------------------
(* Plans of tasks a and b: one alone; both in parallel, where b reviews;   *)
(* a after b, which reviews a; b after a of the same or an earlier round;  *)
(* a after b of an earlier round; one that is refused.                     *)
EXTENDS OrchestratorRun

Doing(id, kind) == [id |-> id, agent |-> "worker", deps |-> {}, twice |-> FALSE, needs |-> {},
                    outs |-> {}, kind |-> kind, says |-> PlainText]
A == Doing("a", "code")
B == Doing("b", "other")
ReviewB == [B EXCEPT !.says.review = TRUE]
BAfterA == [B EXCEPT !.needs = {[from |-> "a", out |-> 1]}]
AAfterB == [A EXCEPT !.deps = {"b"}]

MCRawPlan == {<<A>>, <<A, ReviewB>>, <<AAfterB, ReviewB>>, <<BAfterA>>, <<AAfterB>>,
              <<[A EXCEPT !.twice = TRUE]>>}
===============================================================================
