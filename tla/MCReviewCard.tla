----------------------------- MODULE MCReviewCard -----------------------------
(* Two plans that can both be made in the first round, so that a revision  *)
(* can change the plan under review; an approval makes the second one      *)
(* stricter than the plan shown.  The third builds on a task of an earlier *)
(* round and is refused in the first.                                      *)
EXTENDS ReviewCard

Doing(id, kind) == [id |-> id, agent |-> "worker", deps |-> {}, twice |-> FALSE, needs |-> {},
                    outs |-> {}, kind |-> kind, says |-> PlainText]
A == Doing("a", "code")
ReviewB == [Doing("b", "other") EXCEPT !.says.review = TRUE]

BAfterA == [Doing("b", "other") EXCEPT !.needs = {[from |-> "a", out |-> 1]}]

MCRawPlan == {<<A>>, <<A, ReviewB>>, <<BAfterA>>}
===============================================================================
