------------------------------- MODULE PlanReview -------------------------------
(***************************************************************************)
(* The review gate between PLAN and EXECUTE: the in-memory store of        *)
(* src/src/server/pending-dispatch-plans.ts, the requests of the POST      *)
(* route that decide a review, reviseDispatchPlan of                       *)
(* conversation-service.ts and waitForDispatchPlanReview of                *)
(* agent-runner.ts, which registers a review and cancels it on abort.      *)
(*                                                                         *)
(* Every one of them is one step: what reviseDispatchPlan awaits is the    *)
(* database, whose driver is synchronous.  A request names a review by its *)
(* id and may come from any client at any time, also for one that another  *)
(* client, an earlier click or an abort has decided.                       *)
(***************************************************************************)
EXTENDS DispatchPlan

CONSTANTS Run,         \* the orchestrator runs
          RawPlan,     \* what the model may hand to plan_tasks
          MaxReviews   \* bound: reviews registered over all runs

ASSUME ReviewAssumption == RawPlan \subseteq Seq(PlanTask) /\ MaxReviews \in Nat

VARIABLES reviews,     \* every review registered so far; its index is its id
          aborted      \* the runs whose signal is aborted

reviewVars == <<reviews, aborted>>

(* A plan is compiled before it is registered and again when approved.     *)
Compiled == {Compile(p) : p \in RawPlan}
Plan == Compiled \cup {Compile(p) : p \in Compiled}

Verdict == {"open", "approve", "reject", "revise"}
Review == [run : Run, plan : Plan, verdict : Verdict]

(* The entries of the store's map, and a run's most recent review.         *)
Ids == 1..Len(reviews)
Open == {i \in Ids : reviews[i].verdict = "open"}
ReviewsOf(r) == {i \in Ids : reviews[i].run = r}
IsLatest(i, r) == i \in ReviewsOf(r) /\ \A j \in ReviewsOf(r) : j <= i
UnderReview(r) == \E i \in Open : reviews[i].run = r

ReviewInit ==
  /\ reviews = <<>>
  /\ aborted = {}
-------------------------------------------------------------------------------
(* register, attachResolver and the check of the signal in one block: the  *)
(* review of a run that is aborted already is cancelled at once.           *)
RegisterAnyway(r, p) ==                 \* mutant: no signal.aborted check
  /\ Len(reviews) < MaxReviews
  /\ reviews' = Append(reviews, [run |-> r, plan |-> p, verdict |-> "open"])
  /\ UNCHANGED aborted
Register(r, p) ==
  /\ Len(reviews) < MaxReviews
  /\ reviews' = Append(reviews, [run |-> r, plan |-> p,
                                 verdict |-> IF r \in aborted THEN "reject" ELSE "open"])
  /\ UNCHANGED aborted

(* The first decision takes the entry out of the map; any later request    *)
(* for the same id finds nothing.                                          *)
Redecided(i, v) == [reviews EXCEPT ![i].verdict = v]  \* mutant: entry not deleted
Decided(i, v) == IF i \in Open THEN [reviews EXCEPT ![i].verdict = v] ELSE reviews

(* approve: the registered plan is compiled and validated once more; one   *)
(* that is refused now stays open.  known are the run's earlier tasks.     *)
Approve(i, known) ==
  /\ Valid(Compile(reviews[i].plan), known)
  /\ reviews' = Decided(i, "approve")
  /\ UNCHANGED aborted
Reject(i)  == reviews' = Decided(i, "reject") /\ UNCHANGED aborted
(* The feedback is in the conversation before revise() is called.          *)
Revise(i)  == reviews' = Decided(i, "revise") /\ UNCHANGED aborted

(* onAbort: cancel the run's review.                                       *)
AbortLeavesReview(r) ==                 \* mutant: no abort listener
  /\ r \notin aborted
  /\ aborted' = aborted \cup {r}
  /\ UNCHANGED reviews
Abort(r) ==
  /\ r \notin aborted
  /\ aborted' = aborted \cup {r}
  /\ reviews' = [i \in Ids |->
                   IF i \in Open /\ reviews[i].run = r
                   THEN [reviews[i] EXCEPT !.verdict = "reject"]
                   ELSE reviews[i]]

Decide(known) ==
  \E i \in Ids : Approve(i, known[reviews[i].run]) \/ Reject(i) \/ Revise(i)
-------------------------------------------------------------------------------
(* Types of the store and of the signals.                                  *)
ReviewTypeOK ==
  /\ reviews \in Seq(Review)
  /\ aborted \subseteq Run

(* The first decision is final: a second request, of another client or of  *)
(* another kind, or an abort never overturns it, and none is forgotten.    *)
DecisionsAreFinal ==
  [][/\ Len(reviews') >= Len(reviews)
     /\ \A i \in Ids : /\ reviews'[i].run = reviews[i].run
                       /\ reviews'[i].plan = reviews[i].plan
                       /\ i \notin Open => reviews'[i].verdict = reviews[i].verdict]_reviews
===============================================================================
