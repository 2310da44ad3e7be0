-------------------------- MODULE OrchestratorRunProofs --------------------------
(***************************************************************************)
(* Proofs about OrchestratorRun: for any runs, plans, rounds and reviews,  *)
(* under any interleaving of users, runs and aborts, reviews follow their  *)
(* run, decisions are final, the rounds know what they build on, an abort  *)
(* decides how a run ends, and the whole implements PlanGate.              *)
(***************************************************************************)
EXTENDS OrchestratorRun, SequenceTheorems, TLAPS

(* What the compiler relies on in a plan, raw or compiled.                 *)
HasParts(t) == {"id", "deps", "outs"} \subseteq DOMAIN t
IsPlan(p) == /\ Len(p) \in Nat /\ DOMAIN p = 1..Len(p)
             /\ \A i \in 1..Len(p) : HasParts(p[i])

LEMMA NormalizedKeeps ==
  ASSUME NEW t, HasParts(t)
  PROVE  /\ HasParts(Normalized(t))
         /\ Normalized(t).id = t.id
         /\ Normalized(t).deps = t.deps
BY DEF Normalized, HasParts

LEMMA CompileKeeps ==
  ASSUME NEW p, IsPlan(p)
  PROVE  /\ IsPlan(Compile(p))
         /\ Len(Compile(p)) = Len(p)
         /\ \A i \in 1..Len(p) : /\ Compile(p)[i].id = p[i].id
                                 /\ p[i].deps \subseteq Compile(p)[i].deps
<1> DEFINE more(i) == [p[i] EXCEPT !.deps = @ \cup Inferred(p, i) \cup {n.from : n \in p[i].needs}]
           c == [i \in 1..Len(p) |-> Normalized(more(i))]
<1>1. ASSUME NEW i \in 1..Len(p)
      PROVE  /\ HasParts(Normalized(more(i))) /\ Normalized(more(i)).id = p[i].id
             /\ p[i].deps \subseteq Normalized(more(i)).deps
  <2>1. HasParts(more(i)) /\ more(i).id = p[i].id /\ p[i].deps \subseteq more(i).deps
    BY DEF IsPlan, HasParts
  <2> HIDE DEF more
  <2> QED
    BY <2>1, NormalizedKeeps
<1>2. Len(c) = Len(p)
  <2> DEFINE S == {Normalized(more(i)) : i \in 1..Len(p)}
  <2> HIDE DEF more
  <2>1. c \in [1..Len(p) -> S]
    OBVIOUS
  <2>2. Len(p) \in Nat
    BY DEF IsPlan
  <2> HIDE DEF c, S
  <2>3. c \in Seq(S)
    BY <2>1, <2>2, IsASeq
  <2> QED
    BY <2>1, <2>2, <2>3, LenProperties
<1>3. Compile(p) = c
  BY DEF Compile
<1> HIDE DEF more
<1>4. \A i \in 1..Len(p) : c[i] = Normalized(more(i))
  OBVIOUS
<1>5. DOMAIN c = 1..Len(p)
  OBVIOUS
<1> HIDE DEF c
<1> QED
  BY <1>1, <1>2, <1>3, <1>4, <1>5 DEF IsPlan

LEMMA CompiledArePlans ==
  /\ \A p \in RawPlan : IsPlan(p)
  /\ \A p \in Plan : IsPlan(p)
  /\ \A p \in Compiled : p \in Plan /\ Compile(p) \in Plan
<1>1. ASSUME NEW p \in RawPlan PROVE IsPlan(p)
  <2>1. p \in Seq(PlanTask)
    BY ReviewAssumption
  <2>2. Len(p) \in Nat /\ DOMAIN p = 1..Len(p) /\ \A i \in 1..Len(p) : p[i] \in PlanTask
    BY <2>1, LenProperties, ElementOfSeq
  <2>3. \A t \in PlanTask : HasParts(t)
    BY DEF PlanTask, HasParts
  <2> QED
    BY <2>2, <2>3 DEF IsPlan
<1>2. \A p \in Compiled : IsPlan(p)
  BY <1>1, CompileKeeps DEF Compiled
<1>3. \A p \in Plan : IsPlan(p)
  BY <1>2, CompileKeeps DEF Plan
<1>4. \A p \in Compiled : p \in Plan /\ Compile(p) \in Plan
  BY DEF Plan
<1> QED
  BY <1>1, <1>3, <1>4

(* The tasks of a plan keep their names through every compilation.         *)
LEMMA SameIds ==
  ASSUME NEW p, IsPlan(p)
  PROVE  IdsOf(TasksIn(Compile(p))) = IdsOf(TasksIn(p))
<1>1. ASSUME NEW q, Len(q) \in Nat PROVE IdsOf(TasksIn(q)) = {q[i].id : i \in 1..Len(q)}
  BY DEF IdsOf, TasksIn
<1>2. /\ Len(p) \in Nat /\ Len(Compile(p)) = Len(p)
      /\ \A i \in 1..Len(p) : Compile(p)[i].id = p[i].id
  BY CompileKeeps DEF IsPlan
<1>3. {Compile(p)[i].id : i \in 1..Len(p)} = {p[i].id : i \in 1..Len(p)}
  BY <1>2
<1>4. IdsOf(TasksIn(p)) = {p[i].id : i \in 1..Len(p)}
  BY <1>1, <1>2
<1>5. IdsOf(TasksIn(Compile(p))) = {Compile(p)[i].id : i \in 1..Len(Compile(p))}
  BY <1>1, <1>2
<1> QED
  BY <1>2, <1>3, <1>4, <1>5

LEMMA IdsAreTasks == \A p \in Plan : IdsOf(TasksIn(p)) \subseteq Tasks
<1>1. \A p \in Compiled : IdsOf(TasksIn(p)) \subseteq Tasks
  <2> SUFFICES ASSUME NEW q \in RawPlan PROVE IdsOf(TasksIn(Compile(q))) \subseteq Tasks
    BY DEF Compiled
  <2>1. IdsOf(TasksIn(Compile(q))) = IdsOf(TasksIn(q))
    BY CompiledArePlans, SameIds
  <2> QED
    BY <2>1 DEF Tasks
<1>2. \A p \in Compiled : IdsOf(TasksIn(Compile(p))) \subseteq Tasks
  <2> SUFFICES ASSUME NEW p \in Compiled PROVE IdsOf(TasksIn(Compile(p))) \subseteq Tasks
    OBVIOUS
  <2>1. IdsOf(TasksIn(Compile(p))) = IdsOf(TasksIn(p))
    BY CompiledArePlans, SameIds
  <2> QED
    BY <1>1, <2>1
<1> QED
  BY <1>1, <1>2 DEF Plan

LEMMA MoreDeps == \A p \in Compiled : Compile(p) \in WithMoreDeps(p)
<1> SUFFICES ASSUME NEW p \in Compiled PROVE Compile(p) \in WithMoreDeps(p)
  OBVIOUS
<1>1. IsPlan(p) /\ Compile(p) \in Plan
  BY CompiledArePlans
<1>2. /\ Len(Compile(p)) = Len(p)
      /\ \A i \in 1..Len(p) : /\ Compile(p)[i].id = p[i].id
                              /\ p[i].deps \subseteq Compile(p)[i].deps
  BY <1>1, CompileKeeps
<1> QED
  BY <1>1, <1>2 DEF WithMoreDeps
-------------------------------------------------------------------------------
(* The inductive invariant.  Only plans that were compiled once are put up *)
(* for review.                                                             *)
Entry == [run : Run, plan : Compiled, verdict : Verdict]
StoreInv == reviews \in Seq(Entry) /\ aborted \subseteq Run

PlanTasks == UNION {TasksIn(p) : p \in Plan}
Results == [Tasks -> EndStatus \cup {"none"}]
RunInv ==
  /\ phase \in [Run -> Phase]
  /\ round \in [Run -> 1..MaxRounds]
  /\ approved \in [Run -> Plan \cup {NoPlan}]
  /\ planned \in [Run -> SUBSET PlanTasks]
  /\ results \in [Run -> Results]
  /\ status \in [Run -> {"none", "complete", "failed", "aborted"}]

(* A run has an approved plan exactly while it executes it.                *)
InExecution == \A r \in Run : approved[r] = NoPlan <=> phase[r] # "executing"

(* An approval that the run has not read yet rests on the earlier tasks.   *)
DepsKnown(p, known) ==
  \A t \in TasksIn(p) : t.deps \subseteq IdsOf(TasksIn(p)) \cup IdsOf(known)
ApprovalsKnown ==
  \A r \in Run, i \in Ids :
    phase[r] = "review" /\ IsLatest(i, r) /\ reviews[i].verdict = "approve"
      => DepsKnown(Compile(reviews[i].plan), planned[r])

(* Every task that was launched has a result or is being executed, and no  *)
(* task is launched before the first round has a plan.                     *)
Accounted ==
  \A r \in Run : phase[r] \notin {"closing", "ended"} =>
    \A t \in planned[r] : \/ results[r][t.id] # "none"
                          \/ phase[r] = "executing" /\ t.id \in IdsOf(TasksIn(approved[r]))
FirstRound ==
  \A r \in Run : round[r] = 1 /\ phase[r] \in {"planning", "replanning", "review"}
                   => planned[r] = {}

RoundsInv == InExecution /\ RoundsKnowAll /\ Accounted /\ FirstRound
IInv == StoreInv /\ RunInv /\ ReviewsFollowRun /\ ApprovalsKnown /\ RoundsInv
-------------------------------------------------------------------------------
(* The two ways in which the store changes.                                *)
Grown(r, p) ==
  /\ Len(reviews') = Len(reviews) + 1
  /\ \A i \in Ids : reviews'[i] = reviews[i]
  /\ reviews'[Len(reviews) + 1] =
       [run |-> r, plan |-> p, verdict |-> IF r \in aborted THEN "reject" ELSE "open"]
  /\ aborted' = aborted

StoreKept ==
  /\ Len(reviews') = Len(reviews)
  /\ \A i \in Ids : /\ reviews'[i].run = reviews[i].run
                    /\ reviews'[i].plan = reviews[i].plan
                    /\ reviews'[i].verdict = "open" => reviews[i].verdict = "open"
                    /\ reviews[i].verdict # "open" => reviews'[i].verdict = reviews[i].verdict
  /\ aborted \subseteq aborted'

LEMMA RegisterGrows ==
  ASSUME StoreInv, NEW r \in Run, NEW p \in Compiled, Register(r, p)
  PROVE  StoreInv' /\ Grown(r, p)
<1> DEFINE e == [run |-> r, plan |-> p, verdict |-> IF r \in aborted THEN "reject" ELSE "open"]
<1>1. e \in Entry
  BY DEF Entry, Verdict
<1>2. reviews \in Seq(Entry) /\ reviews' = Append(reviews, e) /\ aborted' = aborted
  BY DEF StoreInv, Register
<1> HIDE DEF e
<1>3. /\ reviews' \in Seq(Entry) /\ Len(reviews') = Len(reviews) + 1
      /\ \A i \in 1..Len(reviews) : reviews'[i] = reviews[i]
      /\ reviews'[Len(reviews) + 1] = e
  BY <1>1, <1>2, AppendProperties
<1> QED
  BY <1>2, <1>3 DEF StoreInv, Grown, Ids, e

LEMMA DecideSettles ==
  ASSUME StoreInv, NEW i \in Ids, NEW v \in Verdict \ {"open"},
         reviews' = Decided(i, v), UNCHANGED aborted
  PROVE  /\ StoreInv' /\ StoreKept
         /\ \A j \in Ids \ {i} : reviews'[j] = reviews[j]
         /\ reviews'[i].verdict = IF i \in Open THEN v ELSE reviews[i].verdict
<1>1. reviews \in Seq(Entry) /\ i \in 1..Len(reviews) /\ Len(reviews) \in Nat
  BY LenProperties DEF StoreInv, Ids
<1>2. \A j \in 1..Len(reviews) : reviews[j] \in Entry
  BY <1>1, ElementOfSeq
<1>3. CASE i \in Open
  <2> DEFINE e == [reviews[i] EXCEPT !.verdict = v]
  <2>1. e \in Entry /\ e.run = reviews[i].run /\ e.plan = reviews[i].plan /\ e.verdict = v
    BY <1>1, <1>2 DEF Entry
  <2>2. reviews' = [reviews EXCEPT ![i] = e]
    BY <1>3 DEF Decided
  <2> HIDE DEF e
  <2>3. /\ reviews' \in Seq(Entry) /\ Len(reviews') = Len(reviews)
        /\ \A j \in 1..Len(reviews) : reviews'[j] = IF j = i THEN e ELSE reviews[j]
    BY <1>1, <2>1, <2>2, ExceptSeq
  <2> QED
    BY <1>1, <1>3, <2>1, <2>3 DEF StoreInv, StoreKept, Ids, Open
<1>4. CASE i \notin Open
  <2>1. reviews' = reviews
    BY <1>4 DEF Decided
  <2> QED
    BY <1>4, <2>1 DEF StoreInv, StoreKept, Ids
<1> QED
  BY <1>3, <1>4

LEMMA AbortSettles ==
  ASSUME StoreInv, NEW r \in Run, Abort(r)
  PROVE  /\ StoreInv' /\ StoreKept /\ aborted' = aborted \cup {r}
         /\ \A i \in Ids : /\ reviews[i].run = r => reviews'[i].verdict # "open"
                           /\ reviews[i].run # r => reviews'[i] = reviews[i]
                           /\ reviews'[i].verdict \in {reviews[i].verdict, "reject"}
<1>1. reviews \in Seq(Entry) /\ Len(reviews) \in Nat
  BY LenProperties DEF StoreInv
<1>2. \A i \in 1..Len(reviews) : reviews[i] \in Entry
  BY <1>1, ElementOfSeq
<1>3. reviews' = [i \in Ids |-> IF i \in Open /\ reviews[i].run = r
                                THEN [reviews[i] EXCEPT !.verdict = "reject"] ELSE reviews[i]]
  BY DEF Abort
<1>4. \A i \in Ids : [reviews[i] EXCEPT !.verdict = "reject"] \in Entry
  BY <1>2 DEF Ids, Entry, Verdict
<1>5. reviews' \in [1..Len(reviews) -> Entry]
  BY <1>2, <1>3, <1>4 DEF Ids
<1>6. reviews' \in Seq(Entry) /\ Len(reviews') = Len(reviews)
  BY <1>1, <1>5, IsASeq, LenProperties
<1>7. \A i \in Ids : /\ reviews'[i].run = reviews[i].run /\ reviews'[i].plan = reviews[i].plan
                     /\ reviews'[i].verdict = IF i \in Open /\ reviews[i].run = r
                                              THEN "reject" ELSE reviews[i].verdict
                     /\ reviews[i].run # r => reviews'[i] = reviews[i]
  BY <1>2, <1>3 DEF Ids, Entry
<1> QED
  BY <1>6, <1>7 DEF StoreInv, StoreKept, Ids, Open, Abort
(* What the two ways mean for the entries that are open or latest.         *)
LEMMA GrownViews ==
  ASSUME StoreInv, NEW r \in Run, NEW p, Grown(r, p)
  PROVE  /\ Ids' = Ids \cup {Len(reviews) + 1} /\ Len(reviews) + 1 \notin Ids
         /\ Open' = IF r \in aborted THEN Open ELSE Open \cup {Len(reviews) + 1}
         /\ \A i \in Ids' : IsLatest(i, r)' <=> i = Len(reviews) + 1
         /\ \A q \in Run \ {r}, i \in Ids' : IsLatest(i, q)' <=> i \in Ids /\ IsLatest(i, q)
         /\ \A q \in Run \ {r} : UnderReview(q)' <=> UnderReview(q)
<1> DEFINE n == Len(reviews) + 1
<1>1. Len(reviews) \in Nat /\ Len(reviews') = n
  BY LenProperties DEF StoreInv, Grown
<1>2. Ids' = Ids \cup {n} /\ n \notin Ids /\ \A i \in Ids : i \in Nat /\ i < n
  BY <1>1 DEF Ids
<1>3. /\ \A i \in Ids : reviews'[i] = reviews[i]
      /\ reviews'[n].run = r /\ reviews'[n].verdict = IF r \in aborted THEN "reject" ELSE "open"
  BY DEF Grown
<1> HIDE DEF n
<1>4. Open' = IF r \in aborted THEN Open ELSE Open \cup {n}
  BY <1>2, <1>3 DEF Open
<1>5. \A q \in Run : ReviewsOf(q)' = IF q = r THEN ReviewsOf(q) \cup {n} ELSE ReviewsOf(q)
  BY <1>2, <1>3 DEF ReviewsOf
<1>6. \A i \in Ids' : IsLatest(i, r)' <=> i = n
  BY <1>1, <1>2, <1>5 DEF IsLatest, ReviewsOf, n
<1>7. \A q \in Run \ {r}, i \in Ids' : IsLatest(i, q)' <=> i \in Ids /\ IsLatest(i, q)
  BY <1>2, <1>5 DEF IsLatest, ReviewsOf
<1>8. \A q \in Run \ {r} : UnderReview(q)' <=> UnderReview(q)
  BY <1>2, <1>3, <1>4 DEF UnderReview, Open
<1> QED
  BY <1>2, <1>4, <1>6, <1>7, <1>8 DEF n

LEMMA SettledViews ==
  ASSUME StoreInv, StoreKept
  PROVE  /\ Ids' = Ids /\ Open' \subseteq Open
         /\ \A q \in Run, i \in Ids : IsLatest(i, q)' <=> IsLatest(i, q)
<1>1. Ids' = Ids /\ Open' \subseteq Open /\ \A q \in Run : ReviewsOf(q)' = ReviewsOf(q)
  BY DEF StoreKept, Ids, Open, ReviewsOf
<1> QED
  BY <1>1 DEF IsLatest

(* The review a run resumes with is not open, so none of the run is.       *)
LEMMA ResolvedIsClosed ==
  ASSUME StoreInv, ReviewsFollowRun, NEW r \in Run, NEW i \in Ids, IsLatest(i, r),
         reviews[i].verdict # "open"
  PROVE  ~UnderReview(r)
<1> SUFFICES ASSUME NEW j \in Open, reviews[j].run = r PROVE FALSE
  BY DEF UnderReview
<1>1. IsLatest(j, r) /\ i \in Nat /\ j \in Nat
  BY DEF ReviewsFollowRun, Ids, Open
<1>2. j = i
  BY <1>1 DEF IsLatest
<1> QED
  BY <1>2 DEF Open
-------------------------------------------------------------------------------
(* ReviewsFollowRun and ApprovalsKnown, by what a step does to the store.  *)
LEMMA ReviewsStay ==
  ASSUME ReviewsFollowRun, ApprovalsKnown, UNCHANGED reviewVars,
         \A q \in Run : phase'[q] # phase[q] => ~UnderReview(q),
         \A q \in Run : phase'[q] = "review" => phase[q] = "review" /\ planned'[q] = planned[q]
  PROVE  ReviewsFollowRun' /\ ApprovalsKnown'
<1>1. /\ Ids' = Ids /\ Open' = Open /\ reviews' = reviews /\ aborted' = aborted
      /\ \A q, i : IsLatest(i, q)' <=> IsLatest(i, q)
  BY DEF reviewVars, Ids, Open, IsLatest, ReviewsOf
<1>2. ReviewsFollowRun'
  BY <1>1 DEF ReviewsFollowRun, UnderReview
<1>3. ApprovalsKnown'
  BY <1>1 DEF ApprovalsKnown
<1> QED
  BY <1>2, <1>3

LEMMA ReviewsGrow ==
  ASSUME StoreInv, ReviewsFollowRun, ApprovalsKnown, NEW r \in Run, NEW p, Grown(r, p),
         phase[r] # "review", phase \in [Run -> Phase], phase' = [phase EXCEPT ![r] = "review"],
         planned' = planned
  PROVE  ReviewsFollowRun' /\ ApprovalsKnown'
<1> DEFINE n == Len(reviews) + 1
<1>1. /\ Ids' = Ids \cup {n} /\ n \notin Ids
      /\ Open' = IF r \in aborted THEN Open ELSE Open \cup {n}
      /\ \A i \in Ids' : IsLatest(i, r)' <=> i = n
      /\ \A q \in Run \ {r}, i \in Ids' : IsLatest(i, q)' <=> i \in Ids /\ IsLatest(i, q)
  BY GrownViews
<1>2. /\ \A i \in Ids : reviews'[i] = reviews[i]
      /\ reviews'[n].run = r /\ reviews'[n].verdict = (IF r \in aborted THEN "reject" ELSE "open")
      /\ aborted' = aborted
  BY DEF Grown
<1> HIDE DEF n
<1>3. phase'[r] = "review" /\ \A q \in Run \ {r} : phase'[q] = phase[q]
  OBVIOUS
<1>4. Open \subseteq Ids
  BY DEF Open
<1>5. ReviewsFollowRun'
  <2> SUFFICES ASSUME NEW q \in Run, NEW i \in Open', reviews'[i].run = q
               PROVE  phase'[q] = "review" /\ IsLatest(i, q)' /\ q \notin aborted
    BY <1>2 DEF ReviewsFollowRun
  <2>1. CASE i = n
    BY <1>1, <1>2, <1>3, <1>4, <2>1
  <2>2. CASE i \in Open
    <3>1. phase[q] = "review" /\ IsLatest(i, q) /\ q \notin aborted
      BY <1>2, <1>4, <2>2 DEF ReviewsFollowRun
    <3> QED
      BY <1>1, <1>3, <1>4, <2>2, <3>1
  <2> QED
    BY <1>1, <2>1, <2>2
<1>6. ApprovalsKnown'
  <2> SUFFICES ASSUME NEW q \in Run, NEW i \in Ids', phase'[q] = "review", IsLatest(i, q)',
                      reviews'[i].verdict = "approve"
               PROVE  DepsKnown(Compile(reviews'[i].plan), planned[q])
    BY DEF ApprovalsKnown
  <2>1. q # r
    BY <1>1, <1>2
  <2>2. i \in Ids /\ IsLatest(i, q) /\ reviews'[i] = reviews[i] /\ phase[q] = "review"
    BY <1>1, <1>2, <1>3, <2>1
  <2> QED
    BY <2>2 DEF ApprovalsKnown
<1> QED
  BY <1>5, <1>6

LEMMA ReviewsSettle ==
  ASSUME StoreInv, ReviewsFollowRun, ApprovalsKnown, StoreKept, UNCHANGED runVars,
         \A i \in Ids : reviews'[i].verdict = "approve" /\ i \in Open
                          => DepsKnown(Compile(reviews[i].plan), planned[reviews[i].run]),
         \A i \in Ids : reviews'[i].verdict = "open" => reviews[i].run \notin aborted'
  PROVE  ReviewsFollowRun' /\ ApprovalsKnown'
<1>1. /\ Ids' = Ids /\ Open' \subseteq Open
      /\ \A q \in Run, i \in Ids : IsLatest(i, q)' <=> IsLatest(i, q)
  BY SettledViews
<1>2. phase' = phase /\ planned' = planned /\ Open \subseteq Ids
  BY DEF runVars, Open
<1>3. ReviewsFollowRun'
  <2> SUFFICES ASSUME NEW q \in Run, NEW i \in Open', reviews'[i].run = q
               PROVE  phase[q] = "review" /\ IsLatest(i, q)' /\ q \notin aborted'
    BY <1>2 DEF ReviewsFollowRun
  <2>1. i \in Open /\ reviews[i].run = q /\ reviews'[i].verdict = "open"
    BY <1>1, <1>2 DEF StoreKept, Open
  <2> QED
    BY <1>1, <1>2, <2>1 DEF ReviewsFollowRun
<1>4. ApprovalsKnown'
  <2> SUFFICES ASSUME NEW q \in Run, NEW i \in Ids, phase[q] = "review", IsLatest(i, q),
                      reviews'[i].verdict = "approve"
               PROVE  DepsKnown(Compile(reviews[i].plan), planned[q])
    BY <1>1, <1>2 DEF ApprovalsKnown, StoreKept
  <2>1. CASE i \in Open
    <3>1. reviews[i].run = q
      BY DEF IsLatest, ReviewsOf
    <3> QED
      BY <2>1, <3>1
  <2>2. CASE i \notin Open
    <3>1. reviews[i].verdict = "approve"
      BY <2>2 DEF StoreKept, Open
    <3> QED
      BY <3>1 DEF ApprovalsKnown
  <2> QED
    BY <2>1, <2>2
<1> QED
  BY <1>3, <1>4
-------------------------------------------------------------------------------
(* RoundsInv for one run: a step of run r leaves the others alone.         *)
Sane(r) ==
  /\ approved[r] = NoPlan <=> phase[r] # "executing"
  /\ phase[r] = "executing" => \A t \in TasksIn(approved[r]) : \A d \in t.deps :
       d \in IdsOf(TasksIn(approved[r])) \/ results[r][d] # "none"
  /\ phase[r] \notin {"closing", "ended"} =>
       \A t \in planned[r] : \/ results[r][t.id] # "none"
                             \/ phase[r] = "executing" /\ t.id \in IdsOf(TasksIn(approved[r]))
  /\ round[r] = 1 /\ phase[r] \in {"planning", "replanning", "review"} => planned[r] = {}

LEMMA SaneRuns == RoundsInv <=> \A r \in Run : Sane(r)
<1>1. RoundsInv => \A r \in Run : Sane(r)
  BY DEF RoundsInv, InExecution, RoundsKnowAll, Accounted, FirstRound, Sane
<1>2. (\A r \in Run : Sane(r)) => InExecution /\ Accounted /\ FirstRound
  BY DEF InExecution, Accounted, FirstRound, Sane
<1>3. (\A r \in Run : Sane(r)) => RoundsKnowAll
  BY DEF RoundsKnowAll, Sane
<1> QED
  BY <1>1, <1>2, <1>3 DEF RoundsInv

Alike(q) == /\ phase'[q] = phase[q] /\ round'[q] = round[q] /\ approved'[q] = approved[q]
            /\ planned'[q] = planned[q] /\ results'[q] = results[q]

LEMMA OneRun ==
  ASSUME RoundsInv, NEW r \in Run, Sane(r)', \A q \in Run \ {r} : Alike(q)
  PROVE  RoundsInv'
<1>1. \A q \in Run \ {r} : Sane(q)'
  BY SaneRuns DEF Sane, Alike
<1>2. \A q \in Run : Sane(q)'
  BY <1>1
<1>3. InExecution' /\ Accounted' /\ FirstRound'
  BY <1>2 DEF InExecution, Accounted, FirstRound, Sane
<1>4. RoundsKnowAll'
  BY <1>2 DEF RoundsKnowAll, Sane
<1> QED
  BY <1>3, <1>4 DEF RoundsInv
-------------------------------------------------------------------------------
LEMMA InitInv == Init => IInv
<1> SUFFICES ASSUME Init PROVE IInv
  OBVIOUS
<1>1. reviews = <<>> /\ Ids = {} /\ Open = {}
  BY EmptySeq DEF Init, ReviewInit, Ids, Open
<1>2. StoreInv
  BY <1>1, EmptySeq DEF Init, ReviewInit, StoreInv
<1>3. ReviewsFollowRun /\ ApprovalsKnown
  BY <1>1 DEF ReviewsFollowRun, ApprovalsKnown
<1>4. RunInv
  BY RoundAssumption DEF Init, RunInv, Phase, Results
<1>5. RoundsInv
  BY DEF Init, RoundsInv, InExecution, RoundsKnowAll, Accounted, FirstRound
<1> QED
  BY <1>2, <1>3, <1>4, <1>5 DEF IInv

(* How a run's phase, round and status move.                               *)
Statuses == {"none", "complete", "failed", "aborted"}
LEMMA CloseMoves ==
  ASSUME RunInv, NEW r \in Run, NEW s \in {"complete", "failed"}, Close(r, s)
  PROVE  phase' = [phase EXCEPT ![r] = "closing"] /\ status' \in [Run -> Statuses]
BY DEF RunInv, Close, Goto, Statuses

LEMMA AggregateMoves ==
  ASSUME RunInv, NEW r \in Run, Aggregate(r)
  PROVE  phase' = [phase EXCEPT ![r] = "aggregating"] /\ status' \in [Run -> Statuses]
BY DEF RunInv, Aggregate, Goto, Statuses

LEMMA RoundMoves ==
  ASSUME RunInv, NEW r \in Run, NEW n \in 1..MaxRounds, EnterRound(r, n)
  PROVE  /\ round' = [round EXCEPT ![r] = n] /\ round' \in [Run -> 1..MaxRounds]
         /\ phase' \in {[phase EXCEPT ![r] = "closing"], [phase EXCEPT ![r] = "planning"]}
         /\ status' \in [Run -> Statuses]
<1>1. round' = [round EXCEPT ![r] = n]
  BY DEF EnterRound
<1>2. round' \in [Run -> 1..MaxRounds]
  BY <1>1 DEF RunInv
<1>3. CASE Close(r, "failed")
  BY <1>1, <1>2, <1>3, CloseMoves
<1>4. CASE Goto(r, "planning") /\ UNCHANGED status
  BY <1>1, <1>2, <1>4 DEF Goto, RunInv, Statuses
<1> QED
  BY <1>3, <1>4 DEF EnterRound

(* A step that leaves the store, the plans and the results alone and does  *)
(* not lead into a review.                                                 *)
LEMMA PlainMove ==
  ASSUME IInv, NEW r \in Run, NEW ph \in Phase \ {"review", "executing"},
         UNCHANGED reviewVars, ~UnderReview(r), phase' = [phase EXCEPT ![r] = ph],
         status' \in [Run -> Statuses], UNCHANGED <<round, approved, planned, results>>, phase[r] # "executing",
         ph \in {"planning", "replanning"} => phase[r] \in {"planning", "replanning", "review"},
         ph = "aggregating" => phase[r] \notin {"closing", "ended"}
  PROVE  IInv'
<1>1. StoreInv /\ RunInv /\ ReviewsFollowRun /\ ApprovalsKnown /\ RoundsInv
  BY DEF IInv
<1>2. StoreInv' /\ RunInv'
  BY <1>1 DEF StoreInv, reviewVars, RunInv, Statuses
<1>3. phase'[r] = ph /\ \A q \in Run \ {r} : phase'[q] = phase[q]
  BY <1>1 DEF RunInv
<1>4. ReviewsFollowRun' /\ ApprovalsKnown'
  <2>1. \A q \in Run : phase'[q] # phase[q] => ~UnderReview(q)
    BY <1>3
  <2>2. \A q \in Run : phase'[q] = "review" => phase[q] = "review" /\ planned'[q] = planned[q]
    BY <1>3
  <2> QED
    BY <1>1, <2>1, <2>2, ReviewsStay
<1>5. \A q \in Run \ {r} : Alike(q)
  BY <1>3 DEF Alike
<1>6. Sane(r)'
  <2>1. Sane(r)
    BY <1>1, SaneRuns
  <2> QED
    BY <1>3, <2>1 DEF Sane, Phase
<1> QED
  BY <1>1, <1>2, <1>4, <1>5, <1>6, OneRun DEF IInv

LEMMA RegisterMove ==
  ASSUME IInv, NEW r \in Run, NEW p \in Compiled, Register(r, p),
         phase[r] \in {"planning", "replanning"}, phase' = [phase EXCEPT ![r] = "review"],
         UNCHANGED <<round, approved, planned, results, status>>
  PROVE  IInv'
<1>1. StoreInv /\ RunInv /\ ReviewsFollowRun /\ ApprovalsKnown /\ RoundsInv
  BY DEF IInv
<1>2. StoreInv' /\ Grown(r, p)
  BY <1>1, RegisterGrows
<1>3. ReviewsFollowRun' /\ ApprovalsKnown'
  BY <1>1, <1>2, ReviewsGrow DEF RunInv
<1>4. phase'[r] = "review" /\ RunInv' /\ \A q \in Run \ {r} : Alike(q)
  BY <1>1 DEF RunInv, Phase, Alike
<1>5. Sane(r)'
  <2>1. Sane(r)
    BY <1>1, SaneRuns
  <2> QED
    BY <1>4, <2>1 DEF Sane
<1> QED
  BY <1>1, <1>2, <1>3, <1>4, <1>5, OneRun DEF IInv
(* Elsewhere than in the review stage, no review of the run is open.       *)
LEMMA OnlyInReview ==
  ASSUME ReviewsFollowRun, NEW r \in Run, phase[r] # "review"
  PROVE  ~UnderReview(r)
BY DEF ReviewsFollowRun, UnderReview

LEMMA EntryOf ==
  ASSUME StoreInv, NEW i \in Ids
  PROVE  /\ reviews[i] \in Entry /\ reviews[i].plan \in Compiled
         /\ Compile(reviews[i].plan) \in Plan /\ Compile(reviews[i].plan) # NoPlan
<1>1. reviews[i] \in Entry
  BY ElementOfSeq DEF StoreInv, Ids
<1>2. reviews[i].plan \in Compiled
  BY <1>1 DEF Entry
<1> QED
  BY <1>1, <1>2, CompiledArePlans, RoundAssumption

LEMMA PlanFailsInv == ASSUME IInv, NEW r \in Run, PlanFails(r) PROVE IInv'
<1>1. RunInv /\ ReviewsFollowRun /\ phase[r] \in {"planning", "replanning", "review"} /\ ~UnderReview(r)
  BY OnlyInReview DEF IInv, PlanFails
<1>2. phase' = [phase EXCEPT ![r] = "closing"] /\ status' \in [Run -> Statuses]
  BY <1>1, CloseMoves DEF PlanFails
<1> QED
  BY <1>1, <1>2, PlainMove DEF PlanFails, Phase

LEMMA NoPlanMadeInv == ASSUME IInv, NEW r \in Run, NoPlanMade(r) PROVE IInv'
<1>1. StoreInv /\ RunInv /\ ReviewsFollowRun /\ UNCHANGED <<round, approved, planned, results>>
  BY DEF IInv, NoPlanMade
<1>2. CASE phase[r] = "planning" /\ UNCHANGED reviewVars
                /\ IF round[r] = 1 THEN Close(r, "complete") ELSE Aggregate(r)
  <2>1. ~UnderReview(r)
    BY <1>1, <1>2, OnlyInReview
  <2>2. CASE Close(r, "complete")
    <3>1. phase' = [phase EXCEPT ![r] = "closing"] /\ status' \in [Run -> Statuses]
      BY <1>1, <2>2, CloseMoves
    <3> QED
      BY <1>1, <1>2, <2>1, <3>1, PlainMove DEF Phase
  <2>3. CASE Aggregate(r)
    <3>1. phase' = [phase EXCEPT ![r] = "aggregating"] /\ status' \in [Run -> Statuses]
      BY <1>1, <2>3, AggregateMoves
    <3> QED
      BY <1>1, <1>2, <2>1, <3>1, PlainMove DEF Phase
  <2> QED
    BY <1>2, <2>2, <2>3
<1>3. CASE phase[r] = "replanning" /\ UNCHANGED status /\ Goto(r, "review")
                /\ \E i \in Ids : IsLatest(i, r) /\ Register(r, reviews[i].plan)
  <2>1. PICK i \in Ids : Register(r, reviews[i].plan)
    BY <1>3
  <2>2. reviews[i].plan \in Compiled
    BY <1>1, EntryOf
  <2> QED
    BY <1>1, <1>3, <2>1, <2>2, RegisterMove DEF Goto
<1> QED
  BY <1>2, <1>3 DEF NoPlanMade

LEMMA PlanMadeInv == ASSUME IInv, NEW r \in Run, NEW raw \in RawPlan, PlanMade(r, raw) PROVE IInv'
<1>1. Compile(raw) \in Compiled
  BY DEF Compiled
<1> QED
  BY <1>1, RegisterMove DEF PlanMade, Goto

LEMMA LaunchInv ==
  ASSUME IInv, NEW r \in Run, NEW i \in Ids, phase[r] = "review", IsLatest(i, r), Launch(r, i),
         UNCHANGED <<reviewVars, round, results>>
  PROVE  IInv'
<1> DEFINE p == Compile(reviews[i].plan)
<1>1. StoreInv /\ RunInv /\ ReviewsFollowRun /\ ApprovalsKnown /\ RoundsInv
  BY DEF IInv
<1>2. p \in Plan /\ p # NoPlan
  BY <1>1, EntryOf
<1>3. DepsKnown(p, planned[r])
  BY <1>1 DEF ApprovalsKnown, Launch
<1>4. /\ approved' = [approved EXCEPT ![r] = p]
      /\ planned' = [planned EXCEPT ![r] = Merged(planned[r], p)]
      /\ phase' = [phase EXCEPT ![r] = "executing"] /\ status' = status
      /\ UNCHANGED reviewVars /\ round' = round /\ results' = results
  BY DEF Launch, Goto
<1> HIDE DEF p
<1>5. /\ phase'[r] = "executing" /\ approved'[r] = p /\ planned'[r] = Merged(planned[r], p)
      /\ \A q \in Run \ {r} : Alike(q)
  BY <1>1, <1>4 DEF RunInv, Alike
<1>6. StoreInv' /\ RunInv'
  <2>1. Merged(planned[r], p) \in SUBSET PlanTasks
    BY <1>1, <1>2 DEF Merged, PlanTasks, RunInv
  <2>2. planned' \in [Run -> SUBSET PlanTasks]
    BY <1>1, <1>4, <2>1 DEF RunInv
  <2>3. approved' \in [Run -> Plan \cup {NoPlan}]
    BY <1>1, <1>2, <1>4 DEF RunInv
  <2>4. phase' \in [Run -> Phase]
    BY <1>1, <1>4 DEF RunInv, Phase
  <2> QED
    BY <1>1, <1>4, <2>2, <2>3, <2>4 DEF StoreInv, reviewVars, RunInv
<1>7. ReviewsFollowRun' /\ ApprovalsKnown'
  <2>1. ~UnderReview(r)
    BY <1>1, ResolvedIsClosed DEF Launch
  <2>2. \A q \in Run : phase'[q] # phase[q] => ~UnderReview(q)
    BY <1>5, <2>1 DEF Alike
  <2>3. \A q \in Run : phase'[q] = "review" => phase[q] = "review" /\ planned'[q] = planned[q]
    BY <1>5 DEF Alike
  <2> QED
    BY <1>1, <1>4, <2>2, <2>3, ReviewsStay
<1>8. Sane(r)'
  <2>1. \A t \in planned[r] : results[r][t.id] # "none"
    BY <1>1 DEF RoundsInv, Accounted
  <2>2. \A t \in TasksIn(p) : \A d \in t.deps : d \in IdsOf(TasksIn(p)) \/ results[r][d] # "none"
    BY <1>3, <2>1 DEF DepsKnown, IdsOf
  <2>3. \A t \in Merged(planned[r], p) : results[r][t.id] # "none" \/ t.id \in IdsOf(TasksIn(p))
    BY <2>1 DEF Merged, IdsOf
  <2>4. approved'[r] # NoPlan /\ results'[r] = results[r]
    BY <1>2, <1>4, <1>5
  <2> QED
    BY <1>5, <2>2, <2>3, <2>4 DEF Sane
<1> QED
  BY <1>1, <1>5, <1>6, <1>7, <1>8, OneRun DEF IInv

LEMMA ReviewResolvedInv == ASSUME IInv, NEW r \in Run, ReviewResolved(r) PROVE IInv'
<1>1. PICK i \in Ids : IsLatest(i, r) /\ (Launch(r, i) \/ Replan(r, i) \/ Decline(r, i))
  BY DEF ReviewResolved
<1>2. /\ StoreInv /\ RunInv /\ ReviewsFollowRun /\ phase[r] = "review"
      /\ UNCHANGED <<reviewVars, round, results>>
  BY DEF IInv, ReviewResolved
<1>3. CASE Launch(r, i)
  BY <1>1, <1>2, <1>3, LaunchInv
<1>4. CASE Replan(r, i)
  <2>1. ~UnderReview(r)
    BY <1>1, <1>2, <1>4, ResolvedIsClosed DEF Replan
  <2>2. phase' = [phase EXCEPT ![r] = "replanning"] /\ status' \in [Run -> Statuses]
    BY <1>2, <1>4 DEF Replan, Goto, RunInv, Statuses
  <2> QED
    BY <1>2, <1>4, <2>1, <2>2, PlainMove DEF Replan, Phase
<1>5. CASE Decline(r, i)
  <2>1. ~UnderReview(r) /\ UNCHANGED <<approved, planned>>
    BY <1>1, <1>2, <1>5, ResolvedIsClosed DEF Decline
  <2>2. CASE Close(r, "failed") \/ Close(r, "complete")
    <3>1. phase' = [phase EXCEPT ![r] = "closing"] /\ status' \in [Run -> Statuses]
      BY <1>2, <2>2, CloseMoves
    <3> QED
      BY <1>2, <2>1, <3>1, PlainMove DEF Phase
  <2>3. CASE Aggregate(r)
    <3>1. phase' = [phase EXCEPT ![r] = "aggregating"] /\ status' \in [Run -> Statuses]
      BY <1>2, <2>3, AggregateMoves
    <3> QED
      BY <1>2, <2>1, <3>1, PlainMove DEF Phase
  <2> QED
    BY <1>5, <2>2, <2>3 DEF Decline
<1> QED
  BY <1>1, <1>3, <1>4, <1>5
(* The end of an execution: the plan is done and the results are merged.   *)
LEMMA LandMove ==
  ASSUME IInv, NEW r \in Run, phase[r] = "executing", UNCHANGED <<reviewVars, planned>>,
         approved' = [approved EXCEPT ![r] = NoPlan], results' \in [Run -> Results],
         \A q \in Run \ {r} : /\ results'[q] = results[q] /\ round'[q] = round[q]
                              /\ phase'[q] = phase[q],
         phase' \in [Run -> Phase], phase'[r] \notin {"review", "executing"},
         round' \in [Run -> 1..MaxRounds], status' \in [Run -> Statuses],
         phase'[r] \in {"planning", "replanning"} => round'[r] # 1,
         phase'[r] \notin {"closing", "ended"} =>
           \A t \in planned[r] : results'[r][t.id] # "none"
  PROVE  IInv'
<1>1. StoreInv /\ RunInv /\ ReviewsFollowRun /\ ApprovalsKnown /\ RoundsInv
  BY DEF IInv
<1>2. phase' \in [Run -> Phase] /\ phase'[r] \notin {"review", "executing"}
  OBVIOUS
<1>3. StoreInv' /\ RunInv'
  BY <1>1, <1>2 DEF StoreInv, reviewVars, RunInv, Statuses
<1>4. ReviewsFollowRun' /\ ApprovalsKnown'
  <2>1. ~UnderReview(r)
    BY <1>1, OnlyInReview
  <2>2. \A q \in Run : phase'[q] # phase[q] => ~UnderReview(q)
    BY <2>1
  <2>3. \A q \in Run : phase'[q] = "review" => phase[q] = "review" /\ planned'[q] = planned[q]
    BY <1>2
  <2> QED
    BY <1>1, <2>2, <2>3, ReviewsStay
<1>5. approved'[r] = NoPlan /\ \A q \in Run \ {r} : Alike(q)
  BY <1>1 DEF RunInv, Alike
<1>6. Sane(r)'
  BY <1>2, <1>5 DEF Sane
<1> QED
  BY <1>1, <1>3, <1>4, <1>5, <1>6, OneRun DEF IInv

LEMMA ExecuteReturnsInv == ASSUME IInv, NEW r \in Run, ExecuteReturns(r) PROVE IInv'
<1>1. RunInv /\ RoundsInv /\ phase[r] = "executing"
  BY DEF IInv, ExecuteReturns
<1>2. PICK res \in Outcomes(r, approved[r]), conflict \in BOOLEAN :
        /\ results' = [results EXCEPT ![r] = [t \in Tasks |->
                         IF t \in DOMAIN res THEN res[t] ELSE @[t]]]
        /\ IF ShouldReplan(res, conflict) /\ MoreRounds(r)
           THEN EnterRound(r, round[r] + 1)
           ELSE Aggregate(r) /\ UNCHANGED round
  BY DEF ExecuteReturns
<1>3. res \in [IdsOf(TasksIn(approved[r])) -> EndStatus]
  BY <1>2 DEF Outcomes
<1> DEFINE merged == [t \in Tasks |-> IF t \in DOMAIN res THEN res[t] ELSE results[r][t]]
<1>4. merged \in Results
  <2>1. results[r] \in Results
    BY <1>1 DEF RunInv
  <2> QED
    BY <1>3, <2>1 DEF Results
<1>5. results' = [results EXCEPT ![r] = merged] /\ results'[r] = merged
  BY <1>1, <1>2 DEF RunInv
<1>6. results' \in [Run -> Results] /\ \A q \in Run \ {r} : results'[q] = results[q]
  <2> HIDE DEF merged
  <2> QED
    BY <1>1, <1>4, <1>5 DEF RunInv
<1>7. \A t \in planned[r] : results'[r][t.id] # "none"
  <2> SUFFICES ASSUME NEW t \in planned[r] PROVE merged[t.id] # "none"
    BY <1>5
  <2>1. t.id \in Tasks
    BY <1>1, IdsAreTasks DEF RunInv, PlanTasks, IdsOf
  <2>2. results[r][t.id] # "none" \/ t.id \in IdsOf(TasksIn(approved[r]))
    BY <1>1 DEF RoundsInv, Accounted
  <2> QED
    BY <1>3, <2>1, <2>2 DEF EndStatus
<1>8. CASE Aggregate(r) /\ UNCHANGED round
  <2>1. phase' = [phase EXCEPT ![r] = "aggregating"] /\ status' \in [Run -> Statuses]
    BY <1>1, <1>8, AggregateMoves
  <2>2. /\ phase' \in [Run -> Phase] /\ phase'[r] = "aggregating" /\ round' \in [Run -> 1..MaxRounds]
        /\ \A q \in Run \ {r} : phase'[q] = phase[q] /\ round'[q] = round[q]
    BY <1>1, <1>8, <2>1 DEF RunInv, Phase
  <2> HIDE DEF merged
  <2> QED
    BY <1>1, <1>6, <1>7, <2>1, <2>2, LandMove DEF ExecuteReturns
<1>9. CASE MoreRounds(r) /\ EnterRound(r, round[r] + 1)
  <2>1. round[r] \in 1..MaxRounds /\ round[r] + 1 \in 1..MaxRounds /\ round[r] + 1 # 1
    BY <1>1, <1>9, RoundAssumption DEF RunInv, MoreRounds
  <2>2. /\ round' = [round EXCEPT ![r] = round[r] + 1] /\ round' \in [Run -> 1..MaxRounds]
        /\ phase' \in {[phase EXCEPT ![r] = "closing"], [phase EXCEPT ![r] = "planning"]}
        /\ status' \in [Run -> Statuses]
    BY <1>1, <1>9, <2>1, RoundMoves
  <2>3. /\ phase' \in [Run -> Phase] /\ phase'[r] \in {"closing", "planning"}
        /\ round'[r] = round[r] + 1
        /\ \A q \in Run \ {r} : phase'[q] = phase[q] /\ round'[q] = round[q]
    BY <1>1, <2>2 DEF RunInv, Phase
  <2> HIDE DEF merged
  <2> QED
    BY <1>1, <1>6, <1>7, <2>1, <2>2, <2>3, LandMove DEF ExecuteReturns
<1> QED
  BY <1>2, <1>8, <1>9

LEMMA ExecuteThrowsInv == ASSUME IInv, NEW r \in Run, ExecuteThrows(r) PROVE IInv'
<1>1. RunInv /\ phase[r] = "executing" /\ UNCHANGED <<reviewVars, round, planned, results>>
  BY DEF IInv, ExecuteThrows
<1>2. phase' = [phase EXCEPT ![r] = "closing"] /\ status' \in [Run -> Statuses]
  BY <1>1, CloseMoves DEF ExecuteThrows
<1>3. /\ phase' \in [Run -> Phase] /\ phase'[r] = "closing"
      /\ \A q \in Run \ {r} : phase'[q] = phase[q]
      /\ results' \in [Run -> Results] /\ round' \in [Run -> 1..MaxRounds]
  BY <1>1, <1>2 DEF RunInv, Phase
<1> QED
  BY <1>1, <1>2, <1>3, LandMove DEF ExecuteThrows

LEMMA AggregateEndsInv == ASSUME IInv, NEW r \in Run, AggregateEnds(r) PROVE IInv'
<1>1. RunInv /\ phase[r] = "aggregating" /\ ~UnderReview(r)
  BY OnlyInReview DEF IInv, AggregateEnds
<1>2. phase' = [phase EXCEPT ![r] = "closing"] /\ status' \in [Run -> Statuses]
  BY <1>1, CloseMoves DEF AggregateEnds
<1> QED
  BY <1>1, <1>2, PlainMove DEF AggregateEnds, Phase

LEMMA RunEndsInv == ASSUME IInv, NEW r \in Run, RunEnds(r) PROVE IInv'
<1>1. RunInv /\ phase[r] = "closing" /\ ~UnderReview(r)
  BY OnlyInReview DEF IInv, RunEnds
<1>2. phase' = [phase EXCEPT ![r] = "ended"] /\ status' \in [Run -> Statuses]
  BY <1>1 DEF RunEnds, Goto, RunInv, Statuses
<1> QED
  BY <1>1, <1>2, PlainMove DEF RunEnds, Phase

(* A step of the users or of a signal leaves the runs alone.               *)
LEMMA UsersMove ==
  ASSUME IInv, StoreInv', ReviewsFollowRun', ApprovalsKnown', UNCHANGED runVars
  PROVE  IInv'
<1>1. RunInv' /\ RoundsInv'
  BY DEF IInv, RunInv, runVars, RoundsInv, InExecution, RoundsKnowAll, Accounted, FirstRound
<1> QED
  BY <1>1 DEF IInv

LEMMA AbortRunInv == ASSUME IInv, NEW r \in Run, AbortRun(r) PROVE IInv'
<1>1. StoreInv /\ ReviewsFollowRun /\ ApprovalsKnown /\ UNCHANGED runVars /\ Abort(r)
  BY DEF IInv, AbortRun
<1>2. /\ StoreInv' /\ StoreKept /\ aborted' = aborted \cup {r}
      /\ \A i \in Ids : /\ reviews[i].run = r => reviews'[i].verdict # "open"
                        /\ reviews[i].run # r => reviews'[i] = reviews[i]
                        /\ reviews'[i].verdict \in {reviews[i].verdict, "reject"}
  BY <1>1, AbortSettles
<1>3. \A i \in Ids : ~(reviews'[i].verdict = "approve" /\ i \in Open)
  BY <1>2 DEF Open
<1>4. \A i \in Ids : reviews'[i].verdict = "open" => reviews[i].run \notin aborted'
  <2> SUFFICES ASSUME NEW i \in Ids, reviews'[i].verdict = "open"
               PROVE  reviews[i].run \notin aborted'
    OBVIOUS
  <2>1. reviews[i].verdict = "open" /\ reviews[i].run # r
    BY <1>2
  <2>2. reviews[i].run \in Run
    BY <1>1, EntryOf DEF Entry
  <2> QED
    BY <1>1, <1>2, <2>1, <2>2 DEF ReviewsFollowRun, Open
<1>5. ReviewsFollowRun' /\ ApprovalsKnown'
  BY <1>1, <1>2, <1>3, <1>4, ReviewsSettle
<1> QED
  BY <1>1, <1>2, <1>5, UsersMove

LEMMA DecideInv == ASSUME IInv, Decide(planned), UNCHANGED runVars PROVE IInv'
<1>1. StoreInv /\ ReviewsFollowRun /\ ApprovalsKnown
  BY DEF IInv
<1>2. PICK i \in Ids : Approve(i, planned[reviews[i].run]) \/ Reject(i) \/ Revise(i)
  BY DEF Decide
<1>3. PICK v \in {"approve", "reject", "revise"} :
        /\ reviews' = Decided(i, v) /\ UNCHANGED aborted
        /\ v = "approve" => Valid(Compile(reviews[i].plan), planned[reviews[i].run])
  BY <1>2 DEF Approve, Reject, Revise
<1>4. /\ StoreInv' /\ StoreKept /\ \A j \in Ids \ {i} : reviews'[j] = reviews[j]
      /\ reviews'[i].verdict = IF i \in Open THEN v ELSE reviews[i].verdict
  <2>1. v \in Verdict \ {"open"}
    BY DEF Verdict
  <2> QED
    BY <1>1, <1>3, <2>1, DecideSettles
<1>5. \A j \in Ids : reviews'[j].verdict = "approve" /\ j \in Open
                       => DepsKnown(Compile(reviews[j].plan), planned[reviews[j].run])
  <2> SUFFICES ASSUME NEW j \in Ids, reviews'[j].verdict = "approve", j \in Open
               PROVE  DepsKnown(Compile(reviews[j].plan), planned[reviews[j].run])
    OBVIOUS
  <2>1. j = i /\ v = "approve"
    BY <1>4 DEF Open
  <2> QED
    BY <1>3, <2>1 DEF Valid, Sound, DepsKnown
<1>6. \A j \in Ids : reviews'[j].verdict = "open" => reviews[j].run \notin aborted'
  <2> SUFFICES ASSUME NEW j \in Ids, reviews'[j].verdict = "open"
               PROVE  reviews[j].run \notin aborted
    BY <1>3
  <2>1. j \in Open /\ reviews[j].run \in Run
    BY <1>1, <1>4, EntryOf DEF Open, StoreKept, Entry
  <2> QED
    BY <1>1, <2>1 DEF ReviewsFollowRun
<1> QED
  BY <1>1, <1>4, <1>5, <1>6, ReviewsSettle, UsersMove

LEMMA Invariance == IInv /\ [Next]_vars => IInv'
<1> SUFFICES ASSUME IInv, [Next]_vars PROVE IInv'
  OBVIOUS
<1>1. ASSUME NEW r \in Run, RunStep(r) PROVE IInv'
  BY <1>1, PlanFailsInv, NoPlanMadeInv, PlanMadeInv, ReviewResolvedInv, ExecuteReturnsInv,
     ExecuteThrowsInv, AggregateEndsInv, RunEndsInv DEF RunStep
<1>2. ASSUME NEW r \in Run, AbortRun(r) PROVE IInv'
  BY <1>2, AbortRunInv
<1>3. CASE Decide(planned) /\ UNCHANGED runVars
  BY <1>3, DecideInv
<1>4. CASE UNCHANGED vars
  <2>1. StoreInv' /\ ReviewsFollowRun' /\ ApprovalsKnown' /\ UNCHANGED runVars
    <3>1. UNCHANGED reviewVars /\ UNCHANGED runVars
      BY <1>4 DEF vars
    <3>2. StoreInv' /\ phase' = phase /\ planned' = planned
      BY <3>1 DEF IInv, StoreInv, reviewVars, runVars
    <3>3. ReviewsFollowRun' /\ ApprovalsKnown'
      BY <3>1, <3>2, ReviewsStay DEF IInv
    <3> QED
      BY <3>1, <3>2, <3>3
  <2> QED
    BY <2>1, UsersMove
<1> QED
  BY <1>1, <1>2, <1>3, <1>4 DEF Next, Over
LEMMA Inductive == Spec => []IInv
<1>1. IInv /\ [Next]_vars => IInv'
  BY Invariance
<1> QED
  BY InitInv, <1>1, PTL DEF Spec
-------------------------------------------------------------------------------
(* For any runs, plans and bounds the state of the rounds and of the       *)
(* review store has its types.                                             *)
THEOREM OrchestratorTypes == Spec => []TypeOK
<1>1. IInv => TypeOK
  <2> SUFFICES ASSUME IInv PROVE TypeOK
    OBVIOUS
  <2>1. reviews \in Seq(Entry) /\ aborted \subseteq Run /\ RunInv
    BY DEF IInv, StoreInv
  <2>2. \A i \in 1..Len(reviews) : reviews[i] \in Review
    BY <2>1, EntryOf, CompiledArePlans DEF IInv, Ids, Entry, Review
  <2>3. reviews \in Seq(Review)
    <3>1. Len(reviews) \in Nat /\ reviews \in [1..Len(reviews) -> Entry]
      BY <2>1, LenProperties
    <3>2. reviews \in [1..Len(reviews) -> Review]
      BY <2>2, <3>1
    <3> QED
      BY <3>1, <3>2, IsASeq
  <2>4. /\ phase \in [Run -> Phase] /\ round \in [Run -> 1..MaxRounds]
        /\ approved \in [Run -> Plan \cup {NoPlan}]
        /\ \A r \in Run : planned[r] \subseteq UNION {TasksIn(p) : p \in Plan}
        /\ results \in [Run -> [Tasks -> EndStatus \cup {"none"}]]
        /\ status \in [Run -> {"none", "complete", "failed", "aborted"}]
    BY <2>1 DEF RunInv, PlanTasks, Results
  <2> QED
    BY <2>1, <2>3, <2>4 DEF TypeOK, ReviewTypeOK
<1> QED
  BY Inductive, <1>1, PTL

(* No review outlives the stage or the signal of its run, and a run has    *)
(* one open at most, however users, aborts and runs interleave.            *)
THEOREM ReviewsFollow == Spec => []ReviewsFollowRun
<1>1. IInv => ReviewsFollowRun
  BY DEF IInv
<1> QED
  BY Inductive, <1>1, PTL

(* Over any number of rounds, executeDag knows every dependency of the     *)
(* plan it is given and the aggregation has a result for every task.       *)
THEOREM RoundsKnow == Spec => []RoundsKnowAll
<1>1. IInv => RoundsKnowAll
  BY DEF IInv, RoundsInv
<1> QED
  BY Inductive, <1>1, PTL

(* What any step does to the store.                                        *)
LEMMA StoreMoves ==
  ASSUME IInv, [Next]_vars
  PROVE  StoreKept \/ \E r \in Run, p \in Compiled : Grown(r, p)
<1>1. StoreInv
  BY DEF IInv
<1>2. CASE UNCHANGED reviewVars
  BY <1>2 DEF StoreKept, reviewVars
<1>3. ASSUME NEW r \in Run, NEW p \in Compiled, Register(r, p) PROVE Grown(r, p)
  BY <1>1, <1>3, RegisterGrows
<1>4. ASSUME NEW r \in Run, RunStep(r)
      PROVE  UNCHANGED reviewVars \/ \E p \in Compiled : Register(r, p)
  <2>1. \A i \in Ids : reviews[i].plan \in Compiled
    BY <1>1, EntryOf
  <2>2. \A raw \in RawPlan : Compile(raw) \in Compiled
    BY DEF Compiled
  <2> QED
    BY <1>4, <2>1, <2>2 DEF RunStep, PlanFails, NoPlanMade, PlanMade, ReviewResolved,
       ExecuteReturns, ExecuteThrows, AggregateEnds, RunEnds
<1>5. ASSUME NEW r \in Run, AbortRun(r) PROVE StoreKept
  BY <1>1, <1>5, AbortSettles DEF AbortRun
<1>6. CASE Decide(planned)
  <2>1. PICK i \in Ids, v \in Verdict \ {"open"} : reviews' = Decided(i, v) /\ UNCHANGED aborted
    BY <1>6 DEF Decide, Approve, Reject, Revise, Verdict
  <2> QED
    BY <1>1, <2>1, DecideSettles
<1>7. CASE UNCHANGED vars
  BY <1>2, <1>7 DEF vars
<1> QED
  BY <1>2, <1>3, <1>4, <1>5, <1>6, <1>7 DEF Next, Over

(* The first decision on a review is final, for any number of users,       *)
(* clicks and aborts.                                                      *)
THEOREM FinalDecisions == Spec => DecisionsAreFinal
<1>1. ASSUME IInv, [Next]_vars
      PROVE  [/\ Len(reviews') >= Len(reviews)
              /\ \A i \in Ids : /\ reviews'[i].run = reviews[i].run
                                /\ reviews'[i].plan = reviews[i].plan
                                /\ i \notin Open => reviews'[i].verdict = reviews[i].verdict]_reviews
  <2>1. Len(reviews) \in Nat
    BY <1>1, LenProperties DEF IInv, StoreInv
  <2>2. CASE StoreKept
    BY <2>1, <2>2 DEF StoreKept, Open
  <2>3. ASSUME NEW r \in Run, NEW p \in Compiled, Grown(r, p)
        PROVE  Len(reviews') >= Len(reviews) /\ \A i \in Ids : reviews'[i] = reviews[i]
    BY <2>1, <2>3 DEF Grown
  <2> QED
    BY <1>1, <2>2, <2>3, StoreMoves
<1> QED
  BY Inductive, <1>1, PTL DEF Spec, DecisionsAreFinal

(* Work that was done is reported: a run that has executed a plan ends as  *)
(* complete only out of the aggregation, for any number of rounds, unless  *)
(* the user rejected the last plan.                                        *)
THEOREM WorkIsReported == Spec => CompleteIsAggregated
<1>1. ASSUME IInv, [Next]_vars
      PROVE  [\A r \in Run : status'[r] = "complete" /\ status[r] # "complete" =>
                phase[r] = "aggregating" \/ planned[r] = {} \/ Rejected(r)]_vars
  <2> SUFFICES ASSUME Next, NEW q \in Run, status'[q] = "complete", status[q] # "complete"
               PROVE  phase[q] = "aggregating" \/ planned[q] = {}
    BY <1>1
  <2>1. /\ status \in [Run -> Statuses] /\ FirstRound
        /\ \A r \in Run : round[r] \in Nat /\ round[r] >= 1
    BY <1>1 DEF IInv, RunInv, RoundsInv, Statuses
  <2>2. ASSUME NEW r \in Run, NEW s, Close(r, s) PROVE q = r /\ s = "complete"
    BY <2>1, <2>2 DEF Close
  <2>3. ASSUME NEW r \in Run, RunStep(r)
        PROVE  /\ ~Close(r, "failed")
               /\ status' = status \/ Close(r, "complete")
    BY <2>2, <2>3 DEF RunStep, PlanFails, NoPlanMade, PlanMade, ReviewResolved, Launch, Replan,
       Decline, ExecuteReturns, ExecuteThrows, AggregateEnds, RunEnds, EnterRound, Aggregate
  <2>4. RunStep(q)
    <3>1. PICK r \in Run : RunStep(r)
      BY DEF Next, AbortRun, Over, vars, runVars
    <3> QED
      BY <2>2, <2>3, <3>1
  <2>5. ~Close(q, "failed") /\ status' # status
    BY <2>3, <2>4
  <2>6. \/ phase[q] = "planning" /\ round[q] = 1
        \/ phase[q] = "review" /\ round[q] = 1
        \/ phase[q] = "aggregating"
    BY <2>4, <2>5 DEF RunStep, PlanFails, NoPlanMade, PlanMade, ReviewResolved, Launch, Replan,
       Decline, ExecuteReturns, ExecuteThrows, AggregateEnds, RunEnds, EnterRound, Aggregate
  <2> QED
    BY <2>1, <2>6 DEF FirstRound
<1> QED
  BY Inductive, <1>1, PTL DEF Spec, CompleteIsAggregated
-------------------------------------------------------------------------------
(* The refinement.  What the gate sees of a run, by its latest review.     *)
Views ==
  \A q \in Run :
    /\ \A i \in Ids : IsLatest(i, q) =>
         /\ OnTable(q) = IF reviews[i].verdict = "open" THEN reviews[i].plan ELSE NoPlan
         /\ Granted(q) = IF phase[q] = "review" /\ reviews[i].verdict = "approve"
                         THEN Compile(reviews[i].plan) ELSE NoPlan
    /\ (\A i \in Ids : ~IsLatest(i, q)) => OnTable(q) = NoPlan /\ Granted(q) = NoPlan

LEMMA ViewsHold == IInv => Views
<1> SUFFICES ASSUME IInv, NEW q \in Run
    PROVE /\ \A i \in Ids : IsLatest(i, q) =>
               /\ OnTable(q) = IF reviews[i].verdict = "open" THEN reviews[i].plan ELSE NoPlan
               /\ Granted(q) = IF phase[q] = "review" /\ reviews[i].verdict = "approve"
                               THEN Compile(reviews[i].plan) ELSE NoPlan
          /\ (\A i \in Ids : ~IsLatest(i, q)) => OnTable(q) = NoPlan /\ Granted(q) = NoPlan
  BY DEF Views
<1>1. StoreInv /\ ReviewsFollowRun
  BY DEF IInv
<1>2. \A i, j \in Ids : IsLatest(i, q) /\ IsLatest(j, q) => i = j
  BY DEF IsLatest, Ids
<1>3. \A i \in Open : reviews[i].run = q => IsLatest(i, q) /\ i \in Ids
  BY <1>1 DEF ReviewsFollowRun, Open
<1>4. ASSUME NEW i \in Ids, IsLatest(i, q)
      PROVE  /\ OnTable(q) = IF reviews[i].verdict = "open" THEN reviews[i].plan ELSE NoPlan
             /\ Granted(q) = IF phase[q] = "review" /\ reviews[i].verdict = "approve"
                             THEN Compile(reviews[i].plan) ELSE NoPlan
  <2>1. (CHOOSE j \in Ids : IsLatest(j, q)) = i
    BY <1>2, <1>4
  <2>2. CASE reviews[i].verdict = "open"
    <3>1. i \in Open /\ reviews[i].run = q
      BY <1>4, <2>2 DEF Open, IsLatest, ReviewsOf
    <3>2. (CHOOSE j \in Open : reviews[j].run = q) = i
      BY <1>2, <1>3, <3>1
    <3> QED
      BY <1>2, <1>4, <2>1, <2>2, <3>1, <3>2 DEF OnTable, Granted, UnderReview
  <2>3. CASE reviews[i].verdict # "open"
    <3>1. ~UnderReview(q)
      BY <1>1, <1>4, <2>3, ResolvedIsClosed
    <3> QED
      BY <1>2, <1>4, <2>1, <2>3, <3>1 DEF OnTable, Granted
  <2> QED
    BY <2>2, <2>3
<1>5. ASSUME \A i \in Ids : ~IsLatest(i, q) PROVE OnTable(q) = NoPlan /\ Granted(q) = NoPlan
  BY <1>3, <1>5 DEF OnTable, Granted, UnderReview
<1> QED
  BY <1>4, <1>5

LEMMA ViewsHoldNext == IInv' => Views'
BY ViewsHold, PTL

(* A run of which neither the phase nor the reviews change looks the same. *)
SameReviews(q) ==
  /\ \A i \in Ids' : IsLatest(i, q)' <=> i \in Ids /\ IsLatest(i, q)
  /\ \A i \in Ids : IsLatest(i, q) => /\ i \in Ids' /\ reviews'[i].plan = reviews[i].plan
                                      /\ reviews'[i].verdict = reviews[i].verdict
SamePhase(q) == (phase'[q] = "review") <=> (phase[q] = "review")
Same(q) == OnTable(q)' = OnTable(q) /\ Granted(q)' = Granted(q)

LEMMA LooksSame ==
  ASSUME Views, Views', NEW q \in Run, SameReviews(q), SamePhase(q)
  PROVE  Same(q)
<1>1. CASE \E i \in Ids : IsLatest(i, q)
  <2>1. PICK i \in Ids : IsLatest(i, q)
    BY <1>1
  <2>2. /\ i \in Ids' /\ IsLatest(i, q)' /\ reviews'[i].plan = reviews[i].plan
        /\ reviews'[i].verdict = reviews[i].verdict
    BY <2>1 DEF SameReviews
  <2>3. /\ OnTable(q) = IF reviews[i].verdict = "open" THEN reviews[i].plan ELSE NoPlan
        /\ Granted(q) = IF phase[q] = "review" /\ reviews[i].verdict = "approve"
                        THEN Compile(reviews[i].plan) ELSE NoPlan
    BY <2>1 DEF Views
  <2>4. /\ OnTable(q)' = IF reviews'[i].verdict = "open" THEN reviews'[i].plan ELSE NoPlan
        /\ Granted(q)' = IF phase'[q] = "review" /\ reviews'[i].verdict = "approve"
                         THEN Compile(reviews'[i].plan) ELSE NoPlan
    BY <2>2 DEF Views
  <2> QED
    BY <2>2, <2>3, <2>4 DEF SamePhase, Same
<1>2. CASE \A i \in Ids : ~IsLatest(i, q)
  <2>1. OnTable(q) = NoPlan /\ Granted(q) = NoPlan
    BY <1>2 DEF Views
  <2>2. \A i \in Ids' : ~IsLatest(i, q)'
    BY <1>2 DEF SameReviews
  <2>3. OnTable(q)' = NoPlan /\ Granted(q)' = NoPlan
    BY <2>2 DEF Views
  <2> QED
    BY <2>1, <2>3 DEF Same
<1> QED
  BY <1>1, <1>2
(* The steps of the gate, run by run.                                      *)
LEMMA GateStutters ==
  ASSUME \A q \in Run : Same(q), approved' = approved
  PROVE  UNCHANGED Gate!gateVars
BY DEF Same, Gate!gateVars

LEMMA GateShows ==
  ASSUME NEW r \in Run, NEW p \in Plan, \A q \in Run \ {r} : Same(q), approved' = approved,
         OnTable(r) = NoPlan, Granted(r) = NoPlan, approved[r] = NoPlan,
         OnTable(r)' = p, Granted(r)' = NoPlan
  PROVE  Gate!Show(r, p)
BY DEF Same, Gate!Show, Gate!Idle

LEMMA GateGrants ==
  ASSUME NEW r \in Run, NEW p \in Plan, \A q \in Run \ {r} : Same(q), approved' = approved,
         OnTable(r) # NoPlan, OnTable(r) \in Plan, p \in WithMoreDeps(OnTable(r)),
         OnTable(r)' = NoPlan, Granted(r)' = p
  PROVE  Gate!Grant(r, p)
<1> DEFINE T == [q \in Run |-> OnTable(q)]  G == [q \in Run |-> Granted(q)]
           S == [q \in Plan |-> WithMoreDeps(q)]
<1>1. T[r] # NoPlan /\ p \in S[T[r]]
  OBVIOUS
<1>2. T' = [T EXCEPT ![r] = NoPlan] /\ G' = [G EXCEPT ![r] = p]
  BY DEF Same
<1> QED
  BY <1>1, <1>2 DEF Gate!Grant

LEMMA GateTakesBack ==
  ASSUME NEW r \in Run, \A q \in Run \ {r} : Same(q), approved' = approved,
         OnTable(r) # NoPlan, OnTable(r)' = NoPlan, Granted(r)' = Granted(r)
  PROVE  Gate!TakeBack(r)
BY DEF Same, Gate!TakeBack

LEMMA GateLaunches ==
  ASSUME NEW r \in Run, \A q \in Run \ {r} : Same(q),
         approved' = [approved EXCEPT ![r] = Granted(r)],
         Granted(r) # NoPlan, Granted(r)' = NoPlan, OnTable(r)' = OnTable(r)
  PROVE  Gate!Launch(r)
BY DEF Same, Gate!Launch

LEMMA GateLands ==
  ASSUME NEW r \in Run, \A q \in Run : Same(q), approved[r] # NoPlan,
         approved' = [approved EXCEPT ![r] = NoPlan]
  PROVE  Gate!Land(r)
BY DEF Same, Gate!Land

(* While the store is left alone.                                          *)
LEMMA StoreAlone ==
  ASSUME UNCHANGED reviewVars
  PROVE  /\ \A q \in Run : SameReviews(q)
         /\ Ids' = Ids /\ reviews' = reviews /\ \A i, q : IsLatest(i, q)' <=> IsLatest(i, q)
<1>1. Ids' = Ids /\ reviews' = reviews /\ \A i, q : IsLatest(i, q)' <=> IsLatest(i, q)
  BY DEF reviewVars, Ids, IsLatest, ReviewsOf
<1> QED
  BY <1>1 DEF SameReviews

(* A run that leaves the review stage with its latest review i, not        *)
(* approved, or that is not in it.                                         *)
LEMMA LeavesReview ==
  ASSUME Views, Views', UNCHANGED reviewVars, NEW r \in Run, NEW i \in Ids, IsLatest(i, r),
         reviews[i].verdict # "approve",
         \A q \in Run \ {r} : SamePhase(q)
  PROVE  \A q \in Run : Same(q)
<1>1. \A q \in Run \ {r} : Same(q)
  BY LooksSame, StoreAlone
<1>2. Same(r)
  <2>1. Ids' = Ids /\ reviews' = reviews /\ IsLatest(i, r)'
    BY StoreAlone
  <2>2. /\ OnTable(r) = IF reviews[i].verdict = "open" THEN reviews[i].plan ELSE NoPlan
        /\ Granted(r) = NoPlan
    BY DEF Views
  <2>3. /\ OnTable(r)' = IF reviews[i].verdict = "open" THEN reviews[i].plan ELSE NoPlan
        /\ Granted(r)' = NoPlan
    BY <2>1 DEF Views
  <2> QED
    BY <2>2, <2>3 DEF Same
<1> QED
  BY <1>1, <1>2

(* Elsewhere a run's plan is neither on the table nor granted.             *)
LEMMA NothingToSee ==
  ASSUME IInv, NEW r \in Run, phase[r] # "review"
  PROVE  OnTable(r) = NoPlan /\ Granted(r) = NoPlan
<1>1. ~UnderReview(r)
  BY OnlyInReview DEF IInv
<1> QED
  BY <1>1 DEF OnTable, Granted
(* Every step of the rounds and of the store is a step of the gate or none.*)
GateStep == [Gate!Next]_(Gate!gateVars)

LEMMA RegisterGate ==
  ASSUME IInv, Views, Views', NEW r \in Run, NEW p \in Compiled, Register(r, p),
         phase[r] \in {"planning", "replanning"}, phase' = [phase EXCEPT ![r] = "review"],
         approved' = approved
  PROVE  GateStep
<1> PICK n : n = Len(reviews) + 1
  OBVIOUS
<1>1. StoreInv /\ Grown(r, p) /\ RunInv /\ InExecution
  BY RegisterGrows DEF IInv, RoundsInv
<1>2. /\ Ids' = Ids \cup {n} /\ n \notin Ids
      /\ \A i \in Ids' : IsLatest(i, r)' <=> i = n
      /\ \A q \in Run \ {r}, i \in Ids' : IsLatest(i, q)' <=> i \in Ids /\ IsLatest(i, q)
  BY <1>1, GrownViews
<1>3. /\ \A i \in Ids : reviews'[i] = reviews[i]
      /\ reviews'[n] = [run |-> r, plan |-> p, verdict |-> IF r \in aborted THEN "reject" ELSE "open"]
  BY <1>1 DEF Grown
<1>4. \A q \in Run \ {r} : Same(q)
  <2> SUFFICES ASSUME NEW q \in Run \ {r} PROVE Same(q)
    OBVIOUS
  <2>1. SameReviews(q)
    BY <1>2, <1>3 DEF SameReviews
  <2>2. SamePhase(q)
    BY <1>1 DEF SamePhase, RunInv
  <2> QED
    BY <2>1, <2>2, LooksSame
<1>5. OnTable(r) = NoPlan /\ Granted(r) = NoPlan /\ approved[r] = NoPlan
  <2>1. phase[r] # "review" /\ approved[r] = NoPlan
    BY <1>1 DEF InExecution
  <2> QED
    BY <2>1, NothingToSee
<1>6. /\ OnTable(r)' = IF r \in aborted THEN NoPlan ELSE p
      /\ Granted(r)' = NoPlan
  <2>1. n \in Ids' /\ IsLatest(n, r)'
    BY <1>2
  <2> QED
    BY <1>3, <2>1 DEF Views
<1>7. CASE r \in aborted
  <2>1. Same(r)
    BY <1>5, <1>6, <1>7 DEF Same
  <2> QED
    BY <1>4, <2>1, GateStutters DEF GateStep
<1>8. CASE r \notin aborted
  <2>1. p \in Plan
    BY CompiledArePlans
  <2>2. Gate!Show(r, p)
    BY <1>4, <1>5, <1>6, <1>8, <2>1, GateShows
  <2> QED
    BY <2>1, <2>2 DEF GateStep, Gate!Next
<1> QED
  BY <1>7, <1>8

LEMMA LaunchGate ==
  ASSUME IInv, Views, Views', NEW r \in Run, NEW i \in Ids, phase[r] = "review", IsLatest(i, r),
         Launch(r, i), UNCHANGED reviewVars
  PROVE  GateStep
<1> DEFINE p == Compile(reviews[i].plan)
<1>1. RunInv /\ p \in Plan /\ p # NoPlan
  BY EntryOf DEF IInv
<1>2. OnTable(r) = NoPlan /\ Granted(r) = p
  BY DEF Views, Launch
<1>3. phase' = [phase EXCEPT ![r] = "executing"] /\ approved' = [approved EXCEPT ![r] = p]
  BY DEF Launch, Goto
<1> HIDE DEF p
<1>4. Ids' = Ids /\ reviews' = reviews /\ IsLatest(i, r)' /\ \A q \in Run : SameReviews(q)
  BY StoreAlone
<1>5. OnTable(r)' = NoPlan /\ Granted(r)' = NoPlan
  <2>1. phase'[r] = "executing" /\ reviews'[i].verdict = "approve"
    BY <1>1, <1>3, <1>4 DEF RunInv, Launch
  <2> QED
    BY <1>4, <2>1 DEF Views
<1>6. \A q \in Run \ {r} : Same(q)
  <2>1. \A q \in Run \ {r} : SamePhase(q)
    BY <1>1, <1>3 DEF SamePhase, RunInv
  <2> QED
    BY <1>4, <2>1, LooksSame
<1>7. Gate!Launch(r)
  BY <1>1, <1>2, <1>3, <1>5, <1>6, GateLaunches
<1> QED
  BY <1>7 DEF GateStep, Gate!Next

LEMMA LandGate ==
  ASSUME IInv, Views, Views', NEW r \in Run, phase[r] = "executing", phase'[r] # "review",
         \A q \in Run \ {r} : phase'[q] = phase[q], UNCHANGED reviewVars,
         approved' = [approved EXCEPT ![r] = NoPlan]
  PROVE  GateStep
<1>1. \A q \in Run : SamePhase(q)
  BY DEF SamePhase
<1>2. \A q \in Run : Same(q)
  BY <1>1, LooksSame, StoreAlone
<1>3. approved[r] # NoPlan
  BY DEF IInv, RoundsInv, InExecution
<1>4. Gate!Land(r)
  BY <1>2, <1>3, GateLands
<1> QED
  BY <1>4 DEF GateStep, Gate!Next

LEMMA DecideGate ==
  ASSUME IInv, Views, Views', Decide(planned), UNCHANGED runVars
  PROVE  GateStep
<1>1. PICK i \in Ids, v \in {"approve", "reject", "revise"} :
        reviews' = Decided(i, v) /\ UNCHANGED aborted
  BY DEF Decide, Approve, Reject, Revise
<1>2. /\ StoreInv /\ ReviewsFollowRun /\ phase' = phase /\ approved' = approved
      /\ reviews[i] \in Entry /\ reviews[i].plan \in Compiled
  BY EntryOf DEF IInv, runVars
<1>3. /\ StoreKept /\ \A j \in Ids \ {i} : reviews'[j] = reviews[j]
      /\ reviews'[i].verdict = IF i \in Open THEN v ELSE reviews[i].verdict
  <2>1. v \in Verdict \ {"open"}
    BY DEF Verdict
  <2> QED
    BY <1>1, <1>2, <2>1, DecideSettles
<1>4. Ids' = Ids /\ \A q \in Run, j \in Ids : IsLatest(j, q)' <=> IsLatest(j, q)
  BY <1>2, <1>3, SettledViews
<1>5. \A q \in Run : SamePhase(q)
  BY <1>2 DEF SamePhase
<1>6. CASE i \notin Open
  <2>1. \A q \in Run : SameReviews(q)
    BY <1>3, <1>4, <1>6 DEF SameReviews, StoreKept
  <2>2. \A q \in Run : Same(q)
    BY <1>5, <2>1, LooksSame
  <2> QED
    BY <1>2, <2>2, GateStutters DEF GateStep
<1>7. CASE i \in Open
  <2> PICK r, p : r = reviews[i].run /\ p = Compile(reviews[i].plan)
    OBVIOUS
  <2>1. r \in Run /\ IsLatest(i, r) /\ phase[r] = "review" /\ reviews[i].verdict = "open"
    BY <1>2, <1>7 DEF ReviewsFollowRun, Open, Entry
  <2>2. \A q \in Run \ {r} : Same(q)
    <3> SUFFICES ASSUME NEW q \in Run \ {r} PROVE Same(q)
      OBVIOUS
    <3>1. ~IsLatest(i, q)
      BY DEF IsLatest, ReviewsOf
    <3>2. SameReviews(q)
      BY <1>3, <1>4, <3>1 DEF SameReviews, StoreKept
    <3> QED
      BY <1>5, <3>2, LooksSame
  <2>3. OnTable(r) = reviews[i].plan /\ Granted(r) = NoPlan
    BY <2>1 DEF Views
  <2>4. /\ OnTable(r)' = NoPlan
        /\ Granted(r)' = IF v = "approve" THEN p ELSE NoPlan
    <3>1. /\ i \in Ids' /\ IsLatest(i, r)' /\ reviews'[i].verdict = v
          /\ reviews'[i].plan = reviews[i].plan /\ phase'[r] = "review"
      BY <1>2, <1>3, <1>4, <1>7, <2>1 DEF StoreKept
    <3> QED
      BY <2>1, <3>1 DEF Views
  <2>5. /\ reviews[i].plan \in Plan /\ reviews[i].plan # NoPlan /\ p \in Plan
        /\ p \in WithMoreDeps(reviews[i].plan)
    BY <1>2, CompiledArePlans, MoreDeps, RoundAssumption
  <2>6. CASE v = "approve"
    <3>1. Gate!Grant(r, p)
      BY <1>2, <2>1, <2>2, <2>3, <2>4, <2>5, <2>6, GateGrants
    <3> QED
      BY <2>1, <2>5, <3>1 DEF GateStep, Gate!Next
  <2>7. CASE v # "approve"
    <3>1. Gate!TakeBack(r)
      BY <1>2, <2>1, <2>2, <2>3, <2>4, <2>5, <2>7, GateTakesBack
    <3> QED
      BY <2>1, <3>1 DEF GateStep, Gate!Next
  <2> QED
    BY <2>6, <2>7
<1> QED
  BY <1>6, <1>7

LEMMA AbortGate ==
  ASSUME IInv, Views, Views', NEW r \in Run, AbortRun(r)
  PROVE  GateStep
<1>1. StoreInv /\ ReviewsFollowRun /\ phase' = phase /\ approved' = approved /\ Abort(r)
  BY DEF IInv, AbortRun, runVars
<1>2. /\ StoreKept
      /\ \A i \in Ids : /\ reviews[i].run = r => reviews'[i].verdict # "open"
                        /\ reviews[i].run # r => reviews'[i] = reviews[i]
                        /\ reviews'[i].verdict \in {reviews[i].verdict, "reject"}
  BY <1>1, AbortSettles
<1>3. Ids' = Ids /\ \A q \in Run, i \in Ids : IsLatest(i, q)' <=> IsLatest(i, q)
  BY <1>1, <1>2, SettledViews
<1>4. \A q \in Run : SamePhase(q)
  BY <1>1 DEF SamePhase
<1>5. \A q \in Run \ {r} : Same(q)
  <2> SUFFICES ASSUME NEW q \in Run \ {r} PROVE Same(q)
    OBVIOUS
  <2>1. SameReviews(q)
    BY <1>2, <1>3 DEF SameReviews, IsLatest, ReviewsOf
  <2> QED
    BY <1>4, <2>1, LooksSame
<1>6. CASE \E i \in Open : reviews[i].run = r
  <2>1. PICK i \in Open : reviews[i].run = r
    BY <1>6
  <2>2. i \in Ids /\ IsLatest(i, r) /\ reviews[i].verdict = "open"
    BY <1>1, <2>1 DEF ReviewsFollowRun, Open
  <2>3. reviews'[i].verdict = "reject"
    BY <1>2, <2>1, <2>2
  <2>4. /\ OnTable(r) = reviews[i].plan /\ Granted(r) = NoPlan
        /\ OnTable(r)' = NoPlan /\ Granted(r)' = NoPlan
    BY <1>3, <2>2, <2>3 DEF Views
  <2>5. reviews[i].plan # NoPlan
    BY <1>1, <2>2, EntryOf, CompiledArePlans, RoundAssumption
  <2>6. Gate!TakeBack(r)
    BY <1>1, <1>5, <2>4, <2>5, GateTakesBack
  <2> QED
    BY <2>6 DEF GateStep, Gate!Next
<1>7. CASE ~\E i \in Open : reviews[i].run = r
  <2>1. \A i \in Ids : IsLatest(i, r) => reviews[i].verdict # "open"
    BY <1>7 DEF IsLatest, ReviewsOf, Open
  <2>2. SameReviews(r)
    BY <1>2, <1>3, <2>1 DEF SameReviews, StoreKept
  <2>3. \A q \in Run : Same(q)
    BY <1>4, <1>5, <2>2, LooksSame
  <2> QED
    BY <1>1, <2>3, GateStutters DEF GateStep
<1> QED
  BY <1>6, <1>7
(* A run that stays out of the review stage.                               *)
LEMMA OutsideGate ==
  ASSUME Views, Views', UNCHANGED reviewVars, approved' = approved,
         \A q \in Run : SamePhase(q)
  PROVE  GateStep
BY StoreAlone, LooksSame, GateStutters DEF GateStep

LEMMA RunStepGate ==
  ASSUME IInv, IInv', Views, Views', NEW r \in Run, RunStep(r)
  PROVE  GateStep
<1>1. /\ RunInv /\ RunInv' /\ StoreInv
      /\ phase \in [Run -> Phase] /\ phase' \in [Run -> Phase]
  BY DEF IInv, RunInv
<1>2. ASSUME NEW s, Close(r, s) PROVE phase' = [phase EXCEPT ![r] = "closing"]
  BY <1>2 DEF Close, Goto
<1>3. CASE PlanFails(r) \/ AggregateEnds(r) \/ RunEnds(r)
  <2>1. /\ UNCHANGED reviewVars /\ approved' = approved /\ phase[r] # "review"
        /\ \/ phase' = [phase EXCEPT ![r] = "closing"]
           \/ phase' = [phase EXCEPT ![r] = "ended"]
    BY <1>2, <1>3 DEF PlanFails, AggregateEnds, RunEnds, Goto
  <2>2. \A q \in Run : SamePhase(q)
    BY <1>1, <2>1 DEF SamePhase
  <2> QED
    BY <2>1, <2>2, OutsideGate
<1>4. CASE NoPlanMade(r)
  <2>1. CASE phase[r] = "planning" /\ UNCHANGED reviewVars
               /\ IF round[r] = 1 THEN Close(r, "complete") ELSE Aggregate(r)
    <3>1. \/ phase' = [phase EXCEPT ![r] = "closing"]
          \/ phase' = [phase EXCEPT ![r] = "aggregating"]
      BY <1>2, <2>1 DEF Aggregate, Goto
    <3>2. \A q \in Run : SamePhase(q)
      BY <1>1, <2>1, <3>1 DEF SamePhase
    <3> QED
      BY <1>4, <2>1, <3>2, OutsideGate DEF NoPlanMade
  <2>2. ASSUME NEW i \in Ids, phase[r] = "replanning", Register(r, reviews[i].plan),
               Goto(r, "review")
        PROVE  GateStep
    <3>1. PICK p \in Compiled : p = reviews[i].plan
      BY <1>1, EntryOf
    <3> QED
      BY <1>4, <2>2, <3>1, RegisterGate DEF NoPlanMade, Goto
  <2> QED
    BY <1>4, <2>1, <2>2 DEF NoPlanMade
<1>5. CASE \E raw \in RawPlan : PlanMade(r, raw)
  <2>1. PICK p \in Compiled : /\ Register(r, p) /\ phase[r] \in {"planning", "replanning"}
                              /\ phase' = [phase EXCEPT ![r] = "review"] /\ approved' = approved
    BY <1>5 DEF PlanMade, Goto, Compiled
  <2> QED
    BY <2>1, RegisterGate
<1>6. CASE ReviewResolved(r)
  <2>1. PICK i \in Ids : IsLatest(i, r) /\ (Launch(r, i) \/ Replan(r, i) \/ Decline(r, i))
    BY <1>6 DEF ReviewResolved
  <2>2. phase[r] = "review" /\ UNCHANGED reviewVars
    BY <1>6 DEF ReviewResolved
  <2>3. CASE Launch(r, i)
    BY <2>1, <2>2, <2>3, LaunchGate
  <2>4. CASE Replan(r, i) \/ Decline(r, i)
    <3>1. /\ reviews[i].verdict # "approve" /\ approved' = approved
          /\ \/ phase' = [phase EXCEPT ![r] = "closing"]
             \/ phase' = [phase EXCEPT ![r] = "aggregating"]
             \/ phase' = [phase EXCEPT ![r] = "replanning"]
      BY <1>2, <2>4 DEF Replan, Decline, Aggregate, Goto
    <3>2. \A q \in Run \ {r} : SamePhase(q)
      BY <1>1, <3>1 DEF SamePhase
    <3>3. \A q \in Run : Same(q)
      BY <2>1, <2>2, <3>1, <3>2, LeavesReview
    <3> QED
      BY <3>1, <3>3, GateStutters DEF GateStep
  <2> QED
    BY <2>1, <2>3, <2>4
<1>7. CASE ExecuteReturns(r) \/ ExecuteThrows(r)
  <2>1. /\ phase[r] = "executing" /\ UNCHANGED reviewVars
        /\ approved' = [approved EXCEPT ![r] = NoPlan]
        /\ \/ phase' = [phase EXCEPT ![r] = "closing"]
           \/ phase' = [phase EXCEPT ![r] = "aggregating"]
           \/ phase' = [phase EXCEPT ![r] = "planning"]
    BY <1>2, <1>7 DEF ExecuteReturns, ExecuteThrows, EnterRound, Aggregate, Goto
  <2>2. phase'[r] # "review" /\ \A q \in Run \ {r} : phase'[q] = phase[q]
    BY <1>1, <2>1
  <2> QED
    BY <2>1, <2>2, LandGate
<1> QED
  BY <1>3, <1>4, <1>5, <1>6, <1>7 DEF RunStep

LEMMA NextGate == IInv /\ IInv' /\ [Next]_vars => GateStep
<1> SUFFICES ASSUME IInv, IInv', [Next]_vars PROVE GateStep
  OBVIOUS
<1>1. Views /\ Views'
  BY ViewsHold, ViewsHoldNext
<1>2. CASE \E r \in Run : RunStep(r)
  BY <1>1, <1>2, RunStepGate
<1>3. CASE \E r \in Run : AbortRun(r)
  BY <1>1, <1>3, AbortGate
<1>4. CASE Decide(planned) /\ UNCHANGED runVars
  BY <1>1, <1>4, DecideGate
<1>5. CASE UNCHANGED vars
  <2>1. UNCHANGED reviewVars /\ approved' = approved /\ phase' = phase
    BY <1>5 DEF vars, runVars
  <2> QED
    BY <1>1, <2>1, OutsideGate DEF SamePhase
<1> QED
  BY <1>2, <1>3, <1>4, <1>5 DEF Next, Over

(* The rounds of any orchestrator runs, with any users, aborts, plans and  *)
(* bounds, implement the plan gate: nothing executes that was not granted  *)
(* on the table, a grant serves once, and a plan taken back never runs.    *)
THEOREM RoundsImplementGate == Spec => GateSpec
<1>1. Init => Gate!Init
  <2> SUFFICES ASSUME Init PROVE Gate!Init
    OBVIOUS
  <2>1. \A r \in Run : OnTable(r) = NoPlan /\ Granted(r) = NoPlan
    BY InitInv, NothingToSee DEF Init
  <2> QED
    BY <2>1 DEF Init, Gate!Init
<1>2. IInv /\ IInv' /\ [Next]_vars => [Gate!Next]_(Gate!gateVars)
  BY NextGate DEF GateStep
<1> QED
  BY Inductive, <1>1, <1>2, PTL DEF Spec, GateSpec, Gate!Spec
===============================================================================
