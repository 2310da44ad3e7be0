---------------------------- MODULE ReviewCardProofs ----------------------------
(***************************************************************************)
(* Proofs about ReviewCard: for any runs, plans, users, outages and        *)
(* snapshots a card shows what the server registered, and the events alone *)
(* keep a card in step with the review of its run.                         *)
(***************************************************************************)
EXTENDS ReviewCard, OrchestratorRunProofs

EventRow == [kind : {"pending", "plan", "approve", "reject", "revise"}, id : Nat,
             run : Run, plan : Plan \cup {NoPlan}]

CardTypes ==
  /\ card \in [Run -> Card]
  /\ wire \in Seq(EventRow)
  /\ snapshot = NoSnapshot \/ snapshot \subseteq Ids
  /\ fetches \in 0..MaxFetches
  /\ online \in BOOLEAN /\ outages \in 0..MaxOutages /\ missed \in 0..Len(reviews)

(* What is shown, or on its way to be shown, is in the store.              *)
InStore(i, r, p) == i \in Ids /\ reviews[i].run = r /\ reviews[i].plan = p

Places == 1..Len(wire)
WireShown ==
  \A k \in Places : wire[k].kind = "pending" => InStore(wire[k].id, wire[k].run, wire[k].plan)

(* A run that has a review has a latest one, and before the first fetch no *)
(* response is under way.                                                  *)
HasLatest == \A i \in Ids : \E j \in Ids : IsLatest(j, reviews[i].run)
FirstFetch == fetches = 0 => snapshot = NoSnapshot

(* Where review i of run r is: the event that puts it on the card, the one *)
(* that takes it off, and the card.                                        *)
About(k, r) == wire[k].run = r
News(k, r) == About(k, r) /\ wire[k].kind = "pending"
NewsOf(k, i, r) == News(k, r) /\ wire[k].id = i
EndOf(k, i, r) ==
  About(k, r) /\ wire[k].id = i /\ wire[k].kind \in {"approve", "reject", "revise"}
Holds(i, r) == Offers(r) => card[r].id = i

(* Once the wire is empty the card offers i: its event is the last one     *)
(* about the run, or has been applied and no other is on its way.          *)
WillOffer(i, r) ==
  \/ \E k \in Places : NewsOf(k, i, r) /\ \A j \in Places : k < j => ~About(j, r)
  \/ Offers(r) /\ card[r].id = i /\ \A k \in Places : ~About(k, r)

(* Once the wire is empty the card offers nothing: the event that takes i  *)
(* off follows the one that puts it on, or follows while the card holds i, *)
(* or the card is off already; and no other review is on its way.          *)
WillNotOffer(i, r) ==
  \/ \E k, n \in Places : /\ k < n /\ NewsOf(k, i, r) /\ EndOf(n, i, r)
                          /\ \A j \in Places : k < j => ~News(j, r)
  \/ /\ \E n \in Places : EndOf(n, i, r)
     /\ Holds(i, r) /\ \A j \in Places : ~News(j, r)
  \/ ~Offers(r) /\ \A j \in Places : ~News(j, r)

OnTheWay ==
  online /\ fetches = 0 =>
    \A r \in Run, i \in Ids : IsLatest(i, r) /\ missed < i =>
      /\ i \in Open => WillOffer(i, r)
      /\ i \notin Open => WillNotOffer(i, r)

CardInv ==
  /\ IInv /\ CardTypes /\ ShownIsRegistered /\ WireShown
  /\ HasLatest /\ FirstFetch /\ OnTheWay
-------------------------------------------------------------------------------
(* What a step of the server changes in the store, and what it launches.   *)
SameEntry(i) == reviews'[i] = reviews[i]
Launches(r) == approved[r] = NoPlan /\ approved'[r] # NoPlan

StoreSame == Len(reviews') = Len(reviews) /\ \A i \in Ids : SameEntry(i)
Decides(i, v) ==
  /\ i \in Open /\ Len(reviews') = Len(reviews)
  /\ \A j \in Ids \ {i} : SameEntry(j)
  /\ reviews'[i].run = reviews[i].run /\ reviews'[i].plan = reviews[i].plan
  /\ reviews'[i].verdict = v

LEMMA ServerMoves ==
  ASSUME IInv, Next
  PROVE  \/ StoreSame /\ \A q \in Run : ~Launches(q)
         \/ /\ StoreSame
            /\ \E r \in Run : /\ Launches(r) /\ \A q \in Run \ {r} : ~Launches(q)
                              /\ \A i \in Ids : IsLatest(i, r) => i \notin Open
         \/ /\ \E r \in Run, p \in Compiled : Grown(r, p)
            /\ \A q \in Run : ~Launches(q)
         \/ /\ \E i \in Ids, v \in {"approve", "reject", "revise"} : Decides(i, v)
            /\ \A q \in Run : ~Launches(q)
<1> DEFINE Goal ==
             \/ StoreSame /\ \A q \in Run : ~Launches(q)
             \/ /\ StoreSame
                /\ \E r \in Run : /\ Launches(r) /\ \A q \in Run \ {r} : ~Launches(q)
                                  /\ \A i \in Ids : IsLatest(i, r) => i \notin Open
             \/ /\ \E r \in Run, p \in Compiled : Grown(r, p)
                /\ \A q \in Run : ~Launches(q)
             \/ /\ \E i \in Ids, v \in {"approve", "reject", "revise"} : Decides(i, v)
                /\ \A q \in Run : ~Launches(q)
<1>1. StoreInv /\ ReviewsFollowRun /\ approved \in [Run -> Plan \cup {NoPlan}]
  BY DEF IInv, RunInv
<1>2. UNCHANGED reviews => StoreSame
  BY DEF StoreSame, SameEntry
<1>3. UNCHANGED approved => \A q \in Run : ~Launches(q)
  BY DEF Launches
<1>4. ASSUME NEW r \in Run, NEW p \in Compiled, Register(r, p) PROVE Grown(r, p)
  BY <1>1, <1>4, RegisterGrows
<1>5. ASSUME NEW r \in Run, RunStep(r), ~ReviewResolved(r)
      PROVE  /\ \A q \in Run : ~Launches(q)
             /\ UNCHANGED reviews \/ \E p \in Compiled : Register(r, p)
  <2>1. \A i \in Ids : reviews[i].plan \in Compiled
    BY <1>1, EntryOf
  <2>2. \A raw \in RawPlan : Compile(raw) \in Compiled
    BY DEF Compiled
  <2>3. CASE PlanFails(r) \/ NoPlanMade(r) \/ AggregateEnds(r) \/ RunEnds(r)
    BY <1>3, <2>1, <2>3 DEF PlanFails, NoPlanMade, AggregateEnds, RunEnds, reviewVars
  <2>4. ASSUME NEW raw \in RawPlan, PlanMade(r, raw)
        PROVE  UNCHANGED approved /\ \E p \in Compiled : Register(r, p)
    BY <2>2, <2>4 DEF PlanMade
  <2>5. CASE ExecuteReturns(r) \/ ExecuteThrows(r)
    <3>1. approved' = [approved EXCEPT ![r] = NoPlan] /\ UNCHANGED reviews
      BY <2>5 DEF ExecuteReturns, ExecuteThrows, reviewVars
    <3> QED
      BY <1>1, <3>1 DEF Launches
  <2> QED
    BY <1>3, <1>5, <2>3, <2>4, <2>5 DEF RunStep
<1>6. ASSUME NEW r \in Run, ReviewResolved(r) PROVE Goal
  <2>1. /\ UNCHANGED reviews
        /\ \E i \in Ids : IsLatest(i, r) /\ (Launch(r, i) \/ Replan(r, i) \/ Decline(r, i))
    BY <1>6 DEF ReviewResolved, reviewVars
  <2>2. PICK i \in Ids : IsLatest(i, r) /\ (Launch(r, i) \/ Replan(r, i) \/ Decline(r, i))
    BY <2>1
  <2>3. CASE UNCHANGED approved
    BY <1>2, <1>3, <2>1, <2>3
  <2>4. CASE Launch(r, i)
    <3>1. \A q \in Run \ {r} : ~Launches(q)
      BY <1>1, <2>4 DEF Launch, Launches
    <3>2. \A j \in Ids : IsLatest(j, r) => j = i
      BY <2>2 DEF IsLatest, ReviewsOf, Ids
    <3>3. i \notin Open
      BY <2>4 DEF Launch, Open
    <3> QED
      BY <1>2, <2>1, <3>1, <3>2, <3>3
  <2> QED
    BY <2>2, <2>3, <2>4 DEF Replan, Decline
<1>7. ASSUME NEW r \in Run, AbortRun(r) PROVE Goal
  <2>1. /\ StoreKept /\ UNCHANGED approved
        /\ \A i \in Ids : /\ reviews[i].run = r => reviews'[i].verdict # "open"
                          /\ reviews[i].run # r => SameEntry(i)
                          /\ reviews'[i].verdict \in {reviews[i].verdict, "reject"}
    BY <1>1, <1>7, AbortSettles DEF AbortRun, runVars, SameEntry
  <2>2. \A i \in Ids : i \notin Open => SameEntry(i)
    BY <1>1, <1>7 DEF AbortRun, Abort, SameEntry
  <2>3. CASE \E i \in Open : reviews[i].run = r
    <3>1. PICK i \in Open : reviews[i].run = r
      BY <2>3
    <3>2. i \in Ids /\ \A j \in Open : reviews[j].run = r => j = i
      BY <1>1, <3>1 DEF ReviewsFollowRun, IsLatest, ReviewsOf, Open, Ids
    <3>3. reviews'[i].verdict = "reject"
      BY <2>1, <3>1, <3>2 DEF Open
    <3>4. Decides(i, "reject")
      BY <2>1, <2>2, <3>1, <3>2, <3>3 DEF StoreKept, Decides
    <3> QED
      BY <1>3, <2>1, <3>2, <3>4
  <2>4. CASE ~\E i \in Open : reviews[i].run = r
    <3>1. StoreSame
      BY <2>1, <2>2, <2>4 DEF StoreKept, StoreSame
    <3> QED
      BY <1>3, <2>1, <3>1
  <2> QED
    BY <2>3, <2>4
<1>8. ASSUME Decide(planned), UNCHANGED runVars PROVE Goal
  <2>1. PICK i \in Ids, v \in Verdict \ {"open"} : reviews' = Decided(i, v) /\ UNCHANGED aborted
    BY <1>8 DEF Decide, Approve, Reject, Revise, Verdict
  <2>2. /\ StoreKept /\ \A j \in Ids \ {i} : SameEntry(j)
        /\ reviews'[i].verdict = IF i \in Open THEN v ELSE reviews[i].verdict
    BY <1>1, <2>1, DecideSettles DEF SameEntry
  <2>3. CASE i \in Open
    <3>1. Decides(i, v) /\ v \in {"approve", "reject", "revise"}
      BY <2>2, <2>3 DEF StoreKept, Decides, Verdict
    <3> QED
      BY <1>3, <1>8, <3>1 DEF runVars
  <2>4. CASE i \notin Open
    BY <1>2, <1>3, <1>8, <2>1, <2>4 DEF Decided, runVars
  <2> QED
    BY <2>3, <2>4
<1>9. ASSUME UNCHANGED vars PROVE Goal
  BY <1>2, <1>3, <1>9 DEF vars, reviewVars, runVars
<1> HIDE DEF Goal
<1>10. Goal
  <2>1. ASSUME NEW r \in Run, RunStep(r) PROVE Goal
    BY <1>2, <1>4, <1>5, <1>6, <2>1 DEF Goal
  <2>2. \/ \E r \in Run : RunStep(r) \/ AbortRun(r)
        \/ Decide(planned) /\ UNCHANGED runVars
        \/ UNCHANGED vars
    BY Zenon DEF Next, Over
  <2>3. ASSUME NEW r \in Run, RunStep(r) \/ AbortRun(r) PROVE Goal
    BY <1>7, <2>1, <2>3
  <2>4. CASE Decide(planned) /\ UNCHANGED runVars
    BY <1>8, <2>4
  <2>5. CASE UNCHANGED vars
    BY <1>9, <2>5
  <2> QED
    BY <2>2, <2>3, <2>4, <2>5
<1> QED
  BY <1>10 DEF Goal

(* What the step publishes.                                                *)
LEMMA OneEvent ==
  ASSUME NEW e \in EventRow
  PROVE  Singleton({e}) = <<e>> /\ <<e>> \in Seq(EventRow)
<1>1. (CHOOSE x \in {e} : TRUE) = e
  OBVIOUS
<1> QED
  BY <1>1 DEF Singleton

LEMMA NoEvent == Singleton({}) = <<>> /\ <<>> \in Seq(EventRow)
BY EmptySeq DEF Singleton

LEMMA Joined ==
  ASSUME NEW u \in Seq(EventRow), NEW v \in Seq(EventRow)
  PROVE  /\ u \o v \in Seq(EventRow) /\ Len(u \o v) = Len(u) + Len(v)
         /\ \A k \in 1..(Len(u) + Len(v)) : (u \o v)[k] = IF k <= Len(u) THEN u[k] ELSE v[k - Len(u)]
BY ConcatProperties, Zenon

Adds(e) ==
  /\ wire' \in Seq(EventRow) /\ Len(wire') = Len(wire) + 1
  /\ \A k \in Places : wire'[k] = wire[k]
  /\ wire'[Len(wire) + 1] = e
AddsBoth(e, f) ==
  /\ wire' \in Seq(EventRow) /\ Len(wire') = Len(wire) + 2
  /\ \A k \in Places : wire'[k] = wire[k]
  /\ wire'[Len(wire) + 1] = e /\ wire'[Len(wire) + 2] = f

LEMMA SendsNone ==
  ASSUME CardTypes, Publish, Registered = {}, Resolved = {}, Launched = {}
  PROVE  wire' = wire
<1>1. wire \in Seq(EventRow)
  BY DEF CardTypes
<1>2. <<>> \o <<>> \o <<>> = <<>> /\ wire \o <<>> = wire
  BY <1>1, NoEvent, ConcatEmptySeq
<1> QED
  BY <1>2, NoEvent DEF Publish, Send

LEMMA SendsOne ==
  ASSUME CardTypes, Publish, online, NEW e \in EventRow,
         <<Registered, Resolved, Launched>> \in {<<{e}, {}, {}>>, <<{}, {e}, {}>>, <<{}, {}, {e}>>}
  PROVE  Adds(e)
<1>1. wire \in Seq(EventRow) /\ Len(wire) \in Nat
  BY LenProperties DEF CardTypes
<1>2. <<e>> \in Seq(EventRow) /\ <<>> \in Seq(EventRow) /\ Len(<<e>>) = 1 /\ <<e>>[1] = e
  BY OneEvent, NoEvent
<1>3. PICK u : u = <<e>>
  OBVIOUS
<1>4. u \o <<>> = u /\ <<>> \o u = u /\ <<>> \o <<>> = <<>>
  BY <1>2, <1>3, ConcatEmptySeq
<1>5. /\ Singleton({}) = <<>> /\ Singleton({e}) = u
      /\ u \in Seq(EventRow) /\ Len(u) = 1 /\ u[1] = e
  BY <1>2, <1>3, OneEvent, NoEvent
<1>6. wire' = wire \o (Singleton(Registered) \o Singleton(Resolved) \o Singleton(Launched))
  BY DEF Publish, Send
<1>7. wire' = wire \o u
  <2>1. CASE Registered = {e} /\ Resolved = {} /\ Launched = {}
    BY <1>4, <1>5, <1>6, <2>1, Zenon
  <2>2. CASE Registered = {} /\ Resolved = {e} /\ Launched = {}
    BY <1>4, <1>5, <1>6, <2>2, Zenon
  <2>3. CASE Registered = {} /\ Resolved = {} /\ Launched = {e}
    BY <1>4, <1>5, <1>6, <2>3, Zenon
  <2> QED
    BY <2>1, <2>2, <2>3
<1>8. /\ wire \o u \in Seq(EventRow) /\ Len(wire \o u) = Len(wire) + Len(u)
      /\ \A k \in 1..(Len(wire) + Len(u)) :
           (wire \o u)[k] = IF k <= Len(wire) THEN wire[k] ELSE u[k - Len(wire)]
  BY <1>1, <1>5, Joined
<1>9. PICK w : w = wire \o u
  OBVIOUS
<1> QED
  BY <1>1, <1>5, <1>7, <1>8, <1>9 DEF Adds, Places

LEMMA SendsBoth ==
  ASSUME CardTypes, Publish, online, NEW e \in EventRow, NEW f \in EventRow,
         Registered = {e}, Resolved = {f}, Launched = {}
  PROVE  AddsBoth(e, f)
<1>1. wire \in Seq(EventRow) /\ Len(wire) \in Nat
  BY LenProperties DEF CardTypes
<1>2. /\ <<e>> \in Seq(EventRow) /\ Len(<<e>>) = 1 /\ <<e>>[1] = e
      /\ <<f>> \in Seq(EventRow) /\ Len(<<f>>) = 1 /\ <<f>>[1] = f
  BY OneEvent
<1>3. PICK u, v : u = <<e>> /\ v = <<f>>
  OBVIOUS
<1>4. /\ u \in Seq(EventRow) /\ Len(u) = 1 /\ u[1] = e
      /\ v \in Seq(EventRow) /\ Len(v) = 1 /\ v[1] = f
  BY <1>2, <1>3
<1>5. Singleton({e}) = u /\ Singleton({f}) = v /\ Singleton({}) = <<>>
  BY <1>3, OneEvent, NoEvent
<1>6. /\ u \o v \in Seq(EventRow) /\ Len(u \o v) = Len(u) + Len(v)
      /\ \A k \in 1..(Len(u) + Len(v)) : (u \o v)[k] = IF k <= Len(u) THEN u[k] ELSE v[k - Len(u)]
  BY <1>4, Joined
<1>7. PICK w : w = u \o v
  OBVIOUS
<1>8. w \in Seq(EventRow) /\ Len(w) = 2 /\ w[1] = e /\ w[2] = f
  BY <1>4, <1>6, <1>7
<1>9. w \o <<>> = w
  BY <1>8, ConcatEmptySeq
<1>10. wire' = wire \o w
  BY <1>5, <1>7, <1>9, Zenon DEF Publish, Send
<1>11. /\ wire \o w \in Seq(EventRow) /\ Len(wire \o w) = Len(wire) + Len(w)
       /\ \A k \in 1..(Len(wire) + Len(w)) :
            (wire \o w)[k] = IF k <= Len(wire) THEN wire[k] ELSE w[k - Len(wire)]
  BY <1>1, <1>8, Joined
<1>12. PICK x : x = wire \o w
  OBVIOUS
<1>13. /\ x \in Seq(EventRow) /\ Len(x) = Len(wire) + 2
       /\ \A k \in 1..Len(wire) : x[k] = wire[k]
       /\ x[Len(wire) + 1] = w[1] /\ x[Len(wire) + 2] = w[2]
  BY <1>1, <1>8, <1>11, <1>12
<1> QED
  BY <1>8, <1>10, <1>12, <1>13 DEF AddsBoth, Places

(* The events of each kind of step.                                        *)
PlanEvent(r) == [kind |-> "plan", id |-> 0, run |-> r, plan |-> approved'[r]]
Row(kind, i, r, p) == [kind |-> kind, id |-> i, run |-> r, plan |-> p]

LEMMA Rows ==
  ASSUME IInv
  PROVE  /\ \A i \in Ids, v \in {"approve", "reject", "revise"} :
              Row(v, i, reviews[i].run, reviews[i].plan) \in EventRow
         /\ \A r \in Run, p \in Compiled, v \in {"pending", "reject"} :
              Row(v, Len(reviews) + 1, r, p) \in EventRow
         /\ Len(reviews) \in Nat /\ Ids \subseteq Nat \ {0}
<1>1. StoreInv /\ reviews \in Seq(Entry)
  BY DEF IInv, StoreInv
<1>2. Len(reviews) \in Nat
  BY <1>1, LenProperties
<1>3. Ids \subseteq Nat \ {0}
  BY <1>2 DEF Ids
<1>4. \A i \in Ids : reviews[i].run \in Run /\ reviews[i].plan \in Plan
  BY <1>1, EntryOf, CompiledArePlans DEF Entry
<1>5. \A p \in Compiled : p \in Plan
  BY CompiledArePlans
<1> QED
  BY <1>2, <1>3, <1>4, <1>5 DEF EventRow, Row

LEMMA SameSends ==
  ASSUME StoreSame
  PROVE  Registered = {} /\ Resolved = {}
<1>1. 1..Len(reviews') = Ids
  BY DEF StoreSame, Ids
<1>2. \A i \in Ids : reviews'[i].verdict # "open" => i \notin Open
  BY DEF StoreSame, SameEntry, Open
<1> QED
  BY <1>1, <1>2 DEF Registered, Resolved

LEMMA GrownSends ==
  ASSUME IInv, NEW r \in Run, NEW p, Grown(r, p)
  PROVE  /\ Registered = {Row("pending", Len(reviews) + 1, r, p)}
         /\ Resolved = IF r \in aborted THEN {Row("reject", Len(reviews) + 1, r, p)} ELSE {}
<1>1. PICK n : n = Len(reviews) + 1
  OBVIOUS
<1>2. Len(reviews) \in Nat
  BY Rows
<1>3. 1..Len(reviews') = Ids \cup {n} /\ n \notin Ids /\ n \notin Open
  BY <1>1, <1>2 DEF Grown, Ids, Open
<1>4. /\ reviews'[n].run = r /\ reviews'[n].plan = p
      /\ reviews'[n].verdict = IF r \in aborted THEN "reject" ELSE "open"
  BY <1>1 DEF Grown
<1>5. \A i \in Ids : reviews'[i].verdict # "open" => i \notin Open
  BY DEF Grown, Open
<1>6. Registered = {Row("pending", n, r, p)}
  <2>1. (1..Len(reviews')) \ Ids = {n}
    BY <1>3
  <2>2. Event("pending", n, reviews') = Row("pending", n, r, p)
    BY <1>4 DEF Event, Row
  <2> QED
    BY <2>1, <2>2 DEF Registered
<1>7. Resolved = IF r \in aborted THEN {Row("reject", n, r, p)} ELSE {}
  <2>1. {j \in 1..Len(reviews') : reviews'[j].verdict # "open" /\ (j \in Open \/ j \notin Ids)}
          = IF r \in aborted THEN {n} ELSE {}
    BY <1>3, <1>4, <1>5
  <2>2. r \in aborted => Event(reviews'[n].verdict, n, reviews') = Row("reject", n, r, p)
    BY <1>4 DEF Event, Row
  <2> QED
    BY <2>1, <2>2 DEF Resolved
<1> QED
  BY <1>1, <1>6, <1>7

LEMMA DecidesSends ==
  ASSUME IInv, NEW i \in Ids, NEW v \in {"approve", "reject", "revise"}, Decides(i, v)
  PROVE  Registered = {} /\ Resolved = {Row(v, i, reviews[i].run, reviews[i].plan)}
<1>1. 1..Len(reviews') = Ids
  BY DEF Decides, Ids
<1>2. {j \in 1..Len(reviews') : reviews'[j].verdict # "open" /\ (j \in Open \/ j \notin Ids)} = {i}
  <2>1. \A j \in Ids \ {i} : reviews'[j].verdict # "open" => j \notin Open
    BY DEF Decides, SameEntry, Open
  <2>2. i \in Open /\ reviews'[i].verdict = v /\ v # "open"
    BY DEF Decides
  <2> QED
    BY <1>1, <2>1, <2>2
<1>3. Event(reviews'[i].verdict, i, reviews') = Row(v, i, reviews[i].run, reviews[i].plan)
  BY DEF Decides, Event, Row
<1> QED
  BY <1>1, <1>2, <1>3 DEF Registered, Resolved

LEMMA LaunchSends ==
  /\ (\A q \in Run : ~Launches(q)) => Launched = {}
  /\ \A r \in Run : Launches(r) /\ (\A q \in Run \ {r} : ~Launches(q)) => Launched = {PlanEvent(r)}
<1>1. Launched = {PlanEvent(q) : q \in {s \in Run : Launches(s)}}
  BY DEF Launched, PlanEvent, Launches
<1>2. (\A q \in Run : ~Launches(q)) => Launched = {}
  BY <1>1
<1>3. ASSUME NEW r \in Run, Launches(r), \A q \in Run \ {r} : ~Launches(q)
      PROVE  Launched = {PlanEvent(r)}
  <2>1. {s \in Run : Launches(s)} = {r}
    BY <1>3
  <2> HIDE DEF PlanEvent, Launches
  <2> QED
    BY <1>1, <2>1
<1> QED
  BY <1>2, <1>3

(* A step of the server, in the store and on the wire.                     *)
Quiet == StoreSame /\ (online => wire' = wire)
Starts(r) ==
  /\ StoreSame /\ \A i \in Ids : IsLatest(i, r) => i \notin Open
  /\ online => PlanEvent(r) \in EventRow /\ Adds(PlanEvent(r))
Asks(r, p) ==
  /\ Grown(r, p)
  /\ online => LET n == Len(reviews) + 1
               IN IF r \in aborted THEN AddsBoth(Row("pending", n, r, p), Row("reject", n, r, p))
                                   ELSE Adds(Row("pending", n, r, p))
Answers(i, v) ==
  Decides(i, v) /\ (online => Adds(Row(v, i, reviews[i].run, reviews[i].plan)))

LEMMA ServerEffect ==
  ASSUME IInv, IInv', CardTypes, Next, Publish
  PROVE  \/ Quiet
         \/ \E r \in Run : Starts(r)
         \/ \E r \in Run, p \in Compiled : Asks(r, p)
         \/ \E i \in Ids, v \in {"approve", "reject", "revise"} : Answers(i, v)
<1>1. CASE StoreSame /\ \A q \in Run : ~Launches(q)
  <2>1. Registered = {} /\ Resolved = {} /\ Launched = {}
    BY <1>1, SameSends, LaunchSends
  <2>2. Quiet
    BY <1>1, <2>1, SendsNone DEF Quiet
  <2> QED
    BY <2>2
<1>2. ASSUME StoreSame, NEW r \in Run, Launches(r), \A q \in Run \ {r} : ~Launches(q),
             \A i \in Ids : IsLatest(i, r) => i \notin Open
      PROVE  Starts(r)
  <2>1. PlanEvent(r) \in EventRow
    <3>1. approved'[r] \in Plan \cup {NoPlan}
      BY DEF IInv, RunInv
    <3> QED
      BY <3>1 DEF PlanEvent, EventRow
  <2>2. Registered = {} /\ Resolved = {} /\ Launched = {PlanEvent(r)}
    BY <1>2, SameSends, LaunchSends
  <2>3. ASSUME online PROVE Adds(PlanEvent(r))
    BY <2>1, <2>2, <2>3, SendsOne
  <2> QED
    BY <1>2, <2>1, <2>3 DEF Starts
<1>3. ASSUME NEW r \in Run, NEW p \in Compiled, Grown(r, p), \A q \in Run : ~Launches(q)
      PROVE  Asks(r, p)
  <2> DEFINE n == Len(reviews) + 1
  <2>1. Row("pending", n, r, p) \in EventRow /\ Row("reject", n, r, p) \in EventRow
    BY Rows
  <2>2. Launched = {} /\ Registered = {Row("pending", n, r, p)}
    BY <1>3, GrownSends, LaunchSends
  <2>3. Resolved = IF r \in aborted THEN {Row("reject", n, r, p)} ELSE {}
    BY <1>3, GrownSends
  <2>4. ASSUME online, r \in aborted PROVE AddsBoth(Row("pending", n, r, p), Row("reject", n, r, p))
    BY <2>1, <2>2, <2>3, <2>4, SendsBoth
  <2>5. ASSUME online, r \notin aborted PROVE Adds(Row("pending", n, r, p))
    BY <2>1, <2>2, <2>3, <2>5, SendsOne
  <2> QED
    BY <1>3, <2>4, <2>5 DEF Asks
<1>4. ASSUME NEW i \in Ids, NEW v \in {"approve", "reject", "revise"}, Decides(i, v),
             \A q \in Run : ~Launches(q)
      PROVE  Answers(i, v)
  <2> DEFINE e == Row(v, i, reviews[i].run, reviews[i].plan)
  <2>1. e \in EventRow
    BY Rows
  <2>2. Registered = {} /\ Resolved = {e} /\ Launched = {}
    BY <1>4, DecidesSends, LaunchSends
  <2>3. ASSUME online PROVE Adds(e)
    BY <2>1, <2>2, <2>3, SendsOne
  <2> QED
    BY <1>4, <2>3 DEF Answers
<1>5. ASSUME \E r \in Run, p \in Compiled : Grown(r, p), \A q \in Run : ~Launches(q)
      PROVE  \E r \in Run, p \in Compiled : Asks(r, p)
  BY <1>3, <1>5
<1>6. ASSUME \E i \in Ids, v \in {"approve", "reject", "revise"} : Decides(i, v),
             \A q \in Run : ~Launches(q)
      PROVE  \E i \in Ids, v \in {"approve", "reject", "revise"} : Answers(i, v)
  BY <1>4, <1>6
<1> QED
  BY <1>1, <1>2, <1>5, <1>6, ServerMoves

-------------------------------------------------------------------------------
(* What is shown stays registered.                                         *)
NowIn(i, r, p) == i \in Ids' /\ reviews'[i].run = r /\ reviews'[i].plan = p

Kept ==
  /\ Len(reviews') = Len(reviews)
  /\ \A i \in Ids : reviews'[i].run = reviews[i].run /\ reviews'[i].plan = reviews[i].plan

LEMMA KeptViews ==
  ASSUME Kept
  PROVE  /\ Ids' = Ids /\ (HasLatest => HasLatest')
         /\ \A q \in Run, i \in Ids : IsLatest(i, q)' <=> IsLatest(i, q)
         /\ \A i \in Ids : \A q, p : InStore(i, q, p) => NowIn(i, q, p)
<1>1. Ids' = Ids
  BY DEF Kept, Ids
<1>2. \A q : ReviewsOf(q)' = ReviewsOf(q)
  BY <1>1 DEF Kept, ReviewsOf
<1>3. \A q, i : IsLatest(i, q)' <=> IsLatest(i, q)
  BY <1>2 DEF IsLatest
<1>4. HasLatest => HasLatest'
  BY <1>1, <1>3 DEF HasLatest, Kept
<1>5. \A i \in Ids : \A q, p : InStore(i, q, p) => NowIn(i, q, p)
  BY <1>1 DEF InStore, NowIn, Kept
<1> QED
  BY <1>1, <1>3, <1>4, <1>5

LEMMA GrownKeeps ==
  ASSUME IInv, HasLatest, NEW r \in Run, NEW p \in Compiled, Grown(r, p)
  PROVE  /\ Ids \subseteq Ids' /\ HasLatest' /\ NowIn(Len(reviews) + 1, r, p)
         /\ \A i \in Ids : \A q, s : InStore(i, q, s) => NowIn(i, q, s)
<1>1. PICK n : n = Len(reviews) + 1
  OBVIOUS
<1>2. Ids' = Ids \cup {n}
  BY <1>1, GrownViews DEF IInv
<1>3. /\ \A i \in Ids : reviews'[i] = reviews[i]
      /\ reviews'[n].run = r /\ reviews'[n].plan = p
  BY <1>1 DEF Grown
<1>4. /\ \A i \in Ids' : IsLatest(i, r)' <=> i = n
      /\ \A q \in Run \ {r}, i \in Ids' : IsLatest(i, q)' <=> i \in Ids /\ IsLatest(i, q)
  BY <1>1, GrownViews DEF IInv
<1>5. \A i \in Ids : reviews[i].run \in Run
  BY EntryOf DEF IInv, Entry
<1>6. ASSUME NEW i \in Ids', NEW q, q = reviews'[i].run PROVE \E j \in Ids' : IsLatest(j, q)'
  <2>1. CASE q = r
    <3>1. n \in Ids' /\ IsLatest(n, r)'
      BY <1>2, <1>4
    <3> QED
      BY <2>1, <3>1
  <2>2. CASE q # r
    <3>1. i \in Ids /\ q = reviews[i].run /\ q \in Run \ {r}
      BY <1>2, <1>3, <1>5, <1>6, <2>2
    <3>2. PICK j \in Ids : IsLatest(j, q)
      BY <3>1 DEF HasLatest
    <3> QED
      BY <1>2, <1>4, <3>1, <3>2
  <2> QED
    BY <2>1, <2>2
<1>7. HasLatest'
  <2> SUFFICES ASSUME NEW i \in Ids' PROVE \E j \in Ids' : IsLatest(j, reviews[i].run)'
    BY DEF HasLatest
  <2>1. PICK q : q = reviews'[i].run
    OBVIOUS
  <2>2. \E j \in Ids' : IsLatest(j, q)'
    BY <1>6, <2>1
  <2> QED
    BY <2>1, <2>2 DEF IsLatest, ReviewsOf
<1>8. NowIn(n, r, p) /\ \A i \in Ids : \A q, s : InStore(i, q, s) => NowIn(i, q, s)
  BY <1>2, <1>3 DEF InStore, NowIn
<1> QED
  BY <1>1, <1>2, <1>7, <1>8

Shown == CardTypes /\ ShownIsRegistered /\ WireShown /\ HasLatest /\ FirstFetch

(* Whatever the server publishes, the events that put a review on a card   *)
(* name a registered one.                                                  *)
LEMMA ServerShown ==
  ASSUME CardInv, IInv', Server
  PROVE  Shown'
<1>1. /\ CardTypes /\ IInv /\ HasLatest /\ WireShown /\ ShownIsRegistered /\ FirstFetch
      /\ Next /\ Publish /\ (~online => wire' = wire)
      /\ UNCHANGED <<card, snapshot, fetches, online, outages, missed>>
  BY DEF CardInv, Server, Publish, Send, linkVars
<1> DEFINE Good(k) ==
      wire'[k].kind = "pending" => NowIn(wire'[k].id, wire'[k].run, wire'[k].plan)
<1>2. ASSUME Len(reviews) <= Len(reviews'), HasLatest',
             \A i \in Ids : \A q, p : InStore(i, q, p) => NowIn(i, q, p),
             wire' \in Seq(EventRow), \A k \in 1..Len(wire') : Good(k)
      PROVE  Shown'
  <2>1. WireShown'
    BY <1>2 DEF WireShown, Places, InStore, NowIn
  <2>2. Len(reviews) \in Nat /\ Len(reviews') \in Nat
    BY <1>1, LenProperties DEF IInv, StoreInv
  <2>3. Ids \subseteq Ids'
    BY <1>2, <2>2 DEF Ids
  <2>4. CardTypes'
    BY <1>1, <1>2, <2>2, <2>3 DEF CardTypes
  <2>5. \A r \in Run : Offers(r)' <=> Offers(r)
    BY <1>1 DEF Offers
  <2>6. \A r \in Run : Offers(r) => InStore(card[r].id, r, card[r].plan)
    BY <1>1 DEF ShownIsRegistered, InStore
  <2>7. ShownIsRegistered'
    BY <1>1, <1>2, <2>5, <2>6 DEF ShownIsRegistered, InStore, NowIn
  <2>8. FirstFetch'
    BY <1>1 DEF FirstFetch
  <2> QED
    BY <1>2, <2>1, <2>4, <2>7, <2>8 DEF Shown
<1>3. /\ wire \in Seq(EventRow) /\ Len(wire) \in Nat /\ Len(reviews) \in Nat
      /\ \A k \in Places : wire[k].kind = "pending" => InStore(wire[k].id, wire[k].run, wire[k].plan)
  BY <1>1, Rows, LenProperties DEF CardTypes, WireShown
<1>4. ASSUME \A i \in Ids : \A q, p : InStore(i, q, p) => NowIn(i, q, p)
      PROVE  /\ \A k \in Places : wire'[k] = wire[k] => Good(k)
             /\ wire' = wire => wire' \in Seq(EventRow) /\ \A k \in 1..Len(wire') : Good(k)
  BY <1>3, <1>4 DEF InStore, Places
<1>5. ASSUME NEW e \in EventRow, online => Adds(e),
             \A i \in Ids : \A q, p : InStore(i, q, p) => NowIn(i, q, p),
             e.kind = "pending" => NowIn(e.id, e.run, e.plan)
      PROVE  wire' \in Seq(EventRow) /\ \A k \in 1..Len(wire') : Good(k)
  <2>1. CASE ~online
    BY <1>1, <1>4, <1>5, <2>1
  <2>2. CASE online
    <3>1. /\ wire' \in Seq(EventRow) /\ 1..Len(wire') = Places \cup {Len(wire) + 1}
          /\ \A k \in Places : wire'[k] = wire[k]
          /\ wire'[Len(wire) + 1] = e
      BY <1>3, <1>5, <2>2 DEF Adds, Places
    <3> QED
      BY <1>4, <1>5, <3>1
  <2> QED
    BY <2>1, <2>2
<1>6. StoreSame => Kept
  BY DEF StoreSame, Kept, SameEntry
<1>7. CASE Quiet
  <2>1. Kept /\ wire' = wire
    BY <1>1, <1>6, <1>7 DEF Quiet
  <2>2. HasLatest' /\ \A i \in Ids : \A q, p : InStore(i, q, p) => NowIn(i, q, p)
    BY <1>1, <2>1, KeptViews
  <2> QED
    BY <1>2, <1>3, <1>4, <2>1, <2>2 DEF Kept
<1>8. ASSUME NEW r \in Run, Starts(r) PROVE Shown'
  <2>1. Kept
    BY <1>6, <1>8 DEF Starts
  <2>2. HasLatest' /\ \A i \in Ids : \A q, p : InStore(i, q, p) => NowIn(i, q, p)
    BY <1>1, <2>1, KeptViews
  <2>3. PlanEvent(r).kind = "plan" /\ (online => PlanEvent(r) \in EventRow /\ Adds(PlanEvent(r)))
    BY <1>8 DEF Starts, PlanEvent
  <2>4. CASE ~online
    BY <1>1, <1>2, <1>3, <1>4, <2>1, <2>2, <2>4 DEF Kept
  <2>5. CASE online
    <3>1. wire' \in Seq(EventRow) /\ \A k \in 1..Len(wire') : Good(k)
      BY <1>5, <2>2, <2>3, <2>5
    <3> QED
      BY <1>2, <1>3, <2>1, <2>2, <3>1 DEF Kept
  <2> QED
    BY <2>4, <2>5
<1>9. ASSUME NEW i \in Ids, NEW v \in {"approve", "reject", "revise"}, Answers(i, v) PROVE Shown'
  <2> DEFINE e == Row(v, i, reviews[i].run, reviews[i].plan)
  <2>1. Kept
    BY <1>9 DEF Answers, Decides, Kept, SameEntry
  <2>2. HasLatest' /\ \A j \in Ids : \A q, p : InStore(j, q, p) => NowIn(j, q, p)
    BY <1>1, <2>1, KeptViews
  <2>3. e \in EventRow /\ e.kind # "pending" /\ (online => Adds(e))
    BY <1>1, <1>9, Rows DEF Answers, Row
  <2> HIDE DEF e
  <2>4. wire' \in Seq(EventRow) /\ \A k \in 1..Len(wire') : Good(k)
    BY <1>5, <2>2, <2>3
  <2> QED
    BY <1>2, <1>3, <2>1, <2>2, <2>4 DEF Kept
<1>10. ASSUME NEW r \in Run, NEW p \in Compiled, Asks(r, p) PROVE Shown'
  <2> DEFINE n == Len(reviews) + 1
             e == Row("pending", n, r, p)
             f == Row("reject", n, r, p)
  <2>1. Grown(r, p) /\ Len(reviews') = Len(reviews) + 1
    BY <1>10 DEF Asks, Grown
  <2>2. /\ HasLatest' /\ NowIn(n, r, p)
        /\ \A i \in Ids : \A q, s : InStore(i, q, s) => NowIn(i, q, s)
    BY <1>1, <2>1, GrownKeeps
  <2>3. /\ e \in EventRow /\ f \in EventRow /\ f.kind # "pending"
        /\ e.id = n /\ e.run = r /\ e.plan = p
    BY <1>1, Rows DEF Row
  <2>4. online => IF r \in aborted THEN AddsBoth(e, f) ELSE Adds(e)
    BY <1>10 DEF Asks
  <2> HIDE DEF e, f, n
  <2>5. CASE r \notin aborted \/ ~online
    <3>1. NowIn(e.id, e.run, e.plan)
      BY <2>2, <2>3
    <3>2. wire' \in Seq(EventRow) /\ \A k \in 1..Len(wire') : Good(k)
      BY <1>5, <2>2, <2>3, <2>4, <2>5, <3>1
    <3> QED
      BY <1>2, <1>3, <2>1, <2>2, <3>2
  <2>6. CASE r \in aborted /\ online
    <3>1. /\ wire' \in Seq(EventRow)
          /\ 1..Len(wire') = Places \cup {Len(wire) + 1, Len(wire) + 2}
          /\ \A k \in Places : wire'[k] = wire[k]
          /\ wire'[Len(wire) + 1] = e /\ wire'[Len(wire) + 2] = f
      BY <1>3, <2>4, <2>6 DEF AddsBoth, Places
    <3>2. NowIn(e.id, e.run, e.plan)
      BY <2>2, <2>3
    <3>3. \A k \in 1..Len(wire') : Good(k)
      BY <1>4, <2>2, <2>3, <3>1, <3>2
    <3> QED
      BY <1>2, <1>3, <2>1, <2>2, <3>1, <3>3
  <2> QED
    BY <2>5, <2>6
<1> QED
  BY <1>1, <1>7, <1>8, <1>9, <1>10, ServerEffect

-------------------------------------------------------------------------------
(* What more events on the wire mean for a review of run r.                *)
Longer ==
  /\ wire' \in Seq(EventRow) /\ Places \subseteq Places'
  /\ \A k \in Places : wire'[k] = wire[k]
Fresh == Places' \ Places

LEMMA OthersArrive ==
  ASSUME Longer, NEW r \in Run, NEW i, card'[r] = card[r], \A k \in Fresh : wire'[k].run # r
  PROVE  /\ WillOffer(i, r) => WillOffer(i, r)'
         /\ WillNotOffer(i, r) => WillNotOffer(i, r)'
<1>1. \A k \in Places : /\ About(k, r)' <=> About(k, r)
                        /\ News(k, r)' <=> News(k, r)
                        /\ NewsOf(k, i, r)' <=> NewsOf(k, i, r)
                        /\ EndOf(k, i, r)' <=> EndOf(k, i, r)
  BY DEF Longer, About, News, NewsOf, EndOf
<1>2. \A k \in Fresh : ~About(k, r)' /\ ~News(k, r)'
  BY DEF About, News
<1>3. Places' = Places \cup Fresh
  BY DEF Longer, Fresh
<1>4. (Offers(r)' <=> Offers(r)) /\ (Holds(i, r)' <=> Holds(i, r))
  BY DEF Offers, Holds
<1>5. WillOffer(i, r) => WillOffer(i, r)'
  <2>1. CASE \E k \in Places : NewsOf(k, i, r) /\ \A j \in Places : k < j => ~About(j, r)
    <3>1. \E k \in Places' : NewsOf(k, i, r)' /\ \A j \in Places' : k < j => ~About(j, r)'
      BY <1>1, <1>2, <1>3, <2>1
    <3> QED
      BY <3>1 DEF WillOffer
  <2>2. CASE Offers(r) /\ card[r].id = i /\ \A k \in Places : ~About(k, r)
    <3>1. Offers(r)' /\ card'[r].id = i /\ \A k \in Places' : ~About(k, r)'
      BY <1>1, <1>2, <1>3, <1>4, <2>2
    <3> QED
      BY <3>1 DEF WillOffer
  <2> QED
    BY <2>1, <2>2 DEF WillOffer
<1>6. WillNotOffer(i, r) => WillNotOffer(i, r)'
  <2>1. CASE \E k, n \in Places : /\ k < n /\ NewsOf(k, i, r) /\ EndOf(n, i, r)
                                  /\ \A j \in Places : k < j => ~News(j, r)
    <3>1. \E k, n \in Places' : /\ k < n /\ NewsOf(k, i, r)' /\ EndOf(n, i, r)'
                                /\ \A j \in Places' : k < j => ~News(j, r)'
      BY <1>1, <1>2, <1>3, <2>1
    <3> QED
      BY <3>1 DEF WillNotOffer
  <2>2. CASE (\E n \in Places : EndOf(n, i, r)) /\ Holds(i, r) /\ \A j \in Places : ~News(j, r)
    <3>1. /\ \E n \in Places' : EndOf(n, i, r)'
          /\ Holds(i, r)' /\ \A j \in Places' : ~News(j, r)'
      BY <1>1, <1>2, <1>3, <1>4, <2>2
    <3> QED
      BY <3>1 DEF WillNotOffer
  <2>3. CASE ~Offers(r) /\ \A j \in Places : ~News(j, r)
    <3>1. ~Offers(r)' /\ \A j \in Places' : ~News(j, r)'
      BY <1>1, <1>2, <1>3, <1>4, <2>3
    <3> QED
      BY <3>1 DEF WillNotOffer
  <2> QED
    BY <2>1, <2>2, <2>3 DEF WillNotOffer
<1> QED
  BY <1>5, <1>6

(* What is off the card stays off without news.                            *)
LEMMA NoNewsArrives ==
  ASSUME Longer, NEW r \in Run, NEW i, card'[r] = card[r],
         \A k \in Fresh : wire'[k].kind # "pending"
  PROVE  WillNotOffer(i, r) => WillNotOffer(i, r)'
<1>1. \A k \in Places : /\ News(k, r)' <=> News(k, r)
                        /\ NewsOf(k, i, r)' <=> NewsOf(k, i, r)
                        /\ EndOf(k, i, r)' <=> EndOf(k, i, r)
  BY DEF Longer, About, News, NewsOf, EndOf
<1>2. \A k \in Fresh : ~News(k, r)'
  BY DEF News
<1>3. Places' = Places \cup Fresh
  BY DEF Longer, Fresh
<1>4. (Offers(r)' <=> Offers(r)) /\ (Holds(i, r)' <=> Holds(i, r))
  BY DEF Offers, Holds
<1>5. CASE \E k, n \in Places : /\ k < n /\ NewsOf(k, i, r) /\ EndOf(n, i, r)
                                /\ \A j \in Places : k < j => ~News(j, r)
  <2>1. \E k, n \in Places' : /\ k < n /\ NewsOf(k, i, r)' /\ EndOf(n, i, r)'
                              /\ \A j \in Places' : k < j => ~News(j, r)'
    BY <1>1, <1>2, <1>3, <1>5
  <2> QED
    BY <2>1 DEF WillNotOffer
<1>6. CASE (\E n \in Places : EndOf(n, i, r)) /\ Holds(i, r) /\ \A j \in Places : ~News(j, r)
  <2>1. /\ \E n \in Places' : EndOf(n, i, r)'
        /\ Holds(i, r)' /\ \A j \in Places' : ~News(j, r)'
    BY <1>1, <1>2, <1>3, <1>4, <1>6
  <2> QED
    BY <2>1 DEF WillNotOffer
<1>7. CASE ~Offers(r) /\ \A j \in Places : ~News(j, r)
  <2>1. ~Offers(r)' /\ \A j \in Places' : ~News(j, r)'
    BY <1>1, <1>2, <1>3, <1>4, <1>7
  <2> QED
    BY <2>1 DEF WillNotOffer
<1> QED
  BY <1>5, <1>6, <1>7 DEF WillNotOffer

LEMMA AddsPlace ==
  ASSUME CardTypes, NEW e, Adds(e)
  PROVE  /\ Longer /\ Fresh = {Len(wire) + 1} /\ Places' = Places \cup {Len(wire) + 1}
         /\ \A k \in Places : k < Len(wire) + 1
         /\ wire'[Len(wire) + 1] = e
<1>1. Len(wire) \in Nat
  BY LenProperties DEF CardTypes
<1> QED
  BY <1>1 DEF Adds, Longer, Fresh, Places

(* The end of an offer follows what makes it.                              *)
LEMMA EndArrives ==
  ASSUME CardTypes, NEW r \in Run, NEW i, NEW e, Adds(e), card'[r] = card[r],
         e.run = r, e.id = i, e.kind \in {"approve", "reject", "revise"}, WillOffer(i, r)
  PROVE  WillNotOffer(i, r)'
<1>1. PICK n : n = Len(wire) + 1
  OBVIOUS
<1>2. /\ Longer /\ Places' = Places \cup {n} /\ wire'[n] = e
      /\ \A k \in Places : k < n
  BY <1>1, AddsPlace
<1>3. EndOf(n, i, r)' /\ ~News(n, r)'
  BY <1>2 DEF EndOf, About, News
<1>4. \A k \in Places : /\ News(k, r)' => About(k, r)
                        /\ NewsOf(k, i, r)' <=> NewsOf(k, i, r)
  BY <1>2 DEF Longer, About, News, NewsOf
<1>5. CASE \E k \in Places : NewsOf(k, i, r) /\ \A j \in Places : k < j => ~About(j, r)
  <2>1. PICK k \in Places : NewsOf(k, i, r) /\ \A j \in Places : k < j => ~About(j, r)
    BY <1>5
  <2>2. k \in Places' /\ n \in Places' /\ k < n /\ NewsOf(k, i, r)' /\ EndOf(n, i, r)'
    BY <1>2, <1>3, <1>4, <2>1
  <2>3. \A j \in Places' : k < j => ~News(j, r)'
    BY <1>2, <1>3, <1>4, <2>1
  <2> QED
    BY <2>2, <2>3 DEF WillNotOffer
<1>6. CASE Offers(r) /\ card[r].id = i /\ \A k \in Places : ~About(k, r)
  <2>1. n \in Places' /\ EndOf(n, i, r)' /\ Holds(i, r)'
    BY <1>2, <1>3, <1>6 DEF Holds
  <2>2. \A j \in Places' : ~News(j, r)'
    BY <1>2, <1>3, <1>4, <1>6
  <2> QED
    BY <2>1, <2>2 DEF WillNotOffer
<1> QED
  BY <1>5, <1>6 DEF WillOffer

LEMMA NewsArrives ==
  ASSUME CardTypes, NEW r \in Run, NEW i, NEW p
  PROVE  /\ Adds(Row("pending", i, r, p)) => WillOffer(i, r)'
         /\ AddsBoth(Row("pending", i, r, p), Row("reject", i, r, p)) => WillNotOffer(i, r)'
<1>1. Len(wire) \in Nat
  BY LenProperties DEF CardTypes
<1>2. PICK n : n = Len(wire) + 1
  OBVIOUS
<1>3. ASSUME Adds(Row("pending", i, r, p)) PROVE WillOffer(i, r)'
  <2>1. Places' = Places \cup {n} /\ wire'[n] = Row("pending", i, r, p) /\ \A k \in Places : k < n
    BY <1>2, <1>3, AddsPlace
  <2>2. n \in Places' /\ NewsOf(n, i, r)' /\ \A j \in Places' : ~(n < j)
    BY <1>1, <1>2, <2>1 DEF NewsOf, News, About, Row, Places
  <2> QED
    BY <2>2 DEF WillOffer
<1>4. ASSUME AddsBoth(Row("pending", i, r, p), Row("reject", i, r, p)) PROVE WillNotOffer(i, r)'
  <2>1. /\ Places' = Places \cup {n, n + 1}
        /\ wire'[n] = Row("pending", i, r, p) /\ wire'[n + 1] = Row("reject", i, r, p)
    BY <1>1, <1>2, <1>4 DEF AddsBoth, Places
  <2>2. PICK m : m = n + 1
    OBVIOUS
  <2>3. /\ n \in Places' /\ m \in Places' /\ n < m
        /\ \A j \in Places' : n < j => j = m
    BY <1>1, <1>2, <2>1, <2>2 DEF Places
  <2>4. NewsOf(n, i, r)' /\ EndOf(m, i, r)' /\ ~News(m, r)'
    BY <2>1, <2>2 DEF NewsOf, News, About, EndOf, Row
  <2> QED
    BY <2>3, <2>4 DEF WillNotOffer
<1> QED
  BY <1>3, <1>4

(* A step of the server keeps every review that is not missed on its way.  *)
Right(i, r) ==
  /\ i \in Open => WillOffer(i, r)
  /\ i \notin Open => WillNotOffer(i, r)

LEMMA RightStays ==
  ASSUME Longer, card' = card, NEW r \in Run, NEW i, Right(i, r), i \in Open' <=> i \in Open,
         \/ \A k \in Fresh : wire'[k].run # r
         \/ i \notin Open /\ \A k \in Fresh : wire'[k].kind # "pending"
  PROVE  Right(i, r)'
BY OthersArrive, NoNewsArrives DEF Right

LEMMA ServerOnTheWay ==
  ASSUME CardInv, IInv', Server
  PROVE  OnTheWay'
<1>1. /\ CardTypes /\ IInv /\ StoreInv /\ Next /\ Publish /\ OnTheWay
      /\ UNCHANGED <<card, snapshot, fetches, online, outages, missed>>
  BY DEF CardInv, Server, linkVars, IInv
<1>2. SUFFICES ASSUME online, fetches = 0, NEW r \in Run, NEW i \in Ids', IsLatest(i, r)', missed < i
      PROVE  Right(i, r)'
  BY <1>1 DEF OnTheWay, Right
<1>3. \A j \in Ids : IsLatest(j, r) /\ missed < j => Right(j, r)
  BY <1>1, <1>2 DEF OnTheWay, Right
<1>4. wire \in Seq(EventRow) /\ Len(wire) \in Nat
  BY <1>1, LenProperties DEF CardTypes
<1>5. StoreSame => Kept /\ Open' = Open
  BY DEF StoreSame, Kept, SameEntry, Open, Ids
<1>6. CASE Quiet
  <2>1. Kept /\ Open' = Open /\ wire' = wire
    BY <1>2, <1>5, <1>6 DEF Quiet
  <2>2. i \in Ids /\ IsLatest(i, r)
    BY <1>2, <2>1, KeptViews
  <2>3. Longer /\ Fresh = {}
    BY <1>4, <2>1 DEF Longer, Fresh, Places
  <2>4. Right(i, r)
    BY <1>2, <1>3, <2>2
  <2> QED
    BY <1>1, <2>1, <2>3, <2>4, RightStays
<1>7. ASSUME NEW q \in Run, Starts(q) PROVE Right(i, r)'
  <2>1. Kept /\ Open' = Open
    BY <1>5, <1>7 DEF Starts
  <2>2. i \in Ids /\ IsLatest(i, r)
    BY <1>2, <2>1, KeptViews
  <2>3. PICK e : e = PlanEvent(q)
    OBVIOUS
  <2>4. e.kind = "plan" /\ e.run = q /\ Adds(e)
    BY <1>2, <1>7, <2>3 DEF Starts, PlanEvent
  <2>5. Longer /\ \A k \in Fresh : wire'[k] = e
    BY <1>1, <2>4, AddsPlace
  <2>6. r = q => i \notin Open
    BY <1>7, <2>2 DEF Starts
  <2>7. Right(i, r)
    BY <1>2, <1>3, <2>2
  <2> QED
    BY <1>1, <2>1, <2>4, <2>5, <2>6, <2>7, RightStays
<1>8. ASSUME NEW j \in Ids, NEW v \in {"approve", "reject", "revise"}, Answers(j, v)
      PROVE  Right(i, r)'
  <2>1. Kept /\ j \in Open /\ Open' = Open \ {j}
    BY <1>8 DEF Answers, Decides, Kept, SameEntry, Open, Ids
  <2>2. i \in Ids /\ IsLatest(i, r)
    BY <1>2, <2>1, KeptViews
  <2>3. PICK e : e = Row(v, j, reviews[j].run, reviews[j].plan)
    OBVIOUS
  <2>4. e.kind = v /\ e.id = j /\ e.run = reviews[j].run /\ Adds(e)
    BY <1>2, <1>8, <2>3 DEF Answers, Row
  <2>5. Longer /\ \A k \in Fresh : wire'[k] = e
    BY <1>1, <2>4, AddsPlace
  <2>6. Right(i, r)
    BY <1>2, <1>3, <2>2
  <2>7. CASE reviews[j].run # r
    <3>1. i # j
      BY <2>2, <2>7 DEF IsLatest, ReviewsOf
    <3> QED
      BY <1>1, <2>1, <2>4, <2>5, <2>6, <2>7, <3>1, RightStays
  <2>8. CASE reviews[j].run = r
    <3>1. IsLatest(j, r)
      BY <1>1, <2>1, <2>8 DEF IInv, ReviewsFollowRun
    <3>2. i = j
      BY <2>2, <3>1 DEF IsLatest, ReviewsOf, Ids
    <3>3. WillOffer(i, r)
      BY <2>1, <2>6, <3>2 DEF Right
    <3>4. WillNotOffer(i, r)'
      BY <1>1, <2>4, <2>8, <3>2, <3>3, EndArrives
    <3>5. i \notin Open'
      BY <2>1, <3>2
    <3> QED
      BY <3>4, <3>5 DEF Right
  <2> QED
    BY <2>7, <2>8
<1>9. ASSUME NEW q \in Run, NEW p \in Compiled, Asks(q, p) PROVE Right(i, r)'
  <2>1. PICK n : n = Len(reviews) + 1
    OBVIOUS
  <2>2. PICK e, f : e = Row("pending", n, q, p) /\ f = Row("reject", n, q, p)
    OBVIOUS
  <2>3. Grown(q, p) /\ IF q \in aborted THEN AddsBoth(e, f) ELSE Adds(e)
    BY <1>2, <1>9, <2>1, <2>2 DEF Asks
  <2>4. /\ n \notin Ids /\ Open' = IF q \in aborted THEN Open ELSE Open \cup {n}
        /\ IsLatest(i, q)' <=> i = n
        /\ q # r => (IsLatest(i, r)' <=> i \in Ids /\ IsLatest(i, r))
    BY <1>1, <1>2, <2>1, <2>3, GrownViews
  <2>5. CASE q = r
    <3>1. i = n /\ n \notin Open
      BY <1>2, <2>4, <2>5 DEF Open
    <3>2. CASE q \in aborted
      <4>1. WillNotOffer(n, q)' /\ n \notin Open'
        BY <1>1, <2>2, <2>3, <2>4, <3>1, <3>2, NewsArrives
      <4> QED
        BY <2>5, <3>1, <4>1 DEF Right
    <3>3. CASE q \notin aborted
      <4>1. WillOffer(n, q)' /\ n \in Open'
        BY <1>1, <2>2, <2>3, <2>4, <3>1, <3>3, NewsArrives
      <4> QED
        BY <2>5, <3>1, <4>1 DEF Right
    <3> QED
      BY <3>2, <3>3
  <2>6. CASE q # r
    <3>1. i \in Ids /\ IsLatest(i, r) /\ i # n /\ (i \in Open' <=> i \in Open)
      BY <1>2, <2>4, <2>6
    <3>2. e.run = q /\ f.run = q
      BY <2>2 DEF Row
    <3>3. Longer /\ \A k \in Fresh : wire'[k] \in {e, f}
      <4>1. CASE q \in aborted
        <5>1. /\ wire' \in Seq(EventRow) /\ Places' = Places \cup {Len(wire) + 1, Len(wire) + 2}
              /\ \A k \in Places : wire'[k] = wire[k]
              /\ wire'[Len(wire) + 1] = e /\ wire'[Len(wire) + 2] = f
          BY <1>4, <2>3, <4>1 DEF AddsBoth, Places
        <5> QED
          BY <5>1 DEF Longer, Fresh
      <4>2. CASE q \notin aborted
        <5>1. Adds(e)
          BY <2>3, <4>2
        <5>2. Longer /\ Fresh = {Len(wire) + 1} /\ wire'[Len(wire) + 1] = e
          BY <1>1, <5>1, AddsPlace
        <5> QED
          BY <5>2
      <4> QED
        BY <4>1, <4>2
    <3>4. Right(i, r)
      BY <1>2, <1>3, <3>1
    <3> QED
      BY <1>1, <2>6, <3>1, <3>2, <3>3, <3>4, RightStays
  <2> QED
    BY <2>5, <2>6
<1> QED
  BY <1>1, <1>6, <1>7, <1>8, <1>9, ServerEffect
-------------------------------------------------------------------------------
(* The reducer: only a pending event makes a card offer a review; any      *)
(* other leaves the offer it finds, or ends it.                            *)
CardOffers(c) == c.review = "pending" /\ c.id # 0

LEMMA Reducer ==
  ASSUME NEW c \in Card, NEW e \in EventRow
  PROVE  /\ Applied(c, e) \in Card
         /\ e.kind = "pending" => Applied(c, e) = [review |-> "pending", id |-> e.id, plan |-> e.plan]
         /\ e.kind # "pending" /\ CardOffers(Applied(c, e)) =>
              /\ CardOffers(c) /\ Applied(c, e).id = c.id /\ Applied(c, e).plan = c.plan
              /\ e.kind # "plan" /\ e.id # c.id
<1>1. CASE e.kind = "pending"
  BY <1>1 DEF Applied, EventRow, Card
<1>2. CASE e.kind = "plan"
  BY <1>2 DEF Applied, EventRow, Card, CardOffers
<1>3. CASE e.kind \in {"approve", "reject", "revise"}
  <2>1. Applied(c, e) = AfterResolved(c, e)
    BY <1>3 DEF Applied
  <2>2. CASE c.review = "none"
    <3>1. AfterResolved(c, e) = c
      BY <2>2 DEF AfterResolved
    <3> QED
      BY <1>3, <2>1, <2>2, <3>1 DEF CardOffers
  <2>3. CASE c.review # "none"
    <3>1. AfterResolved(c, e) = [c EXCEPT !.id = IF @ = e.id THEN 0 ELSE @,
                                          !.review = IF e.kind = "revise" THEN @ ELSE e.kind]
      BY <2>3 DEF AfterResolved
    <3>2. PICK j, w : /\ j = IF c.id = e.id THEN 0 ELSE c.id
                      /\ w = IF e.kind = "revise" THEN c.review ELSE e.kind
      OBVIOUS
    <3>3. j \in Nat /\ w \in {"none", "pending", "approve", "reject"}
      BY <1>3, <3>2 DEF Card, EventRow
    <3>4. PICK d : d = [c EXCEPT !.id = j, !.review = w]
      OBVIOUS
    <3>5. d \in Card /\ d.plan = c.plan /\ d.id = j /\ d.review = w
      BY <3>3, <3>4 DEF Card
    <3>6. Applied(c, e) = d
      BY <2>1, <3>1, <3>2, <3>4
    <3> QED
      BY <1>3, <3>2, <3>5, <3>6 DEF CardOffers
  <2> QED
    BY <2>2, <2>3
<1> QED
  BY <1>1, <1>2, <1>3 DEF EventRow

(* The first event on the wire is applied.                                 *)
Takes(e) ==
  /\ e \in EventRow /\ 1 \in Places /\ wire[1] = e
  /\ wire' \in Seq(EventRow)
  /\ \A k \in Places \ {1} : k - 1 \in Places' /\ wire'[k - 1] = wire[k]
  /\ \A k \in Places' : k \in Nat /\ k + 1 \in Places \ {1} /\ wire'[k] = wire[k + 1]
  /\ \A r \in Run : card'[r] = IF r = e.run THEN Applied(card[r], e) ELSE card[r]

LEMMA DeliverTakes ==
  ASSUME CardTypes, Deliver
  PROVE  \E e : Takes(e) /\ card' \in [Run -> Card]
<1>1. wire \in Seq(EventRow) /\ wire # <<>> /\ card \in [Run -> Card]
  BY DEF CardTypes, Deliver
<1>2. PICK e : e = Head(wire)
  OBVIOUS
<1>3. /\ e \in EventRow /\ wire' \in Seq(EventRow) /\ Len(wire') = Len(wire) - 1
      /\ \A k \in 1..Len(wire') : wire'[k] = wire[k + 1]
  BY <1>1, <1>2, HeadTailProperties DEF Deliver
<1>4. Len(wire) \in Nat /\ Len(wire') \in Nat
  BY <1>1, <1>3, LenProperties
<1>5. wire[1] = e
  BY <1>1, <1>2
<1>6. card' = [card EXCEPT ![e.run] = Applied(@, e)]
  BY <1>2 DEF Deliver
<1>7. e.run \in Run
  BY <1>3 DEF EventRow
<1>8. card' \in [Run -> Card]
  BY <1>1, <1>3, <1>6, <1>7, Reducer
<1>9. \A r \in Run : card'[r] = IF r = e.run THEN Applied(card[r], e) ELSE card[r]
  BY <1>1, <1>6, <1>7
<1>10. /\ 1 \in Places
       /\ \A k \in Places \ {1} : k - 1 \in Places' /\ wire'[k - 1] = wire[k]
       /\ \A k \in Places' : k \in Nat /\ k + 1 \in Places \ {1} /\ wire'[k] = wire[k + 1]
  BY <1>3, <1>4 DEF Places
<1> QED
  BY <1>3, <1>5, <1>8, <1>9, <1>10 DEF Takes

LEMMA Shifted ==
  ASSUME NEW e, Takes(e), NEW r \in Run, NEW i
  PROVE  /\ \A k \in Places \ {1} : /\ k - 1 \in Places'
                                    /\ About(k - 1, r)' <=> About(k, r)
                                    /\ News(k - 1, r)' <=> News(k, r)
                                    /\ NewsOf(k - 1, i, r)' <=> NewsOf(k, i, r)
                                    /\ EndOf(k - 1, i, r)' <=> EndOf(k, i, r)
         /\ \A k \in Places' : /\ k \in Nat /\ k + 1 \in Places \ {1}
                               /\ About(k, r)' <=> About(k + 1, r)
                               /\ News(k, r)' <=> News(k + 1, r)
BY DEF Takes, About, News, NewsOf, EndOf

LEMMA RunIsOffered ==
  ASSUME NEW e, Takes(e), Places \subseteq Nat, NEW r \in Run, NEW i \in Nat \ {0},
         card[r] \in Card, WillOffer(i, r)
  PROVE  WillOffer(i, r)'
<1>1. ASSUME NEW k \in Places \ {1}, NewsOf(k, i, r), \A j \in Places : k < j => ~About(j, r)
      PROVE  WillOffer(i, r)'
  <2>1. PICK n \in Places' : n = k - 1 /\ NewsOf(n, i, r)'
    BY <1>1, Shifted
  <2>2. \A j \in Places' : n < j => ~About(j, r)'
    BY <1>1, <2>1, Shifted
  <2> QED
    BY <2>1, <2>2 DEF WillOffer
<1>2. CASE NewsOf(1, i, r) /\ \A j \in Places : 1 < j => ~About(j, r)
  <2>1. e.kind = "pending" /\ e.run = r /\ e.id = i
    BY <1>2 DEF Takes, NewsOf, News, About
  <2>2. card'[r] = [review |-> "pending", id |-> i, plan |-> e.plan]
    BY <2>1, Reducer DEF Takes
  <2>3. Offers(r)' /\ card'[r].id = i
    BY <2>2 DEF Offers
  <2>4. \A k \in Places' : ~About(k, r)'
    BY <1>2, Shifted
  <2> QED
    BY <2>3, <2>4 DEF WillOffer
<1>3. CASE Offers(r) /\ card[r].id = i /\ \A k \in Places : ~About(k, r)
  <2>1. card'[r] = card[r]
    BY <1>3 DEF Takes, About
  <2>2. Offers(r)' /\ card'[r].id = i
    BY <1>3, <2>1 DEF Offers
  <2>3. \A k \in Places' : ~About(k, r)'
    BY <1>3, Shifted
  <2> QED
    BY <2>2, <2>3 DEF WillOffer
<1> QED
  BY <1>1, <1>2, <1>3 DEF WillOffer

LEMMA RunIsNotOffered ==
  ASSUME NEW e, Takes(e), Places \subseteq Nat, NEW r \in Run, NEW i \in Nat \ {0},
         card[r] \in Card, WillNotOffer(i, r)
  PROVE  WillNotOffer(i, r)'
<1>1. /\ e.run # r => card'[r] = card[r]
      /\ e.run = r => card'[r] = Applied(card[r], e)
  BY DEF Takes
<1>2. e \in EventRow /\ 1 \in Places
  BY DEF Takes
<1>3. ASSUME \A j \in Places : ~News(j, r)
      PROVE  /\ \A j \in Places' : ~News(j, r)'
             /\ Offers(r)' => Offers(r) /\ card'[r].id = card[r].id
             /\ EndOf(1, i, r) /\ card[r].id = i => ~Offers(r)'
  <2>1. e.run = r => e.kind # "pending"
    BY <1>2, <1>3 DEF Takes, News, About
  <2>2. \A j \in Places' : ~News(j, r)'
    BY <1>3, Shifted
  <2>3. CASE e.run = r
    BY <1>1, <1>2, <2>1, <2>2, <2>3, Reducer DEF Offers, CardOffers, EndOf, Takes
  <2>4. CASE e.run # r
    BY <1>1, <2>2, <2>4 DEF Offers, EndOf, About, Takes
  <2> QED
    BY <2>3, <2>4
<1>4. ASSUME NEW k \in Places, NEW n \in Places, k < n, NewsOf(k, i, r), EndOf(n, i, r),
             \A j \in Places : k < j => ~News(j, r)
      PROVE  WillNotOffer(i, r)'
  <2>1. n \in Places \ {1} /\ k \in Nat /\ n \in Nat
    BY <1>4, Shifted DEF Places
  <2>2. PICK m \in Places' : m = n - 1 /\ EndOf(m, i, r)'
    BY <1>4, <2>1, Shifted
  <2>3. CASE k # 1
    <3>1. PICK l \in Places' : l = k - 1 /\ NewsOf(l, i, r)'
      BY <1>4, <2>3, Shifted
    <3>2. l < m /\ \A j \in Places' : l < j => ~News(j, r)'
      BY <1>4, <2>1, <2>2, <3>1, Shifted
    <3> QED
      BY <2>2, <3>1, <3>2 DEF WillNotOffer
  <2>4. CASE k = 1
    <3>1. e.kind = "pending" /\ e.run = r /\ e.id = i
      BY <1>4, <2>4 DEF Takes, NewsOf, News, About
    <3>2. Holds(i, r)'
      BY <1>1, <1>2, <3>1, Reducer DEF Holds
    <3>3. \A j \in Places' : ~News(j, r)'
      BY <1>4, <2>4, Shifted
    <3> QED
      BY <2>2, <3>2, <3>3 DEF WillNotOffer
  <2> QED
    BY <2>3, <2>4
<1>5. ASSUME NEW n \in Places, EndOf(n, i, r), Holds(i, r), \A j \in Places : ~News(j, r)
      PROVE  WillNotOffer(i, r)'
  <2>1. \A j \in Places' : ~News(j, r)'
    BY <1>3, <1>5
  <2>2. CASE n # 1
    <3>1. Holds(i, r)'
      BY <1>3, <1>5 DEF Holds
    <3>2. \E m \in Places' : EndOf(m, i, r)'
      BY <1>5, <2>2, Shifted
    <3> QED
      BY <2>1, <3>1, <3>2 DEF WillNotOffer
  <2>3. CASE n = 1
    <3>1. ~Offers(r)'
      BY <1>3, <1>5, <2>3 DEF Holds
    <3> QED
      BY <2>1, <3>1 DEF WillNotOffer
  <2> QED
    BY <2>2, <2>3
<1>6. ASSUME ~Offers(r), \A j \in Places : ~News(j, r)
      PROVE  WillNotOffer(i, r)'
  BY <1>3, <1>6 DEF WillNotOffer
<1> QED
  BY <1>4, <1>5, <1>6 DEF WillNotOffer

(* Applying an event keeps what is shown registered and what is on its way *)
(* on its way.                                                             *)
LEMMA StoreStands ==
  ASSUME UNCHANGED vars
  PROVE  /\ reviews' = reviews /\ Ids' = Ids /\ Open' = Open
         /\ \A i, r : IsLatest(i, r)' <=> IsLatest(i, r)
         /\ \A i, r, p : InStore(i, r, p)' <=> InStore(i, r, p)
         /\ HasLatest' <=> HasLatest
<1>1. reviews' = reviews
  BY DEF vars, reviewVars
<1> QED
  BY <1>1 DEF Ids, Open, IsLatest, ReviewsOf, InStore, HasLatest

LEMMA DeliverShown ==
  ASSUME CardInv, Deliver
  PROVE  Shown' /\ OnTheWay'
<1>1. /\ CardTypes /\ IInv /\ HasLatest /\ WireShown /\ ShownIsRegistered /\ FirstFetch /\ OnTheWay
      /\ UNCHANGED <<vars, snapshot, fetches, online, outages, missed>>
  BY DEF CardInv, Deliver, linkVars
<1>2. PICK e : Takes(e) /\ card' \in [Run -> Card]
  BY <1>1, DeliverTakes
<1>3. /\ reviews' = reviews /\ Ids' = Ids /\ Open' = Open /\ HasLatest'
      /\ \A i, r : IsLatest(i, r)' <=> IsLatest(i, r)
      /\ \A i, r, p : InStore(i, r, p)' <=> InStore(i, r, p)
  BY <1>1, StoreStands
<1>4. CardTypes'
  BY <1>1, <1>2, <1>3 DEF CardTypes, Takes
<1>5. WireShown'
  <2> SUFFICES ASSUME NEW k \in Places', wire'[k].kind = "pending"
               PROVE  InStore(wire[k].id, wire[k].run, wire[k].plan)'
    BY DEF WireShown
  <2>1. k + 1 \in Places /\ wire'[k] = wire[k + 1]
    BY <1>2 DEF Takes
  <2>2. InStore(wire[k + 1].id, wire[k + 1].run, wire[k + 1].plan)
    BY <1>1, <2>1 DEF WireShown
  <2> QED
    BY <1>3, <2>1, <2>2 DEF InStore
<1>6. ShownIsRegistered'
  <2> SUFFICES ASSUME NEW r \in Run, Offers(r)'
               PROVE  InStore(card'[r].id, r, card'[r].plan)
    BY <1>3 DEF ShownIsRegistered, InStore
  <2>1. Offers(r) => InStore(card[r].id, r, card[r].plan)
    BY <1>1 DEF ShownIsRegistered, InStore
  <2>2. CASE e.run # r
    BY <1>2, <2>1, <2>2 DEF Takes, Offers
  <2>3. CASE e.run = r
    <3>1. /\ card'[r] = Applied(card[r], e) /\ card[r] \in Card
          /\ e \in EventRow /\ 1 \in Places /\ wire[1] = e
      BY <1>1, <1>2, <2>3 DEF Takes, CardTypes
    <3>2. CASE e.kind = "pending"
      <4>1. InStore(e.id, e.run, e.plan)
        BY <1>1, <3>1, <3>2 DEF WireShown
      <4>2. card'[r].id = e.id /\ card'[r].plan = e.plan
        BY <3>1, <3>2, Reducer
      <4> QED
        BY <2>3, <4>1, <4>2
    <3>3. CASE e.kind # "pending"
      <4>1. CardOffers(card[r]) /\ card'[r].id = card[r].id /\ card'[r].plan = card[r].plan
        BY <3>1, <3>3, Reducer DEF Offers, CardOffers
      <4> QED
        BY <2>1, <4>1 DEF Offers, CardOffers
    <3> QED
      BY <3>2, <3>3
  <2> QED
    BY <2>2, <2>3
<1>7. FirstFetch'
  BY <1>1 DEF FirstFetch
<1>8. OnTheWay'
  <2> SUFFICES ASSUME online, fetches = 0, NEW r \in Run, NEW i \in Ids,
                      IsLatest(i, r), missed < i
               PROVE  Right(i, r)'
    BY <1>1, <1>3 DEF OnTheWay, Right
  <2>1. i \in Nat \ {0} /\ card[r] \in Card /\ Places \subseteq Nat
    BY <1>1, Rows DEF CardTypes, Places
  <2>2. Right(i, r)
    BY <1>1 DEF OnTheWay, Right
  <2> QED
    BY <1>2, <1>3, <2>1, <2>2, RunIsOffered, RunIsNotOffered DEF Right
<1> QED
  BY <1>1, <1>3, <1>4, <1>5, <1>6, <1>7, <1>8 DEF Shown

(* The response puts open reviews of the list on their cards.              *)
LEMMA RespondShown ==
  ASSUME CardInv, Respond
  PROVE  Shown' /\ OnTheWay'
<1>1. /\ CardTypes /\ IInv /\ HasLatest /\ WireShown /\ ShownIsRegistered /\ FirstFetch
      /\ UNCHANGED <<vars, wire, fetches, online, outages, missed>>
      /\ snapshot # NoSnapshot /\ snapshot' = NoSnapshot
  BY DEF CardInv, Respond, linkVars
<1>2. /\ reviews' = reviews /\ Ids' = Ids /\ HasLatest'
      /\ \A i, r, p : InStore(i, r, p)' <=> InStore(i, r, p)
  BY <1>1, StoreStands
<1>3. snapshot \subseteq Ids /\ fetches # 0
  BY <1>1 DEF CardTypes, FirstFetch
<1>4. ASSUME NEW r \in Run
      PROVE  /\ card'[r] \in Card
             /\ \/ card'[r] = card[r]
                \/ card'[r].id \in Ids /\ InStore(card'[r].id, r, card'[r].plan)
  <2>1. CASE \E i \in snapshot : reviews[i].run = r
    <3>1. PICK i : i = CHOOSE j \in snapshot : reviews[j].run = r
      OBVIOUS
    <3>2. i \in snapshot /\ reviews[i].run = r
      BY <2>1, <3>1
    <3>3. card'[r] = [review |-> "pending", id |-> i, plan |-> reviews[i].plan]
      BY <2>1, <3>1 DEF Respond, FromSnapshot
    <3>4. i \in Ids /\ i \in Nat /\ reviews[i].plan \in Plan
      BY <1>1, <1>3, <3>2, Rows, EntryOf, CompiledArePlans DEF IInv
    <3> QED
      BY <3>2, <3>3, <3>4 DEF Card, InStore
  <2>2. CASE ~\E i \in snapshot : reviews[i].run = r
    BY <1>1, <2>2 DEF Respond, CardTypes
  <2> QED
    BY <2>1, <2>2
<1>5. CardTypes'
  <2>1. card' \in [Run -> Card]
    BY <1>4 DEF Respond
  <2> QED
    BY <1>1, <1>2, <2>1 DEF CardTypes
<1>6. ShownIsRegistered'
  <2> SUFFICES ASSUME NEW r \in Run, Offers(r)'
               PROVE  InStore(card'[r].id, r, card'[r].plan)
    BY <1>2 DEF ShownIsRegistered, InStore
  <2>1. Offers(r) => InStore(card[r].id, r, card[r].plan)
    BY <1>1 DEF ShownIsRegistered, InStore
  <2> QED
    BY <1>4, <2>1 DEF Offers
<1>7. WireShown' /\ FirstFetch' /\ OnTheWay'
  BY <1>1, <1>2, <1>3 DEF WireShown, Places, FirstFetch, OnTheWay, InStore
<1> QED
  BY <1>2, <1>5, <1>6, <1>7 DEF Shown

(* The connection and the fetch.                                           *)
LEMMA LinkShown ==
  ASSUME CardInv, Breaks \/ Reconnects \/ Fetch \/ UNCHANGED allVars
  PROVE  Shown' /\ OnTheWay'
<1>1. /\ CardTypes /\ IInv /\ HasLatest /\ WireShown /\ ShownIsRegistered /\ FirstFetch /\ OnTheWay
      /\ UNCHANGED <<vars, card>>
  BY DEF CardInv, Breaks, Reconnects, Fetch, allVars, cardVars
<1>2. /\ reviews' = reviews /\ Ids' = Ids /\ Open' = Open /\ HasLatest'
      /\ \A i, r : IsLatest(i, r)' <=> IsLatest(i, r)
      /\ \A i, r, p : InStore(i, r, p)' <=> InStore(i, r, p)
  BY <1>1, StoreStands
<1>3. ShownIsRegistered'
  BY <1>1, <1>2 DEF ShownIsRegistered, Offers
<1>4. Len(reviews) \in Nat /\ Ids \subseteq Nat
  BY <1>1, Rows
<1>5. CASE Breaks
  <2>1. /\ wire' = <<>> /\ Places' = {} /\ online' = FALSE
        /\ outages' = outages + 1 /\ outages < MaxOutages
        /\ UNCHANGED <<snapshot, fetches, missed>>
    BY <1>5, EmptySeq DEF Breaks, Places
  <2>2. CardTypes'
    <3>1. outages' \in 0..MaxOutages
      BY <1>1, <2>1, CardAssumption DEF CardTypes
    <3> QED
      BY <1>1, <1>2, <2>1, <3>1, EmptySeq DEF CardTypes
  <2>3. WireShown' /\ FirstFetch' /\ OnTheWay'
    BY <1>1, <2>1 DEF WireShown, FirstFetch, OnTheWay
  <2> QED
    BY <1>2, <1>3, <2>2, <2>3 DEF Shown
<1>6. CASE Reconnects
  <2>1. /\ online' = TRUE /\ missed' = Len(reviews)
        /\ UNCHANGED <<wire, snapshot, fetches, outages>>
    BY <1>6 DEF Reconnects
  <2>2. CardTypes'
    BY <1>1, <1>2, <1>4, <2>1 DEF CardTypes
  <2>3. \A i \in Ids' : ~(missed' < i)
    BY <1>2, <1>4, <2>1 DEF Ids
  <2>4. WireShown' /\ FirstFetch' /\ OnTheWay'
    BY <1>1, <1>2, <2>1, <2>3 DEF WireShown, Places, FirstFetch, OnTheWay, InStore
  <2> QED
    BY <1>2, <1>3, <2>2, <2>4 DEF Shown
<1>7. CASE Fetch
  <2>1. /\ fetches' = fetches + 1 /\ fetches < MaxFetches /\ snapshot' = Open
        /\ UNCHANGED <<wire, online, outages, missed>>
    BY <1>7 DEF Fetch, linkVars
  <2>2. fetches' \in 0..MaxFetches /\ fetches' # 0
    BY <1>1, <2>1, CardAssumption DEF CardTypes
  <2>3. CardTypes'
    BY <1>1, <1>2, <2>1, <2>2 DEF CardTypes, Open
  <2>4. WireShown' /\ FirstFetch' /\ OnTheWay'
    BY <1>1, <1>2, <2>1, <2>2 DEF WireShown, Places, FirstFetch, OnTheWay, InStore
  <2> QED
    BY <1>2, <1>3, <2>3, <2>4 DEF Shown
<1>8. CASE UNCHANGED allVars
  <2>1. UNCHANGED <<wire, snapshot, fetches, online, outages, missed>>
    BY <1>8 DEF allVars, cardVars, linkVars
  <2>2. CardTypes'
    BY <1>1, <1>2, <2>1 DEF CardTypes
  <2>3. WireShown' /\ FirstFetch'
    BY <1>1, <1>2, <2>1 DEF WireShown, Places, FirstFetch, InStore
  <2>4. \A i, r : (WillOffer(i, r) <=> WillOffer(i, r)') /\ (WillNotOffer(i, r) <=> WillNotOffer(i, r)')
    BY <1>1, <2>1 DEF WillOffer, WillNotOffer, Places, NewsOf, EndOf, News, About, Holds, Offers
  <2>5. OnTheWay'
    BY <1>1, <1>2, <2>1, <2>4 DEF OnTheWay
  <2> QED
    BY <1>2, <1>3, <2>2, <2>3, <2>5 DEF Shown
<1> QED
  BY <1>5, <1>6, <1>7, <1>8

LEMMA CardInitInv ==
  ASSUME CardInit
  PROVE  CardInv
<1>1. IInv
  BY InitInv DEF CardInit
<1>2. reviews = <<>> /\ Len(reviews) = 0 /\ Ids = {}
  BY EmptySeq DEF CardInit, Init, ReviewInit, Ids
<1>3. wire = <<>> /\ wire \in Seq(EventRow) /\ Places = {}
  BY EmptySeq DEF CardInit, Places
<1>4. \A r \in Run : card[r] = [review |-> "none", id |-> 0, plan |-> NoPlan]
  BY DEF CardInit
<1>5. card \in [Run -> Card]
  BY DEF CardInit, Card
<1>6. CardTypes
  BY <1>2, <1>3, <1>5, CardAssumption DEF CardTypes, CardInit
<1>7. ShownIsRegistered /\ WireShown /\ HasLatest /\ OnTheWay
  BY <1>2, <1>3, <1>4 DEF ShownIsRegistered, Offers, WireShown, HasLatest, OnTheWay
<1>8. FirstFetch
  BY DEF FirstFetch, CardInit
<1> QED
  BY <1>1, <1>6, <1>7, <1>8 DEF CardInv

LEMMA CardInvariance == CardInv /\ [CardNext]_allVars => CardInv'
<1> SUFFICES ASSUME CardInv, [CardNext]_allVars PROVE CardInv'
  OBVIOUS
<1>1. IInv'
  <2>1. [Next]_vars
    BY DEF CardNext, Server, Deliver, Breaks, Reconnects, Fetch, Respond, allVars
  <2> QED
    BY <2>1, Invariance DEF CardInv
<1>2. Shown' /\ OnTheWay'
  BY <1>1, ServerShown, ServerOnTheWay, DeliverShown, RespondShown, LinkShown DEF CardNext
<1> QED
  BY <1>1, <1>2 DEF CardInv, Shown
-------------------------------------------------------------------------------

LEMMA CardInductive == CardSpec => []CardInv
<1>1. CardInit => CardInv
  BY CardInitInv
<1>2. CardInv /\ [CardNext]_allVars => CardInv'
  BY CardInvariance
<1> QED
  BY <1>1, <1>2, PTL DEF CardSpec

(* For any runs, plans and bounds the cards, the events and the snapshot   *)
(* have their types.                                                       *)
THEOREM CardsTyped == CardSpec => []CardTypeOK
<1>1. CardInv => CardTypeOK
  <2> SUFFICES ASSUME CardInv PROVE CardTypeOK
    OBVIOUS
  <2>1. CardTypes
    BY DEF CardInv
  <2>2. \A k \in 1..Len(wire) : wire[k] \in EventRow
    BY <2>1, ElementOfSeq DEF CardTypes
  <2>3. \A e \in EventRow : e.kind \in Verdict \cup {"pending", "plan"} /\ e.run \in Run
    BY DEF EventRow, Verdict
  <2> QED
    BY <2>1, <2>2, <2>3 DEF CardTypes, CardTypeOK
<1> QED
  BY CardInductive, <1>1, PTL

(* What the user sees is what the user decides: whatever the users, the    *)
(* runs, the outages and the snapshots do, a card with buttons shows the   *)
(* plan the server registered under that id for that run.                  *)
THEOREM CardsShowRegistered == CardSpec => []ShownIsRegistered
<1>1. CardInv => ShownIsRegistered
  BY DEF CardInv
<1> QED
  BY CardInductive, <1>1, PTL

(* The events alone keep every card in step with its run's review, for any *)
(* runs and plans and whatever is decided in between, up to the reviews    *)
(* registered during an outage.                                            *)
THEOREM CardsInStep == CardSpec => []EventsKeepStep
<1>1. CardInv => EventsKeepStep
  <2> SUFFICES ASSUME CardInv, Settled, fetches = 0, NEW r \in Run,
                      \A i \in Ids : IsLatest(i, r) => i > missed
               PROVE  InStep(r)
    BY DEF EventsKeepStep
  <2>1. /\ StoreInv /\ ReviewsFollowRun /\ HasLatest /\ ShownIsRegistered /\ OnTheWay
        /\ missed \in Nat /\ Ids \subseteq Nat
    BY Rows, LenProperties DEF CardInv, IInv, StoreInv, CardTypes
  <2>2. Places = {} /\ online
    BY EmptySeq DEF Settled, Places
  <2>3. \A i \in Ids : IsLatest(i, r) => Right(i, r)
    BY <2>1, <2>2 DEF OnTheWay, Right
  <2>4. \A i : (WillOffer(i, r) => Offers(r) /\ card[r].id = i) /\ (WillNotOffer(i, r) => ~Offers(r))
    BY <2>2 DEF WillOffer, WillNotOffer
  <2>5. CASE UnderReview(r)
    <3>1. PICK i \in Open : reviews[i].run = r
      BY <2>5 DEF UnderReview
    <3>2. i \in Ids /\ IsLatest(i, r)
      BY <2>1, <3>1 DEF ReviewsFollowRun, Open
    <3>3. WillOffer(i, r)
      BY <2>3, <3>1, <3>2 DEF Right
    <3> QED
      BY <2>4, <2>5, <3>1, <3>3 DEF InStep
  <2>6. CASE ~UnderReview(r)
    <3>1. ASSUME Offers(r) PROVE FALSE
      <4>1. card[r].id \in Ids /\ reviews[card[r].id].run = r
        BY <2>1, <3>1 DEF ShownIsRegistered
      <4>2. PICK j \in Ids : IsLatest(j, r)
        BY <2>1, <4>1 DEF HasLatest
      <4>3. j \notin Open
        BY <2>6, <4>2 DEF UnderReview, IsLatest, ReviewsOf
      <4>4. WillNotOffer(j, r)
        BY <2>3, <4>2, <4>3 DEF Right
      <4> QED
        BY <2>4, <3>1, <4>4
    <3> QED
      BY <2>6, <3>1 DEF InStep
  <2> QED
    BY <2>5, <2>6
<1> QED
  BY CardInductive, <1>1, PTL
===============================================================================
