------------------------------- MODULE ReviewCard -------------------------------
(***************************************************************************)
(* The plan card of a browser tab that shows the conversation: the events  *)
(* OrchestratorRun publishes on the event bus, the SSE connection that     *)
(* carries them in order (app/api/stream/route.ts), the reducers of        *)
(* stores/app-store.ts and the snapshot of the open reviews that           *)
(* components/chat-panel.tsx fetches over a connection of its own whenever *)
(* the conversation object in the store changes.  The SSE connection may   *)
(* break; the browser opens it again, and nobody sends again what was      *)
(* published in between.                                                   *)
(***************************************************************************)
EXTENDS OrchestratorRun

CONSTANTS MaxFetches,  \* bound: snapshots fetched in a behaviour
          MaxOutages   \* bound: times the SSE connection breaks

ASSUME CardAssumption == MaxFetches \in Nat /\ MaxOutages \in Nat

VARIABLES wire,        \* the events on their way to the tab, oldest first
          card,        \* dispatchesByRunId: review state, pendingPlanId (or 0), plan
          snapshot,    \* the reviews in the response under way, or NoSnapshot
          fetches,
          online,      \* the SSE connection is up
          outages,
          missed       \* the last review registered before it was up again

linkVars == <<online, outages, missed>>
cardVars == <<wire, card, snapshot, fetches, linkVars>>
allVars == <<vars, cardVars>>

NoSnapshot == {0}

Card == [review : {"none", "pending", "approve", "reject"}, id : Nat, plan : Plan \cup {NoPlan}]

Event(kind, i, rs) == [kind |-> kind, id |-> i, run |-> rs[i].run, plan |-> rs[i].plan]

CardInit ==
  /\ Init
  /\ wire = <<>>
  /\ card = [r \in Run |-> [review |-> "none", id |-> 0, plan |-> NoPlan]]
  /\ snapshot = NoSnapshot
  /\ fetches = 0
  /\ online = TRUE /\ outages = 0 /\ missed = 0
-------------------------------------------------------------------------------
(* The events of a server step, in the order they are published: the       *)
(* pending event of a review that is registered, the resolved event of one *)
(* that leaves the map, the dispatch.plan event of a plan that is launched.*)
Singleton(S) == IF S = {} THEN <<>> ELSE <<CHOOSE x \in S : TRUE>>

Resolved ==
  {Event(reviews'[i].verdict, i, reviews') :
     i \in {j \in 1..Len(reviews') : reviews'[j].verdict # "open" /\ (j \in Open \/ j \notin Ids)}}
Registered ==
  {Event("pending", i, reviews') : i \in (1..Len(reviews')) \ Ids}
Launched ==
  {[kind |-> "plan", id |-> 0, run |-> r, plan |-> approved'[r]] :
     r \in {q \in Run : approved[q] = NoPlan /\ approved'[q] # NoPlan}}

Send(events) == wire' = IF online THEN wire \o events ELSE wire

PublishLate ==                            \* mutant: the pending event comes after
  Send(Singleton(Resolved) \o Singleton(Registered) \o Singleton(Launched))
Publish == Send(Singleton(Registered) \o Singleton(Resolved) \o Singleton(Launched))

(* No step publishes two events of a kind: the steps of the runs and the   *)
(* requests decide one review at a time.                                   *)
Server ==
  /\ Next
  /\ Publish
  /\ UNCHANGED <<card, snapshot, fetches, linkVars>>

(* applyEvent: dispatch.plan.pending, dispatch.plan.resolved and           *)
(* dispatch.plan.                                                          *)
AfterResolved(c, e) ==
  IF c.review = "none" THEN c
  ELSE [c EXCEPT !.id = IF @ = e.id THEN 0 ELSE @,
                 !.review = IF e.kind = "revise" THEN @ ELSE e.kind]

Applied(c, e) ==
  CASE e.kind = "pending" -> [review |-> "pending", id |-> e.id, plan |-> e.plan]
    [] e.kind = "plan"    -> [review |-> "approve", id |-> 0, plan |-> e.plan]
    [] OTHER              -> AfterResolved(c, e)

Deliver ==
  /\ wire # <<>>
  /\ LET e == Head(wire) IN card' = [card EXCEPT ![e.run] = Applied(@, e)]
  /\ wire' = Tail(wire)
  /\ UNCHANGED <<vars, snapshot, fetches, linkVars>>

(* The connection breaks and takes what it carries with it; the browser    *)
(* connects again, and the route subscribes again.                         *)
Breaks ==
  /\ online /\ outages < MaxOutages
  /\ online' = FALSE /\ wire' = <<>>
  /\ outages' = outages + 1
  /\ UNCHANGED <<vars, card, snapshot, fetches, missed>>

Reconnects ==
  /\ ~online
  /\ online' = TRUE /\ missed' = Len(reviews)
  /\ UNCHANGED <<vars, wire, card, snapshot, fetches, outages>>

(* The GET handler lists the open reviews.  A response that is still under *)
(* way when the effect runs again is dropped.                              *)
Fetch ==
  /\ fetches < MaxFetches
  /\ fetches' = fetches + 1
  /\ snapshot' = Open
  /\ UNCHANGED <<vars, wire, card, linkVars>>

(* setPendingDispatchPlansForConversation: every review of the list is put *)
(* on its run's card, whatever the card holds; no card is cleared.         *)
KeepsPlan(c, i) ==                        \* mutant: the card keeps its old plan
  [c EXCEPT !.review = "pending", !.id = i]
FromSnapshot(c, i) == [review |-> "pending", id |-> i, plan |-> reviews[i].plan]

Respond ==
  /\ snapshot # NoSnapshot
  /\ card' = [r \in Run |->
                IF \E i \in snapshot : reviews[i].run = r
                THEN FromSnapshot(card[r], CHOOSE i \in snapshot : reviews[i].run = r)
                ELSE card[r]]
  /\ snapshot' = NoSnapshot
  /\ UNCHANGED <<vars, wire, fetches, linkVars>>

CardNext == Server \/ Deliver \/ Breaks \/ Reconnects \/ Fetch \/ Respond

CardSpec == CardInit /\ [][CardNext]_allVars
FairCardSpec == CardSpec /\ Fairness
-------------------------------------------------------------------------------
(* The card offers Approve and Reject (dispatch-plan-card.tsx).            *)
Offers(r) == card[r].review = "pending" /\ card[r].id # 0
Settled == online /\ wire = <<>> /\ snapshot = NoSnapshot

(* Types of the card, the events and the snapshot.                         *)
CardTypeOK ==
  /\ card \in [Run -> Card]
  /\ \A k \in 1..Len(wire) :
       wire[k].kind \in Verdict \cup {"pending", "plan"} /\ wire[k].run \in Run
  /\ snapshot = NoSnapshot \/ snapshot \subseteq Ids
  /\ fetches \in 0..MaxFetches
  /\ online \in BOOLEAN /\ outages \in 0..MaxOutages /\ missed \in 0..Len(reviews)

(* What the user sees is what the user decides: the plan on a card with    *)
(* buttons is the plan the server registered under that id for that run,   *)
(* so an approval never grants a plan other than the one shown.            *)
ShownIsRegistered ==
  \A r \in Run : Offers(r) =>
    /\ card[r].id \in Ids
    /\ reviews[card[r].id].run = r
    /\ reviews[card[r].id].plan = card[r].plan

(* Spec 02: when every event is applied the card offers exactly the open   *)
(* review, so no run waits for a decision nobody is offered, and no        *)
(* decided review is offered again.                                        *)
InStep(r) ==
  IF UnderReview(r) THEN Offers(r) /\ card[r].id \in Open
                    ELSE ~Offers(r)

(* The events alone keep a card in step, whatever is decided in between;   *)
(* an outage may leave it behind, until the next review of its run.        *)
EventsKeepStep ==
  Settled /\ fetches = 0 =>
    \A r \in Run : (\A i \in Ids : IsLatest(i, r) => i > missed) => InStep(r)
===============================================================================
