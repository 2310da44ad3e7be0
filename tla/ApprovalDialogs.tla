---------------------------- MODULE ApprovalDialogs ----------------------------
(***************************************************************************)
(* The requests of Approvals as a browser tab shows them: the events the   *)
(* three stores publish, the connection that carries them in order and the *)
(* reducers of stores/app-store.ts that keep a list for each kind of       *)
(* request.  The tab stays mounted, so it fetches no list.                 *)
(***************************************************************************)
EXTENDS Approvals

VARIABLES wire,        \* the events on their way to the tab, oldest first
          shown        \* the requests listed, in the order they were added

allVars == <<vars, wire, shown>>

DialogInit == Init /\ wire = <<>> /\ shown = <<>>

(* The events of a server step: a request that is registered is announced; *)
(* one that leaves its map is resolved, but a cancellation is announced by *)
(* the store of shell commands alone.                                      *)
Added == (1..Len(requests')) \ Ids
Left == {i \in 1..Len(requests') : requests'[i].verdict # "open" /\ i \notin Ids \ Open}
Silent(i) == requests'[i].task \in aborted' /\ requests'[i].kind # "command"

InOrder(S) == LET In(i) == i \in S IN SelectSeq([i \in 1..Len(requests') |-> i], In)
Events(what, S) == [k \in 1..Cardinality(S) |-> [what |-> what, id |-> InOrder(S)[k]]]

Publish == wire' = wire \o Events("pending", Added)
                        \o Events("resolved", {i \in Left : ~Silent(i)})

Server == Next /\ Publish /\ UNCHANGED shown

Applied(e) ==
  IF e.what = "resolved"
  THEN LET Other(i) == i # e.id IN SelectSeq(shown, Other)
  ELSE IF \E k \in 1..Len(shown) : shown[k] = e.id THEN shown ELSE Append(shown, e.id)

Deliver ==
  /\ wire # <<>>
  /\ shown' = Applied(Head(wire))
  /\ wire' = Tail(wire)
  /\ UNCHANGED vars

DialogNext == Server \/ Deliver

DialogSpec == DialogInit /\ [][DialogNext]_allVars
-------------------------------------------------------------------------------
(* The question dialog is modal and shows the first question of its list   *)
(* until it is answered.  ask-user-question-dialog.tsx: the questions of   *)
(* the queue are handled one after the other; so while some run waits for  *)
(* an answer, the question shown is one that can be answered.              *)
QuestionsMoveOn ==
  LET Question(i) == requests[i].kind = "question"
      queue == SelectSeq(shown, Question)
  IN wire = <<>> /\ (\E i \in Open : Question(i)) => Head(queue) \in Open
===============================================================================
