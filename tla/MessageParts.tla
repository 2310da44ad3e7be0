------------------------------ MODULE MessageParts ------------------------------
(***************************************************************************)
(* The parts of a message and what the events of a run do to them, in the  *)
(* rows the server writes and in the copy a browser tab keeps: both apply  *)
(* the same events with the same operations, agent-runner.ts in            *)
(* persistEvent and stores/app-store.ts in applyEvent.                     *)
(*                                                                         *)
(* A part is what the properties tell apart: text, thinking, a tool_use, a *)
(* tool_result, an artifact_ref or deploy_status, the error text of a run. *)
(* Contents, and the deltas that extend them, are left out.                *)
(***************************************************************************)
EXTENDS Naturals, SequencesExt

Text  == [kind |-> "text",  call |-> 0, isError |-> FALSE]
Thinking == [kind |-> "thinking", call |-> 0, isError |-> FALSE]
Ref   == [kind |-> "ref",   call |-> 0, isError |-> FALSE]
Error == [kind |-> "error", call |-> 0, isError |-> TRUE]
Use(c)            == [kind |-> "use",    call |-> c, isError |-> FALSE]
Result(c, failed) == [kind |-> "result", call |-> c, isError |-> failed]

(* A slot of a JavaScript array that was never assigned.                   *)
Hole == [kind |-> "hole", call |-> 0, isError |-> FALSE]

Part(Call) == {Text, Thinking, Ref, Error} \cup {Use(c) : c \in Call}
                \cup {Result(c, f) : c \in Call, f \in BOOLEAN}

(* parts[i] = part, with JavaScript's indices.                             *)
SetPart(parts, i, part) ==
  [k \in 1..(IF i < Len(parts) THEN Len(parts) ELSE i + 1) |->
     IF k = i + 1 THEN part ELSE IF k <= Len(parts) THEN parts[k] ELSE Hole]

HasResult(parts, c) == \E k \in 1..Len(parts) : parts[k].kind = "result" /\ parts[k].call = c

(* The calls of a message that no result answers, in their order.          *)
Unanswered(parts, k) == parts[k].kind = "use" /\ ~HasResult(parts, parts[k].call)

MissingAll(parts) ==                      \* mutant: completedCallIds not looked at
  FlattenSeq([k \in 1..Len(parts) |->
                IF parts[k].kind = "use" THEN <<parts[k].call>> ELSE <<>>])
MissingCalls(parts) ==
  FlattenSeq([k \in 1..Len(parts) |->
                IF Unanswered(parts, k) THEN <<parts[k].call>> ELSE <<>>])

(* Every call without a result gets one that says it failed.               *)
CloseCalls(parts) ==
  LET missing == MissingCalls(parts)
  IN parts \o [k \in 1..Len(missing) |-> Result(missing[k], TRUE)]

(* A tool.result event in the tab: it replaces an earlier result.          *)
PutResult(parts, c, failed) ==
  IF HasResult(parts, c)
  THEN [k \in 1..Len(parts) |->
          IF parts[k].kind = "result" /\ parts[k].call = c THEN Result(c, failed) ELSE parts[k]]
  ELSE Append(parts, Result(c, failed))
===============================================================================
