----------------------------- MODULE RunTranscript -----------------------------
(***************************************************************************)
(* One run of a simple agent, from AgentRunner.run to its run.end event:   *)
(* the adapter's stream, consumeStream and persistEvent, which write the   *)
(* run's messages and publish its events, the finalization of the run, and *)
(* a browser tab that applies the events as they arrive.  The user may     *)
(* abort the run at any moment.                                            *)
(*                                                                         *)
(* An adapter is one of two kinds.  "turns" is the custom adapter: it      *)
(* drives the model itself, one message per turn.  "single" is Claude Code *)
(* or Codex: one message holds everything the SDK reports.                 *)
(***************************************************************************)
EXTENDS MessageParts

CONSTANTS Adapter,     \* the kinds of adapter the run may have
          MaxTurns,    \* MAX_TURNS of the custom adapter
          MaxCalls,    \* bound: tool calls of a run
          MaxTexts     \* bound: text parts a message is given

ASSUME BoundsAssumption ==
  /\ Adapter \subseteq {"turns", "single"}
  /\ MaxTurns \in Nat \ {0} /\ MaxCalls \in Nat /\ MaxTexts \in Nat

VARIABLES adapter,     \* the adapter of the run's agent
          phase,       \* where executeRun and the adapter's generator are
          aborted,     \* signal.aborted
          row,         \* agent_runs.status, "none" before the insertion
          db,          \* the run's rows of messages, oldest first
          nextPart,    \* nextPartIndex of the adapter
          calls,       \* tool calls made so far: their ids are 1..calls
          unanswered,  \* calls whose tool has not returned
          todo,        \* "turns": tool calls of this turn still to execute
          wire,        \* events on their way to the tab
          shownRun,    \* the tab's copy of the row
          shown        \* the tab's copy of the messages

server == <<adapter, phase, aborted, row, db, nextPart, calls, unanswered, todo>>
vars == <<server, wire, shownRun, shown>>

Final == {"complete", "failed", "aborted"}
Fresh == [status |-> "streaming", parts |-> <<>>]
Current == Len(db)                        \* currentMessageId

Init ==
  /\ adapter \in Adapter
  /\ phase = "loading"
  /\ aborted = FALSE
  /\ row = "none"
  /\ db = <<>>
  /\ nextPart = 0 /\ calls = 0 /\ unanswered = {} /\ todo = 0
  /\ wire = <<>>
  /\ shownRun = "none"
  /\ shown = <<>>
-------------------------------------------------------------------------------
(* The events.                                                             *)
RunStart        == [type |-> "run.start"]
RunEnd(s)       == [type |-> "run.end", status |-> s]
MessageStart(m) == [type |-> "message.start", msg |-> m]
MessageEnd(m)   == [type |-> "message.end", msg |-> m]
PartStart(m, i, p)     == [type |-> "part.start", msg |-> m, index |-> i, part |-> p]
ToolCall(m, c)         == [type |-> "tool.call", msg |-> m, call |-> c]
ToolResult(m, c, fail) == [type |-> "tool.result", msg |-> m, call |-> c, isError |-> fail]

Publish(events) == wire' = wire \o events /\ UNCHANGED <<shownRun, shown>>

(* An event of the adapter in consumeStream: the row is written first, the *)
(* event published next, and the index of a part the server adds itself is *)
(* the length of the list.                                                 *)
Write(m, parts) == db' = [db EXCEPT ![m].parts = parts]

RefIndexLate(parts) == Len(parts) + 1     \* mutant: the index read after the push
RefIndex(parts) == Len(parts)

Refs(m, parts) == <<PartStart(m, RefIndex(parts), Ref)>>

OpenMessage ==
  /\ db' = Append(db, Fresh)
  /\ Publish(<<MessageStart(Len(db) + 1)>>)
  /\ nextPart' = 0

EndMessage ==
  /\ db' = [db EXCEPT ![Current].status = "complete"]
  /\ Publish(<<MessageEnd(Current)>>)

TextAtHead(i) == 0                  \* mutant: every text part at index 0
TextIndex(i) == i

AddText(part) ==
  /\ nextPart < MaxTexts
  /\ Write(Current, SetPart(db[Current].parts, TextIndex(nextPart), part))
  /\ Publish(<<PartStart(Current, TextIndex(nextPart), part)>>)
  /\ nextPart' = nextPart + 1

MakeCall ==
  /\ calls < MaxCalls
  /\ calls' = calls + 1
  /\ unanswered' = unanswered \cup {calls + 1}
  /\ Write(Current, Append(db[Current].parts, Use(calls + 1)))
  /\ Publish(<<ToolCall(Current, calls + 1)>>)

(* A tool that produced an artifact or a deployment puts a card after its  *)
(* result.                                                                 *)
Answer(c, failed, card) ==
  LET parts == Append(db[Current].parts, Result(c, failed)) IN
  /\ unanswered' = unanswered \ {c}
  /\ Write(Current, IF card THEN Append(parts, Ref) ELSE parts)
  /\ Publish(<<ToolResult(Current, c, failed)>> \o (IF card THEN Refs(Current, parts) ELSE <<>>))

AnswerSome ==
  \E c \in unanswered, failed \in BOOLEAN, card \in BOOLEAN :
    (card => ~failed) /\ Answer(c, failed, card)
-------------------------------------------------------------------------------
(* CustomAgentAdapter.stream.  "idle": at the head of the loop; "reading": *)
(* the model's answer streams in; "tools": the calls of the turn are       *)
(* executed one by one.                                                    *)
TurnReturns ==                            \* signal.aborted, or MAX_TURNS reached
  /\ phase = "idle" /\ adapter = "turns"
  /\ aborted \/ Current = MaxTurns
  /\ phase' = "returned"
  /\ UNCHANGED <<adapter, aborted, row, db, nextPart, calls, unanswered, todo,
                 wire, shownRun, shown>>

TurnStarts ==
  /\ phase = "idle" /\ adapter = "turns" /\ ~aborted /\ Current < MaxTurns
  /\ phase' = "reading"
  /\ OpenMessage
  /\ UNCHANGED <<adapter, aborted, row, calls, unanswered, todo>>

(* chat.completions.create rejects: the message is ended first.            *)
RequestFails ==
  /\ phase = "reading" /\ adapter = "turns" /\ db[Current].parts = <<>>
  /\ phase' = "threw"
  /\ EndMessage
  /\ UNCHANGED <<adapter, aborted, row, nextPart, calls, unanswered, todo>>

(* The first chunk with reasoning and the first with text open a part.     *)
Chunk ==
  /\ phase = "reading" /\ adapter = "turns" /\ ~aborted
  /\ \E part \in {Text, Thinking} \ ToSet(db[Current].parts) : AddText(part)
  /\ UNCHANGED <<adapter, phase, aborted, row, calls, unanswered, todo>>

(* Between two chunks the abort is noticed, or the stream breaks; neither  *)
(* ends the message.                                                       *)
ReadingStops ==
  /\ phase = "reading" /\ adapter = "turns"
  /\ \/ aborted /\ phase' = "returned"
     \/ phase' = "threw"
  /\ UNCHANGED <<adapter, aborted, row, db, nextPart, calls, unanswered, todo,
                 wire, shownRun, shown>>

(* The answer is complete, with no tool call or with some: nothing checks  *)
(* the signal from here to the next turn.                                  *)
AnswerRead ==
  /\ phase = "reading" /\ adapter = "turns"
  /\ \/ /\ phase' = "returned"
        /\ EndMessage
        /\ UNCHANGED todo
     \/ /\ phase' = "tools"
        /\ todo' \in 1..(MaxCalls - calls)
        /\ UNCHANGED <<db, wire, shownRun, shown>>
  /\ UNCHANGED <<adapter, aborted, row, nextPart, calls, unanswered>>

ToolStarts ==
  /\ phase = "tools" /\ unanswered = {} /\ todo > 0
  /\ todo' = todo - 1
  /\ MakeCall
  /\ UNCHANGED <<adapter, phase, aborted, row, nextPart>>

ToolReturns ==                            \* the registry catches what a tool throws
  /\ phase = "tools"
  /\ AnswerSome
  /\ UNCHANGED <<adapter, phase, aborted, row, nextPart, calls, todo>>

(* Looking up the artifact of a result may fail: the message stays open.   *)
ToolsEnd ==
  /\ phase = "tools" /\ unanswered = {}
  /\ \/ todo = 0 /\ phase' = "idle" /\ EndMessage
     \/ /\ \E k \in 1..Len(db[Current].parts) : db[Current].parts[k] = Result(calls, FALSE)
        /\ phase' = "threw"
        /\ UNCHANGED <<db, wire, shownRun, shown>>
  /\ UNCHANGED <<adapter, aborted, row, nextPart, calls, unanswered, todo>>

Turns ==
  \/ TurnReturns \/ TurnStarts \/ RequestFails \/ Chunk \/ ReadingStops
  \/ AnswerRead \/ ToolStarts \/ ToolReturns \/ ToolsEnd
-------------------------------------------------------------------------------
(* ClaudeCodeAdapter.stream and CodexAdapter.stream: one message; text,    *)
(* calls and results in whatever order the SDK reports them.  The adapter  *)
(* numbers the text parts without counting the parts the server adds.      *)
SingleStarts ==
  /\ phase = "idle" /\ adapter = "single"
  /\ phase' = "reporting"
  /\ OpenMessage
  /\ UNCHANGED <<adapter, aborted, row, calls, unanswered, todo>>

Reports ==
  /\ phase = "reporting"
  /\ \/ \E part \in {Text, Thinking} : AddText(part) /\ UNCHANGED <<calls, unanswered>>
     \/ MakeCall /\ UNCHANGED nextPart
     \/ AnswerSome /\ UNCHANGED <<nextPart, calls>>
  /\ UNCHANGED <<adapter, phase, aborted, row, todo>>

(* The SDK ends, or throws because of the abort, which is swallowed; any   *)
(* other error leaves the generator before message.end.                    *)
ReportEnds ==
  /\ phase = "reporting"
  /\ \/ phase' = "returned" /\ EndMessage
     \/ ~aborted /\ phase' = "threw" /\ UNCHANGED <<db, wire, shownRun, shown>>
  /\ UNCHANGED <<adapter, aborted, row, nextPart, calls, unanswered, todo>>

Single == SingleStarts \/ Reports \/ ReportEnds
-------------------------------------------------------------------------------
(* finalize.                                                               *)
EndStatus(status) == IF status = "failed" THEN "error" ELSE status

(* persistUnresolvedToolFailures: the rows and the events.                 *)
Closed(status, msgs) ==
  IF status = "complete" THEN msgs
  ELSE [m \in 1..Len(msgs) |-> [msgs[m] EXCEPT !.parts = CloseCalls(@)]]

ClosingEvents(status, msgs) ==
  IF status = "complete" THEN <<>>
  ELSE FlattenSeq([m \in 1..Len(msgs) |->
         LET missing == MissingCalls(msgs[m].parts)
         IN [k \in 1..Len(missing) |-> ToolResult(m, missing[k], TRUE)]])

Settled(status, msgs) ==
  [m \in 1..Len(msgs) |->
     IF msgs[m].status = "streaming" THEN [msgs[m] EXCEPT !.status = EndStatus(status)]
                                     ELSE msgs[m]]

(* emitErrorVisualisation: the error goes after the last part of the       *)
(* message `last', or into a message of its own when there is none.        *)
ErrorIndexStale(status, msgs, last) == Len(db[last].parts)  \* mutant: parts read too early
ErrorIndex(status, msgs, last) == Len(msgs[last].parts)

Visualised(status, msgs, last) ==
  CASE status = "complete" -> msgs
    [] status # "complete" /\ last > 0 ->
         [msgs EXCEPT ![last].parts = Append(@, Error)]
    [] OTHER -> Append(msgs, [status |-> "error", parts |-> <<Error>>])

ErrorEventsOnFailure(status, msgs, last) ==  \* mutant: no text for an aborted run
  CASE status # "failed" -> <<>>
    [] status = "failed" /\ last > 0 -> <<PartStart(last, ErrorIndex(status, msgs, last), Error)>>
    [] OTHER -> LET m == Len(msgs) + 1
                IN <<MessageStart(m), PartStart(m, 0, Error), MessageEnd(m)>>
ErrorEvents(status, msgs, last) ==
  CASE status = "complete" -> <<>>
    [] status # "complete" /\ last > 0 ->
         <<PartStart(last, ErrorIndex(status, msgs, last), Error)>>
    [] OTHER -> LET m == Len(msgs) + 1
                IN <<MessageStart(m), PartStart(m, 0, Error), MessageEnd(m)>>

EndsFirst(closing, errors, status) ==     \* mutant: run.end before the error text
  closing \o <<RunEnd(status)>> \o errors
EndEvents(closing, errors, status) == closing \o errors \o <<RunEnd(status)>>

Finalize(status, last) ==
  LET settled == Settled(status, Closed(status, db)) IN
  /\ phase' = "done"
  /\ row' = IF row = "none" THEN "none" ELSE status
  /\ db' = Visualised(status, settled, last)
  /\ Publish(EndEvents(ClosingEvents(status, db), ErrorEvents(status, settled, last), status))
  /\ UNCHANGED <<adapter, aborted, nextPart, calls, unanswered, todo>>
-------------------------------------------------------------------------------
(* executeRun.  Without a workspace or a trigger message the run fails     *)
(* before it has a row.                                                    *)
Refuse == phase = "loading" /\ Finalize("failed", 0)

Begin ==
  /\ phase = "loading"
  /\ phase' = "idle"
  /\ row' = "running"
  /\ Publish(<<RunStart>>)
  /\ UNCHANGED <<adapter, aborted, db, nextPart, calls, unanswered, todo>>

(* Building the adapter or its input fails, or, after the stream, making   *)
(* the project artifact does.                                              *)
Throws ==
  /\ phase = "returned" \/ (phase = "idle" /\ db = <<>>)
  /\ phase' = "threw"
  /\ UNCHANGED <<adapter, aborted, row, db, nextPart, calls, unanswered, todo,
                 wire, shownRun, shown>>

CompleteAnyway == IF phase = "returned" THEN "complete" ELSE "failed"  \* mutant: no signal check
Outcome == IF aborted THEN "aborted" ELSE IF phase = "returned" THEN "complete" ELSE "failed"

(* A stream that threw leaves no result, so no message to put an error in. *)
Finish ==
  /\ phase \in {"returned", "threw"}
  /\ Finalize(Outcome, IF phase = "returned" THEN Len(db) ELSE 0)

Abort ==                                  \* AgentRunner.abort
  /\ phase # "done" /\ ~aborted
  /\ aborted' = TRUE
  /\ UNCHANGED <<adapter, phase, row, db, nextPart, calls, unanswered, todo,
                 wire, shownRun, shown>>

Stream == Turns \/ Single
Server == Refuse \/ Begin \/ Throws \/ Stream \/ Finish
-------------------------------------------------------------------------------
(* applyEvent in the tab.  run.end also closes what the tab still holds    *)
(* open: closeUnresolvedToolCallsForRun.                                   *)
AppliedEnd(msgs, status) ==
  IF status = "complete" THEN msgs ELSE Settled(status, Closed(status, msgs))

AppliedPart(parts, e) ==
  CASE e.type = "part.start"  -> SetPart(parts, e.index, e.part)
    [] e.type = "tool.call"   -> Append(parts, Use(e.call))
    [] e.type = "tool.result" -> PutResult(parts, e.call, e.isError)

Applied(msgs, e) ==
  CASE e.type = "run.start"     -> msgs
    [] e.type = "run.end"       -> AppliedEnd(msgs, e.status)
    [] e.type = "message.start" -> SetPart(msgs, e.msg - 1, Fresh)
    [] e.type = "message.end"   -> [msgs EXCEPT ![e.msg].status = "complete"]
    [] OTHER -> [msgs EXCEPT ![e.msg].parts = AppliedPart(@, e)]

Deliver ==
  /\ wire # <<>>
  /\ wire' = Tail(wire)
  /\ LET e == Head(wire) IN
     /\ shown' = Applied(shown, e)
     /\ shownRun' = CASE e.type = "run.start" -> "running"
                      [] e.type = "run.end" /\ shownRun # "none" -> e.status
                      [] OTHER -> shownRun
  /\ UNCHANGED server

Ended == phase = "done" /\ wire = <<>> /\ UNCHANGED vars

Next == Server \/ Abort \/ Deliver \/ Ended

Spec == Init /\ [][Next]_vars

(* Fairness: the server's own steps and the tab's connection go on.  A     *)
(* model or a tool may take for ever, unless the run is aborted: the SDKs, *)
(* the requests and the tools that wait for a user listen to the signal,   *)
(* and a shell command has a timeout.                                      *)
FairSpec ==
  /\ Spec
  /\ WF_vars(Refuse \/ Begin \/ Throws \/ Finish)
  /\ WF_vars(aborted /\ Stream)
  /\ WF_vars(Deliver)
-------------------------------------------------------------------------------
Uses(parts)    == {k \in 1..Len(parts) : parts[k].kind = "use"}
Results(parts) == {k \in 1..Len(parts) : parts[k].kind = "result"}
MessageRow == [status : {"streaming", "complete", "aborted", "error"},
               parts : Seq(Part(1..MaxCalls))]
Drained == phase = "done" /\ wire = <<>>

(* Types; no list of parts ever has a hole: every index the adapters and   *)
(* the server compute, and the tab assigns at, is at most the length.      *)
TypeOK ==
  /\ adapter \in Adapter
  /\ phase \in {"loading", "idle", "reading", "tools", "reporting", "returned", "threw", "done"}
  /\ row \in Final \cup {"none", "running"} /\ shownRun \in Final \cup {"none", "running"}
  /\ db \in Seq(MessageRow) /\ shown \in Seq(MessageRow)
  /\ unanswered \subseteq 1..calls /\ calls + todo <= MaxCalls
  /\ nextPart <= MaxTexts

(* Spec 02: the stream rebuilds the transcript.  Once a run has ended and  *)
(* its events have arrived, the tab shows the run with the status of its   *)
(* row, and the parts the rows hold, in the same order, under the same     *)
(* statuses, but for the message the finalization adds for the error: it   *)
(* is an error in its row and complete in the tab, where message.end makes *)
(* every message complete.                                                 *)
SameMessage(shownOne, one) ==
  /\ shownOne.parts = one.parts
  /\ \/ shownOne.status = one.status
     \/ one.parts = <<Error>> /\ one.status = "error" /\ shownOne.status = "complete"
TabInStep ==
  Drained =>
    /\ shownRun = row
    /\ Len(shown) = Len(db)
    /\ \A m \in 1..Len(db) : SameMessage(shown[m], db[m])

(* Spec 03: no call is ever given two results, and a failed or aborted run *)
(* leaves none without: no tool card stays on "calling", in the rows when  *)
(* the run ends, in the tab from run.end on.                               *)
Answered(msgs) == \A m \in 1..Len(msgs) : MissingCalls(msgs[m].parts) = <<>>
AnsweredOnce(msgs) ==
  \A m \in 1..Len(msgs) : \A j, k \in Results(msgs[m].parts) :
    msgs[m].parts[j].call = msgs[m].parts[k].call => j = k
EveryCallAnswered ==
  /\ AnsweredOnce(db) /\ AnsweredOnce(shown)
  /\ row \in {"failed", "aborted"} => Answered(db)
  /\ shownRun \in {"failed", "aborted"} => Answered(shown)

(* Spec 09: the reason a run failed or was aborted is in the conversation, *)
(* once, at its very end; a completed run shows none.                      *)
ErrorsIn(parts) == {k \in 1..Len(parts) : parts[k] = Error}
ErrorShown ==
  Drained =>
    IF row = "complete"
    THEN \A m \in 1..Len(shown) : ErrorsIn(shown[m].parts) = {}
    ELSE /\ shown # <<>>
         /\ ErrorsIn(Last(shown).parts) = {Len(Last(shown).parts)}
         /\ \A m \in 1..(Len(shown) - 1) : ErrorsIn(shown[m].parts) = {}

(* Nothing of a run changes in the tab after its run.end: what a reader    *)
(* sees of a run that is over is final.                                    *)
EndIsFinal == [][(shownRun \in Final) => UNCHANGED <<shown, shownRun>>]_vars

(* A custom agent's transcript is only ever added to: no part the user has *)
(* seen is replaced or taken back, neither in the rows nor in the tab.     *)
OnlyAdded(msgs, next) ==
  \A m \in 1..Len(msgs) : m <= Len(next) /\ IsPrefix(msgs[m].parts, next[m].parts)
TurnsOnlyAdd ==
  [][adapter = "turns" => OnlyAdded(db, db') /\ OnlyAdded(shown, shown')]_vars

(* A running run that is aborted ends aborted, whatever its adapter does   *)
(* about the signal, and the tab learns of it.                             *)
AbortReachesTab == (aborted /\ row = "running") ~> (shownRun = "aborted")
===============================================================================
