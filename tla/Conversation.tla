------------------------------ MODULE Conversation ------------------------------
(***************************************************************************)
(* The history of one conversation as rows of the database: sending,       *)
(* withdrawing, editing, regenerating and clearing                         *)
(* (conversation-service.ts), and the runs that answer, from AgentRunner's *)
(* run() to finalize() (agent-runner.ts).                                  *)
(*                                                                         *)
(* The database driver is synchronous: a handler lets other requests in    *)
(* only while it waits for its timer of 500 ms or for a model, so every    *)
(* other stretch of it is one step.  Meanwhile any other request may come  *)
(* in, and the timer is no promise that the runs told to stop have stopped.*)
(* Rows are found by the millisecond they were made in, so the model has a *)
(* clock.                                                                  *)
(***************************************************************************)
EXTENDS Integers, Sequences

CONSTANTS Client,      \* the clients of the conversation, desktop and mobile
          Delay,       \* milliseconds from a message to the runs it starts
          MaxResponders, \* bound: agents that answer one message
          MaxTime,     \* bound: the last millisecond
          MaxMessages, \* bound: user messages sent
          MaxRuns,     \* bound: runs started
          MaxCrashes   \* bound: restarts of the server

ASSUME ConversationAssumption ==
  /\ Delay \in SUBSET Nat /\ MaxResponders \in Nat
  /\ MaxTime \in Nat /\ MaxMessages \in Nat /\ MaxRuns \in Nat /\ MaxCrashes \in Nat

VARIABLES now,
          users,     \* every user message sent: when, and whether its row is there
          runs,      \* every run started
          posts,     \* the rows of agent messages
          op,        \* what each client waits for
          gone,      \* history: the user messages withdrawn
          outlived,  \* history: the runs still live when a deletion reached them
          crashes

history == <<gone, outlived>>
vars == <<now, users, runs, posts, op, history, crashes>>

RowState == {"none", "running", "ended"}   \* no row, or its status
User == [at : 0..MaxTime, here : BOOLEAN]
Run == [to : Nat, at : 0..MaxTime, batch : Nat, found : BOOLEAN, row : RowState,
        live : BOOLEAN, signal : BOOLEAN, spoke : BOOLEAN, cut : BOOLEAN]
Post == [of : Nat, at : 0..MaxTime, status : {"streaming", "closed"}]
Op == [kind : {"none", "withdraw", "edit", "regenerate"}, msg : Nat]
NoOp == [kind |-> "none", msg |-> 0]

Users == 1..Len(users)
Runs == 1..Len(runs)
Here == {u \in Users : users[u].here}
Latest(u) == u \in Here /\ \A v \in Here : users[v].at < users[u].at \/ v <= u

Init ==
  /\ now = 0
  /\ users = <<>> /\ runs = <<>> /\ posts = {}
  /\ op = [c \in Client |-> NoOp]
  /\ gone = {} /\ outlived = {} /\ crashes = 0

Tick ==
  /\ now < MaxTime
  /\ now' = now + 1
  /\ UNCHANGED <<users, runs, posts, op, history, crashes>>
-------------------------------------------------------------------------------
(* A run.  insertRun is reached without a wait, so the row is there before *)
(* anything else happens.  A run whose trigger is not found has no row; it *)
(* is finalized as failed and leaves an error message.  batch is the first *)
(* run that was started with this one, for the same request.               *)
Started(u, t, b) == [to |-> u, at |-> t, batch |-> b, found |-> TRUE, row |-> "running",
                     live |-> TRUE, signal |-> FALSE, spoke |-> FALSE, cut |-> FALSE]
Stillborn(u, t, b) == [Started(u, t, b) EXCEPT !.found = FALSE, !.row = "none", !.live = FALSE]
ErrorPost(r, t) == [of |-> r, at |-> t, status |-> "closed"]

(* The responders of message u, one agent or each of those it mentions,    *)
(* are started one after the other, once the rows have become rs and ps;   *)
(* us says which messages are there, ts when each one starts.              *)
StartTimes(n) == {ts \in [1..n -> {now + d : d \in Delay}] :
                    \A i \in 1..n : ts[i] <= MaxTime /\ \A j \in 1..i : ts[j] <= ts[i]}
Batch(u, first, n, ts, found) ==
  [i \in 1..n |-> IF found THEN Started(u, ts[i], first) ELSE Stillborn(u, ts[i], first)]

Start(u, us, rs, ps) ==
  \E n \in 0..MaxResponders : \E ts \in StartTimes(n) :
    /\ Len(rs) + n <= MaxRuns
    /\ now' = IF n = 0 THEN now ELSE ts[n]
    /\ runs' = rs \o Batch(u, Len(rs) + 1, n, ts, us[u].here)
    /\ posts' = IF us[u].here THEN ps
                ELSE ps \cup {ErrorPost(Len(rs) + i, ts[i]) : i \in 1..n}

(* message.start of the adapter's stream, once for each run: the adapters  *)
(* look at the signal before they ask the model.                           *)
Speak(r) ==
  /\ runs[r].live /\ ~runs[r].signal /\ ~runs[r].spoke
  /\ runs' = [runs EXCEPT ![r].spoke = TRUE]
  /\ posts' = posts \cup {[of |-> r, at |-> now, status |-> "streaming"]}
  /\ UNCHANGED <<now, users, op, history, crashes>>

(* The entry of activeRuns is gone, and the stream with it.                *)
Dead(run) == [run EXCEPT !.live = FALSE, !.signal = FALSE, !.spoke = FALSE]

(* finalize: the run's row, if it is still there, and its streaming        *)
(* messages.  A run that was aborted and returned marks its last message,  *)
(* when that is still there; one that threw hands over no messages and     *)
(* leaves an error message of its own.                                     *)
RowUnlessAborted(r, s) ==                \* mutant: an aborted run keeps its status
  [runs EXCEPT ![r] = [Dead(@) EXCEPT !.row = IF @ = "none" \/ s = "aborted" THEN @ ELSE "ended"]]
RowAfter(r, s) ==
  [runs EXCEPT ![r] = [Dead(@) EXCEPT !.row = IF @ = "none" THEN "none" ELSE "ended"]]

Closed(r) == {IF p.of = r THEN [p EXCEPT !.status = "closed"] ELSE p : p \in posts}

Finalize(r, s, threw) ==
  /\ runs[r].live
  /\ runs[r].signal <=> s = "aborted"
  /\ runs' = RowAfter(r, s)
  /\ posts' = IF s = "complete" \/ (~threw /\ \E p \in posts : p.of = r)
              THEN Closed(r) ELSE Closed(r) \cup {ErrorPost(r, now)}
  /\ UNCHANGED <<now, users, op, history, crashes>>

Ends(r) == \/ Finalize(r, "complete", FALSE) \/ Finalize(r, "failed", TRUE)
           \/ \E threw \in BOOLEAN : Finalize(r, "aborted", threw)

AbortRun(r) ==
  /\ runs[r].live /\ ~runs[r].signal
  /\ runs' = [runs EXCEPT ![r].signal = TRUE]
  /\ UNCHANGED <<now, users, posts, op, history, crashes>>
-------------------------------------------------------------------------------
(* sendMessage, for a conversation with agents.                            *)
Sent(us) == Append(us, [at |-> now, here |-> TRUE])

Send(c) ==
  /\ op[c] = NoOp
  /\ Len(users) < MaxMessages
  /\ users' = Sent(users)
  /\ Start(Len(users) + 1, users', runs, posts)
  /\ UNCHANGED <<op, history, crashes>>

(* What a request reaches: a withdrawal the rows of the message's own      *)
(* millisecond and later, a regeneration those of later milliseconds.      *)
OnlyAfter(o, t) == t > users[o.msg].at     \* mutant: gt for gte in a withdrawal
Reaches(o, t) == IF o.kind = "regenerate" THEN t > users[o.msg].at ELSE t >= users[o.msg].at

Running(o) == {r \in Runs : runs[r].row = "running" /\ Reaches(o, runs[r].at)}

(* The deletion: messages, artifacts and run rows in one transaction.      *)
UsersLeft(o) == [u \in Users |-> IF Reaches(o, users[u].at)
                                 THEN [users[u] EXCEPT !.here = FALSE] ELSE users[u]]
KeepsStreaming(o) ==                     \* mutant: open messages are not deleted
  {p \in posts : ~Reaches(o, p.at) \/ p.status = "streaming"}
PostsLeft(o) == {p \in posts : ~Reaches(o, p.at)}
RunsLeft(o) == [r \in Runs |-> IF Reaches(o, runs[r].at)
                               THEN [runs[r] EXCEPT !.row = "none"] ELSE runs[r]]

(* What the request does once nothing is left to wait for.                 *)
Complete(o) ==
  /\ UNCHANGED crashes
  /\ gone' = IF o.kind = "regenerate" THEN gone ELSE gone \cup {o.msg}
  /\ outlived' = outlived \cup {r \in Runs : runs[r].live /\ Reaches(o, runs[r].at)}
  /\ CASE o.kind = "withdraw" ->
            users' = UsersLeft(o) /\ runs' = RunsLeft(o) /\ posts' = PostsLeft(o) /\ UNCHANGED now
       [] o.kind = "edit" ->
            /\ Len(users) < MaxMessages
            /\ users' = Sent(UsersLeft(o))
            /\ Start(Len(users) + 1, users', RunsLeft(o), PostsLeft(o))
       [] o.kind = "regenerate" ->
            users' = UsersLeft(o) /\ Start(o.msg, users', RunsLeft(o), PostsLeft(o))

(* The request up to its wait, or to its end when no run has to be aborted. *)
Request(c, o) ==
  /\ op[c] = NoOp
  /\ Latest(o.msg)
  /\ IF Running(o) = {}
     THEN Complete(o) /\ UNCHANGED op
     ELSE /\ runs' = [r \in Runs |-> IF r \in Running(o) /\ runs[r].live
                                     THEN [runs[r] EXCEPT !.signal = TRUE] ELSE runs[r]]
          /\ op' = [op EXCEPT ![c] = o]
          /\ UNCHANGED <<now, users, posts, history, crashes>>

Asks(c) == \E kind \in {"withdraw", "edit", "regenerate"}, u \in Users :
             Request(c, [kind |-> kind, msg |-> u])

(* The timer is over, whether or not the runs have been finalized.         *)
Expire(c) ==
  /\ op[c] # NoOp
  /\ Complete(op[c])
  /\ op' = [op EXCEPT ![c] = NoOp]

(* clearConversationHistory refuses while a row says a run is active.      *)
Clear ==
  /\ \A r \in Runs : runs[r].row # "running"
  /\ Here # {} \/ posts # {}
  /\ users' = [u \in Users |-> [users[u] EXCEPT !.here = FALSE]]
  /\ runs' = [r \in Runs |-> [runs[r] EXCEPT !.row = "none"]]
  /\ posts' = {}
  /\ UNCHANGED <<now, op, history, crashes>>

(* The server restarts: activeRuns and the requests are lost, rows stay.   *)
Crash ==
  /\ crashes < MaxCrashes
  /\ crashes' = crashes + 1
  /\ runs' = [r \in Runs |-> [Dead(runs[r]) EXCEPT !.cut = @ \/ runs[r].live]]
  /\ op' = [c \in Client |-> NoOp]
  /\ UNCHANGED <<now, users, posts, history>>

Next ==
  \/ Tick \/ Clear \/ Crash
  \/ \E r \in Runs : Speak(r) \/ Ends(r) \/ AbortRun(r)
  \/ \E c \in Client : Send(c) \/ Asks(c) \/ Expire(c)

Spec == Init /\ [][Next]_vars
-------------------------------------------------------------------------------
(* Types.                                                                  *)
TypeOK ==
  /\ now \in 0..MaxTime /\ crashes \in 0..MaxCrashes
  /\ users \in Seq(User) /\ runs \in Seq(Run) /\ posts \subseteq Post
  /\ op \in [Client -> Op]
  /\ gone \subseteq Users /\ outlived \subseteq Runs

AnswersTo(u) == {r \in Runs : runs[r].to = u}

(* A withdrawn message stays away, and what answers a message that is      *)
(* deleted, with it or on its own, is over with all its messages deleted,  *)
(* whether it was streaming, aborted before, finalized during the wait or  *)
(* lost in a restart.  Two exceptions: a run that was live when a deletion *)
(* reached it, which the wait of 500 ms did not last for or which another  *)
(* request started during it, and the error message of a run that found    *)
(* its message deleted already.                                            *)
LeavesNothing(r) == ~runs[r].live /\ \A p \in posts : p.of # r
WithdrawnIsGone ==
  /\ \A u \in gone : ~users[u].here
  /\ \A u \in Users : ~users[u].here =>
       \A r \in AnswersTo(u) : r \in outlived \/ ~runs[r].found \/ LeavesNothing(r)

(* withdrawLatestUserMessage: the wait of 500 ms lets finalize end, so that*)
(* the error messages written meanwhile are deleted too.                   *)
NoDeadMessage == \A p \in posts : runs[p.of].to \notin gone

(* A row says "running" only of a run that is, or that a restart cut off;  *)
(* so it is only after a restart that clearing is refused for good.        *)
RunningIsLive == \A r \in Runs : runs[r].row = "running" => runs[r].live \/ runs[r].cut

(* One answer: however often it is regenerated, the messages that answer a *)
(* user message are those of the runs one request started, for each agent  *)
(* that responds.  Left beside them are at most messages of runs that were *)
(* live when a deletion reached them.  The code compares with gt, so a run *)
(* that starts in the millisecond of its message is beyond the reach of a  *)
(* regeneration and excepted here.                                         *)
InReach(r) == runs[r].at > users[runs[r].to].at
OneAnswer ==
  \A p, q \in posts :
    /\ runs[p.of].to = runs[q.of].to /\ runs[p.of].batch < runs[q.of].batch
    /\ InReach(p.of)
    => p.of \in outlived
===============================================================================
