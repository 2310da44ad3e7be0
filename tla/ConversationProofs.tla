--------------------------- MODULE ConversationProofs ---------------------------
(***************************************************************************)
(* Proofs about Conversation: for any clients, times, responders, messages,*)
(* runs and restarts, a row says "running" only of a run that is or that a *)
(* restart cut off; what answers a deleted message is over and leaves no   *)
(* message, and a message is answered by the runs of one request alone,    *)
(* but for the runs that were live when a deletion reached them.           *)
(***************************************************************************)
EXTENDS Conversation, SequenceTheorems, TLAPS

(* What refers to a row refers to one that was made.                       *)
Refs ==
  /\ \A r \in Runs : runs[r].to \in Users /\ runs[r].batch <= r
  /\ \A p \in posts : p.of \in Runs
  /\ \A c \in Client : op[c] # NoOp => op[c].msg \in Users /\ op[c].kind # "none"

(* Rows are made in the order of their times, an answer not before its     *)
(* question.                                                               *)
Clock ==
  /\ \A u \in Users : users[u].at <= now
  /\ \A u, v \in Users : v <= u => users[v].at <= users[u].at
  /\ \A r \in Runs : users[runs[r].to].at <= runs[r].at /\ runs[r].at <= now
  /\ \A p \in posts : runs[p.of].at <= p.at

Rows == TypeOK /\ Refs /\ Clock

(* Once a later request has started runs for a message, an earlier run in  *)
(* reach of a regeneration is over and its messages are deleted, or it was *)
(* live when that request reached it.                                      *)
Superseded ==
  \A r, s \in Runs :
    runs[r].to = runs[s].to /\ runs[r].batch < runs[s].batch /\ InReach(r) =>
      r \in outlived \/ LeavesNothing(r)

(* The row of a live run says so, until a deletion takes it.               *)
LiveRows == \A r \in Runs : runs[r].live => r \in outlived \/ runs[r].row = "running"

History == WithdrawnIsGone /\ Superseded /\ LiveRows
-------------------------------------------------------------------------------
(* What the steps that make rows do.                                       *)

(* The runs that are started come last, and their rows say what they are.  *)
NewRuns(u, n) ==
  /\ Len(runs') \in Nat /\ n <= Len(runs')
  /\ \A r \in n + 1..Len(runs') :
       /\ runs'[r].to = u /\ runs'[r].batch = n + 1
       /\ now <= runs'[r].at /\ runs'[r].at <= now'
       /\ runs'[r].found <=> users'[u].here
       /\ runs'[r].row = "running" <=> runs'[r].live

LEMMA StartFacts ==
  ASSUME TypeOK, NEW u \in Nat, users'[u].here \in BOOLEAN,
         NEW rs \in Seq(Run), NEW ps \in SUBSET Post, Start(u, users', rs, ps)
  PROVE  /\ now' \in now..MaxTime
         /\ runs' \in Seq(Run)
         /\ \A r \in 1..Len(rs) : runs'[r] = rs[r]
         /\ NewRuns(u, Len(rs))
         /\ posts' \subseteq Post
         /\ \A p \in posts' : \/ p \in ps
                              \/ p.of \in Len(rs) + 1..Len(runs') /\ p.at = runs'[p.of].at
<1> PICK n \in 0..MaxResponders : \E ts \in StartTimes(n) :
        /\ now' = IF n = 0 THEN now ELSE ts[n]
        /\ runs' = rs \o Batch(u, Len(rs) + 1, n, ts, users'[u].here)
        /\ posts' = IF users'[u].here THEN ps
                    ELSE ps \cup {ErrorPost(Len(rs) + i, ts[i]) : i \in 1..n}
  BY DEF Start
<1>1. PICK ts \in StartTimes(n) :
        /\ now' = IF n = 0 THEN now ELSE ts[n]
        /\ runs' = rs \o Batch(u, Len(rs) + 1, n, ts, users'[u].here)
        /\ posts' = IF users'[u].here THEN ps
                    ELSE ps \cup {ErrorPost(Len(rs) + i, ts[i]) : i \in 1..n}
  OBVIOUS
<1>2. now \in 0..MaxTime /\ Len(rs) \in Nat /\ n \in Nat /\ MaxTime \in Nat
  BY ConversationAssumption DEF TypeOK
<1>3. \A i \in 1..n : ts[i] \in now..MaxTime /\ ts[i] \in 0..MaxTime /\ ts[i] <= ts[n]
  <2>1. \A i \in 1..n : ts[i] \in {now + d : d \in Delay}
    BY DEF StartTimes
  <2>2. \A i \in 1..n : ts[i] <= MaxTime /\ \A j \in 1..i : ts[j] <= ts[i]
    BY DEF StartTimes
  <2>3. \A i \in 1..n : ts[i] \in Nat /\ now <= ts[i]
    <3> SUFFICES ASSUME NEW i \in 1..n PROVE ts[i] \in Nat /\ now <= ts[i]
      OBVIOUS
    <3>1. PICK d \in Delay : ts[i] = now + d
      BY <2>1
    <3> QED
      BY <1>2, <3>1, ConversationAssumption
  <2>4. \A i \in 1..n : ts[i] <= ts[n]
    BY <1>2, <2>2
  <2> QED
    BY <1>2, <2>2, <2>3, <2>4
<1>4. ts \in [1..n -> 0..MaxTime]
  BY <1>3 DEF StartTimes
<1> DEFINE b == Batch(u, Len(rs) + 1, n, ts, users'[u].here)
<1>5. /\ b \in Seq(Run) /\ Len(b) = n
      /\ \A i \in 1..n : b[i] = IF users'[u].here THEN Started(u, ts[i], Len(rs) + 1)
                                ELSE Stillborn(u, ts[i], Len(rs) + 1)
  <2>1. \A i \in 1..n : b[i] = IF users'[u].here THEN Started(u, ts[i], Len(rs) + 1)
                              ELSE Stillborn(u, ts[i], Len(rs) + 1)
    BY DEF Batch
  <2>2. \A t \in 0..MaxTime :
          Started(u, t, Len(rs) + 1) \in Run /\ Stillborn(u, t, Len(rs) + 1) \in Run
    <3>1. \A t \in 0..MaxTime, first \in Nat :
            Started(u, t, first) \in Run /\ Stillborn(u, t, first) \in Run
      BY DEF Started, Stillborn, Run, RowState
    <3> QED
      BY <1>2, <3>1
  <2>3. b \in [1..n -> Run]
    <3>1. \A i \in 1..n : b[i] \in Run
      BY <1>3, <2>1, <2>2
    <3>2. b = [i \in 1..n |-> b[i]]
      BY DEF Batch
    <3> QED
      BY <3>1, <3>2
  <2>4. b \in Seq(Run) /\ Len(b) = n
    BY <1>2, <2>3, IsASeq, LenProperties
  <2> QED
    BY <2>1, <2>4
<1> HIDE DEF b
<1>6. runs' = rs \o b
  BY <1>1 DEF b
<1>7. /\ runs' \in Seq(Run) /\ Len(runs') = Len(rs) + n
      /\ \A r \in 1..Len(rs) : runs'[r] = rs[r]
      /\ \A i \in 1..n : runs'[Len(rs) + i] = b[i]
  <2>1. /\ Len(runs') = Len(rs) + Len(b)
        /\ \A r \in 1..Len(rs) + Len(b) :
             runs'[r] = IF r <= Len(rs) THEN rs[r] ELSE b[r - Len(rs)]
    BY <1>5, <1>6, ConcatProperties
  <2>2. runs' \in Seq(Run)
    BY <1>5, <1>6, ConcatProperties
  <2> QED
    BY <1>2, <1>5, <2>1, <2>2
<1>8. now' \in now..MaxTime
  BY <1>1, <1>2, <1>3
<1>9. ASSUME NEW r \in Len(rs) + 1..Len(runs')
      PROVE  /\ r - Len(rs) \in 1..n
             /\ runs'[r].at = ts[r - Len(rs)]
             /\ runs'[r].to = u /\ runs'[r].batch = Len(rs) + 1
             /\ runs'[r].found <=> users'[u].here
             /\ runs'[r].row = "running" <=> runs'[r].live
  <2>1. r - Len(rs) \in 1..n /\ Len(rs) + (r - Len(rs)) = r
    BY <1>2, <1>7
  <2>2. runs'[r] = IF users'[u].here THEN Started(u, ts[r - Len(rs)], Len(rs) + 1)
                   ELSE Stillborn(u, ts[r - Len(rs)], Len(rs) + 1)
    BY <1>5, <1>7, <2>1
  <2>3. CASE users'[u].here
    <3>1. runs'[r] = Started(u, ts[r - Len(rs)], Len(rs) + 1)
      BY <2>2, <2>3
    <3>2. /\ runs'[r].to = u /\ runs'[r].at = ts[r - Len(rs)] /\ runs'[r].batch = Len(rs) + 1
          /\ runs'[r].found = TRUE /\ runs'[r].row = "running" /\ runs'[r].live = TRUE
      BY <3>1 DEF Started
    <3> QED
      BY <2>1, <2>3, <3>2
  <2>4. CASE ~users'[u].here
    <3>1. runs'[r] = Stillborn(u, ts[r - Len(rs)], Len(rs) + 1)
      BY <2>2, <2>4
    <3>2. /\ runs'[r].to = u /\ runs'[r].at = ts[r - Len(rs)] /\ runs'[r].batch = Len(rs) + 1
          /\ runs'[r].found = FALSE /\ runs'[r].row = "none" /\ runs'[r].live = FALSE
      BY <3>1 DEF Started, Stillborn
    <3> QED
      BY <2>1, <2>4, <3>2
  <2> QED
    BY <2>3, <2>4
<1>10. NewRuns(u, Len(rs))
  <2>1. ASSUME NEW r \in Len(rs) + 1..Len(runs')
        PROVE  now <= runs'[r].at /\ runs'[r].at <= now'
    <3>1. r - Len(rs) \in 1..n /\ runs'[r].at = ts[r - Len(rs)]
      BY <1>9
    <3>2. now <= ts[r - Len(rs)] /\ ts[r - Len(rs)] <= ts[n] /\ n # 0
      BY <1>2, <1>3, <3>1
    <3> QED
      BY <1>1, <3>1, <3>2
  <2>2. Len(runs') \in Nat /\ Len(rs) <= Len(runs')
    BY <1>2, <1>7
  <2>3. \A r \in Len(rs) + 1..Len(runs') :
          /\ runs'[r].to = u /\ runs'[r].batch = Len(rs) + 1
          /\ runs'[r].found <=> users'[u].here
          /\ runs'[r].row = "running" <=> runs'[r].live
    BY <1>9
  <2> QED
    BY <2>1, <2>2, <2>3 DEF NewRuns
<1>11. ASSUME NEW i \in 1..n
       PROVE  /\ ErrorPost(Len(rs) + i, ts[i]) \in Post
              /\ Len(rs) + i \in Len(rs) + 1..Len(runs')
              /\ runs'[Len(rs) + i].at = ts[i]
  <2>1. Len(rs) + i \in Nat /\ ts[i] \in 0..MaxTime
    BY <1>2, <1>3
  <2>2. Len(rs) + i \in Len(rs) + 1..Len(runs') /\ (Len(rs) + i) - Len(rs) = i
    BY <1>2, <1>7
  <2>3. runs'[Len(rs) + i].at = ts[i]
    BY <1>9, <2>2
  <2> QED
    BY <2>1, <2>2, <2>3 DEF ErrorPost, Post
<1>12. /\ posts' \subseteq Post
       /\ \A p \in posts' : \/ p \in ps
                            \/ p.of \in Len(rs) + 1..Len(runs') /\ p.at = runs'[p.of].at
  <2>1. CASE users'[u].here
    BY <1>1, <2>1
  <2>2. CASE ~users'[u].here
    <3>1. posts' = ps \cup {ErrorPost(Len(rs) + i, ts[i]) : i \in 1..n}
      BY <1>1, <2>2
    <3>2. ASSUME NEW p \in posts', p \notin ps
          PROVE  p \in Post /\ p.of \in Len(rs) + 1..Len(runs') /\ p.at = runs'[p.of].at
      <4>1. PICK i \in 1..n : p = ErrorPost(Len(rs) + i, ts[i])
        BY <3>1, <3>2
      <4>2. p.of = Len(rs) + i /\ p.at = ts[i]
        BY <4>1 DEF ErrorPost
      <4> QED
        BY <1>11, <4>1, <4>2
    <3> QED
      BY <3>1, <3>2
  <2> QED
    BY <2>1, <2>2
<1> QED
  BY <1>7, <1>8, <1>10, <1>12

LEMMA SentFacts ==
  ASSUME TypeOK, NEW us \in Seq(User)
  PROVE  /\ Sent(us) \in Seq(User)
         /\ Len(Sent(us)) = Len(us) + 1
         /\ \A u \in 1..Len(us) : Sent(us)[u] = us[u]
         /\ Sent(us)[Len(us) + 1] = [at |-> now, here |-> TRUE]
<1>1. [at |-> now, here |-> TRUE] \in User
  BY DEF TypeOK, User
<1> QED
  BY <1>1, AppendProperties DEF Sent

LEMMA LeftFacts ==
  ASSUME TypeOK, NEW o
  PROVE  /\ UsersLeft(o) \in Seq(User) /\ Len(UsersLeft(o)) = Len(users)
         /\ \A u \in Users : /\ UsersLeft(o)[u].at = users[u].at
                             /\ UsersLeft(o)[u].here <=> users[u].here /\ ~Reaches(o, users[u].at)
         /\ RunsLeft(o) \in Seq(Run) /\ Len(RunsLeft(o)) = Len(runs)
         /\ \A r \in Runs : RunsLeft(o)[r] = IF Reaches(o, runs[r].at)
                                             THEN [runs[r] EXCEPT !.row = "none"] ELSE runs[r]
         /\ PostsLeft(o) \in SUBSET Post
         /\ \A p \in PostsLeft(o) : p \in posts /\ ~Reaches(o, p.at)
<1>1. users \in [Users -> User] /\ Len(users) \in Nat
  BY DEF TypeOK, Users
<1>2. UsersLeft(o) \in [Users -> User]
  BY <1>1 DEF UsersLeft, User
<1>3. UsersLeft(o) \in Seq(User) /\ Len(UsersLeft(o)) = Len(users)
  BY <1>1, <1>2, IsASeq, LenProperties DEF Users
<1>4. \A u \in Users : /\ UsersLeft(o)[u].at = users[u].at
                       /\ UsersLeft(o)[u].here <=> users[u].here /\ ~Reaches(o, users[u].at)
  BY <1>1 DEF UsersLeft, User
<1>5. runs \in [Runs -> Run] /\ Len(runs) \in Nat
  BY DEF TypeOK, Runs
<1>6. RunsLeft(o) \in [Runs -> Run]
  BY <1>5 DEF RunsLeft, Run, RowState
<1>7. RunsLeft(o) \in Seq(Run) /\ Len(RunsLeft(o)) = Len(runs)
  BY <1>5, <1>6, IsASeq, LenProperties DEF Runs
<1>8. \A r \in Runs : RunsLeft(o)[r] = IF Reaches(o, runs[r].at)
                                       THEN [runs[r] EXCEPT !.row = "none"] ELSE runs[r]
  BY DEF RunsLeft
<1>9. PostsLeft(o) \in SUBSET Post /\ \A p \in PostsLeft(o) : p \in posts /\ ~Reaches(o, p.at)
  BY DEF PostsLeft, TypeOK
<1> QED
  BY <1>3, <1>4, <1>7, <1>8, <1>9

(* The rows after a deletion: those the request reaches are gone, no other *)
(* one is touched, and one message and its runs may have been added.       *)
UsersDeleted(o) ==
  /\ users' \in Seq(User) /\ Len(users') \in {Len(users), Len(users) + 1}
  /\ \A u \in Users : /\ users'[u].at = users[u].at
                      /\ users'[u].here <=> users[u].here /\ ~Reaches(o, users[u].at)
RunsDeleted(o) ==
  /\ runs' \in Seq(Run) /\ Len(runs) <= Len(runs')
  /\ \A r \in Runs : runs'[r] = IF Reaches(o, runs[r].at)
                                THEN [runs[r] EXCEPT !.row = "none"] ELSE runs[r]
PostsDeleted(o) ==
  /\ posts' \subseteq Post
  /\ \A p \in posts' :
       \/ p \in posts /\ ~Reaches(o, p.at)
       \/ p.of \in Len(runs) + 1..Len(runs') /\ p.at = runs'[p.of].at
Deleted(o) == UsersDeleted(o) /\ RunsDeleted(o) /\ PostsDeleted(o) /\ now' \in now..MaxTime

(* What comes after the deletion.                                          *)
Followed(o) ==
  \/ /\ o.kind = "withdraw" /\ Len(users') = Len(users) /\ Len(runs') = Len(runs)
  \/ /\ o.kind = "edit" /\ Len(users') = Len(users) + 1
     /\ users'[Len(users) + 1] = [at |-> now, here |-> TRUE]
     /\ NewRuns(Len(users) + 1, Len(runs))
  \/ /\ o.kind = "regenerate" /\ Len(users') = Len(users)
     /\ NewRuns(o.msg, Len(runs))

Asking(o) == o \in Op /\ o.kind # "none" /\ o.msg \in Users

LEMMA CompleteFacts ==
  ASSUME TypeOK, NEW o, Asking(o), Complete(o)
  PROVE  /\ Deleted(o) /\ Followed(o)
         /\ gone' = IF o.kind = "regenerate" THEN gone ELSE gone \cup {o.msg}
         /\ outlived' = outlived \cup {r \in Runs : runs[r].live /\ Reaches(o, runs[r].at)}
         /\ crashes' = crashes
<1>1. /\ gone' = IF o.kind = "regenerate" THEN gone ELSE gone \cup {o.msg}
      /\ outlived' = outlived \cup {r \in Runs : runs[r].live /\ Reaches(o, runs[r].at)}
      /\ crashes' = crashes
  BY DEF Complete
<1>2. now \in 0..MaxTime /\ MaxTime \in Nat /\ Len(users) \in Nat /\ Len(runs) \in Nat
  BY ConversationAssumption DEF TypeOK
<1>3. o.kind \in {"withdraw", "edit", "regenerate"}
  BY DEF Asking, Op
<1>4. CASE o.kind = "withdraw"
  <2>1. users' = UsersLeft(o) /\ runs' = RunsLeft(o) /\ posts' = PostsLeft(o) /\ now' = now
    BY <1>4 DEF Complete
  <2>2. now' \in now..MaxTime /\ posts' \subseteq Post
        /\ \A p \in posts' : p \in posts /\ ~Reaches(o, p.at)
    BY <1>2, <2>1, LeftFacts
  <2>4. Deleted(o)
    <3>1. UsersDeleted(o)
      BY <2>1, LeftFacts DEF UsersDeleted
    <3>2. RunsDeleted(o)
      <4>1. /\ runs' \in Seq(Run) /\ Len(runs') = Len(runs)
            /\ \A r \in Runs : runs'[r] = IF Reaches(o, runs[r].at)
                                          THEN [runs[r] EXCEPT !.row = "none"] ELSE runs[r]
        BY <2>1, LeftFacts
      <4> QED
        BY <1>2, <4>1 DEF RunsDeleted
    <3>3. PostsDeleted(o)
      BY <2>2 DEF PostsDeleted
    <3> QED
      BY <2>2, <3>1, <3>2, <3>3 DEF Deleted
  <2>3. Followed(o)
    BY <1>4, <2>1, LeftFacts DEF Followed
  <2> QED
    BY <1>1, <2>3, <2>4
<1>5. CASE o.kind = "edit"
  <2>1. users' = Sent(UsersLeft(o)) /\ Start(Len(users) + 1, users', RunsLeft(o), PostsLeft(o))
    BY <1>5 DEF Complete
  <2>2. /\ users' \in Seq(User) /\ Len(users') = Len(users) + 1
        /\ \A u \in Users : users'[u] = UsersLeft(o)[u]
        /\ users'[Len(users) + 1] = [at |-> now, here |-> TRUE]
    <3>1. UsersLeft(o) \in Seq(User) /\ Len(UsersLeft(o)) = Len(users)
      BY LeftFacts
    <3> QED
      BY <2>1, <3>1, SentFacts DEF Users
  <2>3. /\ now' \in now..MaxTime
        /\ runs' \in Seq(Run)
        /\ \A r \in Runs : runs'[r] = RunsLeft(o)[r]
        /\ NewRuns(Len(users) + 1, Len(runs))
        /\ posts' \subseteq Post
        /\ \A p \in posts' : p \in PostsLeft(o) \/ (p.of \in Len(runs) + 1..Len(runs') /\ p.at = runs'[p.of].at)
    <3>1. Len(users) + 1 \in Nat /\ users'[Len(users) + 1].here \in BOOLEAN
      BY <1>2, <2>2
    <3> QED
      BY <2>1, <3>1, LeftFacts, StartFacts DEF Runs
  <2>4. Deleted(o)
    <3>1. Len(runs) <= Len(runs')
      BY <2>3 DEF NewRuns
    <3>2. UsersDeleted(o)
      BY <2>2, LeftFacts DEF UsersDeleted
    <3>3. RunsDeleted(o)
      BY <2>3, <3>1, LeftFacts DEF RunsDeleted
    <3>4. PostsDeleted(o)
      BY <2>3, <3>1, LeftFacts DEF PostsDeleted
    <3> QED
      BY <2>3, <3>2, <3>3, <3>4 DEF Deleted
  <2>5. Followed(o)
    BY <1>5, <2>2, <2>3 DEF Followed
  <2> QED
    BY <1>1, <2>4, <2>5
<1>6. CASE o.kind = "regenerate"
  <2>1. users' = UsersLeft(o) /\ Start(o.msg, users', RunsLeft(o), PostsLeft(o))
    BY <1>6 DEF Complete
  <2>2. /\ now' \in now..MaxTime
        /\ runs' \in Seq(Run)
        /\ \A r \in Runs : runs'[r] = RunsLeft(o)[r]
        /\ NewRuns(o.msg, Len(runs))
        /\ posts' \subseteq Post
        /\ \A p \in posts' : p \in PostsLeft(o) \/ (p.of \in Len(runs) + 1..Len(runs') /\ p.at = runs'[p.of].at)
    <3>1. o.msg \in Nat /\ users'[o.msg] \in User
      BY <1>2, <2>1, LeftFacts DEF Asking, Users
    <3>2. users'[o.msg].here \in BOOLEAN
      BY <3>1 DEF User
    <3> QED
      BY <2>1, <3>1, <3>2, LeftFacts, StartFacts DEF Runs
  <2>3. Deleted(o)
    <3>1. Len(runs) <= Len(runs')
      BY <2>2 DEF NewRuns
    <3>2. UsersDeleted(o)
      BY <2>1, LeftFacts DEF UsersDeleted
    <3>3. RunsDeleted(o)
      BY <2>2, <3>1, LeftFacts DEF RunsDeleted
    <3>4. PostsDeleted(o)
      BY <2>2, <3>1, LeftFacts DEF PostsDeleted
    <3> QED
      BY <2>2, <3>2, <3>3, <3>4 DEF Deleted
  <2>4. Followed(o)
    BY <1>6, <2>1, <2>2, LeftFacts DEF Followed
  <2> QED
    BY <1>1, <2>3, <2>4
<1> QED
  BY <1>3, <1>4, <1>5, <1>6

LEMMA SendFacts ==
  ASSUME TypeOK, NEW c \in Client, Send(c)
  PROVE  /\ users' \in Seq(User) /\ Len(users') = Len(users) + 1
         /\ \A u \in Users : users'[u] = users[u]
         /\ users'[Len(users) + 1] = [at |-> now, here |-> TRUE]
         /\ now' \in now..MaxTime
         /\ runs' \in Seq(Run)
         /\ \A r \in Runs : runs'[r] = runs[r]
         /\ NewRuns(Len(users) + 1, Len(runs))
         /\ posts' \subseteq Post
         /\ \A p \in posts' : p \in posts \/ (p.of \in Len(runs) + 1..Len(runs') /\ p.at = runs'[p.of].at)
         /\ UNCHANGED <<op, history, crashes>>
<1>1. /\ users' = Sent(users) /\ Start(Len(users) + 1, users', runs, posts)
      /\ UNCHANGED <<op, history, crashes>>
  BY DEF Send
<1>2. users \in Seq(User) /\ runs \in Seq(Run) /\ posts \in SUBSET Post /\ Len(users) \in Nat
  BY DEF TypeOK
<1>3. /\ users' \in Seq(User) /\ Len(users') = Len(users) + 1
      /\ \A u \in Users : users'[u] = users[u]
      /\ users'[Len(users) + 1] = [at |-> now, here |-> TRUE]
  BY <1>1, <1>2, SentFacts DEF Users
<1>4. Len(users) + 1 \in Nat /\ users'[Len(users) + 1].here \in BOOLEAN
  BY <1>2, <1>3
<1> QED
  BY <1>1, <1>2, <1>3, <1>4, StartFacts DEF Runs

-------------------------------------------------------------------------------
(* What every step keeps: times and references of the rows that are there, *)
(* and that neither a message comes back nor a run; only a live or a new   *)
(* run makes a message.                                                    *)
UsersGrow ==
  /\ users' \in Seq(User) /\ Len(users') \in {Len(users), Len(users) + 1}
  /\ \A u \in Users : users'[u].at = users[u].at /\ (users'[u].here => users[u].here)
  /\ Len(users') # Len(users) => users'[Len(users) + 1] = [at |-> now, here |-> TRUE]
RunsGrow ==
  /\ runs' \in Seq(Run) /\ Len(runs) <= Len(runs')
  /\ \A r \in Runs : /\ runs'[r].to = runs[r].to /\ runs'[r].at = runs[r].at
                     /\ runs'[r].batch = runs[r].batch /\ runs'[r].found = runs[r].found
                     /\ runs'[r].live => runs[r].live
  /\ \A r \in Len(runs) + 1..Len(runs') :
       /\ runs'[r].to \in Users' /\ runs'[r].batch = Len(runs) + 1
       /\ now <= runs'[r].at /\ runs'[r].at <= now'
       /\ runs'[r].found <=> users'[runs'[r].to].here
PostsGrow ==
  /\ posts' \subseteq Post
  /\ \A p \in posts' :
       \/ /\ p.of \in Runs /\ runs[p.of].at <= p.at
          /\ runs[p.of].live \/ \E q \in posts : q.of = p.of
       \/ p.of \in Len(runs) + 1..Len(runs') /\ p.at = runs'[p.of].at
Grown == now' \in now..MaxTime /\ UsersGrow /\ RunsGrow /\ PostsGrow

LEMMA SameUsers == ASSUME TypeOK, users' = users PROVE UsersGrow
BY DEF TypeOK, UsersGrow

LEMMA SamePosts == ASSUME Rows, posts' \subseteq posts PROVE PostsGrow
<1>1. posts \subseteq Post
  BY DEF Rows, TypeOK
<1> QED
  BY <1>1 DEF PostsGrow, Rows, Refs, Clock

LEMMA SameTime == ASSUME TypeOK, now' = now PROVE now' \in now..MaxTime
BY ConversationAssumption DEF TypeOK

(* The run rows are updated in place.                                      *)
Kept(r) == /\ runs'[r].to = runs[r].to /\ runs'[r].at = runs[r].at
           /\ runs'[r].batch = runs[r].batch /\ runs'[r].found = runs[r].found
           /\ runs'[r].live => runs[r].live

LEMMA SameRuns ==
  ASSUME TypeOK, runs' \in [Runs -> Run], \A r \in Runs : Kept(r)
  PROVE  RunsGrow /\ Len(runs') = Len(runs)
<1>1. Len(runs) \in Nat
  BY DEF TypeOK
<1>2. runs' \in Seq(Run) /\ Len(runs') = Len(runs)
  BY <1>1, IsASeq, LenProperties DEF Runs
<1> QED
  BY <1>1, <1>2 DEF RunsGrow, Kept

LEMMA CompleteGrows ==
  ASSUME Rows, NEW o, Asking(o), Complete(o)
  PROVE  Grown
<1>1. TypeOK /\ Deleted(o) /\ Followed(o)
  BY CompleteFacts DEF Rows
<1>2. Len(users) \in Nat /\ Len(runs) \in Nat
  BY <1>1 DEF TypeOK
<1>3. UsersGrow
  BY <1>1, <1>2 DEF Deleted, UsersDeleted, Followed, UsersGrow
<1>4. \A r \in Runs : Kept(r)
  <2>1. \A r \in Runs : runs[r] \in Run
    BY <1>1 DEF TypeOK, Runs
  <2> QED
    BY <1>1, <2>1 DEF Deleted, RunsDeleted, Run, Kept
<1>5. RunsGrow
  <2>1. \A r \in Len(runs) + 1..Len(runs') :
          /\ runs'[r].to \in Users' /\ runs'[r].batch = Len(runs) + 1
          /\ now <= runs'[r].at /\ runs'[r].at <= now'
          /\ runs'[r].found <=> users'[runs'[r].to].here
    BY <1>1, <1>2 DEF Followed, NewRuns, Asking, Users
  <2> QED
    BY <1>1, <1>4, <2>1 DEF Deleted, RunsDeleted, RunsGrow, Kept
<1>6. PostsGrow
  <2>1. \A p \in posts : p.of \in Runs /\ runs[p.of].at <= p.at
    BY DEF Rows, Refs, Clock
  <2> QED
    BY <1>1, <1>2, <2>1 DEF Deleted, PostsDeleted, PostsGrow
<1> QED
  BY <1>1, <1>3, <1>5, <1>6 DEF Deleted, Grown

LEMMA SendGrows ==
  ASSUME Rows, NEW c \in Client, Send(c)
  PROVE  Grown
<1>1. TypeOK /\ Len(users) \in Nat /\ Len(runs) \in Nat
  BY DEF Rows, TypeOK
<1>2. UsersGrow
  BY <1>1, SendFacts DEF UsersGrow
<1>3. RunsGrow
  <2>1. \A r \in Len(runs) + 1..Len(runs') :
          /\ runs'[r].to \in Users' /\ runs'[r].batch = Len(runs) + 1
          /\ now <= runs'[r].at /\ runs'[r].at <= now'
          /\ runs'[r].found <=> users'[runs'[r].to].here
    BY <1>1, SendFacts DEF NewRuns, Users
  <2>2. Len(runs) <= Len(runs')
    BY <1>1, SendFacts DEF NewRuns
  <2> QED
    BY <1>1, <2>1, <2>2, SendFacts DEF RunsGrow
<1>4. PostsGrow
  <2>1. \A p \in posts : p.of \in Runs /\ runs[p.of].at <= p.at
    BY DEF Rows, Refs, Clock
  <2> QED
    BY <1>1, <2>1, SendFacts DEF PostsGrow
<1> QED
  BY <1>1, <1>2, <1>3, <1>4, SendFacts DEF Grown

LEMMA PendingAsks ==
  ASSUME Rows, NEW c \in Client, op[c] # NoOp
  PROVE  Asking(op[c])
BY DEF Rows, TypeOK, Refs, Asking

(* A run says something new, or its record is updated in place.            *)
LEMMA RunGrows ==
  ASSUME Rows, NEW r \in Runs, Speak(r) \/ Ends(r) \/ AbortRun(r)
  PROVE  /\ Grown /\ Len(runs') = Len(runs)
         /\ UNCHANGED <<now, users, op, history, crashes>>
         /\ \A q \in Runs : /\ runs'[q].cut = runs[q].cut
                            /\ runs'[q].row = "running" => runs[q].row = "running"
                            /\ runs'[q].row = "running" /\ runs[q].live => runs'[q].live
                            /\ runs'[q].live => runs'[q].row = runs[q].row
<1>1. TypeOK /\ runs \in [Runs -> Run] /\ now \in 0..MaxTime
  BY DEF Rows, TypeOK, Runs
<1>2. \A q \in Runs : runs[q] \in Run
  BY <1>1
<1>3. UNCHANGED <<now, users, op, history, crashes>> /\ now' \in now..MaxTime /\ UsersGrow
  BY <1>1, SameTime, SameUsers DEF Speak, Ends, Finalize, AbortRun
<1>4. \A p \in posts : p.of \in Runs /\ runs[p.of].at <= p.at /\ p \in Post
  BY <1>1 DEF Rows, Refs, Clock, TypeOK
<1>5. CASE Speak(r)
  <2>1. /\ runs[r].live
        /\ runs' = [runs EXCEPT ![r].spoke = TRUE]
        /\ posts' = posts \cup {[of |-> r, at |-> now, status |-> "streaming"]}
    BY <1>5 DEF Speak
  <2>2. runs' \in [Runs -> Run]
    BY <1>1, <1>2, <2>1 DEF Run
  <2>3. \A q \in Runs : /\ Kept(q) /\ runs'[q].live = runs[q].live
                        /\ runs'[q].row = runs[q].row /\ runs'[q].cut = runs[q].cut
    BY <1>1, <1>2, <2>1 DEF Run, Kept
  <2>4. RunsGrow /\ Len(runs') = Len(runs)
    BY <1>1, <2>2, <2>3, SameRuns
  <2>5. PostsGrow
    <3>1. [of |-> r, at |-> now, status |-> "streaming"] \in Post
      BY <1>1 DEF Post, Runs, TypeOK
    <3>2. runs[r].at <= now
      BY DEF Rows, Clock
    <3> QED
      BY <1>4, <2>1, <3>1, <3>2 DEF PostsGrow
  <2> QED
    BY <1>3, <2>3, <2>4, <2>5 DEF Grown
<1>6. CASE Ends(r)
  <2>1. PICK s \in {"complete", "failed", "aborted"}, threw \in BOOLEAN : Finalize(r, s, threw)
    BY <1>6 DEF Ends
  <2>2. /\ runs[r].live /\ runs' = RowAfter(r, s)
        /\ posts' \subseteq Closed(r) \cup {ErrorPost(r, now)}
    BY <2>1 DEF Finalize
  <2>3. PICK row \in {"none", "ended"} : runs' = [runs EXCEPT ![r] = [Dead(@) EXCEPT !.row = row]]
    BY <1>1, <2>2 DEF RowAfter
  <2>4. /\ [Dead(runs[r]) EXCEPT !.row = row] \in Run
        /\ [Dead(runs[r]) EXCEPT !.row = row].to = runs[r].to
        /\ [Dead(runs[r]) EXCEPT !.row = row].at = runs[r].at
        /\ [Dead(runs[r]) EXCEPT !.row = row].batch = runs[r].batch
        /\ [Dead(runs[r]) EXCEPT !.row = row].found = runs[r].found
        /\ [Dead(runs[r]) EXCEPT !.row = row].cut = runs[r].cut
        /\ ~[Dead(runs[r]) EXCEPT !.row = row].live
        /\ [Dead(runs[r]) EXCEPT !.row = row].row # "running"
    BY <1>2, <2>3 DEF Run, Dead, RowState
  <2>5. /\ runs' \in [Runs -> Run] /\ \A q \in Runs : Kept(q) /\ runs'[q].cut = runs[q].cut
        /\ ~runs'[r].live /\ runs'[r].row # "running"
        /\ \A q \in Runs : q # r => runs'[q] = runs[q]
    BY <1>1, <1>2, <2>3, <2>4 DEF Kept
  <2>6. RunsGrow /\ Len(runs') = Len(runs)
    BY <1>1, <2>5, SameRuns
  <2>7. PostsGrow
    <3>1. ErrorPost(r, now) \in Post /\ ErrorPost(r, now).of = r /\ ErrorPost(r, now).at = now
      BY <1>1 DEF Post, Runs, TypeOK, ErrorPost
    <3>2. runs[r].at <= now
      BY DEF Rows, Clock
    <3>3. \A p \in Closed(r) : p \in Post /\ \E q \in posts : p.of = q.of /\ p.at = q.at
      BY <1>4 DEF Closed, Post
    <3>4. ASSUME NEW p \in posts'
          PROVE  /\ p \in Post /\ p.of \in Runs /\ runs[p.of].at <= p.at
                 /\ runs[p.of].live \/ \E q \in posts : q.of = p.of
      <4>1. CASE p \in Closed(r)
        BY <1>4, <3>3, <4>1
      <4>2. CASE p = ErrorPost(r, now)
        BY <2>2, <3>1, <3>2, <4>2
      <4> QED
        BY <2>2, <4>1, <4>2
    <3> QED
      BY <3>4 DEF PostsGrow
  <2> QED
    BY <1>3, <2>5, <2>6, <2>7 DEF Grown
<1>7. CASE AbortRun(r)
  <2>1. runs' = [runs EXCEPT ![r].signal = TRUE] /\ posts' = posts
    BY <1>7 DEF AbortRun
  <2>2. runs' \in [Runs -> Run]
    BY <1>1, <1>2, <2>1 DEF Run
  <2>3. \A q \in Runs : /\ Kept(q) /\ runs'[q].live = runs[q].live
                        /\ runs'[q].row = runs[q].row /\ runs'[q].cut = runs[q].cut
    BY <1>1, <1>2, <2>1 DEF Run, Kept
  <2>4. RunsGrow /\ Len(runs') = Len(runs)
    BY <1>1, <2>2, <2>3, SameRuns
  <2>5. PostsGrow
    BY <2>1, SamePosts
  <2> QED
    BY <1>3, <2>3, <2>4, <2>5 DEF Grown
<1> QED
  BY <1>5, <1>6, <1>7

(* A request that has to wait tells the live runs it reaches to stop.      *)
LEMMA WaitGrows ==
  ASSUME Rows, NEW o,
         runs' = [q \in Runs |-> IF q \in Running(o) /\ runs[q].live
                                 THEN [runs[q] EXCEPT !.signal = TRUE] ELSE runs[q]],
         UNCHANGED <<now, users, posts>>
  PROVE  /\ Grown /\ Len(runs') = Len(runs)
         /\ \A q \in Runs : /\ runs'[q].cut = runs[q].cut
                            /\ runs'[q].live = runs[q].live /\ runs'[q].row = runs[q].row
<1>1. TypeOK /\ runs \in [Runs -> Run]
  BY DEF Rows, TypeOK, Runs
<1>2. \A q \in Runs : runs[q] \in Run
  BY <1>1
<1>3. runs' \in [Runs -> Run]
  BY <1>1, <1>2 DEF Run
<1>4. \A q \in Runs : /\ Kept(q) /\ runs'[q].live = runs[q].live
                      /\ runs'[q].row = runs[q].row /\ runs'[q].cut = runs[q].cut
  BY <1>1, <1>2 DEF Run, Kept
<1>5. RunsGrow /\ Len(runs') = Len(runs)
  BY <1>1, <1>3, <1>4, SameRuns
<1>6. now' \in now..MaxTime /\ UsersGrow /\ PostsGrow
  BY <1>1, SameTime, SameUsers, SamePosts
<1> QED
  BY <1>4, <1>5, <1>6 DEF Grown

LEMMA ClearGrows ==
  ASSUME Rows, Clear
  PROVE  /\ Grown /\ Len(runs') = Len(runs)
         /\ \A u \in Users' : u \in Users /\ ~users'[u].here
         /\ \A q \in Runs : runs'[q].row = "none"
<1>1. /\ TypeOK /\ runs \in [Runs -> Run] /\ users \in [Users -> User]
      /\ Len(users) \in Nat
  BY DEF Rows, TypeOK, Runs, Users
<1>2. /\ users' = [u \in Users |-> [users[u] EXCEPT !.here = FALSE]]
      /\ runs' = [r \in Runs |-> [runs[r] EXCEPT !.row = "none"]]
      /\ posts' = {} /\ now' = now
  BY DEF Clear
<1>3. users' \in [Users -> User]
  BY <1>1, <1>2 DEF User
<1>4. users' \in Seq(User) /\ Len(users') = Len(users)
  BY <1>1, <1>3, IsASeq, LenProperties DEF Users
<1>5. \A u \in Users : users'[u].at = users[u].at /\ ~users'[u].here
  BY <1>1, <1>2 DEF User
<1>6. UsersGrow
  BY <1>4, <1>5 DEF UsersGrow
<1>7. runs' \in [Runs -> Run]
  BY <1>1, <1>2 DEF Run, RowState
<1>8. \A q \in Runs : Kept(q) /\ runs'[q].row = "none"
  BY <1>1, <1>2 DEF Run, Kept
<1>9. RunsGrow /\ Len(runs') = Len(runs)
  BY <1>1, <1>7, <1>8, SameRuns
<1>10. now' \in now..MaxTime /\ PostsGrow
  BY <1>1, <1>2, SameTime, SamePosts
<1> QED
  BY <1>4, <1>5, <1>6, <1>8, <1>9, <1>10 DEF Grown, Users

LEMMA CrashGrows ==
  ASSUME Rows, Crash
  PROVE  /\ Grown /\ Len(runs') = Len(runs)
         /\ \A q \in Runs : /\ ~runs'[q].live /\ runs'[q].row = runs[q].row
                            /\ runs'[q].cut <=> runs[q].cut \/ runs[q].live
<1>1. TypeOK /\ runs \in [Runs -> Run]
  BY DEF Rows, TypeOK, Runs
<1>2. runs' = [r \in Runs |-> [Dead(runs[r]) EXCEPT !.cut = @ \/ runs[r].live]]
      /\ UNCHANGED <<now, users, posts>>
  BY DEF Crash
<1>3. \A q \in Runs : runs[q] \in Run /\ (runs[q].cut \/ runs[q].live) \in BOOLEAN
  BY <1>1 DEF Run
<1>4. runs' \in [Runs -> Run]
  BY <1>1, <1>2, <1>3 DEF Run, Dead
<1>5. \A q \in Runs : /\ Kept(q) /\ ~runs'[q].live /\ runs'[q].row = runs[q].row
                      /\ runs'[q].cut <=> runs[q].cut \/ runs[q].live
  BY <1>1, <1>2, <1>3 DEF Run, Dead, Kept
<1>6. RunsGrow /\ Len(runs') = Len(runs)
  BY <1>1, <1>4, <1>5, SameRuns
<1>7. now' \in now..MaxTime /\ UsersGrow /\ PostsGrow
  BY <1>1, <1>2, SameTime, SameUsers, SamePosts
<1> QED
  BY <1>5, <1>6, <1>7 DEF Grown

LEMMA StepGrows == ASSUME Rows, Next PROVE Grown
<1>1. CASE Tick
  <2>1. now \in Nat /\ now' = now + 1 /\ now' <= MaxTime
    BY <1>1, ConversationAssumption DEF Tick, Rows, TypeOK
  <2>2. now' \in now..MaxTime
    BY <2>1, ConversationAssumption
  <2>3. UsersGrow /\ PostsGrow
    BY <1>1, SameUsers, SamePosts DEF Tick, Rows
  <2>4. RunsGrow
    BY <1>1 DEF Tick, Rows, TypeOK, RunsGrow
  <2> QED
    BY <2>2, <2>3, <2>4 DEF Grown
<1>2. CASE Clear
  BY <1>2, ClearGrows
<1>3. CASE Crash
  BY <1>3, CrashGrows
<1>4. ASSUME NEW r \in Runs, Speak(r) \/ Ends(r) \/ AbortRun(r) PROVE Grown
  BY <1>4, RunGrows
<1>5. ASSUME NEW c \in Client, Send(c) PROVE Grown
  BY <1>5, SendGrows
<1>6. ASSUME NEW c \in Client, NEW kind \in {"withdraw", "edit", "regenerate"}, NEW u \in Users,
             Request(c, [kind |-> kind, msg |-> u])
      PROVE  Grown
  <2> DEFINE o == [kind |-> kind, msg |-> u]
  <2>1. Asking(o)
    BY DEF Asking, Op, Users
  <2>2. CASE Complete(o)
    BY <2>1, <2>2, CompleteGrows
  <2>3. CASE ~Complete(o)
    BY <1>6, <2>3, WaitGrows DEF Request
  <2> QED
    BY <2>2, <2>3
<1>7. ASSUME NEW c \in Client, Expire(c) PROVE Grown
  BY <1>7, PendingAsks, CompleteGrows DEF Expire
<1> QED
  BY <1>1, <1>2, <1>3, <1>4, <1>5, <1>6, <1>7 DEF Next, Asks
-------------------------------------------------------------------------------
(* Types, references and times.                                            *)
LEMMA GrownRows ==
  ASSUME Rows, Grown
  PROVE  /\ users' \in Seq(User) /\ runs' \in Seq(Run) /\ posts' \subseteq Post
         /\ now' \in 0..MaxTime
         /\ Users \subseteq Users' /\ Runs \subseteq Runs'
         /\ \A r \in Runs' : runs'[r].to \in Users' /\ runs'[r].batch <= r
         /\ \A p \in posts' : p.of \in Runs'
         /\ Clock'
<1>1. /\ TypeOK /\ Len(users) \in Nat /\ Len(runs) \in Nat
      /\ now \in 0..MaxTime /\ MaxTime \in Nat
      /\ \A u \in Users : users[u].at \in Nat
      /\ \A r \in Runs : runs[r].at \in Nat
  <2>1. TypeOK /\ MaxTime \in Nat /\ now \in 0..MaxTime
    BY ConversationAssumption DEF Rows, TypeOK
  <2>2. Len(users) \in Nat /\ users \in [Users -> User]
    BY <2>1 DEF TypeOK, Users
  <2>3. Len(runs) \in Nat /\ runs \in [Runs -> Run]
    BY <2>1 DEF TypeOK, Runs
  <2>4. \A u \in Users : users[u].at \in Nat
    BY <2>1, <2>2 DEF User
  <2>5. \A r \in Runs : runs[r].at \in Nat
    BY <2>1, <2>3 DEF Run
  <2> QED
    BY <2>1, <2>2, <2>3, <2>4, <2>5
<1>2. /\ now' \in 0..MaxTime /\ now <= now'
      /\ users' \in Seq(User) /\ runs' \in Seq(Run) /\ posts' \subseteq Post
  BY <1>1 DEF Grown, UsersGrow, RunsGrow, PostsGrow
<1>3. /\ Users' = Users \/ Users' = Users \cup {Len(users) + 1}
      /\ Runs' = Runs \cup (Len(runs) + 1..Len(runs'))
      /\ Users \subseteq Users' /\ Runs \subseteq Runs'
  BY <1>1 DEF Grown, UsersGrow, RunsGrow, Users, Runs
<1>4. /\ \A u \in Users : users'[u].at = users[u].at
      /\ \A u \in Users' \ Users : u = Len(users) + 1 /\ users'[u].at = now
  BY <1>1, <1>3 DEF Grown, UsersGrow, Users
<1>5. /\ \A r \in Runs : /\ runs'[r].to = runs[r].to /\ runs'[r].at = runs[r].at
                         /\ runs'[r].batch = runs[r].batch
      /\ \A r \in Runs' \ Runs : /\ runs'[r].to \in Users' /\ runs'[r].batch = Len(runs) + 1
                                 /\ now <= runs'[r].at /\ runs'[r].at <= now'
  BY <1>1, <1>3 DEF Grown, RunsGrow, Runs
<1>6. \A p \in posts' : \/ p.of \in Runs /\ runs[p.of].at <= p.at
                        \/ p.of \in Runs' /\ p.at = runs'[p.of].at
  BY <1>1, <1>3 DEF Grown, PostsGrow
<1>7. \A r \in Runs' : runs'[r].to \in Users' /\ runs'[r].batch <= r
  BY <1>1, <1>3, <1>5 DEF Rows, Refs, Runs
<1>8. \A u \in Users' : users'[u].at <= now
  BY <1>1, <1>4 DEF Rows, Clock
<1>9. \A u, v \in Users' : v <= u => users'[v].at <= users'[u].at
  BY <1>1, <1>4 DEF Rows, Clock, Users
<1>10. \A r \in Runs' : users'[runs'[r].to].at <= runs'[r].at /\ runs'[r].at <= now'
  <2>1. ASSUME NEW r \in Runs PROVE users'[runs'[r].to].at <= runs'[r].at /\ runs'[r].at <= now'
    <3>1. runs[r].to \in Users /\ users[runs[r].to].at <= runs[r].at /\ runs[r].at <= now
      BY DEF Rows, Refs, Clock
    <3>2. users'[runs'[r].to].at = users[runs[r].to].at /\ runs'[r].at = runs[r].at
      BY <1>4, <1>5, <3>1
    <3> QED
      BY <1>1, <1>2, <3>1, <3>2
  <2>2. ASSUME NEW r \in Runs' \ Runs
        PROVE  users'[runs'[r].to].at <= runs'[r].at /\ runs'[r].at <= now'
    <3>1. now <= runs'[r].at /\ runs'[r].at <= now' /\ users'[runs'[r].to].at <= now
      BY <1>5, <1>8
    <3>2. users'[runs'[r].to].at \in Nat /\ runs'[r].at \in Nat
      <4>1. users'[runs'[r].to].at \in Nat
        BY <1>1, <1>4, <1>5
      <4>2. runs'[r] \in Run
        BY <1>2 DEF Runs
      <4> QED
        BY <1>1, <4>1, <4>2 DEF Run
    <3> QED
      BY <1>1, <3>1, <3>2
  <2> QED
    BY <2>1, <2>2
<1>11. \A u \in Users' : users'[u].at <= now'
  BY <1>1, <1>2, <1>4, <1>8
<1>12. \A p \in posts' : p.of \in Runs' /\ runs'[p.of].at <= p.at
  <2>1. \A r \in Runs' : runs'[r].at \in Nat
    <3>1. \A r \in Runs' : runs'[r] \in Run
      BY <1>2 DEF Runs
    <3> QED
      BY <1>1, <3>1 DEF Run
  <2> QED
    BY <1>3, <1>5, <1>6, <2>1
<1> QED
  BY <1>2, <1>3, <1>7, <1>9, <1>10, <1>11, <1>12 DEF Clock

LEMMA RowsInit == Init => Rows
<1> SUFFICES ASSUME Init PROVE Rows
  OBVIOUS
<1>1. users = <<>> /\ runs = <<>> /\ posts = {} /\ Len(users) = 0 /\ Len(runs) = 0
  BY EmptySeq DEF Init
<1>2. Users = {} /\ Runs = {}
  BY <1>1 DEF Users, Runs
<1>3. op \in [Client -> Op] /\ \A c \in Client : op[c] = NoOp
  BY DEF Init, Op, NoOp
<1>4. TypeOK
  BY <1>1, <1>2, <1>3, EmptySeq, ConversationAssumption DEF Init, TypeOK
<1> QED
  BY <1>1, <1>2, <1>3, <1>4 DEF Rows, Refs, Clock

LEMMA RowsStep == Rows /\ [Next]_vars => Rows'
<1> SUFFICES ASSUME Rows, [Next]_vars PROVE Rows'
  OBVIOUS
<1>1. CASE UNCHANGED vars
  BY <1>1 DEF vars, history, Rows, TypeOK, Refs, Clock, Users, Runs
<1>2. ASSUME Next PROVE Rows'
  <2>1. Grown
    BY <1>2, StepGrows
  <2>2. /\ users' \in Seq(User) /\ runs' \in Seq(Run) /\ posts' \subseteq Post
        /\ now' \in 0..MaxTime
        /\ Users \subseteq Users' /\ Runs \subseteq Runs'
        /\ \A r \in Runs' : runs'[r].to \in Users' /\ runs'[r].batch <= r
        /\ \A p \in posts' : p.of \in Runs'
        /\ Clock'
    BY <2>1, GrownRows
  <2>3. crashes \in 0..MaxCrashes /\ gone \subseteq Users /\ outlived \subseteq Runs
        /\ op \in [Client -> Op] /\ \A c \in Client : op[c] # NoOp => Asking(op[c])
    BY PendingAsks DEF Rows, TypeOK
  <2> DEFINE Typed ==
        /\ crashes' \in 0..MaxCrashes /\ op' \in [Client -> Op]
        /\ gone' \subseteq Users' /\ outlived' \subseteq Runs'
        /\ \A c \in Client : op'[c] # NoOp => op'[c] = op[c] \/ Asking(op'[c])
  <2>4. Typed
    <3>1. CASE Tick \/ Clear
      BY <2>2, <2>3, <3>1 DEF Tick, Clear, history
    <3>2. CASE Crash
      <4>1. crashes' \in 0..MaxCrashes
        <5>1. crashes < MaxCrashes /\ crashes' = crashes + 1 /\ MaxCrashes \in Nat
          BY <3>2, ConversationAssumption DEF Crash
        <5> QED
          BY <2>3, <5>1
      <4> QED
        BY <2>2, <2>3, <3>2, <4>1 DEF Crash, Op, NoOp, history
    <3>3. ASSUME NEW r \in Runs, Speak(r) \/ Ends(r) \/ AbortRun(r)
          PROVE  UNCHANGED <<op, history, crashes>>
      BY <3>3, RunGrows
    <3>4. ASSUME NEW c \in Client, Send(c) PROVE UNCHANGED <<op, history, crashes>>
      BY <3>4 DEF Send
    <3>5. ASSUME NEW c \in Client, NEW kind \in {"withdraw", "edit", "regenerate"},
                 NEW u \in Users, Request(c, [kind |-> kind, msg |-> u])
          PROVE  Typed
      <4> DEFINE o == [kind |-> kind, msg |-> u]
      <4>1. Asking(o)
        BY DEF Asking, Op, Users
      <4>2. CASE Complete(o) /\ op' = op
        <5>1. /\ crashes' = crashes /\ gone' \subseteq gone \cup {o.msg} /\ u \in Users'
              /\ outlived' \subseteq outlived \cup Runs
          BY <2>2, <4>2 DEF Complete
        <5> QED
          BY <2>2, <2>3, <4>2, <5>1
      <4>3. CASE op' = [op EXCEPT ![c] = o] /\ UNCHANGED <<history, crashes>>
        BY <2>2, <2>3, <4>1, <4>3 DEF Asking, history
      <4> HIDE DEF o
      <4> QED
        BY <3>5, <4>2, <4>3 DEF Request, o
    <3>6. ASSUME NEW c \in Client, Expire(c) PROVE Typed
      <4>1. op' = [op EXCEPT ![c] = NoOp] /\ op[c].msg \in Users /\ Complete(op[c])
        BY <2>3, <3>6 DEF Expire, Asking
      <4>2. /\ crashes' = crashes /\ gone' \subseteq gone \cup {op[c].msg}
            /\ outlived' \subseteq outlived \cup Runs
        BY <4>1 DEF Complete
      <4>3. NoOp \in Op
        BY DEF NoOp, Op
      <4> QED
        BY <2>2, <2>3, <4>1, <4>2, <4>3
    <3> QED
      BY <1>2, <2>2, <2>3, <3>1, <3>2, <3>3, <3>4, <3>5, <3>6 DEF Next, Asks, history
  <2>5. TypeOK'
    BY <2>2, <2>4 DEF TypeOK
  <2>6. Refs'
    BY <2>2, <2>3, <2>4 DEF Refs, Asking
  <2> QED
    BY <2>2, <2>5, <2>6 DEF Rows
<1> QED
  BY <1>1, <1>2

-------------------------------------------------------------------------------
(* A row that says "running" belongs to a run that is, or that a restart   *)
(* of the server cut off: no end of a run, no deletion and no clearing     *)
(* leaves such a row behind, so only a restart can keep the history from   *)
(* being cleared for good.                                                 *)
THEOREM RunningRowsAreLive == Spec => []RunningIsLive
<1>1. Init => RunningIsLive
  <2>1. Init => Runs = {}
    BY EmptySeq DEF Init, Runs
  <2> QED
    BY <2>1 DEF RunningIsLive
<1>2. Rows /\ RunningIsLive /\ [Next]_vars => RunningIsLive'
  <2> SUFFICES ASSUME Rows, RunningIsLive, [Next]_vars PROVE RunningIsLive'
    OBVIOUS
  <2>1. /\ TypeOK /\ Len(runs) \in Nat
        /\ \A r \in Runs : runs[r].row = "running" => runs[r].live \/ runs[r].cut
    BY DEF Rows, TypeOK, RunningIsLive
  <2>2. CASE UNCHANGED vars \/ Tick
    BY <2>2 DEF vars, Tick, RunningIsLive, Runs
  <2>3. CASE Clear
    BY <2>3, ClearGrows DEF RunningIsLive, Runs
  <2>4. CASE Crash
    BY <2>1, <2>4, CrashGrows DEF RunningIsLive, Runs
  <2>5. ASSUME NEW q \in Runs, Speak(q) \/ Ends(q) \/ AbortRun(q) PROVE RunningIsLive'
    BY <2>1, <2>5, RunGrows DEF RunningIsLive, Runs
  <2>6. ASSUME NEW c \in Client, Send(c) PROVE RunningIsLive'
    <3>1. \A r \in Runs' : \/ r \in Runs /\ runs'[r] = runs[r]
                           \/ runs'[r].row = "running" => runs'[r].live
      BY <2>1, <2>6, SendFacts DEF NewRuns, Runs
    <3> QED
      BY <2>1, <3>1 DEF RunningIsLive
  <2>7. ASSUME NEW o, Asking(o), Complete(o) PROVE RunningIsLive'
    <3>1. Deleted(o) /\ Followed(o)
      BY <2>1, <2>7, CompleteFacts
    <3>2. \A r \in Runs : runs[r] \in Run
      BY <2>1 DEF TypeOK, Runs
    <3>3. \A r \in Runs : runs'[r].row = "running" => runs'[r] = runs[r]
      BY <3>1, <3>2 DEF Deleted, RunsDeleted, Run
    <3>4. \A r \in Runs' \ Runs : runs'[r].row = "running" => runs'[r].live
      BY <2>1, <3>1 DEF Followed, NewRuns, Runs
    <3> QED
      BY <2>1, <3>3, <3>4 DEF RunningIsLive
  <2>8. ASSUME NEW c \in Client, NEW kind \in {"withdraw", "edit", "regenerate"}, NEW u \in Users,
               Request(c, [kind |-> kind, msg |-> u])
        PROVE  RunningIsLive'
    <3> DEFINE o == [kind |-> kind, msg |-> u]
    <3>1. Asking(o)
      BY DEF Asking, Op, Users
    <3>2. CASE Running(o) = {}
      BY <2>7, <2>8, <3>1, <3>2 DEF Request
    <3>3. CASE Running(o) # {}
      BY <2>1, <2>8, <3>3, WaitGrows DEF Request, RunningIsLive, Runs
    <3> QED
      BY <3>2, <3>3
  <2>9. ASSUME NEW c \in Client, Expire(c) PROVE RunningIsLive'
    BY <2>7, <2>9, PendingAsks DEF Expire
  <2> QED
    BY <2>2, <2>3, <2>4, <2>5, <2>6, <2>8, <2>9 DEF Next, Asks
<1> QED
  BY <1>1, <1>2, RowsInit, RowsStep, PTL DEF Spec
-------------------------------------------------------------------------------
(* Withdrawing and answering.  First what a step that deletes nothing      *)
(* keeps: a run that is over and has left nothing stays so.                *)
LEMMA NothingKept ==
  ASSUME Rows, Grown, NEW r \in Runs, LeavesNothing(r)
  PROVE  LeavesNothing(r)'
<1>1. Len(runs) \in Nat
  BY DEF Rows, TypeOK
<1> QED
  BY <1>1 DEF LeavesNothing, Grown, RunsGrow, PostsGrow, Runs

LEMMA HistoryKept ==
  ASSUME Rows, History, Grown, UNCHANGED history,
         \A u \in Users : users'[u].here = users[u].here,
         \A r \in Len(runs) + 1..Len(runs') : runs'[r].to \notin Users
  PROVE  WithdrawnIsGone' /\ Superseded'
<1>1. /\ Len(runs) \in Nat /\ Len(users) \in Nat /\ gone \subseteq Users
      /\ \A r \in Runs : runs[r].to \in Users /\ runs[r].batch <= r
  BY DEF Rows, TypeOK, Refs
<1>2. \A r \in Runs' : \/ /\ r \in Runs /\ runs'[r].to = runs[r].to /\ runs'[r].at = runs[r].at
                          /\ runs'[r].batch = runs[r].batch /\ runs'[r].found = runs[r].found
                       \/ r \in Len(runs) + 1..Len(runs')
  BY <1>1 DEF Grown, RunsGrow, Runs
<1>3. \A u \in Users' \ Users : users'[u].here
  BY <1>1 DEF Grown, UsersGrow, Users
<1>4. WithdrawnIsGone'
  <2>1. \A u \in gone' : ~users'[u].here
    BY <1>1 DEF history, History, WithdrawnIsGone
  <2>2. ASSUME NEW u \in Users', ~users'[u].here, NEW r \in AnswersTo(u)'
        PROVE  r \in outlived' \/ ~runs'[r].found \/ LeavesNothing(r)'
    <3>1. u \in Users /\ ~users[u].here
      BY <1>3, <2>2
    <3>2. r \in AnswersTo(u) /\ r \in Runs /\ runs'[r].found = runs[r].found
      BY <1>2, <2>2, <3>1 DEF AnswersTo
    <3>3. r \in outlived \/ ~runs[r].found \/ LeavesNothing(r)
      BY <3>1, <3>2 DEF History, WithdrawnIsGone
    <3> QED
      BY <3>2, <3>3, NothingKept DEF history
  <2> QED
    BY <2>1, <2>2 DEF WithdrawnIsGone
<1>5. Superseded'
  <2> SUFFICES ASSUME NEW r \in Runs', NEW s \in Runs',
                      runs'[r].to = runs'[s].to, runs'[r].batch < runs'[s].batch, InReach(r)'
               PROVE  r \in outlived' \/ LeavesNothing(r)'
    BY DEF Superseded
  <2>1. r \in Runs /\ s \in Runs
    <3>1. \A q \in Len(runs) + 1..Len(runs') : runs'[q].batch = Len(runs) + 1
      BY DEF Grown, RunsGrow
    <3>2. CASE r \notin Runs /\ s \notin Runs
      BY <1>1, <1>2, <3>1, <3>2
    <3>3. CASE r \notin Runs /\ s \in Runs
      BY <1>1, <1>2, <3>3 DEF Runs
    <3>4. CASE r \in Runs /\ s \notin Runs
      BY <1>1, <1>2, <3>4 DEF Runs
    <3> QED
      BY <3>2, <3>3, <3>4
  <2>2. /\ runs'[r].to = runs[r].to /\ runs'[r].batch = runs[r].batch /\ runs'[r].at = runs[r].at
        /\ runs'[s].to = runs[s].to /\ runs'[s].batch = runs[s].batch
    BY <2>1 DEF Grown, RunsGrow
  <2>3. users'[runs[r].to].at = users[runs[r].to].at
    BY <1>1, <2>1 DEF Grown, UsersGrow
  <2>4. r \in outlived \/ LeavesNothing(r)
    BY <2>1, <2>2, <2>3 DEF History, Superseded, InReach
  <2> QED
    BY <2>1, <2>4, NothingKept DEF history
<1> QED
  BY <1>4, <1>5

(* When a request deletes, a run it reaches is over and its messages are   *)
(* deleted with it, or it is noted as live.                                *)
LEMMA ReachedRun ==
  ASSUME Rows, NEW o, Asking(o), Complete(o), NEW r \in Runs, Reaches(o, runs[r].at)
  PROVE  r \in outlived' \/ LeavesNothing(r)'
<1>1. /\ TypeOK /\ Len(runs) \in Nat /\ runs[r] \in Run /\ users[o.msg] \in User
      /\ posts \subseteq Post /\ MaxTime \in Nat
  BY ConversationAssumption DEF Rows, TypeOK, Runs, Asking, Users
<1>2. /\ Deleted(o)
      /\ outlived' = outlived \cup {q \in Runs : runs[q].live /\ Reaches(o, runs[q].at)}
  BY <1>1, CompleteFacts
<1>3. CASE runs[r].live
  BY <1>2, <1>3
<1>4. CASE ~runs[r].live
  <2>1. \A p \in posts : p.of = r => runs[r].at <= p.at
    BY DEF Rows, Clock
  <2>2. users[o.msg].at \in Nat /\ runs[r].at \in Nat /\ \A p \in posts : p.at \in Nat
    BY <1>1 DEF User, Run, Post
  <2>3. \A p \in posts : p.of = r => Reaches(o, p.at)
    BY <2>1, <2>2 DEF Reaches
  <2>4. \A p \in posts' : p.of # r
    BY <1>1, <1>2, <2>3 DEF Deleted, PostsDeleted, Runs
  <2>5. ~runs'[r].live
    BY <1>1, <1>2, <1>4 DEF Deleted, RunsDeleted, Run
  <2> QED
    BY <2>4, <2>5 DEF LeavesNothing
<1> QED
  BY <1>3, <1>4

LEMMA CompleteHistory ==
  ASSUME Rows, History, NEW o, Asking(o), Complete(o)
  PROVE  WithdrawnIsGone' /\ Superseded'
<1>1. /\ Deleted(o) /\ Followed(o) /\ Grown
      /\ gone' = IF o.kind = "regenerate" THEN gone ELSE gone \cup {o.msg}
      /\ outlived' = outlived \cup {r \in Runs : runs[r].live /\ Reaches(o, runs[r].at)}
  BY CompleteFacts, CompleteGrows DEF Rows
<1>2. /\ TypeOK /\ Len(runs) \in Nat /\ Len(users) \in Nat /\ gone \subseteq Users
      /\ o.msg \in Users
      /\ \A r \in Runs : runs[r].to \in Users /\ runs[r].batch <= r
  BY DEF Rows, TypeOK, Refs, Asking, Runs
<1>3. /\ \A u \in Users : users[u].at \in Nat
      /\ \A r \in Runs : runs[r].at \in Nat /\ users[runs[r].to].at <= runs[r].at
  <2>1. users \in [Users -> User] /\ runs \in [Runs -> Run] /\ MaxTime \in Nat
    BY <1>2, ConversationAssumption DEF TypeOK, Users, Runs
  <2>2. \A u \in Users : users[u].at \in Nat
    BY <2>1 DEF User
  <2>3. \A r \in Runs : runs[r].at \in Nat
    BY <2>1 DEF Run
  <2> QED
    BY <2>2, <2>3 DEF Rows, Clock
<1>4. \A u \in Users : /\ users'[u].here <=> users[u].here /\ ~Reaches(o, users[u].at)
                       /\ users'[u].at = users[u].at
  BY <1>1 DEF Deleted, UsersDeleted
<1>5. /\ Runs' = Runs \cup (Len(runs) + 1..Len(runs'))
      /\ \A r \in Runs : /\ runs'[r].to = runs[r].to /\ runs'[r].at = runs[r].at
                         /\ runs'[r].batch = runs[r].batch /\ runs'[r].found = runs[r].found
      /\ \A r \in Len(runs) + 1..Len(runs') :
           /\ runs'[r].to \in Users' /\ runs'[r].batch = Len(runs) + 1
           /\ runs'[r].found <=> users'[runs'[r].to].here
           /\ runs'[r].to \in Users => runs'[r].to = o.msg /\ o.kind = "regenerate"
  <2>1. Len(runs) <= Len(runs') /\ Len(runs') \in Nat
    BY <1>1 DEF Grown, RunsGrow
  <2>2. Runs' = Runs \cup (Len(runs) + 1..Len(runs'))
    BY <1>2, <2>1 DEF Runs
  <2>3. \A r \in Len(runs) + 1..Len(runs') :
          runs'[r].to \in Users => runs'[r].to = o.msg /\ o.kind = "regenerate"
    BY <1>1, <1>2 DEF Followed, NewRuns, Users
  <2> QED
    BY <1>1, <2>2, <2>3 DEF Grown, RunsGrow
(* Every run that answers a message the request deletes is reached.        *)
<1>6. WithdrawnIsGone'
  <2>1. ASSUME NEW u \in gone' PROVE ~users'[u].here
    <3>1. CASE u \in gone
      BY <1>2, <1>4, <3>1 DEF History, WithdrawnIsGone
    <3>2. CASE u \notin gone
      <4>1. u = o.msg /\ o.kind # "regenerate"
        BY <1>1, <2>1, <3>2
      <4>2. Reaches(o, users[u].at)
        BY <1>2, <1>3, <4>1 DEF Reaches
      <4> QED
        BY <1>2, <1>4, <4>1, <4>2
    <3> QED
      BY <3>1, <3>2
  <2>2. ASSUME NEW u \in Users', ~users'[u].here, NEW r \in AnswersTo(u)'
        PROVE  r \in outlived' \/ ~runs'[r].found \/ LeavesNothing(r)'
    <3>1. r \in Runs' /\ runs'[r].to = u
      BY <2>2 DEF AnswersTo
    <3>2. CASE r \notin Runs
      BY <1>5, <2>2, <3>1, <3>2
    <3>3. CASE r \in Runs
      <4>1. runs[r].to = u /\ u \in Users /\ users[u].at <= runs[r].at
        BY <1>2, <1>3, <1>5, <3>1, <3>3
      <4>2. CASE users[u].here
        <5>1. Reaches(o, users[u].at)
          BY <1>4, <2>2, <4>1, <4>2
        <5>2. Reaches(o, runs[r].at)
          BY <1>2, <1>3, <3>3, <4>1, <5>1 DEF Reaches
        <5> QED
          BY <3>3, <5>2, ReachedRun
      <4>3. CASE ~users[u].here
        <5>1. r \in outlived \/ ~runs[r].found \/ LeavesNothing(r)
          BY <3>3, <4>1, <4>3 DEF History, WithdrawnIsGone, AnswersTo
        <5> QED
          BY <1>1, <1>5, <3>3, <5>1, NothingKept
      <4> QED
        BY <4>2, <4>3
    <3> QED
      BY <3>2, <3>3
  <2> QED
    BY <2>1, <2>2 DEF WithdrawnIsGone
(* A later run for a message that has one is started by a regeneration of  *)
(* it, which reaches every run later than the message.                     *)
<1>7. Superseded'
  <2> SUFFICES ASSUME NEW r \in Runs', NEW s \in Runs',
                      runs'[r].to = runs'[s].to, runs'[r].batch < runs'[s].batch, InReach(r)'
               PROVE  r \in outlived' \/ LeavesNothing(r)'
    BY DEF Superseded
  <2>1. r \in Runs
    <3> SUFFICES ASSUME r \notin Runs PROVE FALSE
      OBVIOUS
    <3>1. runs'[r].batch = Len(runs) + 1
      BY <1>5
    <3>2. CASE s \in Runs
      <4>1. runs'[s].batch = runs[s].batch /\ runs[s].batch <= s /\ s <= Len(runs) /\ s \in Nat
        BY <1>2, <1>5, <3>2 DEF Runs
      <4>2. runs[s] \in Run
        BY <1>2, <3>2 DEF TypeOK, Runs
      <4>3. runs[s].batch \in Nat
        BY <4>2 DEF Run
      <4> QED
        BY <1>2, <3>1, <4>1, <4>3
    <3>3. CASE s \notin Runs
      BY <1>2, <1>5, <3>1, <3>3
    <3> QED
      BY <3>2, <3>3
  <2>2. /\ runs'[r].to = runs[r].to /\ runs'[r].at = runs[r].at /\ runs'[r].batch = runs[r].batch
        /\ runs[r].at > users[runs[r].to].at
    BY <1>2, <1>4, <1>5, <2>1 DEF InReach
  <2>3. CASE s \in Runs
    <3>1. r \in outlived \/ LeavesNothing(r)
      BY <1>5, <2>1, <2>2, <2>3 DEF History, Superseded, InReach
    <3> QED
      BY <1>1, <2>1, <3>1, NothingKept
  <2>4. CASE s \notin Runs
    <3>1. runs[r].to = o.msg /\ o.kind = "regenerate"
      BY <1>2, <1>5, <2>1, <2>2, <2>4
    <3>2. Reaches(o, runs[r].at)
      BY <2>2, <3>1 DEF Reaches
    <3> QED
      BY <2>1, <3>2, ReachedRun
  <2> QED
    BY <2>3, <2>4
<1> QED
  BY <1>6, <1>7

(* Clearing refuses while a row says a run is active; what it deletes is   *)
(* over, or was live when an earlier deletion took its row.                *)
LEMMA ClearHistory ==
  ASSUME Rows, History, Clear
  PROVE  WithdrawnIsGone' /\ Superseded'
<1>1. /\ Len(runs') = Len(runs) /\ \A u \in Users' : u \in Users /\ ~users'[u].here
      /\ posts' = {} /\ gone' = gone /\ outlived' = outlived
      /\ \A r \in Runs : runs[r].row # "running"
  BY ClearGrows DEF Clear, history
<1>2. Grown /\ gone \subseteq Users /\ Users \subseteq Users'
  <2>1. Grown
    BY ClearGrows
  <2> QED
    BY <2>1, GrownRows DEF Rows, TypeOK
<1>3. \A r \in Runs' : r \in outlived' \/ LeavesNothing(r)'
  <2> SUFFICES ASSUME NEW r \in Runs' PROVE r \in outlived' \/ LeavesNothing(r)'
    OBVIOUS
  <2>1. r \in Runs /\ (runs'[r].live => runs[r].live)
    BY <1>1, <1>2 DEF Grown, RunsGrow, Runs
  <2>2. runs[r].live => r \in outlived
    BY <1>1, <2>1 DEF History, LiveRows
  <2> QED
    BY <1>1, <2>1, <2>2 DEF LeavesNothing
<1>4. WithdrawnIsGone'
  BY <1>1, <1>2, <1>3 DEF WithdrawnIsGone, AnswersTo
<1>5. Superseded'
  BY <1>3 DEF Superseded
<1> QED
  BY <1>4, <1>5

(* How each step follows from the facts above.                             *)
LEMMA HistoryStep ==
  ASSUME Rows, History, [Next]_vars
  PROVE  WithdrawnIsGone' /\ Superseded'
<1>1. Len(runs) \in Nat /\ Len(users) \in Nat
  BY DEF Rows, TypeOK
<1>2. CASE UNCHANGED vars
  BY <1>2 DEF vars, history, History, WithdrawnIsGone, Superseded, LeavesNothing, AnswersTo,
              InReach, Users, Runs
<1>3. ASSUME Grown, Len(runs') = Len(runs), UNCHANGED users, UNCHANGED history
      PROVE  WithdrawnIsGone' /\ Superseded'
  BY <1>1, <1>3, HistoryKept
<1>4. CASE Tick
  BY <1>3, <1>4, StepGrows DEF Next, Tick
<1>5. CASE Crash
  BY <1>3, <1>5, CrashGrows DEF Crash
<1>6. ASSUME NEW r \in Runs, Speak(r) \/ Ends(r) \/ AbortRun(r)
      PROVE  WithdrawnIsGone' /\ Superseded'
  BY <1>3, <1>6, RunGrows
<1>7. ASSUME NEW c \in Client, Send(c) PROVE WithdrawnIsGone' /\ Superseded'
  <2>1. Grown
    BY <1>7, SendGrows
  <2>2. TypeOK
    BY DEF Rows
  <2>3. /\ UNCHANGED history
        /\ \A u \in Users : users'[u].here = users[u].here
        /\ NewRuns(Len(users) + 1, Len(runs))
    BY <1>7, <2>2, SendFacts
  <2>4. \A r \in Len(runs) + 1..Len(runs') : runs'[r].to \notin Users
    BY <1>1, <2>3 DEF NewRuns, Users
  <2> QED
    BY <2>1, <2>3, <2>4, HistoryKept
<1>8. ASSUME NEW c \in Client, NEW kind \in {"withdraw", "edit", "regenerate"}, NEW u \in Users,
             Request(c, [kind |-> kind, msg |-> u])
      PROVE  WithdrawnIsGone' /\ Superseded'
  <2> DEFINE o == [kind |-> kind, msg |-> u]
  <2>1. Asking(o)
    BY DEF Asking, Op, Users
  <2>2. CASE Running(o) = {}
    BY <1>8, <2>1, <2>2, CompleteHistory DEF Request
  <2>3. CASE Running(o) # {}
    BY <1>3, <1>8, <2>3, WaitGrows DEF Request
  <2> QED
    BY <2>2, <2>3
<1>9. ASSUME NEW c \in Client, Expire(c) PROVE WithdrawnIsGone' /\ Superseded'
  BY <1>9, PendingAsks, CompleteHistory DEF Expire
<1> QED
  BY <1>2, <1>4, <1>5, <1>6, <1>7, <1>8, <1>9, ClearHistory DEF Next, Asks

LEMMA LiveRowsStep ==
  ASSUME Rows, LiveRows, [Next]_vars
  PROVE  LiveRows'
<1>1. /\ TypeOK /\ Len(runs) \in Nat
      /\ \A r \in Runs : runs[r].live => r \in outlived \/ runs[r].row = "running"
  BY DEF Rows, TypeOK, LiveRows
<1>2. CASE UNCHANGED vars \/ Tick
  BY <1>2 DEF vars, history, Tick, LiveRows, Runs
<1>3. CASE Clear
  <2>1. Grown /\ outlived' = outlived /\ Len(runs') = Len(runs)
        /\ \A r \in Runs : runs[r].row # "running"
    BY <1>3, ClearGrows DEF Clear, history
  <2> QED
    BY <1>1, <2>1 DEF Grown, RunsGrow, LiveRows, Runs
<1>4. CASE Crash
  BY <1>4, CrashGrows DEF LiveRows, Runs
<1>5. ASSUME NEW q \in Runs, Speak(q) \/ Ends(q) \/ AbortRun(q) PROVE LiveRows'
  <2>1. /\ Grown /\ outlived' = outlived /\ Len(runs') = Len(runs)
        /\ \A r \in Runs : runs'[r].live => runs'[r].row = runs[r].row
    BY <1>5, RunGrows DEF history
  <2> QED
    BY <1>1, <2>1 DEF Grown, RunsGrow, LiveRows, Runs
<1>6. ASSUME NEW c \in Client, Send(c) PROVE LiveRows'
  <2>1. /\ outlived' = outlived
        /\ \A r \in Runs' : \/ r \in Runs /\ runs'[r] = runs[r]
                            \/ runs'[r].live => runs'[r].row = "running"
    BY <1>1, <1>6, SendFacts DEF NewRuns, Runs, history
  <2> QED
    BY <1>1, <2>1 DEF LiveRows
<1>7. ASSUME NEW o, Asking(o), Complete(o) PROVE LiveRows'
  <2>1. /\ Deleted(o) /\ Followed(o)
        /\ outlived' = outlived \cup {r \in Runs : runs[r].live /\ Reaches(o, runs[r].at)}
    BY <1>1, <1>7, CompleteFacts
  <2>2. \A r \in Runs : runs[r] \in Run
    BY <1>1 DEF TypeOK, Runs
  <2>3. \A r \in Runs : runs'[r].live => r \in outlived' \/ runs'[r].row = "running"
    BY <1>1, <2>1, <2>2 DEF Deleted, RunsDeleted, Run
  <2>4. \A r \in Runs' \ Runs : runs'[r].live => runs'[r].row = "running"
    BY <1>1, <2>1 DEF Followed, NewRuns, Runs
  <2> QED
    BY <2>3, <2>4 DEF LiveRows
<1>8. ASSUME NEW c \in Client, NEW kind \in {"withdraw", "edit", "regenerate"}, NEW u \in Users,
             Request(c, [kind |-> kind, msg |-> u])
      PROVE  LiveRows'
  <2> DEFINE o == [kind |-> kind, msg |-> u]
  <2>1. Asking(o)
    BY DEF Asking, Op, Users
  <2>2. CASE Running(o) = {}
    BY <1>7, <1>8, <2>1, <2>2 DEF Request
  <2>3. CASE Running(o) # {}
    <3>1. /\ Len(runs') = Len(runs) /\ outlived' = outlived
          /\ \A r \in Runs : runs'[r].live = runs[r].live /\ runs'[r].row = runs[r].row
      BY <1>8, <2>3, WaitGrows DEF Request, history
    <3> QED
      BY <1>1, <3>1 DEF LiveRows, Runs
  <2> QED
    BY <2>2, <2>3
<1>9. ASSUME NEW c \in Client, Expire(c) PROVE LiveRows'
  BY <1>7, <1>9, PendingAsks DEF Expire
<1> QED
  BY <1>2, <1>3, <1>4, <1>5, <1>6, <1>8, <1>9 DEF Next, Asks

LEMMA HistoryHolds == Spec => [](Rows /\ History)
<1>1. Init => History
  <2> SUFFICES ASSUME Init PROVE History
    OBVIOUS
  <2>1. Runs = {} /\ Users = {} /\ gone = {}
    BY EmptySeq DEF Init, Runs, Users
  <2> QED
    BY <2>1 DEF History, WithdrawnIsGone, Superseded, LiveRows
<1>2. Rows /\ History /\ [Next]_vars => History'
  <2> SUFFICES ASSUME Rows, History, [Next]_vars PROVE History'
    OBVIOUS
  <2>1. LiveRows
    BY DEF History
  <2>2. LiveRows'
    BY <2>1, LiveRowsStep
  <2>3. WithdrawnIsGone' /\ Superseded'
    BY HistoryStep
  <2> QED
    BY <2>2, <2>3 DEF History
<1> QED
  BY <1>1, <1>2, RowsInit, RowsStep, PTL DEF Spec

(* A withdrawn message stays away, and whatever answers a message that is  *)
(* deleted is over with all its messages deleted, but for a run that was   *)
(* live when a deletion reached it and one that found the message gone:    *)
(* for any timing of the requests, of the runs and of the wait of 500 ms,  *)
(* any number of responders and any restarts.                              *)
THEOREM WithdrawnForGood == Spec => []WithdrawnIsGone
<1>1. Rows /\ History => WithdrawnIsGone
  BY DEF History
<1> QED
  BY <1>1, HistoryHolds, PTL

(* The messages that answer a user message are those of the runs of one    *)
(* request, but for the messages of runs that were live when a deletion    *)
(* reached them.                                                           *)
THEOREM AnsweredOnce == Spec => []OneAnswer
<1>1. Rows /\ History => OneAnswer
  <2> SUFFICES ASSUME Rows, Superseded, NEW p \in posts, NEW q \in posts,
                      runs[p.of].to = runs[q.of].to, runs[p.of].batch < runs[q.of].batch,
                      InReach(p.of)
               PROVE  p.of \in outlived
    BY DEF History, OneAnswer
  <2>1. p.of \in Runs /\ q.of \in Runs
    BY DEF Rows, Refs
  <2>2. p.of \in outlived \/ LeavesNothing(p.of)
    BY <2>1 DEF Superseded
  <2> QED
    BY <2>2 DEF LeavesNothing
<1> QED
  BY <1>1, HistoryHolds, PTL
===============================================================================
