----------------------------- MODULE TaskQueueProofs -----------------------------
(***************************************************************************)
(* Proofs about TaskQueue: for any calls, nodes, items, plans and          *)
(* resources, under any interleaving, expiry and restart, no resource has  *)
(* two lock rows, every row has an owner that is at work, and two workers  *)
(* drive one resource only when a lock ran out under one of them.          *)
(***************************************************************************)
EXTENDS TaskQueue, FiniteSetTheorems, SequenceTheorems, TLAPS

ItemRow == [status : ItemStatus, plan : Plan \cup {NoPlan}, need : SUBSET Resource]
JobRow == [state : {"idle", "next", "busy"}, list : Seq(Item),
           need : SUBSET Resource, plan : Plan \cup {NoPlan}, late : BOOLEAN]

(* A call that is at work has items left; a node never has a list.         *)
ListsOK == \A w \in Worker : /\ job[w].state = "next" => w \in Call
                             /\ w \in Call /\ job[w].state # "idle" => job[w].list # <<>>

(* Whoever executes and is not late has a row for each of its resources.   *)
LocksHeld ==
  \A w \in Worker : Busy(w) /\ ~job[w].late =>
    \A r \in job[w].need : [res |-> r, by |-> w, due |-> FALSE] \in held

LockInv == LockExclusive /\ LocksReturned /\ LocksHeld
IInv == TypeOK /\ ListsOK /\ LockInv
-------------------------------------------------------------------------------
(* Types.                                                                  *)
LEMMA NoJobTyped == NoJob \in JobRow
BY DEF NoJob, JobRow

LEMMA RestTyped ==
  ASSUME TypeOK, ListsOK, NEW c \in Call, job[c].state # "idle"
  PROVE  /\ Head(job[c].list) \in Item
         /\ Rest(c) \in [Worker -> JobRow]
         /\ Rest(c)[c].state \in {"idle", "next"}
         /\ Rest(c)[c].state = "next" => Rest(c)[c].list # <<>>
         /\ \A w \in Worker \ {c} : Rest(c)[w] = job[w]
<1>1. c \in Worker /\ job \in [Worker -> JobRow]
  BY QueueAssumption DEF TypeOK, JobRow
<1>2. job[c].list \in Seq(Item) /\ job[c].list # <<>>
  BY <1>1 DEF ListsOK, JobRow
<1>3. Head(job[c].list) \in Item /\ Tail(job[c].list) \in Seq(Item)
  BY <1>2
<1>4. Len(job[c].list) # 1 => Tail(job[c].list) # <<>>
  <2>1. Len(job[c].list) \in Nat \ {0}
    BY <1>2, EmptySeq, LenProperties
  <2>2. Len(Tail(job[c].list)) = Len(job[c].list) - 1
    BY <1>2, HeadTailProperties
  <2>3. Tail(job[c].list) = <<>> => Len(Tail(job[c].list)) = 0
    <3>1. Len(<<>>) = 0
      BY EmptySeq
    <3> QED
      BY <3>1
  <2> QED
    BY <2>1, <2>2, <2>3
<1>5. [NoJob EXCEPT !.state = "next", !.list = Tail(job[c].list)] \in JobRow
  BY <1>3 DEF NoJob, JobRow
<1> QED
  BY <1>1, <1>3, <1>4, <1>5, NoJobTyped DEF Rest, NoJob

LEMMA InitInv == Init => IInv
<1> SUFFICES ASSUME Init PROVE IInv
  OBVIOUS
<1>1. TypeOK
  BY QueueAssumption, NoJobTyped
     DEF Init, LockInit, TypeOK, NoRow, ItemStatus, PlanStatus, JobRow
<1>2. ListsOK /\ LockInv
  BY DEF Init, LockInit, ListsOK, LockInv, LockExclusive, LocksReturned, LocksHeld, NoJob, Busy
<1> QED
  BY <1>1, <1>2 DEF IInv

(* The rows of the lock table.                                             *)
LEMMA LocksTyped ==
  ASSUME held \subseteq Row, NEW w \in Worker, NEW need \in SUBSET Resource
  PROVE  /\ Live \subseteq Row
         /\ Acquire(w, need) => held' \subseteq Row
         /\ Refuse(w, need) => held' \subseteq Row
         /\ GivenBack(need) => held' \subseteq Row
         /\ Release(w) => held' \subseteq Row
<1>1. Live \subseteq Row
  BY DEF Live
<1>2. RowsOf(w, need) \subseteq Row
  <2>1. ASSUME NEW r \in need PROVE [res |-> r, by |-> w, due |-> FALSE] \in Row
    BY DEF Row
  <2> QED
    BY <2>1 DEF RowsOf
<1> QED
  BY <1>1, <1>2 DEF Acquire, Refuse, GivenBack, Release

(* What a request leaves of the locks of the others, and what it gets.     *)
LEMMA AcquireLocks ==
  ASSUME LockExclusive, NEW w \in Worker, NEW need \in SUBSET Resource, Acquire(w, need),
         held \subseteq Row
  PROVE  /\ LockExclusive'
         /\ \A l \in held' : l \in held \/ (l.by = w /\ l.res \in need)
         /\ \A l \in held : ~l.due => l \in held'
         /\ \A r \in need : [res |-> r, by |-> w, due |-> FALSE] \in held'
<1>1. CASE need = {}
  BY <1>1 DEF Acquire, LockExclusive
<1>2. CASE need # {}
  <2>1. held' = Live \cup RowsOf(w, need)
    BY <1>2 DEF Acquire
  <2>2. \A l \in RowsOf(w, need) : l.by = w /\ l.res \in need
    BY DEF RowsOf
  <2>3. ASSUME NEW l \in RowsOf(w, need), NEW m \in RowsOf(w, need), l.res = m.res
        PROVE  l = m
    <3>1. PICK r \in need : l = [res |-> r, by |-> w, due |-> FALSE]
      BY DEF RowsOf
    <3>2. PICK q \in need : m = [res |-> q, by |-> w, due |-> FALSE]
      BY DEF RowsOf
    <3>3. l.res = r /\ m.res = q
      BY <3>1, <3>2
    <3> QED
      BY <2>3, <3>1, <3>2, <3>3
  <2>4. \A l \in Live, m \in RowsOf(w, need) : l.res # m.res
    BY <2>2 DEF Acquire, Taken
  <2>5. \A r \in need : [res |-> r, by |-> w, due |-> FALSE] \in RowsOf(w, need)
    BY DEF RowsOf
  <2> QED
    BY <2>1, <2>2, <2>3, <2>4, <2>5 DEF LockExclusive, Live
<1> QED
  BY <1>1, <1>2
-------------------------------------------------------------------------------
(* The types are kept: one step for each action.                           *)
LEMMA TypeStep == TypeOK /\ ListsOK /\ [Next]_vars => TypeOK' /\ ListsOK'
<1> SUFFICES ASSUME TypeOK, ListsOK, [Next]_vars PROVE TypeOK' /\ ListsOK'
  OBVIOUS
<1> USE DEF JobRow, ItemRow
<1>0. /\ held \subseteq Row /\ items \in [Item -> ItemRow] /\ plans \in [Plan -> PlanStatus]
      /\ job \in [Worker -> JobRow] /\ crashes \in 0..MaxCrashes
  BY DEF TypeOK
<1>m. ASSUME NEW i \in Item, NEW st \in ItemStatus PROVE Mark(i, st) \in [Item -> ItemRow]
  <2>1. [items[i] EXCEPT !.status = st] \in ItemRow
    BY <1>0
  <2> QED
    BY <1>0, <2>1 DEF Mark
<1>q. \A p \in Plan \cup {NoPlan}, n \in SUBSET Resource : Queued(p, n) \in ItemRow
  BY DEF Queued, ItemStatus
<1>c. Call \subseteq Worker /\ Need \subseteq SUBSET Resource
  BY QueueAssumption
<1>1. ASSUME NEW i \in Item, NEW p \in Plan \cup {NoPlan}, NEW n \in Need, Enqueue(i, p, n)
      PROVE  TypeOK' /\ ListsOK'
  BY <1>0, <1>q, <1>c, <1>1 DEF Enqueue, TypeOK, ListsOK
<1>2. ASSUME NEW S \in SUBSET Plan, Scan(S) PROVE TypeOK' /\ ListsOK'
  <2>1. PICK at \in [S -> {i \in Item : items[i] = NoRow}] :
          items' = [i \in Item |-> IF \E p \in S : at[p] = i
                                   THEN Queued(CHOOSE p \in S : at[p] = i, {}) ELSE items[i]]
    BY <1>2 DEF Scan
  <2>2. items' \in [Item -> ItemRow]
    <3>1. ASSUME NEW i \in Item, \E p \in S : at[p] = i
          PROVE  Queued(CHOOSE p \in S : at[p] = i, {}) \in ItemRow
      <4>1. (CHOOSE p \in S : at[p] = i) \in Plan
        BY <3>1
      <4> QED
        BY <4>1, <1>q
    <3> QED
      BY <1>0, <2>1, <3>1
  <2> QED
    BY <1>0, <1>2, <2>2 DEF Scan, TypeOK, ListsOK
<1>3. ASSUME NEW i \in Item, Cancel(i) PROVE TypeOK' /\ ListsOK'
  BY <1>0, <1>m, <1>3 DEF Cancel, TypeOK, ListsOK, ItemStatus
<1>4. ASSUME NEW p \in Plan, NEW st \in {"open", "canceled", "completed"}, SetPlan(p, st)
      PROVE  TypeOK' /\ ListsOK'
  BY <1>0, <1>4 DEF SetPlan, TypeOK, ListsOK, PlanStatus
<1>5. ASSUME NEW c \in Call, Process(c) PROVE TypeOK' /\ ListsOK'
  <2>1. Cardinality(With("running")) \in Nat
    BY QueueAssumption, FS_Subset, FS_CardinalityType DEF With
  <2>2. PICK n \in 1..(Limit - Cardinality(With("running"))) :
          \E s \in [1..n -> With("queued")] :
            job' = [job EXCEPT ![c] = [NoJob EXCEPT !.state = "next", !.list = s]]
    BY <1>5 DEF Process
  <2>3. PICK s \in [1..n -> With("queued")] :
          job' = [job EXCEPT ![c] = [NoJob EXCEPT !.state = "next", !.list = s]]
    BY <2>2
  <2>4. n \in Nat \ {0}
    BY <2>1, <2>2, QueueAssumption
  <2>5. s \in Seq(Item) /\ Len(s) = n
    <3>1. s \in [1..n -> Item]
      BY <2>3 DEF With
    <3> QED
      BY <3>1, <2>4, IsASeq, LenProperties
  <2>6. s # <<>>
    BY <2>4, <2>5, EmptySeq
  <2>7. [NoJob EXCEPT !.state = "next", !.list = s] \in JobRow
    BY <2>5 DEF NoJob
  <2>8. job' \in [Worker -> JobRow]
    BY <1>0, <2>3, <2>7
  <2>9. ListsOK'
    BY <1>0, <1>c, <2>3, <2>6 DEF ListsOK, NoJob
  <2> QED
    BY <1>0, <1>5, <2>8, <2>9 DEF Process, TypeOK
<1>6. ASSUME NEW c \in Call, NextItem(c) PROVE TypeOK' /\ ListsOK'
  <2> DEFINE i == Head(job[c].list)
  <2>1. /\ job[c].state = "next" /\ c \in Worker
        /\ i \in Item /\ items[i].need \in SUBSET Resource
        /\ items[i].plan \in Plan \cup {NoPlan}
    BY <1>0, <1>c, <1>6, RestTyped DEF NextItem
  <2>2. CASE Take(c, i)
    <3>1. job' \in [Worker -> JobRow]
      <4>1. job[c] \in JobRow
        BY <1>0, <2>1
      <4>2. [job[c] EXCEPT !.state = "busy", !.need = items[i].need, !.plan = items[i].plan]
              \in JobRow
        BY <2>1, <4>1
      <4> QED
        BY <1>0, <2>2, <4>2 DEF Take
    <3>2. plans' \in [Plan -> PlanStatus]
      BY <1>0, <2>2 DEF Take, PlanStatus
    <3>3. ListsOK'
      BY <1>0, <2>1, <2>2 DEF Take, ListsOK
    <3>4. held' \subseteq Row /\ items' \in [Item -> ItemRow]
      BY <1>0, <1>m, <2>1, <2>2, LocksTyped DEF Take, ItemStatus
    <3> QED
      BY <1>0, <1>6, <3>1, <3>2, <3>3, <3>4 DEF NextItem, TypeOK
  <2>3. CASE TakeFails(c, i)
    <3>1. job' \in [Worker -> JobRow] /\ ListsOK'
      <4>1. job' = Rest(c) /\ job[c].state # "idle"
        BY <2>1, <2>3 DEF TakeFails
      <4> QED
        BY <4>1, RestTyped DEF ListsOK
    <3>2. plans' \in [Plan -> PlanStatus]
      BY <1>0, <2>3 DEF TakeFails, PlanStatus
    <3>3. held' \subseteq Row /\ items' \in [Item -> ItemRow]
      BY <1>0, <1>m, <2>1, <2>3, LocksTyped DEF TakeFails, FailedRow, ItemStatus
    <3> QED
      BY <1>0, <1>6, <3>1, <3>2, <3>3 DEF NextItem, TypeOK
  <2> QED
    BY <1>6, <2>2, <2>3 DEF NextItem
<1>7. ASSUME NEW c \in Call, NEW ok \in BOOLEAN, Finish(c, ok) PROVE TypeOK' /\ ListsOK'
  <2>1. job[c].state # "idle" /\ c \in Worker
    BY <1>c, <1>7 DEF Finish, Busy
  <2>2. job' \in [Worker -> JobRow] /\ ListsOK'
    <3>1. job' = Rest(c)
      BY <1>7 DEF Finish
    <3> QED
      BY <2>1, <3>1, RestTyped DEF ListsOK
  <2>3. items' \in [Item -> ItemRow]
    BY <1>m, <1>7, <2>1, RestTyped DEF Finish, ItemStatus
  <2>4. plans' \in [Plan -> PlanStatus] /\ held' \subseteq Row
    BY <1>0, <1>7 DEF Finish, PlanAfter, PlanStatus, Release
  <2> QED
    BY <1>0, <1>7, <2>2, <2>3, <2>4 DEF Finish, TypeOK
<1>8. ASSUME NEW w \in Node, EndNode(w) PROVE TypeOK' /\ ListsOK'
  BY <1>0, <1>8, NoJobTyped DEF EndNode, Node, TypeOK, ListsOK, Release, NoJob
<1>9. ASSUME NEW w \in Node, NEW n \in Need, StartNode(w, n) PROVE TypeOK' /\ ListsOK'
  <2>1. w \in Worker /\ w \notin Call /\ n \in SUBSET Resource
    BY <1>c DEF Node
  <2>2. held' \subseteq Row
    BY <1>0, <1>9, <2>1, LocksTyped DEF StartNode
  <2>3. job' \in [Worker -> JobRow] /\ ListsOK'
    <3>1. CASE UNCHANGED job
      BY <1>0, <3>1 DEF ListsOK
    <3>2. CASE job' = [job EXCEPT ![w] = [@ EXCEPT !.state = "busy", !.need = n]]
      <4>1. [job[w] EXCEPT !.state = "busy", !.need = n] \in JobRow
        BY <1>0, <2>1
      <4>2. job'[w].state = "busy" /\ \A v \in Worker \ {w} : job'[v] = job[v]
        BY <1>0, <2>1, <3>2
      <4> QED
        BY <1>0, <2>1, <3>2, <4>1, <4>2 DEF ListsOK
    <3> QED
      BY <1>9, <3>1, <3>2 DEF StartNode
  <2> QED
    BY <1>0, <1>9, <2>2, <2>3 DEF StartNode, TypeOK
<1>10. ASSUME NEW l \in held, Expire(l) PROVE TypeOK' /\ ListsOK'
  <2>1. l \in Row /\ (l.by # Nobody => l.by \in Worker)
    BY <1>0 DEF Row
  <2>2. held' \subseteq Row
    BY <1>0, <1>10, <2>1 DEF Expire, Elapse, Row
  <2>3. job' \in [Worker -> JobRow] /\ ListsOK'
    <3>1. CASE l.by = Nobody
      BY <1>0, <1>10, <3>1 DEF Expire, ListsOK
    <3>2. CASE l.by # Nobody
      <4>1. job' = [job EXCEPT ![l.by] = [@ EXCEPT !.late = TRUE]]
        BY <1>10, <3>2 DEF Expire
      <4>2. [job[l.by] EXCEPT !.late = TRUE] \in JobRow
        BY <1>0, <2>1, <3>2
      <4>3. \A w \in Worker : job'[w].state = job[w].state /\ job'[w].list = job[w].list
        BY <1>0, <4>1
      <4> QED
        BY <1>0, <2>1, <3>2, <4>1, <4>2, <4>3 DEF ListsOK
    <3> QED
      BY <3>1, <3>2
  <2> QED
    BY <1>0, <1>10, <2>2, <2>3 DEF Expire, TypeOK
<1>11. CASE Crash
  <2>1. held' \subseteq Row
    BY <1>0, <1>11 DEF Crash, Lose, Row
  <2>2. crashes' \in 0..MaxCrashes
    BY <1>0, <1>11, QueueAssumption DEF Crash
  <2> QED
    BY <1>0, <1>11, <2>1, <2>2, NoJobTyped DEF Crash, TypeOK, ListsOK, NoJob
<1>12. CASE UNCHANGED vars
  BY <1>12 DEF vars, TypeOK, ListsOK
<1> QED
  BY <1>1, <1>2, <1>3, <1>4, <1>5, <1>6, <1>7, <1>8, <1>9, <1>10, <1>11, <1>12 DEF Next
-------------------------------------------------------------------------------
(* The locks: what each operation of the table leaves behind.              *)
LEMMA SameLocks ==
  ASSUME LockInv, held \subseteq Row, held' = held \/ held' = Live,
         \A w \in Worker : Busy(w) => job'[w] = job[w],
         \A w \in Worker : Busy(w)' => Busy(w)
  PROVE  LockInv'
<1>1. held' \subseteq held /\ \A l \in held : ~l.due => l \in held'
  BY DEF Live
<1>2. LockExclusive'
  BY <1>1 DEF LockInv, LockExclusive
<1>3. LocksReturned'
  <2> SUFFICES ASSUME NEW l \in held, l.by # Nobody
               PROVE  Busy(l.by)' /\ l.res \in job'[l.by].need
    BY <1>1 DEF LocksReturned
  <2>1. Busy(l.by) /\ l.res \in job[l.by].need /\ l.by \in Worker
    BY DEF LockInv, LocksReturned, Row
  <2> QED
    BY <2>1 DEF Busy
<1>4. LocksHeld'
  <2> SUFFICES ASSUME NEW w \in Worker, Busy(w)', ~job'[w].late, NEW r \in job'[w].need
               PROVE  [res |-> r, by |-> w, due |-> FALSE] \in held'
    BY DEF LocksHeld
  <2>1. [res |-> r, by |-> w, due |-> FALSE] \in held
    BY DEF LockInv, LocksHeld
  <2> QED
    BY <1>1, <2>1
<1> QED
  BY <1>2, <1>3, <1>4 DEF LockInv

LEMMA ReleaseLocks ==
  ASSUME LockInv, held \subseteq Row, NEW w \in Worker, Release(w), ~Busy(w)',
         \A v \in Worker \ {w} : job'[v] = job[v]
  PROVE  LockInv'
<1>1. held' = {l \in held : l.by # w}
  BY DEF Release
<1>2. LockExclusive'
  BY <1>1 DEF LockInv, LockExclusive
<1>3. LocksReturned'
  <2> SUFFICES ASSUME NEW l \in held, l.by # w, l.by # Nobody
               PROVE  Busy(l.by)' /\ l.res \in job'[l.by].need
    BY <1>1 DEF LocksReturned
  <2>1. Busy(l.by) /\ l.res \in job[l.by].need /\ l.by \in Worker
    BY DEF LockInv, LocksReturned, Row
  <2> QED
    BY <2>1 DEF Busy
<1>4. LocksHeld'
  <2> SUFFICES ASSUME NEW v \in Worker, Busy(v)', ~job'[v].late, NEW r \in job'[v].need
               PROVE  [res |-> r, by |-> v, due |-> FALSE] \in held'
    BY DEF LocksHeld
  <2>1. v # w /\ job'[v] = job[v]
    OBVIOUS
  <2>2. [res |-> r, by |-> v, due |-> FALSE] \in held
    BY <2>1 DEF LockInv, LocksHeld, Busy
  <2> QED
    BY <1>1, <2>1, <2>2
<1> QED
  BY <1>2, <1>3, <1>4 DEF LockInv

LEMMA TakeLocks ==
  ASSUME LockInv, held \subseteq Row, NEW w \in Worker, ~Busy(w),
         NEW need \in SUBSET Resource, Acquire(w, need),
         job'[w].state = "busy", job'[w].need = need,
         \A v \in Worker \ {w} : job'[v] = job[v]
  PROVE  LockInv'
<1>1. /\ LockExclusive'
      /\ \A l \in held' : l \in held \/ (l.by = w /\ l.res \in need)
      /\ \A l \in held : ~l.due => l \in held'
      /\ \A r \in need : [res |-> r, by |-> w, due |-> FALSE] \in held'
  BY AcquireLocks DEF LockInv
<1>2. LocksReturned'
  <2> SUFFICES ASSUME NEW l \in held', l.by # Nobody
               PROVE  Busy(l.by)' /\ l.res \in job'[l.by].need
    BY DEF LocksReturned
  <2>1. CASE l.by = w /\ l.res \in need
    BY <2>1 DEF Busy
  <2>2. CASE l \in held
    <3>1. Busy(l.by) /\ l.res \in job[l.by].need
      BY <2>2 DEF LockInv, LocksReturned
    <3>2. l.by \in Worker \ {w}
      BY <2>2, <3>1 DEF Row
    <3> QED
      BY <3>1, <3>2 DEF Busy
  <2> QED
    BY <1>1, <2>1, <2>2
<1>3. LocksHeld'
  <2> SUFFICES ASSUME NEW v \in Worker, Busy(v)', ~job'[v].late, NEW r \in job'[v].need
               PROVE  [res |-> r, by |-> v, due |-> FALSE] \in held'
    BY DEF LocksHeld
  <2>1. CASE v = w
    BY <1>1, <2>1
  <2>2. CASE v # w
    <3>1. [res |-> r, by |-> v, due |-> FALSE] \in held
      BY <2>2 DEF LockInv, LocksHeld, Busy
    <3> QED
      BY <1>1, <3>1
  <2> QED
    BY <2>1, <2>2
<1> QED
  BY <1>1, <1>2, <1>3 DEF LockInv

LEMMA ExpireLocks ==
  ASSUME TypeOK, LockInv, NEW l \in held, Expire(l)
  PROVE  LockInv'
<1> DEFINE overdue == [l EXCEPT !.due = TRUE]
<1>1. /\ l \in Row /\ ~l.due /\ held' = (held \ {l}) \cup {overdue}
      /\ job \in [Worker -> JobRow]
  BY DEF Expire, Elapse, TypeOK, JobRow
<1>2. overdue.res = l.res /\ overdue.by = l.by /\ overdue.due
  BY <1>1 DEF Row
<1>3. \A w \in Worker : /\ job'[w].state = job[w].state /\ job'[w].need = job[w].need
                        /\ job'[w].late = (job[w].late \/ w = l.by)
  BY <1>1, WorkerAssumption DEF Expire, JobRow
<1>4. LockExclusive'
  <2>1. \A k, m \in held : k.res = m.res => k = m
    BY DEF LockInv, LockExclusive
  <2>2. \A k \in held \ {l} : k.res # overdue.res
    BY <1>2, <2>1
  <2> HIDE DEF overdue
  <2> QED
    BY <1>1, <2>1, <2>2 DEF LockExclusive
<1>5. LocksReturned'
  <2> SUFFICES ASSUME NEW k \in held', k.by # Nobody
               PROVE  Busy(k.by)' /\ k.res \in job'[k.by].need
    BY DEF LocksReturned
  <2>1. PICK m \in held : m.by = k.by /\ m.res = k.res
    BY <1>1, <1>2
  <2>2. Busy(m.by) /\ m.res \in job[m.by].need /\ m.by \in Worker
    BY <2>1 DEF LockInv, LocksReturned, TypeOK, Row
  <2> QED
    BY <1>3, <2>1, <2>2 DEF Busy
<1>6. LocksHeld'
  <2> SUFFICES ASSUME NEW w \in Worker, Busy(w)', ~job'[w].late, NEW r \in job'[w].need
               PROVE  [res |-> r, by |-> w, due |-> FALSE] \in held'
    BY DEF LocksHeld
  <2>1. w # l.by /\ [res |-> r, by |-> w, due |-> FALSE] \in held
    BY <1>3 DEF LockInv, LocksHeld, Busy
  <2>2. [res |-> r, by |-> w, due |-> FALSE] # l
    BY <2>1
  <2> QED
    BY <1>1, <2>1, <2>2
<1> QED
  BY <1>4, <1>5, <1>6 DEF LockInv

LEMMA CrashLocks ==
  ASSUME LockInv, Crash, held \subseteq Row PROVE LockInv'
<1>1. held' = {[l EXCEPT !.by = Nobody] : l \in held} /\ \A w \in Worker : ~Busy(w)'
  BY DEF Crash, Lose, Busy, NoJob
<1>2. \A l \in held : [l EXCEPT !.by = Nobody].res = l.res /\ [l EXCEPT !.by = Nobody].by = Nobody
  BY DEF Row
<1>3. LockExclusive'
  <2> SUFFICES ASSUME NEW k \in held', NEW m \in held', k.res = m.res PROVE k = m
    BY DEF LockExclusive
  <2>1. PICK a \in held : k = [a EXCEPT !.by = Nobody]
    BY <1>1
  <2>2. PICK b \in held : m = [b EXCEPT !.by = Nobody]
    BY <1>1
  <2>3. a = b
    BY <1>2, <2>1, <2>2 DEF LockInv, LockExclusive
  <2> QED
    BY <2>1, <2>2, <2>3
<1>4. LocksReturned' /\ LocksHeld'
  BY <1>1, <1>2 DEF LocksReturned, LocksHeld
<1> QED
  BY <1>3, <1>4 DEF LockInv
-------------------------------------------------------------------------------
(* Every step keeps the locks in order.                                    *)
LEMMA LockStep == IInv /\ [Next]_vars => LockInv'
<1> SUFFICES ASSUME IInv, [Next]_vars PROVE LockInv'
  OBVIOUS
<1>0. /\ TypeOK /\ ListsOK /\ LockInv /\ held \subseteq Row
      /\ items \in [Item -> ItemRow] /\ job \in [Worker -> JobRow]
      /\ Call \subseteq Worker /\ Need \subseteq SUBSET Resource
  BY QueueAssumption DEF IInv, TypeOK, ItemRow, JobRow
<1>1. ASSUME UNCHANGED <<held, job>> PROVE LockInv'
  BY <1>0, <1>1, SameLocks DEF Busy
<1>2. ASSUME NEW c \in Call, Process(c) PROVE LockInv'
  <2>1. held' = held /\ ~Busy(c) /\ job'[c].state = "next"
        /\ \A w \in Worker \ {c} : job'[w] = job[w]
    BY <1>0, <1>2 DEF Process, Busy, NoJob
  <2> QED
    BY <1>0, <2>1, SameLocks DEF Busy
<1>3. ASSUME NEW c \in Call, NextItem(c) PROVE LockInv'
  <2> DEFINE i == Head(job[c].list)
  <2>1. c \in Worker /\ ~Busy(c) /\ job[c].state # "idle"
    BY <1>0, <1>3 DEF NextItem, Busy
  <2>2. i \in Item /\ items[i].need \in SUBSET Resource
    BY <1>0, <2>1, RestTyped DEF ItemRow
  <2>3. CASE Take(c, i)
    <3>1. /\ job'[c].state = "busy" /\ job'[c].need = items[i].need
          /\ \A w \in Worker \ {c} : job'[w] = job[w]
      BY <1>0, <2>1, <2>3 DEF Take, JobRow
    <3>2. Acquire(c, items[i].need)
      BY <2>3 DEF Take
    <3> QED
      BY <1>0, <2>1, <2>2, <3>1, <3>2, TakeLocks
  <2>4. CASE TakeFails(c, i)
    <3>1. held' = held \/ held' = Live
      BY <2>4 DEF TakeFails, Refuse, GivenBack
    <3>2. job' = Rest(c)
      BY <2>4 DEF TakeFails
    <3>3. ~Busy(c)' /\ \A w \in Worker \ {c} : job'[w] = job[w]
      BY <1>0, <2>1, <3>2, RestTyped DEF Busy
    <3> QED
      BY <1>0, <2>1, <3>1, <3>3, SameLocks DEF Busy
  <2> QED
    BY <1>3, <2>3, <2>4 DEF NextItem
<1>4. ASSUME NEW c \in Call, NEW ok \in BOOLEAN, Finish(c, ok) PROVE LockInv'
  <2>1. c \in Worker /\ job[c].state # "idle" /\ job' = Rest(c) /\ Release(c)
    BY <1>0, <1>4 DEF Finish, Busy
  <2>2. ~Busy(c)' /\ \A w \in Worker \ {c} : job'[w] = job[w]
    BY <1>0, <2>1, RestTyped DEF Busy
  <2> QED
    BY <1>0, <2>1, <2>2, ReleaseLocks
<1>5. ASSUME NEW w \in Node, EndNode(w) PROVE LockInv'
  <2>1. w \in Worker /\ Release(w) /\ ~Busy(w)' /\ \A v \in Worker \ {w} : job'[v] = job[v]
    BY <1>0, <1>5 DEF EndNode, Node, Busy, NoJob
  <2> QED
    BY <1>0, <2>1, ReleaseLocks
<1>6. ASSUME NEW w \in Node, NEW n \in Need, StartNode(w, n) PROVE LockInv'
  <2>1. w \in Worker /\ n \in SUBSET Resource /\ ~Busy(w)
    BY <1>0, <1>6 DEF StartNode, Node, Busy, NoJob
  <2>2. CASE Acquire(w, n) /\ job' = [job EXCEPT ![w] = [@ EXCEPT !.state = "busy", !.need = n]]
    <3>1. /\ job'[w].state = "busy" /\ job'[w].need = n
          /\ \A v \in Worker \ {w} : job'[v] = job[v]
      BY <1>0, <2>1, <2>2 DEF JobRow
    <3> QED
      BY <1>0, <2>1, <2>2, <3>1, TakeLocks
  <2>3. CASE Refuse(w, n) /\ UNCHANGED job
    BY <1>0, <2>3, SameLocks DEF Refuse, Busy
  <2> QED
    BY <1>6, <2>2, <2>3 DEF StartNode
<1>7. ASSUME NEW l \in held, Expire(l) PROVE LockInv'
  BY <1>0, <1>7, ExpireLocks
<1>8. CASE Crash
  BY <1>0, <1>8, CrashLocks
<1>9. ASSUME NEW i \in Item, NEW p \in Plan \cup {NoPlan}, NEW n \in Need, Enqueue(i, p, n)
      PROVE  LockInv'
  BY <1>1, <1>9 DEF Enqueue
<1>10. ASSUME NEW S \in SUBSET Plan, Scan(S) PROVE LockInv'
  BY <1>1, <1>10 DEF Scan
<1>11. ASSUME NEW i \in Item, Cancel(i) PROVE LockInv'
  BY <1>1, <1>11 DEF Cancel
<1>12. ASSUME NEW p \in Plan, NEW st \in {"open", "canceled", "completed"}, SetPlan(p, st)
       PROVE  LockInv'
  BY <1>1, <1>12 DEF SetPlan
<1>13. CASE UNCHANGED vars
  BY <1>1, <1>13 DEF vars
<1> QED
  BY <1>2, <1>3, <1>4, <1>5, <1>6, <1>7, <1>8, <1>9, <1>10, <1>11, <1>12, <1>13 DEF Next

LEMMA Invariance == Spec => []IInv
<1>1. IInv /\ [Next]_vars => IInv'
  BY TypeStep, LockStep DEF IInv
<1> QED
  BY <1>1, InitInv, PTL DEF Spec
-------------------------------------------------------------------------------
(* The rows and plans: S are the calls that end an item in the step; a row *)
(* that runs was not theirs and ran before, or is one that a call has now. *)
LEMMA RowsKept ==
  ASSUME RowsSettle, crashes' = crashes, NEW S \in SUBSET Call,
         \A c \in Call \ S : Busy(c) => /\ Busy(c)' /\ job'[c].list = job[c].list
                                        /\ job'[c].plan = job[c].plan,
         \A i \in Item : items'[i].status = "running" =>
            \/ items[i].status = "running" /\ \A c \in S : Head(job[c].list) # i
            \/ \E c \in Call : Busy(c)' /\ Head(job'[c].list) = i,
         \A p \in Plan : plans'[p] = "in_progress" =>
            \/ plans[p] = "in_progress" /\ \A c \in S : job[c].plan # p
            \/ \E c \in Call : Busy(c)' /\ job'[c].plan = p
  PROVE  RowsSettle'
<1> SUFFICES ASSUME crashes = 0
             PROVE  /\ \A i \in Item : items'[i].status = "running" =>
                          \E c \in Call : Busy(c)' /\ Head(job'[c].list) = i
                    /\ \A p \in Plan : plans'[p] = "in_progress" =>
                          \E c \in Call : Busy(c)' /\ job'[c].plan = p
  BY DEF RowsSettle, With
<1>1. ASSUME NEW i \in Item, items'[i].status = "running"
      PROVE  \E c \in Call : Busy(c)' /\ Head(job'[c].list) = i
  <2> SUFFICES ASSUME items[i].status = "running", \A c \in S : Head(job[c].list) # i
               PROVE  \E c \in Call : Busy(c)' /\ Head(job'[c].list) = i
    BY <1>1
  <2>1. PICK c \in Call : Busy(c) /\ Head(job[c].list) = i
    BY DEF RowsSettle, With
  <2> QED
    BY <2>1
<1>2. ASSUME NEW p \in Plan, plans'[p] = "in_progress"
      PROVE  \E c \in Call : Busy(c)' /\ job'[c].plan = p
  <2> SUFFICES ASSUME plans[p] = "in_progress", \A c \in S : job[c].plan # p
               PROVE  \E c \in Call : Busy(c)' /\ job'[c].plan = p
    BY <1>2
  <2>1. PICK c \in Call : Busy(c) /\ job[c].plan = p
    BY DEF RowsSettle
  <2> QED
    BY <2>1
<1> QED
  BY <1>1, <1>2

LEMMA RowsStep == IInv /\ RowsSettle /\ [Next]_vars => RowsSettle'
<1> SUFFICES ASSUME IInv, RowsSettle, [Next]_vars PROVE RowsSettle'
  OBVIOUS
<1>0. /\ TypeOK /\ ListsOK
      /\ items \in [Item -> ItemRow] /\ job \in [Worker -> JobRow]
      /\ plans \in [Plan -> PlanStatus] /\ Call \subseteq Worker /\ NoPlan \notin Plan
  BY QueueAssumption DEF IInv, TypeOK, ItemRow, JobRow
<1>j. ASSUME crashes' = crashes,
             \A c \in Call : /\ job'[c].state = job[c].state /\ job'[c].list = job[c].list
                             /\ job'[c].plan = job[c].plan,
             \A i \in Item : items'[i].status = "running" => items[i].status = "running",
             \A p \in Plan : plans'[p] = "in_progress" => plans[p] = "in_progress"
      PROVE  RowsSettle'
  <2> DEFINE S == {}
  <2>1. S \in SUBSET Call
    OBVIOUS
  <2>2. \A c \in Call \ S : Busy(c) => /\ Busy(c)' /\ job'[c].list = job[c].list
                                       /\ job'[c].plan = job[c].plan
    BY <1>j DEF Busy
  <2>3. \A c \in S : FALSE
    OBVIOUS
  <2> HIDE DEF S
  <2> QED
    BY <1>j, <2>1, <2>2, <2>3, RowsKept
<1>k. ASSUME crashes' = crashes, NEW c \in Call, ~Busy(c), \A d \in Call \ {c} : job'[d] = job[d],
             \A i \in Item : items'[i].status = "running" =>
               items[i].status = "running" \/ (Busy(c)' /\ Head(job'[c].list) = i),
             \A p \in Plan : plans'[p] = "in_progress" =>
               plans[p] = "in_progress" \/ (Busy(c)' /\ job'[c].plan = p)
      PROVE  RowsSettle'
  <2> DEFINE S == {}
  <2>1. S \in SUBSET Call
    OBVIOUS
  <2>2. \A d \in Call \ S : Busy(d) => /\ Busy(d)' /\ job'[d].list = job[d].list
                                       /\ job'[d].plan = job[d].plan
    BY <1>k DEF Busy
  <2>3. \A d \in S : FALSE
    OBVIOUS
  <2> HIDE DEF S
  <2> QED
    BY <1>k, <2>1, <2>2, <2>3, RowsKept
<1>1. ASSUME NEW i \in Item, NEW p \in Plan \cup {NoPlan}, NEW n \in Need, Enqueue(i, p, n)
      PROVE  RowsSettle'
  <2>1. \A j \in Item : items'[j].status = "running" => items[j].status = "running"
    BY <1>0, <1>1 DEF Enqueue, Queued
  <2> QED
    BY <1>1, <1>j, <2>1 DEF Enqueue
<1>2. ASSUME NEW S \in SUBSET Plan, Scan(S) PROVE RowsSettle'
  <2>1. \A j \in Item : items'[j].status = "running" => items[j].status = "running"
    BY <1>0, <1>2 DEF Scan, Queued
  <2> QED
    BY <1>2, <1>j, <2>1 DEF Scan
<1>3. ASSUME NEW i \in Item, Cancel(i) PROVE RowsSettle'
  <2>1. \A j \in Item : items'[j].status = "running" => items[j].status = "running"
    BY <1>0, <1>3 DEF Cancel, Mark, ItemRow
  <2> QED
    BY <1>3, <1>j, <2>1 DEF Cancel
<1>4. ASSUME NEW p \in Plan, NEW st \in {"open", "canceled", "completed"}, SetPlan(p, st)
      PROVE  RowsSettle'
  <2>1. \A q \in Plan : plans'[q] = "in_progress" => plans[q] = "in_progress"
    BY <1>0, <1>4 DEF SetPlan
  <2> QED
    BY <1>4, <1>j, <2>1 DEF SetPlan
<1>5. ASSUME NEW c \in Call, Process(c) PROVE RowsSettle'
  <2>1. /\ ~Busy(c) /\ \A d \in Call \ {c} : job'[d] = job[d]
        /\ items' = items /\ plans' = plans /\ crashes' = crashes
    BY <1>0, <1>5 DEF Process, Busy, NoJob
  <2> QED
    BY <1>5, <1>k, <2>1
<1>6. ASSUME NEW c \in Call, NextItem(c) PROVE RowsSettle'
  <2> DEFINE i == Head(job[c].list)
  <2>1. ~Busy(c) /\ job[c].state # "idle" /\ crashes' = crashes /\ c \in Worker
    BY <1>0, <1>6 DEF NextItem, Busy
  <2>2. i \in Item /\ items[i] \in ItemRow
    BY <1>0, <2>1, RestTyped
  <2>3. CASE Take(c, i)
    <3>1. /\ job'[c].state = "busy" /\ job'[c].list = job[c].list
          /\ job'[c].plan = items[i].plan
          /\ \A d \in Call \ {c} : job'[d] = job[d]
      BY <1>0, <2>1, <2>3 DEF Take, JobRow
    <3>2. \A j \in Item : items'[j].status = "running" =>
             items[j].status = "running" \/ (Busy(c)' /\ Head(job'[c].list) = j)
      BY <1>0, <2>2, <2>3, <3>1 DEF Take, Mark, ItemRow, Busy
    <3>3. \A p \in Plan : plans'[p] = "in_progress" =>
             plans[p] = "in_progress" \/ (Busy(c)' /\ job'[c].plan = p)
      BY <1>0, <2>2, <2>3, <3>1 DEF Take, Busy, ItemRow
    <3> QED
      BY <1>k, <2>1, <3>1, <3>2, <3>3
  <2>4. CASE TakeFails(c, i)
    <3>1. job' = Rest(c)
      BY <2>4 DEF TakeFails
    <3>2. \A d \in Call \ {c} : job'[d] = job[d]
      BY <1>0, <2>1, <3>1, RestTyped
    <3>3. \A j \in Item : items'[j].status = "running" => items[j].status = "running"
      BY <1>0, <2>2, <2>4 DEF TakeFails, FailedRow, Mark, ItemRow
    <3>4. \A p \in Plan : plans'[p] = "in_progress" => plans[p] = "in_progress"
      BY <1>0, <2>4 DEF TakeFails
    <3> QED
      BY <1>k, <2>1, <3>2, <3>3, <3>4
  <2> QED
    BY <1>6, <2>3, <2>4 DEF NextItem
<1>7. ASSUME NEW c \in Call, NEW ok \in BOOLEAN, Finish(c, ok) PROVE RowsSettle'
  <2> DEFINE i == Head(job[c].list)
  <2>1. job[c].state # "idle" /\ job' = Rest(c) /\ crashes' = crashes
    BY <1>7 DEF Finish, Busy
  <2>2. i \in Item /\ \A d \in Call \ {c} : job'[d] = job[d]
    BY <1>0, <2>1, RestTyped
  <2>3. \A j \in Item : items'[j].status = "running" => items[j].status = "running" /\ j # i
    BY <1>0, <1>7, <2>2 DEF Finish, Mark, ItemRow
  <2>4. \A p \in Plan : plans'[p] = "in_progress" => plans[p] = "in_progress" /\ job[c].plan # p
    <3>1. plans' = PlanAfter(job[c].plan, ok)
      BY <1>7 DEF Finish
    <3> QED
      BY <1>0, <3>1 DEF PlanAfter
  <2> HIDE DEF i
  <2>5. \A d \in {c} : Head(job[d].list) = i /\ job[d].plan = job[c].plan
    BY DEF i
  <2> DEFINE S == {c}
  <2>6. S \in SUBSET Call
    OBVIOUS
  <2>7. \A d \in Call \ S : Busy(d) => /\ Busy(d)' /\ job'[d].list = job[d].list
                                       /\ job'[d].plan = job[d].plan
    BY <2>2 DEF Busy
  <2>8. /\ \A j \in Item : items'[j].status = "running" =>
             items[j].status = "running" /\ \A d \in S : Head(job[d].list) # j
        /\ \A p \in Plan : plans'[p] = "in_progress" =>
             plans[p] = "in_progress" /\ \A d \in S : job[d].plan # p
    BY <2>3, <2>4, <2>5
  <2> HIDE DEF S
  <2> QED
    BY <2>1, <2>6, <2>7, <2>8, RowsKept
<1>8. ASSUME NEW w \in Node, EndNode(w) PROVE RowsSettle'
  <2>1. \A c \in Call : job'[c] = job[c]
    BY <1>0, <1>8 DEF EndNode, Node
  <2> QED
    BY <1>8, <1>j, <2>1 DEF EndNode
<1>9. ASSUME NEW w \in Node, NEW n \in Need, StartNode(w, n) PROVE RowsSettle'
  <2>1. \A c \in Call : job'[c] = job[c]
    BY <1>0, <1>9 DEF StartNode, Node
  <2> QED
    BY <1>9, <1>j, <2>1 DEF StartNode
<1>10. ASSUME NEW l \in held, Expire(l) PROVE RowsSettle'
  <2>1. \A c \in Call : /\ job'[c].state = job[c].state /\ job'[c].list = job[c].list
                        /\ job'[c].plan = job[c].plan
    BY <1>0, <1>10 DEF Expire, JobRow
  <2> QED
    BY <1>10, <1>j, <2>1 DEF Expire
<1>11. CASE Crash
  <2>1. crashes' # 0
    BY <1>11, <1>0, QueueAssumption DEF Crash, TypeOK
  <2> QED
    BY <2>1 DEF RowsSettle
<1>12. CASE UNCHANGED vars
  BY <1>12, <1>j DEF vars
<1> QED
  BY <1>1, <1>2, <1>3, <1>4, <1>5, <1>6, <1>7, <1>8, <1>9, <1>10, <1>11, <1>12 DEF Next
-------------------------------------------------------------------------------
(* The state of the queue, the plans, the workers and the lock table stays *)
(* in its types.                                                           *)
THEOREM QueueTypes == Spec => []TypeOK
<1>1. IInv => TypeOK
  BY DEF IInv
<1> QED
  BY <1>1, Invariance, PTL

(* acquireResourceLock keeps one held row for each resource at most.       *)
THEOREM LocksAreExclusive == Spec => []LockExclusive
<1>1. IInv => LockExclusive
  BY DEF IInv, LockInv
<1> QED
  BY <1>1, Invariance, PTL

(* No way out of an execution keeps a lock, and none is left without an    *)
(* owner but by a restart.                                                 *)
THEOREM LocksComeBack == Spec => []LocksReturned
<1>1. IInv => LocksReturned
  BY DEF IInv, LockInv
<1> QED
  BY <1>1, Invariance, PTL

(* Items of a queue and nodes of workflows never drive one resource at the *)
(* same time, unless the time to live of a lock passed under one of them.  *)
THEOREM ExecutionsExclude == Spec => []ExecutionExclusive
<1>1. ASSUME IInv PROVE ExecutionExclusive
  <2> SUFFICES ASSUME NEW v \in Worker, NEW w \in Worker, v # w, Busy(v), Busy(w),
                      NEW r \in job[v].need \cap job[w].need, ~job[v].late, ~job[w].late
               PROVE  FALSE
    BY DEF ExecutionExclusive
  <2>1. /\ [res |-> r, by |-> v, due |-> FALSE] \in held
        /\ [res |-> r, by |-> w, due |-> FALSE] \in held
    BY <1>1 DEF IInv, LockInv, LocksHeld
  <2>2. [res |-> r, by |-> v, due |-> FALSE] = [res |-> r, by |-> w, due |-> FALSE]
    BY <1>1, <2>1 DEF IInv, LockInv, LockExclusive
  <2>3. [res |-> r, by |-> v, due |-> FALSE].by = [res |-> r, by |-> w, due |-> FALSE].by
    BY <2>2
  <2> QED
    BY <2>3
<1> QED
  BY <1>1, Invariance, PTL

(* Until a restart no row and no plan is left running, whatever fails or   *)
(* is canceled, edited or executed twice meanwhile.                        *)
THEOREM NothingLeftRunning == Spec => []RowsSettle
<1>1. Init => RowsSettle
  BY DEF Init, RowsSettle, With, NoRow
<1> QED
  BY <1>1, RowsStep, Invariance, PTL DEF Spec
===============================================================================
