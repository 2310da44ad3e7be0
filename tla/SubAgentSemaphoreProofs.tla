------------------------ MODULE SubAgentSemaphoreProofs ------------------------
(***************************************************************************)
(* Proofs about SubAgentSemaphore: for any number of tasks, runs and slots *)
(* the counter is exact, the limit holds and no wakeup is lost.            *)
(***************************************************************************)
EXTENDS SubAgentSemaphore, FiniteSetTheorems, FunctionTheorems, SequenceTheorems, TLAPS

(* The three state invariants together are inductive.                      *)
SemInv == SemTypeOK /\ SlotBound /\ NoIdleSlot

-------------------------------------------------------------------------------
(* Sequences without repetition.                                           *)

(* An initial segment of a sequence without repetition has as many         *)
(* elements as positions.                                                  *)
LEMMA PrefixCardinality ==
  ASSUME NEW X, NEW q \in Seq(X), Distinct(q), NEW k \in 0..Len(q)
  PROVE  /\ IsFiniteSet({q[i] : i \in 1..k})
         /\ Cardinality({q[i] : i \in 1..k}) = k
<1> DEFINE S == {q[i] : i \in 1..k}
           f == [i \in 1..k |-> q[i]]
<1>1. /\ IsFiniteSet(1..k)
      /\ Cardinality(1..k) = k
  BY FS_Interval
<1>2. f \in Bijection(1..k, S)
  <2>1. f \in [1..k -> S]
    OBVIOUS
  <2>2. \A i, j \in 1..k : f[i] = f[j] => i = j
    BY DEF Distinct
  <2>3. \A s \in S : \E i \in 1..k : f[i] = s
    OBVIOUS
  <2> QED
    BY <2>1, <2>2, <2>3, Fun_IsBij
<1>3. ExistsBijection(1..k, S)
  BY <1>2 DEF ExistsBijection
<1> QED
  BY <1>1, <1>3, FS_Bijection

(* Filtered(q, S) keeps exactly the elements of q that are in S, and       *)
(* repeats none that q does not repeat.                                    *)
LEMMA FilteredProperties ==
  ASSUME NEW X, NEW q \in Seq(X), NEW S, NEW r \in Filtered(q, S)
  PROVE  /\ r \in Seq(X)
         /\ {r[i] : i \in 1..Len(r)} = {q[i] : i \in 1..Len(q)} \cap S
         /\ Distinct(q) => Distinct(r)
<1> DEFINE keep == {i \in 1..Len(q) : q[i] \in S}
           n == Cardinality(keep)
<1>1. /\ IsFiniteSet(keep)
      /\ n \in Nat
  <2>1. IsFiniteSet(1..Len(q))
    BY FS_Interval
  <2>2. keep \in SUBSET (1..Len(q))
    OBVIOUS
  <2> QED
    BY <2>1, <2>2, FS_Subset, FS_CardinalityType
<1>2. PICK f \in [1..n -> keep] :
        /\ \A i, j \in 1..n : i < j => f[i] < f[j]
        /\ r = [i \in 1..n |-> q[f[i]]]
  BY DEF Filtered
<1>3. \A i, j \in 1..n : f[i] = f[j] => i = j
  <2> SUFFICES ASSUME NEW i \in 1..n, NEW j \in 1..n, f[i] = f[j]
               PROVE  i = j
    OBVIOUS
  <2>1. f[i] \in Int /\ f[j] \in Int
    BY <1>2
  <2>2. ~(i < j) /\ ~(j < i)
    BY <1>2, <2>1
  <2> QED
    BY <2>2, <1>1
<1>4. f \in Injection(1..n, keep)
  BY <1>3, Fun_IsInj
<1>5. \A k \in keep : \E i \in 1..n : f[i] = k
  <2>1. IsFiniteSet(1..n) /\ Cardinality(1..n) = n
    BY <1>1, FS_Interval
  <2>2. f \in Surjection(1..n, keep)
    BY <1>1, <1>4, <2>1, FS_Injection
  <2> QED
    BY <2>2 DEF Surjection
<1> HIDE DEF n
<1>6. r \in Seq(X) /\ Len(r) = n /\ \A i \in 1..n : r[i] = q[f[i]] /\ f[i] \in keep
  <2>1. \A i \in 1..n : q[f[i]] \in X
    BY <1>2
  <2> QED
    BY <1>1, <1>2, <2>1
<1>7. {r[i] : i \in 1..Len(r)} = {q[i] : i \in 1..Len(q)} \cap S
  <2>1. ASSUME NEW x \in {r[i] : i \in 1..Len(r)}
        PROVE  x \in {q[i] : i \in 1..Len(q)} \cap S
    BY <1>6, <2>1
  <2>2. ASSUME NEW x \in {q[i] : i \in 1..Len(q)} \cap S
        PROVE  x \in {r[i] : i \in 1..Len(r)}
    <3>1. PICK k \in keep : x = q[k]
      BY <2>2
    <3>2. PICK i \in 1..n : f[i] = k
      BY <1>5
    <3> QED
      BY <1>6, <3>1, <3>2
  <2> QED
    BY <2>1, <2>2
<1>8. ASSUME Distinct(q) PROVE Distinct(r)
  <2> SUFFICES ASSUME NEW i \in 1..n, NEW j \in 1..n, r[i] = r[j]
               PROVE  i = j
    BY <1>6 DEF Distinct
  <2>1. f[i] \in 1..Len(q) /\ f[j] \in 1..Len(q) /\ q[f[i]] = q[f[j]]
    BY <1>6
  <2>2. f[i] = f[j]
    BY <2>1, <1>8 DEF Distinct
  <2> QED
    BY <2>2, <1>3
<1> QED
  BY <1>6, <1>7, <1>8
-------------------------------------------------------------------------------
(* The invariant of the semaphore.                                         *)

LEMMA HoldersFinite == IsFiniteSet(Holders) /\ Cardinality(Holders) \in Nat
<1>1. Holders \in SUBSET Task
  BY DEF Holders
<1> QED
  BY <1>1, SemaphoreAssumption, FS_Subset, FS_CardinalityType

LEMMA SemInitInv == SemInit => SemInv
<1> SUFFICES ASSUME SemInit PROVE SemInv
  OBVIOUS
<1>1. SemTypeOK
  BY DEF SemInit, SemTypeOK, SlotState
<1>2. SlotBound
  <2>1. Holders = {}
    BY DEF SemInit, Holders
  <2> QED
    BY <2>1, FS_EmptySet, SemaphoreAssumption DEF SemInit, SlotBound
<1>3. NoIdleSlot
  BY DEF SemInit, NoIdleSlot, Distinct, Waiting
<1> QED
  BY <1>1, <1>2, <1>3 DEF SemInv

(* acquire(): the calls that are served take slots that were free, and     *)
(* somebody queues only when they took the last one.                       *)
LEMMA AcquireInv ==
  ASSUME SemInv, NEW calls \in Seq(Task), Distinct(calls), Acquire(calls)
  PROVE  SemInv'
<1> DEFINE free  == Limit - active
           taken == IF Len(calls) <= free THEN Len(calls) ELSE free
           rest  == SubSeq(calls, taken + 1, Len(calls))
           served == {calls[i] : i \in 1..taken}
<1> USE SemaphoreAssumption
<1>1. /\ active \in Nat /\ active <= Limit /\ Limit \in Nat
      /\ taken \in 0..Len(calls) /\ taken <= free
      /\ taken < Len(calls) => taken = free
  BY DEF SemInv, SemTypeOK, SlotBound
<1>2. /\ \A i \in 1..Len(calls) : slot[calls[i]] = "none" /\ ~Aborted(calls[i])
      /\ active' = active + taken
      /\ queue' = queue \o rest
      /\ slot' = [t \in Task |->
                    IF \E i \in 1..taken : calls[i] = t THEN "held"
                    ELSE IF \E i \in (taken + 1)..Len(calls) : calls[i] = t
                         THEN "waiting"
                         ELSE slot[t]]
      /\ aborted' = aborted
  BY DEF Acquire, Free
<1>3. rest \in Seq(Task)
  BY <1>1
<1>4. Len(rest) = Len(calls) - taken /\ \A i \in 1..Len(rest) : rest[i] = calls[taken + i]
  <2>1. taken + 1 \in 1..(Len(calls) + 1)
    BY <1>1
  <2>2. /\ Len(rest) = IF taken + 1 <= Len(calls) THEN Len(calls) - (taken + 1) + 1 ELSE 0
        /\ \A i \in 1..(Len(calls) - (taken + 1) + 1) : rest[i] = calls[taken + 1 + i - 1]
    BY <2>1, SubSeqProperties
  <2> HIDE DEF taken, rest
  <2>3. Len(rest) = Len(calls) - taken
    BY <1>1, <2>2
  <2>4. \A i \in 1..Len(rest) : taken + 1 + i - 1 = taken + i
    BY <1>1, <2>3
  <2> QED
    BY <1>1, <2>2, <2>3, <2>4
<1> HIDE DEF taken, free, rest
<1>5. SemTypeOK'
  <2>1. queue' \in Seq(Task)
    BY <1>2, <1>3 DEF SemInv, SemTypeOK
  <2>2. active' \in Nat
    BY <1>1, <1>2
  <2>3. slot' \in [Task -> SlotState]
    BY <1>2 DEF SemInv, SemTypeOK, SlotState
  <2> QED
    BY <1>2, <2>1, <2>2, <2>3 DEF SemInv, SemTypeOK
<1>6. SlotBound'
  <2>1. Holders' = Holders \cup served
    <3>1. served \subseteq Task
      BY <1>1
    <3> QED
      BY <1>2, <3>1, <1>1 DEF Holders
  <2>2. IsFiniteSet(served) /\ Cardinality(served) = taken
    BY <1>1, PrefixCardinality
  <2>3. Holders \cap served = {}
    <3>1. \A i \in 1..taken : slot[calls[i]] = "none"
      BY <1>1, <1>2
    <3> QED
      BY <3>1 DEF Holders
  <2> HIDE DEF served
  <2>4. Cardinality(Holders') = Cardinality(Holders) + taken
    <3>1. Cardinality(Holders \cup served) =
            Cardinality(Holders) + Cardinality(served) - Cardinality(Holders \cap served)
      BY <2>2, HoldersFinite, FS_Union
    <3>2. Cardinality(Holders \cap served) = 0
      BY <2>3, FS_EmptySet
    <3>3. Cardinality(Holders \cup served) = Cardinality(Holders) + taken
      BY <3>1, <3>2, <2>2, HoldersFinite, <1>1
    <3> QED
      BY <3>3, <2>1
  <2> QED
    BY <1>1, <1>2, <2>4 DEF SemInv, SlotBound, free
<1>7. NoIdleSlot'
  <2>1. queue \in Seq(Task) /\ Len(queue') = Len(queue) + Len(rest)
    BY <1>2, <1>3 DEF SemInv, SemTypeOK
  <2>2. \A i \in 1..Len(queue) : queue'[i] = queue[i]
    BY <1>2, <1>3, <2>1
  <2>3. \A i \in 1..Len(rest) : queue'[Len(queue) + i] = calls[taken + i]
    BY <1>2, <1>3, <1>4, <2>1
  <2>4. \A i \in 1..Len(queue) : queue[i] \in Waiting
    BY DEF SemInv, NoIdleSlot
  <2>5. \A i \in 1..Len(rest) : taken + i \in (taken + 1)..Len(calls)
    BY <1>1, <1>4
  <2>6. queue' # <<>> => active' = Limit
    <3>1. CASE queue # <<>>
      <4>1. active = Limit
        BY <3>1 DEF SemInv, NoIdleSlot
      <4> QED
        BY <4>1, <1>1, <1>2 DEF free
    <3>2. CASE queue = <<>> /\ Len(rest) > 0
      BY <3>2, <1>1, <1>2, <1>4 DEF free
    <3>3. CASE queue = <<>> /\ ~(Len(rest) > 0)
      <4>1. Len(queue') = 0
        BY <3>3, <1>1, <1>4, <2>1
      <4> QED
        BY <4>1, <1>5 DEF SemTypeOK
    <3> QED
      BY <3>1, <3>2, <3>3
  <2>7. Distinct(queue')
    <3> SUFFICES ASSUME NEW i \in 1..Len(queue'), NEW j \in 1..Len(queue'),
                        queue'[i] = queue'[j]
                 PROVE  i = j
      BY DEF Distinct
    <3>1. \A k \in 1..Len(rest) : slot[calls[taken + k]] = "none"
      BY <1>1, <1>2, <2>5
    <3>2. \A k \in 1..Len(queue) : slot[queue[k]] = "waiting"
      BY <2>4 DEF Waiting
    <3>3. CASE i <= Len(queue) /\ j <= Len(queue)
      BY <3>3, <2>1, <2>2 DEF SemInv, NoIdleSlot, Distinct
    <3>4. CASE i > Len(queue) /\ j > Len(queue)
      <4>1. PICK a \in 1..Len(rest), b \in 1..Len(rest) :
              i = Len(queue) + a /\ j = Len(queue) + b
        <5>1. /\ i - Len(queue) \in 1..Len(rest) /\ i = Len(queue) + (i - Len(queue))
              /\ j - Len(queue) \in 1..Len(rest) /\ j = Len(queue) + (j - Len(queue))
          BY <3>4, <2>1, <1>3
        <5> QED
          BY <5>1
      <4>2. calls[taken + a] = calls[taken + b]
        BY <4>1, <2>3
      <4>3. taken + a = taken + b
        BY <4>2, <2>5, <1>1 DEF Distinct
      <4> QED
        BY <4>1, <4>3, <1>1
    <3>5. CASE i <= Len(queue) /\ j > Len(queue)
      <4>1. PICK b \in 1..Len(rest) : j = Len(queue) + b
        <5>1. j - Len(queue) \in 1..Len(rest) /\ j = Len(queue) + (j - Len(queue))
          BY <3>5, <2>1, <1>3
        <5> QED
          BY <5>1
      <4>2. queue'[j] = calls[taken + b] /\ slot[calls[taken + b]] = "none"
        BY <4>1, <2>3, <3>1
      <4>3. queue'[i] = queue[i] /\ slot[queue[i]] = "waiting"
        <5>1. i \in 1..Len(queue)
          BY <3>5, <2>1
        <5> QED
          BY <5>1, <2>2, <3>2
      <4> QED
        BY <4>2, <4>3
    <3>6. CASE i > Len(queue) /\ j <= Len(queue)
      <4>1. PICK b \in 1..Len(rest) : i = Len(queue) + b
        <5>1. i - Len(queue) \in 1..Len(rest) /\ i = Len(queue) + (i - Len(queue))
          BY <3>6, <2>1, <1>3
        <5> QED
          BY <5>1
      <4>2. queue'[i] = calls[taken + b] /\ slot[calls[taken + b]] = "none"
        BY <4>1, <2>3, <3>1
      <4>3. queue'[j] = queue[j] /\ slot[queue[j]] = "waiting"
        <5>1. j \in 1..Len(queue)
          BY <3>6, <2>1
        <5> QED
          BY <5>1, <2>2, <3>2
      <4> QED
        BY <4>2, <4>3
    <3> QED
      BY <3>3, <3>4, <3>5, <3>6, <2>1
  <2>8. Waiting' = {queue'[i] : i \in 1..Len(queue')}
    <3>1. ASSUME NEW t \in Waiting' PROVE \E i \in 1..Len(queue') : queue'[i] = t
      <4>1. t \in Task /\ slot'[t] = "waiting"
        BY <3>1 DEF Waiting
      <4>2. CASE \E k \in (taken + 1)..Len(calls) : calls[k] = t
        <5>1. PICK k \in (taken + 1)..Len(calls) : calls[k] = t
          BY <4>2
        <5>2. k - taken \in 1..Len(rest) /\ taken + (k - taken) = k
          BY <1>1, <1>4
        <5>3. queue'[Len(queue) + (k - taken)] = t
          BY <5>1, <5>2, <2>3
        <5>4. Len(queue) + (k - taken) \in 1..Len(queue')
          BY <5>2, <2>1, <1>3
        <5> QED
          BY <5>3, <5>4
      <4>3. CASE ~\E k \in (taken + 1)..Len(calls) : calls[k] = t
        <5>1. slot[t] = "waiting"
          BY <4>1, <4>3, <1>2
        <5>2. PICK i \in 1..Len(queue) : queue[i] = t
          BY <5>1, <4>1 DEF SemInv, NoIdleSlot, Waiting
        <5> QED
          BY <5>2, <2>1, <2>2, <1>3
      <4> QED
        BY <4>2, <4>3
    <3>2. ASSUME NEW i \in 1..Len(queue') PROVE queue'[i] \in Waiting'
      <4>1. CASE i <= Len(queue)
        <5>1. queue'[i] = queue[i] /\ queue[i] \in Task /\ slot[queue[i]] = "waiting"
          BY <4>1, <2>1, <2>2, <2>4 DEF Waiting
        <5>2. \A k \in 1..Len(calls) : calls[k] # queue[i]
          BY <5>1, <1>2
        <5> QED
          BY <5>1, <5>2, <1>1, <1>2 DEF Waiting
      <4>2. CASE i > Len(queue)
        <5>1. i - Len(queue) \in 1..Len(rest) /\ i = Len(queue) + (i - Len(queue))
          BY <4>2, <2>1, <1>3
        <5>2. PICK k \in (taken + 1)..Len(calls) : queue'[i] = calls[k]
          BY <5>1, <2>3, <2>5
        <5>3. calls[k] \in Task /\ \A m \in 1..taken : calls[m] # calls[k]
          BY <1>1 DEF Distinct
        <5> QED
          BY <5>2, <5>3, <1>2 DEF Waiting
      <4> QED
        BY <4>1, <4>2, <2>1
    <3> QED
      BY <3>1, <3>2
  <2>9. \A t \in Waiting' : ~Aborted(t)'
    BY <1>1, <1>2 DEF SemInv, NoIdleSlot, Waiting, Aborted
  <2> QED
    BY <2>6, <2>7, <2>8, <2>9 DEF NoIdleSlot
<1> QED
  BY <1>5, <1>6, <1>7 DEF SemInv

(* release(): the slot either becomes free, and nobody was waiting, or     *)
(* passes to the oldest waiter, which leaves the queue.                    *)
LEMMA ReleaseCases ==
  ASSUME SemInv, NEW t \in Task, Release(t)
  PROVE  /\ slot[t] = "held"
         /\ aborted' = aborted
         /\ \/ /\ queue = <<>> /\ queue' = <<>>
               /\ active' = active - 1
               /\ slot' = [slot EXCEPT ![t] = "released"]
            \/ /\ queue # <<>> /\ queue' = Tail(queue)
               /\ queue[1] \in Waiting /\ queue[1] # t
               /\ active' = active
               /\ slot' = [slot EXCEPT ![t] = "released", ![queue[1]] = "held"]
<1> USE SemaphoreAssumption
<1>1. PICK k \in 0..Len(queue) :
       /\ DrainStops(active - 1, k)
       /\ \A j \in 0..(k - 1) : ~DrainStops(active - 1, j)
       /\ active' = active - 1 + Cardinality(Served(k))
       /\ queue' = SubSeq(queue, k + 1, Len(queue))
       /\ slot' = [u \in Task |->
                     IF u = t THEN "released"
                     ELSE IF \E i \in Served(k) : queue[i] = u THEN "held"
                     ELSE slot[u]]
  BY DEF Release, OwnsSlot
<1>2. slot[t] = "held" /\ aborted' = aborted
  BY DEF Release, OwnsSlot
<1>3. /\ active \in Nat /\ Limit \in Nat /\ queue \in Seq(Task)
      /\ slot \in [Task -> SlotState]
  BY DEF SemInv, SemTypeOK
<1>4. Served(0) = {} /\ Cardinality(Served(0)) = 0
  <2>1. Served(0) = {}
    BY DEF Served
  <2> QED
    BY <2>1, FS_EmptySet
<1>5. CASE queue = <<>>
  <2>1. k = 0
    BY <1>5
  <2>2. queue' = <<>>
    BY <1>1, <1>5, <2>1, SubSeqEmpty
  <2>3. slot' = [slot EXCEPT ![t] = "released"]
    BY <1>1, <1>3, <1>4, <2>1
  <2>4. active' = active - 1
    BY <1>1, <1>3, <1>4, <2>1
  <2> QED
    BY <1>2, <1>5, <2>2, <2>3, <2>4
<1>6. CASE queue # <<>>
  <2>1. Len(queue) >= 1 /\ active = Limit
    BY <1>3, <1>6 DEF SemInv, NoIdleSlot
  <2>2. queue[1] \in Waiting /\ ~Aborted(queue[1]) /\ queue[1] # t
    <3>1. queue[1] \in Waiting
      BY <2>1, <1>3 DEF SemInv, NoIdleSlot
    <3> QED
      BY <3>1, <1>2 DEF SemInv, NoIdleSlot, Waiting
  <2>3. Served(1) = {1} /\ Cardinality(Served(1)) = 1
    <3>1. Served(1) = {1}
      BY <2>2 DEF Served
    <3> QED
      BY <3>1, FS_Singleton
  <2>4. ~DrainStops(active - 1, 0)
    BY <1>3, <1>4, <2>1 DEF DrainStops
  <2>5. DrainStops(active - 1, 1)
    BY <1>3, <2>1, <2>3 DEF DrainStops
  <2>6. k = 1
    <3>1. k # 0
      BY <1>1, <2>4
    <3>2. ~(1 \in 0..(k - 1))
      BY <1>1, <2>5
    <3> QED
      BY <3>1, <3>2, <1>3
  <2>7. queue' = Tail(queue)
    BY <1>1, <1>3, <1>6, <2>6, TailIsSubSeq
  <2>8. active' = active
    BY <1>1, <1>3, <2>3, <2>6
  <2>9. slot' = [slot EXCEPT ![t] = "released", ![queue[1]] = "held"]
    BY <1>1, <1>3, <2>2, <2>3, <2>6
  <2> QED
    BY <1>2, <1>6, <2>2, <2>7, <2>8, <2>9
<1> QED
  BY <1>5, <1>6

LEMMA ReleaseInv ==
  ASSUME SemInv, NEW t \in Task, Release(t)
  PROVE  SemInv'
<1> USE SemaphoreAssumption
<1>1. /\ active \in Nat /\ active <= Limit /\ Limit \in Nat /\ queue \in Seq(Task)
      /\ slot \in [Task -> SlotState] /\ active = Cardinality(Holders)
      /\ aborted' = aborted /\ t \in Holders
  BY ReleaseCases DEF SemInv, SemTypeOK, SlotBound, Holders
<1>2. Cardinality(Holders \ {t}) = active - 1 /\ IsFiniteSet(Holders \ {t})
  BY <1>1, HoldersFinite, FS_RemoveElement
<1>3. active - 1 \in Nat
  BY <1>2, FS_CardinalityType
<1>4. CASE queue = <<>>
  <2>1. /\ queue' = <<>> /\ active' = active - 1
        /\ slot' = [slot EXCEPT ![t] = "released"]
    BY <1>4, ReleaseCases
  <2>2. SemTypeOK'
    BY <1>1, <1>3, <2>1 DEF SemInv, SemTypeOK, SlotState
  <2>3. Holders' = Holders \ {t}
    BY <1>1, <2>1 DEF Holders
  <2>4. SlotBound'
    BY <1>1, <1>2, <2>1, <2>3 DEF SlotBound
  <2>5. Waiting' = {}
    <3>1. Waiting = {}
      BY <1>4 DEF SemInv, NoIdleSlot
    <3> QED
      BY <3>1, <1>1, <2>1 DEF Waiting
  <2>6. NoIdleSlot'
    BY <2>1, <2>5 DEF NoIdleSlot, Distinct
  <2> QED
    BY <2>2, <2>4, <2>6 DEF SemInv
<1>5. CASE queue # <<>>
  <2> DEFINE w == queue[1]
  <2>1. /\ queue' = Tail(queue) /\ active' = active
        /\ slot' = [slot EXCEPT ![t] = "released", ![w] = "held"]
        /\ w \in Waiting /\ w # t
    BY <1>5, ReleaseCases
  <2>2. w \in Task /\ slot[w] = "waiting" /\ w \notin Holders
    BY <2>1 DEF Waiting, Holders
  <2>3. /\ queue' \in Seq(Task) /\ Len(queue') = Len(queue) - 1
        /\ Len(queue) \in Nat \ {0}
        /\ \A i \in 1..Len(queue') : queue'[i] = queue[i + 1]
    BY <1>1, <1>5, <2>1
  <2> HIDE DEF w
  <2>4. SemTypeOK'
    BY <1>1, <2>1, <2>2, <2>3 DEF SemInv, SemTypeOK, SlotState
  <2>5. SlotBound'
    <3>1. Holders' = (Holders \ {t}) \cup {w}
      BY <1>1, <2>1, <2>2 DEF Holders
    <3>2. Cardinality((Holders \ {t}) \cup {w}) = active - 1 + 1
      BY <1>2, <2>2, FS_AddElement
    <3> QED
      BY <1>1, <2>1, <3>1, <3>2 DEF SlotBound
  <2>6. active' = Limit
    BY <1>5, <2>1 DEF SemInv, NoIdleSlot
  <2>7. Distinct(queue')
    <3> SUFFICES ASSUME NEW i \in 1..Len(queue'), NEW j \in 1..Len(queue'),
                        queue'[i] = queue'[j]
                 PROVE  i = j
      BY DEF Distinct
    <3>1. i + 1 \in 1..Len(queue) /\ j + 1 \in 1..Len(queue) /\ queue[i + 1] = queue[j + 1]
      BY <2>3
    <3>2. i + 1 = j + 1
      BY <3>1 DEF SemInv, NoIdleSlot, Distinct
    <3> QED
      BY <3>2, <2>3
  <2>8. Waiting' = Waiting \ {w}
    BY <1>1, <2>1, <2>2 DEF Waiting, Holders
  <2>9. Waiting' = {queue'[i] : i \in 1..Len(queue')}
    <3>1. ASSUME NEW u \in Waiting' PROVE \E i \in 1..Len(queue') : queue'[i] = u
      <4>1. PICK k \in 1..Len(queue) : queue[k] = u
        BY <2>8, <3>1 DEF SemInv, NoIdleSlot
      <4>2. k # 1
        BY <2>8, <3>1, <4>1 DEF w
      <4>3. k - 1 \in 1..Len(queue') /\ (k - 1) + 1 = k
        BY <2>3, <4>1, <4>2
      <4> QED
        BY <2>3, <4>1, <4>3
    <3>2. ASSUME NEW i \in 1..Len(queue') PROVE queue'[i] \in Waiting'
      <4>1. i + 1 \in 1..Len(queue) /\ queue'[i] = queue[i + 1] /\ i + 1 # 1
        BY <2>3
      <4>2. queue[i + 1] \in Waiting /\ queue[i + 1] # w
        <5>1. 1 \in 1..Len(queue)
          BY <2>3
        <5> QED
          BY <4>1, <5>1 DEF SemInv, NoIdleSlot, Distinct, w
      <4> QED
        BY <2>8, <4>1, <4>2
    <3> QED
      BY <3>1, <3>2
  <2>10. \A u \in Waiting' : ~Aborted(u)'
    BY <1>1, <2>8 DEF SemInv, NoIdleSlot, Aborted
  <2> QED
    BY <2>4, <2>5, <2>6, <2>7, <2>9, <2>10 DEF SemInv, NoIdleSlot
<1> QED
  BY <1>4, <1>5

(* abort: the waiters of the run leave the queue, nobody else moves.       *)
LEMMA AbortInv ==
  ASSUME SemInv, NEW p \in Parent, Abort(p)
  PROVE  SemInv'
<1> USE SemaphoreAssumption
<1>1. /\ active \in Nat /\ queue \in Seq(Task) /\ slot \in [Task -> SlotState]
      /\ aborted \subseteq Parent
  BY DEF SemInv, SemTypeOK
<1>2. /\ aborted' = aborted \cup {p} /\ active' = active
      /\ queue' \in Filtered(queue, {t \in Task : ParentOf[t] # p})
      /\ slot' = [t \in Task |->
                    IF ParentOf[t] = p /\ slot[t] = "waiting" THEN "rejected"
                    ELSE slot[t]]
  BY DEF Abort
<1>3. /\ queue' \in Seq(Task)
      /\ {queue'[i] : i \in 1..Len(queue')}
           = {queue[i] : i \in 1..Len(queue)} \cap {t \in Task : ParentOf[t] # p}
      /\ Distinct(queue) => Distinct(queue')
  BY <1>1, <1>2, FilteredProperties
<1>4. SemTypeOK'
  BY <1>1, <1>2, <1>3 DEF SemTypeOK, SlotState
<1>5. SlotBound'
  <2>1. Holders' = Holders
    BY <1>1, <1>2 DEF Holders
  <2> QED
    BY <1>2, <2>1 DEF SemInv, SlotBound
<1>6. Waiting' = Waiting \cap {t \in Task : ParentOf[t] # p}
  BY <1>1, <1>2 DEF Waiting
<1>7. NoIdleSlot'
  <2>1. queue' # <<>> => queue # <<>>
    <3>1. ASSUME queue' # <<>> PROVE \E i \in 1..Len(queue) : TRUE
      <4>1. 1 \in 1..Len(queue')
        BY <1>3, <3>1
      <4> QED
        BY <1>3, <4>1
    <3> QED
      BY <3>1
  <2> QED
    BY <2>1, <1>2, <1>3, <1>6 DEF SemInv, NoIdleSlot, Aborted
<1> QED
  BY <1>4, <1>5, <1>7 DEF SemInv

LEMMA RefuseInv ==
  ASSUME SemInv, NEW t \in Task, Refuse(t)
  PROVE  SemInv'
<1>1. /\ slot[t] = "none" /\ slot' = [slot EXCEPT ![t] = "rejected"]
      /\ active' = active /\ queue' = queue /\ aborted' = aborted
  BY DEF Refuse
<1>2. SemTypeOK'
  BY <1>1 DEF SemInv, SemTypeOK, SlotState
<1>3. Holders' = Holders /\ Waiting' = Waiting
  BY <1>1 DEF SemInv, SemTypeOK, Holders, Waiting
<1>4. SlotBound'
  BY <1>1, <1>3 DEF SemInv, SlotBound
<1>5. NoIdleSlot'
  BY <1>1, <1>3 DEF SemInv, NoIdleSlot, Aborted
<1> QED
  BY <1>2, <1>4, <1>5 DEF SemInv

(* Every step of the semaphore keeps the invariant.                        *)
LEMMA SemNextInv == SemInv /\ [SemNext]_semVars => SemInv'
<1> SUFFICES ASSUME SemInv, [SemNext]_semVars PROVE SemInv'
  OBVIOUS
<1>1. ASSUME NEW n \in 1..Cardinality(Task), NEW calls \in [1..n -> Task],
             Distinct(calls), Acquire(calls)
      PROVE  SemInv'
  <2>1. n \in Nat
    OBVIOUS
  <2>2. calls \in Seq(Task)
    BY <2>1
  <2> QED
    BY <1>1, <2>2, AcquireInv
<1>2. ASSUME NEW t \in Task, Release(t) PROVE SemInv'
  BY <1>2, ReleaseInv
<1>3. ASSUME NEW t \in Task, Refuse(t) PROVE SemInv'
  BY <1>3, RefuseInv
<1>4. ASSUME NEW p \in Parent, Abort(p) PROVE SemInv'
  BY <1>4, AbortInv
<1>5. CASE UNCHANGED semVars
  BY <1>5 DEF semVars, SemInv, SemTypeOK, SlotBound, NoIdleSlot, Holders, Waiting,
              Aborted, Distinct
<1> QED
  BY <1>1, <1>2, <1>3, <1>4, <1>5 DEF SemNext

(* The class keeps its counter exact, respects its limit and never leaves  *)
(* a slot idle while a call is pending: Semaphore of agent-runner.ts.      *)
THEOREM SemaphoreCorrect == SemSpec => [](SemTypeOK /\ SlotBound /\ NoIdleSlot)
<1>1. SemInit => SemInv
  BY SemInitInv
<1>2. SemInv /\ [SemNext]_semVars => SemInv'
  BY SemNextInv
<1>3. SemInv => SemTypeOK /\ SlotBound /\ NoIdleSlot
  BY DEF SemInv
<1> QED
  BY <1>1, <1>2, <1>3, PTL DEF SemSpec

-------------------------------------------------------------------------------
(* The semaphore implements SlotPool.                                      *)

LEMMA PoolStep == SemInv /\ SemInv' /\ [SemNext]_semVars => [Pool!Next]_(Pool!poolVars)
<1> USE SemaphoreAssumption
<1> SUFFICES ASSUME SemInv, SemInv', [SemNext]_semVars
             PROVE  [Pool!Next]_(Pool!poolVars)
  OBVIOUS
<1> DEFINE Left == {t \in Task : slot[t] \in {"released", "rejected"}}
<1>1. ASSUME NEW n \in 1..Cardinality(Task), NEW calls \in [1..n -> Task],
             Distinct(calls), Acquire(calls)
      PROVE  Pool!Next
  <2> DEFINE free   == Limit - active
             taken  == IF Len(calls) <= free THEN Len(calls) ELSE free
             served == {calls[i] : i \in 1..taken}
             parked == {calls[i] : i \in (taken + 1)..Len(calls)}
  <2>1. Len(calls) \in Nat /\ DOMAIN calls = 1..Len(calls) /\ \A i \in 1..Len(calls) : calls[i] \in Task
    BY <1>1
  <2>2. taken \in 0..Len(calls)
    BY <2>1 DEF SemInv, SemTypeOK, SlotBound
  <2>3. /\ \A i \in 1..Len(calls) : slot[calls[i]] = "none"
        /\ active' = active + taken
        /\ slot' = [t \in Task |->
                      IF \E i \in 1..taken : calls[i] = t THEN "held"
                      ELSE IF \E i \in (taken + 1)..Len(calls) : calls[i] = t
                           THEN "waiting"
                           ELSE slot[t]]
    BY <1>1 DEF Acquire, Free
  <2>4. \A i \in 1..taken : i \in 1..Len(calls)
    BY <2>1, <2>2
  <2>5. \A i \in (taken + 1)..Len(calls) : i \in 1..Len(calls)
    BY <2>1, <2>2
  <2>6. parked # {} => taken = free
    BY <2>1, <2>2
  <2> HIDE DEF taken
  <2>7. served \cap parked = {}
    <3> SUFFICES ASSUME NEW i \in 1..taken, NEW j \in (taken + 1)..Len(calls)
                 PROVE  calls[i] # calls[j]
      OBVIOUS
    <3>1. i # j
      BY <2>1, <2>2
    <3> QED
      BY <3>1, <1>1, <2>4, <2>5 DEF Distinct
  <2>8. served \cup parked \subseteq Task \ (Holders \cup Waiting \cup Left)
    BY <2>1, <2>3, <2>4, <2>5 DEF Holders, Waiting
  <2>9. /\ Holders' = Holders \cup served
        /\ Waiting' = Waiting \cup parked
        /\ Left' = Left
    <3>1. \A t \in Task : slot'[t] = IF t \in served THEN "held"
                                     ELSE IF t \in parked THEN "waiting" ELSE slot[t]
      BY <2>3
    <3>2. Holders' = Holders \cup served
      BY <2>8, <3>1 DEF Holders
    <3>3. Waiting' = Waiting \cup parked
      BY <2>7, <2>8, <3>1 DEF Holders, Waiting
    <3>4. Left' = Left
      BY <2>8, <3>1
    <3> QED
      BY <3>2, <3>3, <3>4
  <2>10. Cardinality(Holders \cup served) = active' /\ active' <= Limit
    BY <2>9 DEF SemInv, SlotBound
  <2>11. parked # {} => active' = Limit
    BY <2>3, <2>6 DEF SemInv, SemTypeOK
  <2>12. served \in SUBSET Task /\ parked \in SUBSET Task
    BY <2>1, <2>4, <2>5
  <2> HIDE DEF served, parked, Left
  <2>13. Pool!Cardinality(Holders \cup served) = Cardinality(Holders \cup served)
    BY DEF Pool!Cardinality, Cardinality
  <2>14. Pool!Enter(served, parked)
    BY <2>7, <2>8, <2>9, <2>10, <2>11, <2>13 DEF Pool!Enter, Pool!Outside, Left
  <2> QED
    BY <2>12, <2>14 DEF Pool!Next
<1>2. ASSUME NEW t \in Task, Release(t) PROVE Pool!Next
  <2>1. slot \in [Task -> SlotState]
    BY DEF SemInv, SemTypeOK
  <2>2. slot[t] = "held"
    BY <1>2, ReleaseCases
  <2>3. CASE queue = <<>>
    <3>1. slot' = [slot EXCEPT ![t] = "released"]
      BY <1>2, <2>3, ReleaseCases
    <3>2. Waiting = {}
      BY <2>3 DEF SemInv, NoIdleSlot
    <3>3. Holders' = Holders \ {t} /\ Waiting' = Waiting /\ Left' = Left \cup {t}
      BY <2>1, <2>2, <3>1 DEF Holders, Waiting
    <3>4. Pool!Leave(t)
      BY <2>2, <3>2, <3>3 DEF Pool!Leave, Holders
    <3> QED
      BY <3>4 DEF Pool!Next
  <2>4. CASE queue # <<>>
    <3>1. PICK w \in Waiting : slot' = [slot EXCEPT ![t] = "released", ![w] = "held"] /\ w # t
      BY <1>2, <2>4, ReleaseCases
    <3>2. w \in Task /\ slot[w] = "waiting"
      BY DEF Waiting
    <3>3. /\ Holders' = (Holders \ {t}) \cup {w}
          /\ Waiting' = Waiting \ {w}
          /\ Left' = Left \cup {t}
      BY <2>1, <2>2, <3>1, <3>2 DEF Holders, Waiting
    <3>4. Pool!Leave(t)
      BY <2>2, <3>1, <3>3 DEF Pool!Leave, Holders
    <3> QED
      BY <3>4 DEF Pool!Next
  <2> QED
    BY <2>3, <2>4
<1>3. ASSUME NEW t \in Task, Refuse(t) PROVE Pool!Next
  <2>1. slot \in [Task -> SlotState] /\ slot[t] = "none" /\ slot' = [slot EXCEPT ![t] = "rejected"]
    BY <1>3 DEF Refuse, SemInv, SemTypeOK
  <2>2. Holders' = Holders /\ Waiting' = Waiting \ {t} /\ Left' = Left \cup {t}
    BY <2>1 DEF Holders, Waiting
  <2>3. Pool!Withdraw({t})
    BY <2>1, <2>2 DEF Pool!Withdraw, Pool!Outside, Holders, Waiting
  <2> QED
    BY <2>3 DEF Pool!Next
<1>4. ASSUME NEW p \in Parent, Abort(p) PROVE Pool!Next
  <2> DEFINE leaving == {t \in Waiting : ParentOf[t] = p}
  <2>1. /\ slot \in [Task -> SlotState]
        /\ slot' = [t \in Task |->
                      IF ParentOf[t] = p /\ slot[t] = "waiting" THEN "rejected"
                      ELSE slot[t]]
    BY <1>4 DEF Abort, SemInv, SemTypeOK
  <2>2. Holders' = Holders /\ Waiting' = Waiting \ leaving /\ Left' = Left \cup leaving
    BY <2>1 DEF Holders, Waiting
  <2>3. PICK S \in SUBSET Task : S = leaving
    BY DEF Waiting
  <2>4. Pool!Withdraw(S)
    BY <2>2, <2>3 DEF Pool!Withdraw, Pool!Outside
  <2> QED
    BY <2>4 DEF Pool!Next
<1>5. CASE UNCHANGED semVars
  BY <1>5 DEF semVars, Pool!poolVars, Holders, Waiting
<1> QED
  BY <1>1, <1>2, <1>3, <1>4, <1>5 DEF SemNext

(* Counter, queue and listeners together do what SlotPool promises: each   *)
(* step of class Semaphore is a step of the pool or changes nothing in it. *)
THEOREM SemaphoreImplementsPool == SemSpec => PoolSpec
<1>1. SemInit => SemInv
  BY SemInitInv
<1>2. SemInv /\ [SemNext]_semVars => SemInv'
  BY SemNextInv
<1>3. SemInit => Pool!Init
  BY DEF SemInit, Pool!Init, Holders, Waiting
<1>4. SemInv /\ SemInv' /\ [SemNext]_semVars => [Pool!Next]_(Pool!poolVars)
  BY PoolStep
<1> QED
  BY <1>1, <1>2, <1>3, <1>4, PTL DEF SemSpec, PoolSpec, Pool!Spec
===============================================================================
