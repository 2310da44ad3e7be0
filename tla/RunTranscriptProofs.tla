-------------------------- MODULE RunTranscriptProofs --------------------------
(***************************************************************************)
(* Proofs about RunTranscript: for either kind of adapter and any number   *)
(* of turns, calls and text parts, the rows of a run and the tab's copy of *)
(* them end up the same, every call has its one result, and the reason of  *)
(* a failure stands at the end.                                            *)
(***************************************************************************)
EXTENDS RunTranscript, WellFoundedInduction, SequenceTheorems, TLAPS

-------------------------------------------------------------------------------
(* Induction on the numbers up to n, for the set T of those that have a    *)
(* property.                                                               *)

LEMMA Induction ==
  ASSUME NEW n \in Nat, NEW T, 0 \in T, \A i \in 0..(n - 1) : i \in T => i + 1 \in T
  PROVE  \A i \in 0..n : i \in T
<1> DEFINE D == {i \in 0..n : i \notin T}
<1> SUFFICES ASSUME D # {} PROVE FALSE
  OBVIOUS
<1>1. D \in SUBSET Nat
  OBVIOUS
<1> HIDE DEF D
<1>2. \A x, y \in Nat : y < x => <<y, x>> \in OpToRel(<, Nat)
  BY DEF OpToRel
<1>3. PICK R : R = OpToRel(<, Nat)
  BY Zenon
<1>4. \E x \in D : \A y \in D : ~(<<y, x>> \in R)
  BY <1>1, <1>3, NatLessThanWellFounded, WFMin, Zenon
<1>5. \A x, y \in Nat : y < x => <<y, x>> \in R
  BY <1>2, <1>3, Zenon
<1>6. PICK x \in D : \A y \in D : ~(<<y, x>> \in R)
  BY <1>4
<1>7. x \in Nat /\ x \in 0..n /\ x \notin T
  BY <1>6 DEF D
<1>8. x # 0 /\ x - 1 \in 0..(n - 1) /\ x - 1 \in Nat /\ x - 1 < x
  BY <1>7
<1>9. x - 1 \in D
  <2>1. x - 1 \in 0..n /\ (x - 1) + 1 = x
    BY <1>7, <1>8
  <2>2. x - 1 \notin T
    BY <1>7, <1>8, <2>1
  <2> QED
    BY <2>1, <2>2 DEF D
<1>10. <<x - 1, x>> \in R
  BY <1>5, <1>7, <1>8
<1> QED
  BY <1>6, <1>9, <1>10

-------------------------------------------------------------------------------
(* FlattenSeq: the first n of its sequences, one after the other.          *)

Joins(s, n, f) ==
  f[0] = <<>> /\ \A i \in 1..n : f[i] = f[i - 1] \o s[i]

LEMMA JoinsExists ==
  ASSUME NEW X, NEW s \in Seq(Seq(X)), NEW n \in 0..Len(s)
  PROVE  \E f \in [0..n -> Seq(X)] : Joins(s, n, f)
<1> DEFINE Ok(k) == \E f \in [0..k -> Seq(X)] : Joins(s, k, f)
           T == {k \in 0..Len(s) : Ok(k)}
<1>1. Len(s) \in Nat /\ n \in 0..Len(s)
  OBVIOUS
<1>2. 0 \in T
  <2> DEFINE f == [i \in 0..0 |-> <<>>]
  <2>1. f \in [0..0 -> Seq(X)] /\ f[0] = <<>>
    OBVIOUS
  <2> HIDE DEF f
  <2>2. Joins(s, 0, f)
    BY <2>1 DEF Joins
  <2>3. Ok(0)
    BY <2>1, <2>2
  <2> QED
    BY <1>1, <2>3
<1>3. ASSUME NEW k \in 0..(Len(s) - 1), k \in T PROVE k + 1 \in T
  <2>1. PICK g \in [0..k -> Seq(X)] : Joins(s, k, g)
    BY <1>3
  <2>2. k \in Nat /\ k + 1 \in 1..Len(s) /\ s[k + 1] \in Seq(X) /\ g[k] \in Seq(X)
    BY <1>1, <2>1
  <2> DEFINE f == [i \in 0..(k + 1) |-> IF i = k + 1 THEN g[k] \o s[k + 1] ELSE g[i]]
  <2>3. f \in [0..(k + 1) -> Seq(X)]
    BY <2>2
  <2>4. f[0] = <<>>
    BY <2>1, <2>2 DEF Joins
  <2>5. ASSUME NEW i \in 1..(k + 1) PROVE f[i] = f[i - 1] \o s[i]
    <3>1. CASE i = k + 1
      <4>1. f[i] = g[k] \o s[i] /\ f[i - 1] = g[k]
        BY <2>2, <3>1
      <4> QED
        BY <4>1
    <3>2. CASE i # k + 1
      <4>1. i \in 1..k /\ i - 1 \in 0..k /\ f[i] = g[i] /\ f[i - 1] = g[i - 1]
        BY <2>2, <3>2
      <4> QED
        BY <2>1, <4>1 DEF Joins
    <3> QED
      BY <3>1, <3>2
  <2>6. Ok(k + 1)
    BY <2>3, <2>4, <2>5 DEF Joins
  <2> QED
    BY <2>2, <2>6
<1> HIDE DEF T
<1>4. n \in T
  BY <1>1, <1>2, <1>3, Induction
<1> QED
  BY <1>4 DEF T

LEMMA FlattenJoins ==
  ASSUME NEW X, NEW s \in Seq(Seq(X))
  PROVE  \E f \in [0..Len(s) -> Seq(X)] : Joins(s, Len(s), f) /\ FlattenSeq(s) = f[Len(s)]
<1>1. Len(s) \in Nat
  OBVIOUS
<1>2. PICK g \in [0..Len(s) -> Seq(X)] : Joins(s, Len(s), g)
  BY <1>1, JoinsExists
<1>3. CASE Len(s) = 0
  <2>1. FlattenSeq(s) = <<>>
    BY <1>3 DEF FlattenSeq
  <2> QED
    BY <1>2, <1>3, <2>1 DEF Joins
<1>4. CASE Len(s) # 0
  <2> DEFINE P(f) == f = [i \in 1..Len(s) |-> IF i = 1 THEN s[i] ELSE f[i - 1] \o s[i]]
             F == CHOOSE f : P(f)
             h == [i \in 1..Len(s) |-> g[i]]
  <2>1. P(h)
    <3>1. ASSUME NEW i \in 1..Len(s) PROVE h[i] = IF i = 1 THEN s[i] ELSE h[i - 1] \o s[i]
      <4>1. h[i] = g[i] /\ g[i] = g[i - 1] \o s[i] /\ s[i] \in Seq(X)
        <5>1. g[i] = g[i - 1] \o s[i]
          BY <1>2 DEF Joins
        <5>2. s[i] \in Seq(X)
          OBVIOUS
        <5> QED
          BY <5>1, <5>2
      <4>2. CASE i = 1
        <5>1. g[i - 1] = <<>>
          BY <1>2, <4>2 DEF Joins
        <5> QED
          BY <4>1, <4>2, <5>1
      <4>3. CASE i # 1
        <5>1. i - 1 \in 1..Len(s)
          BY <1>1, <4>3
        <5> QED
          BY <4>1, <4>3, <5>1
      <4> QED
        BY <4>2, <4>3
    <3> QED
      BY <3>1
  <2>2. P(F)
    BY <2>1, Zenon
  <2>3. FlattenSeq(s) = F[Len(s)]
    BY <1>1, <1>4 DEF FlattenSeq
  <2> DEFINE T == {i \in 0..Len(s) : i = 0 \/ F[i] = g[i]}
  <2> HIDE DEF F
  <2>4. ASSUME NEW i \in 0..(Len(s) - 1), i \in T PROVE i + 1 \in T
    <3>1. i \in Nat /\ i + 1 \in 1..Len(s) /\ (i + 1) - 1 = i /\ s[i + 1] \in Seq(X)
      BY <1>1
    <3>2. g[i + 1] = g[i] \o s[i + 1]
      BY <1>2, <3>1 DEF Joins
    <3>3. F[i + 1] = IF i + 1 = 1 THEN s[i + 1] ELSE F[(i + 1) - 1] \o s[i + 1]
      BY <2>2, <3>1, Zenon
    <3>4. CASE i = 0
      <4>1. g[0] = <<>>
        BY <1>2 DEF Joins
      <4>2. g[i + 1] = s[i + 1]
        BY <3>1, <3>2, <3>4, <4>1
      <4>3. F[i + 1] = s[i + 1]
        BY <3>3, <3>4
      <4> QED
        BY <3>1, <4>2, <4>3
    <3>5. CASE i # 0
      <4>1. F[i] = g[i]
        BY <2>4, <3>5
      <4>2. i + 1 # 1
        BY <3>1, <3>5
      <4>3. F[i + 1] = F[i] \o s[i + 1]
        BY <3>1, <3>3, <4>2
      <4>4. F[i + 1] = g[i + 1]
        BY <3>2, <4>1, <4>3, Zenon
      <4>5. i + 1 \in 0..Len(s)
        BY <1>1, <3>1
      <4> QED
        BY <4>4, <4>5, Zenon
    <3> QED
      BY <3>4, <3>5
  <2>5. 0 \in T
    BY <1>1
  <2> HIDE DEF T
  <2>6. \A i \in 0..Len(s) : i \in T
    BY <1>1, <2>4, <2>5, Induction
  <2>7. F[Len(s)] = g[Len(s)]
    <3>1. Len(s) \in 0..Len(s)
      BY <1>1
    <3> QED
      BY <1>4, <2>6, <3>1 DEF T
  <2> QED
    BY <1>2, <2>3, <2>7
<1> QED
  BY <1>3, <1>4

(* It holds the elements of its sequences, and no element twice when none  *)
(* of them does and no two of them share one.                              *)
Elements(q) == {q[i] : i \in 1..Len(q)}
Distinct(q) == \A i, j \in 1..Len(q) : q[i] = q[j] => i = j

LEMMA FunctionIsSeq ==
  ASSUME NEW X, NEW n \in Nat, NEW f \in [1..n -> X]
  PROVE  f \in Seq(X) /\ Len(f) = n
  OBVIOUS

LEMMA ConcatElements ==
  ASSUME NEW X, NEW q \in Seq(X), NEW r \in Seq(X)
  PROVE  /\ q \o r \in Seq(X) /\ Elements(q \o r) = Elements(q) \cup Elements(r)
         /\ Distinct(q) /\ Distinct(r) /\ Elements(q) \cap Elements(r) = {} => Distinct(q \o r)
<1> DEFINE c == q \o r
<1>1. /\ c \in Seq(X) /\ Len(c) = Len(q) + Len(r) /\ Len(q) \in Nat /\ Len(r) \in Nat
      /\ \A i \in 1..Len(q) : c[i] = q[i]
      /\ \A i \in 1..Len(r) : c[Len(q) + i] = r[i]
  OBVIOUS
<1>2. \A i \in 1..Len(c) : \/ i \in 1..Len(q) /\ c[i] = q[i]
                           \/ /\ i \notin 1..Len(q) /\ i - Len(q) \in 1..Len(r)
                              /\ c[i] = r[i - Len(q)]
  BY <1>1
<1>3. \A i \in 1..Len(q) : i \in 1..Len(c)
  BY <1>1
<1>4. \A i \in 1..Len(r) : Len(q) + i \in 1..Len(c)
  BY <1>1
<1> HIDE DEF c
<1>5. Elements(c) = Elements(q) \cup Elements(r)
  <2>1. ASSUME NEW x \in Elements(c) PROVE x \in Elements(q) \cup Elements(r)
    BY <1>2 DEF Elements
  <2>2. ASSUME NEW x \in Elements(q) PROVE x \in Elements(c)
    BY <1>1, <1>3 DEF Elements
  <2>3. ASSUME NEW x \in Elements(r) PROVE x \in Elements(c)
    BY <1>1, <1>4 DEF Elements
  <2> QED
    BY <2>1, <2>2, <2>3
<1>6. ASSUME Distinct(q), Distinct(r), Elements(q) \cap Elements(r) = {},
             NEW i \in 1..Len(c), NEW j \in 1..Len(c), c[i] = c[j]
      PROVE  i = j
  <2>1. CASE i \in 1..Len(q) /\ j \in 1..Len(q)
    BY <1>1, <1>6, <2>1 DEF Distinct
  <2>2. CASE i \notin 1..Len(q) /\ j \notin 1..Len(q)
    <3>1. /\ i - Len(q) \in 1..Len(r) /\ j - Len(q) \in 1..Len(r)
          /\ r[i - Len(q)] = r[j - Len(q)]
      BY <1>2, <1>6, <2>2
    <3>2. i - Len(q) = j - Len(q)
      BY <1>6, <3>1 DEF Distinct
    <3> QED
      BY <1>1, <3>2
  <2>3. CASE i \in 1..Len(q) /\ j \notin 1..Len(q)
    BY <1>2, <1>6, <2>3 DEF Elements
  <2>4. CASE i \notin 1..Len(q) /\ j \in 1..Len(q)
    BY <1>2, <1>6, <2>4 DEF Elements
  <2> QED
    BY <2>1, <2>2, <2>3, <2>4
<1> QED
  BY <1>1, <1>5, <1>6 DEF Distinct, c

LEMMA FlattenElements ==
  ASSUME NEW X, NEW s \in Seq(Seq(X))
  PROVE  /\ FlattenSeq(s) \in Seq(X)
         /\ Elements(FlattenSeq(s)) = UNION {Elements(s[i]) : i \in 1..Len(s)}
         /\ (/\ \A i \in 1..Len(s) : Distinct(s[i])
             /\ \A i, j \in 1..Len(s) : i # j => Elements(s[i]) \cap Elements(s[j]) = {})
              => Distinct(FlattenSeq(s))
<1>1. PICK f \in [0..Len(s) -> Seq(X)] : Joins(s, Len(s), f) /\ FlattenSeq(s) = f[Len(s)]
  BY FlattenJoins
<1>2. Len(s) \in Nat
  OBVIOUS
<1> DEFINE Disjoint == /\ \A i \in 1..Len(s) : Distinct(s[i])
                       /\ \A i, j \in 1..Len(s) : i # j => Elements(s[i]) \cap Elements(s[j]) = {}
           T == {n \in 0..Len(s) : /\ Elements(f[n]) = UNION {Elements(s[i]) : i \in 1..n}
                                   /\ Disjoint => Distinct(f[n])}
<1> HIDE DEF Disjoint
<1>3. 0 \in T
  <2>1. f[0] = <<>>
    BY <1>1 DEF Joins
  <2>2. Elements(f[0]) = {} /\ Distinct(f[0]) /\ UNION {Elements(s[i]) : i \in 1..0} = {}
    BY <2>1 DEF Elements, Distinct
  <2> QED
    BY <1>2, <2>2
<1>4. ASSUME NEW n \in 0..(Len(s) - 1), n \in T PROVE n + 1 \in T
  <2>1. /\ n \in Nat /\ n + 1 \in 1..Len(s) /\ n + 1 \in 0..Len(s)
        /\ f[n] \in Seq(X) /\ s[n + 1] \in Seq(X)
    <3>1. n \in Nat /\ n \in 0..Len(s) /\ n + 1 \in 1..Len(s) /\ n + 1 \in 0..Len(s)
      BY <1>2
    <3>2. f[n] \in Seq(X)
      BY <3>1
    <3>3. s[n + 1] \in Seq(X)
      BY <3>1
    <3> QED
      BY <3>1, <3>2, <3>3
  <2>2. f[n + 1] = f[n] \o s[n + 1]
    <3>1. (n + 1) - 1 = n
      BY <2>1
    <3> QED
      BY <1>1, <2>1, <3>1 DEF Joins
  <2>3. /\ Elements(f[n + 1]) = Elements(f[n]) \cup Elements(s[n + 1])
        /\ Distinct(f[n]) /\ Distinct(s[n + 1]) /\ Elements(f[n]) \cap Elements(s[n + 1]) = {}
             => Distinct(f[n + 1])
    BY <2>1, <2>2, ConcatElements
  <2>4. Elements(f[n]) = UNION {Elements(s[i]) : i \in 1..n}
    BY <1>4
  <2>5. 1..(n + 1) = (1..n) \cup {n + 1} /\ \A i \in 1..n : i \in 1..Len(s) /\ i # n + 1
    BY <1>2, <2>1
  <2>6. Elements(f[n + 1]) = UNION {Elements(s[i]) : i \in 1..(n + 1)}
    BY <2>3, <2>4, <2>5, Zenon
  <2>7. Disjoint => Distinct(f[n + 1])
    <3>1. ASSUME Disjoint PROVE Elements(f[n]) \cap Elements(s[n + 1]) = {}
      <4>1. \A i \in 1..n : Elements(s[i]) \cap Elements(s[n + 1]) = {}
        BY <2>1, <2>5, <3>1 DEF Disjoint
      <4> QED
        BY <2>4, <4>1
    <3>2. Disjoint => Distinct(s[n + 1])
      BY <2>1 DEF Disjoint
    <3> QED
      BY <1>4, <2>3, <3>1, <3>2
  <2> QED
    BY <2>1, <2>6, <2>7
<1> HIDE DEF T
<1>5. Len(s) \in T
  <2>1. \A i \in 0..Len(s) : i \in T
    BY <1>2, <1>3, <1>4, Induction
  <2> QED
    BY <1>2, <2>1
<1>6. f[Len(s)] \in Seq(X)
  BY <1>1, <1>2
<1> QED
  BY <1>1, <1>5, <1>6 DEF T, Disjoint

-------------------------------------------------------------------------------
(* The parts of a message.                                                 *)

UsesOnce(parts) ==
  \A j, k \in Uses(parts) : parts[j].call = parts[k].call => j = k
ResultsOnce(parts) ==
  \A j, k \in Results(parts) : parts[j].call = parts[k].call => j = k

(* What is known of a message while n calls have been made and those of    *)
(* out are without a result.                                               *)
Booked(parts, n, out) ==
  /\ UsesOnce(parts) /\ ResultsOnce(parts)
  /\ \A k \in Uses(parts) : parts[k].call <= n
  /\ \A k \in Results(parts) : parts[k].call <= n /\ parts[k].call \notin out

PartSet == Part(1..MaxCalls)
Plain == {Text, Thinking, Ref, Error}

LEMMA PartFields ==
  ASSUME NEW p \in PartSet
  PROVE  /\ p.kind \in {"use", "result"} => p.call \in 1..MaxCalls
         /\ p \in Plain => p.kind \notin {"use", "result"}
         /\ p = Error <=> p.kind = "error"
  BY DEF PartSet, Part, Plain, Text, Thinking, Ref, Error, Use, Result

LEMMA NewParts ==
  ASSUME NEW c \in 1..MaxCalls
  PROVE  /\ Plain \subseteq PartSet
         /\ Use(c) \in PartSet /\ Use(c).kind = "use" /\ Use(c).call = c
<1>1. Plain \subseteq PartSet
  BY DEF PartSet, Part, Plain
<1>2. Use(c) \in PartSet
  BY DEF PartSet, Part
<1>3. Use(c).kind = "use" /\ Use(c).call = c
  BY DEF Use
<1> QED
  BY <1>1, <1>2, <1>3

LEMMA NewResult ==
  ASSUME NEW c \in 1..MaxCalls, NEW f \in BOOLEAN
  PROVE  Result(c, f) \in PartSet /\ Result(c, f).kind = "result" /\ Result(c, f).call = c
<1>2. Result(c, f) \in PartSet
  BY DEF PartSet, Part
<1>3. Result(c, f).kind = "result"
  BY DEF Result
<1>4. Result(c, f).call = c
  BY DEF Result
<1> QED
  BY <1>2, <1>3, <1>4

Failure(c) == Result(c, TRUE)

LEMMA FailedResult ==
  ASSUME NEW c \in 1..MaxCalls
  PROVE  Failure(c) \in PartSet /\ Failure(c).kind = "result" /\ Failure(c).call = c
<1>1. TRUE \in BOOLEAN
  OBVIOUS
<1> QED
  BY <1>1, NewResult DEF Failure

LEMMA AppendFacts ==
  ASSUME NEW parts \in Seq(PartSet), NEW p \in PartSet
  PROVE  LET new == Append(parts, p)
         IN  /\ new \in Seq(PartSet) /\ Len(new) = Len(parts) + 1 /\ Len(parts) \in Nat
             /\ new[Len(parts) + 1] = p /\ \A k \in 1..Len(parts) : new[k] = parts[k]
             /\ IF p.kind = "use" THEN Uses(new) = Uses(parts) \cup {Len(parts) + 1}
                                 ELSE Uses(new) = Uses(parts)
             /\ IF p.kind = "result" THEN Results(new) = Results(parts) \cup {Len(parts) + 1}
                                    ELSE Results(new) = Results(parts)
             /\ IF p = Error THEN ErrorsIn(new) = ErrorsIn(parts) \cup {Len(parts) + 1}
                            ELSE ErrorsIn(new) = ErrorsIn(parts)
             /\ SetPart(parts, Len(parts), p) = new
<1> DEFINE new == Append(parts, p)
<1>1. /\ new \in Seq(PartSet) /\ Len(new) = Len(parts) + 1 /\ Len(parts) \in Nat
      /\ new[Len(parts) + 1] = p /\ \A k \in 1..Len(parts) : new[k] = parts[k]
  OBVIOUS
<1>2. SetPart(parts, Len(parts), p) = new
  <2>1. new = [k \in 1..(Len(parts) + 1) |-> new[k]]
    <3> HIDE DEF new
    <3>1. new \in [1..Len(new) -> PartSet]
      BY <1>1, LenProperties
    <3> QED
      BY <1>1, <3>1
  <2>2. SetPart(parts, Len(parts), p) =
          [k \in 1..(Len(parts) + 1) |->
             IF k = Len(parts) + 1 THEN p ELSE IF k <= Len(parts) THEN parts[k] ELSE Hole]
    BY <1>1 DEF SetPart
  <2>3. \A k \in 1..(Len(parts) + 1) : k # Len(parts) + 1 => k <= Len(parts)
    BY <1>1
  <2> HIDE DEF new
  <2>4. \A k \in 1..(Len(parts) + 1) : k # Len(parts) + 1 => k \in 1..Len(parts)
    BY <1>1
  <2>5. \A k \in 1..(Len(parts) + 1) :
          new[k] = IF k = Len(parts) + 1 THEN p ELSE IF k <= Len(parts) THEN parts[k] ELSE Hole
    BY <1>1, <2>3, <2>4
  <2> QED
    BY <2>1, <2>2, <2>5
<1> HIDE DEF new
<1>3. \A k \in 1..Len(new) : k \in 1..Len(parts) \/ k = Len(parts) + 1
  BY <1>1
<1>4. \A k \in 1..Len(parts) : k \in 1..Len(new)
  BY <1>1
<1>5. Len(parts) + 1 \in 1..Len(new)
  BY <1>1
<1>6. IF p.kind = "use" THEN Uses(new) = Uses(parts) \cup {Len(parts) + 1} ELSE Uses(new) = Uses(parts)
  BY <1>1, <1>3, <1>4, <1>5 DEF Uses
<1>7. IF p.kind = "result" THEN Results(new) = Results(parts) \cup {Len(parts) + 1} ELSE Results(new) = Results(parts)
  BY <1>1, <1>3, <1>4, <1>5 DEF Results
<1>8. IF p = Error THEN ErrorsIn(new) = ErrorsIn(parts) \cup {Len(parts) + 1} ELSE ErrorsIn(new) = ErrorsIn(parts)
  BY <1>1, <1>3, <1>4, <1>5 DEF ErrorsIn
<1> QED
  BY <1>1, <1>2, <1>6, <1>7, <1>8 DEF new

(* A text or a card at an index no hole lies before.                       *)
LEMMA SetPartFacts ==
  ASSUME NEW parts \in Seq(PartSet), NEW p \in Plain \ {Error},
         NEW i \in Nat, i <= Len(parts)
  PROVE  LET new == SetPart(parts, i, p)
         IN  /\ new \in Seq(PartSet) /\ Len(new) >= i + 1 /\ Len(new) >= Len(parts)
             /\ Uses(new) \subseteq Uses(parts) /\ Results(new) \subseteq Results(parts)
             /\ \A k \in Uses(new) \cup Results(new) : new[k] = parts[k]
             /\ ErrorsIn(new) \subseteq ErrorsIn(parts)
<1> DEFINE new == SetPart(parts, i, p)
           n == IF i < Len(parts) THEN Len(parts) ELSE i + 1
<1>1. Len(parts) \in Nat /\ n \in Nat /\ n >= i + 1 /\ n >= Len(parts)
  OBVIOUS
<1>2. p \in PartSet /\ p.kind \notin {"use", "result"}
  BY PartFields DEF Plain, PartSet, Part
<1>3. new = [k \in 1..n |-> IF k = i + 1 THEN p ELSE IF k <= Len(parts) THEN parts[k] ELSE Hole]
  BY DEF SetPart
<1>4. \A k \in 1..n : k # i + 1 => k \in 1..Len(parts)
  OBVIOUS
<1> HIDE DEF new, n
<1>5. \A k \in 1..n : new[k] = IF k = i + 1 THEN p ELSE parts[k]
  BY <1>1, <1>3, <1>4
<1>6. new = [k \in 1..n |-> new[k]] /\ \A k \in 1..n : new[k] \in PartSet
  BY <1>1, <1>2, <1>3, <1>4, <1>5
<1>7. new \in Seq(PartSet) /\ Len(new) = n
  BY <1>1, <1>6
<1>8. Uses(new) \subseteq Uses(parts) /\ Results(new) \subseteq Results(parts)
  BY <1>2, <1>4, <1>5, <1>7 DEF Uses, Results
<1>9. \A k \in Uses(new) \cup Results(new) : new[k] = parts[k]
  BY <1>2, <1>5, <1>7 DEF Uses, Results
<1>10. ErrorsIn(new) \subseteq ErrorsIn(parts)
  BY <1>4, <1>5, <1>7 DEF ErrorsIn
<1> QED
  BY <1>1, <1>7, <1>8, <1>9, <1>10 DEF new, n

LEMMA SetPartBooked ==
  ASSUME NEW parts \in Seq(PartSet), NEW p \in Plain \ {Error}, NEW i \in Nat, i <= Len(parts),
         NEW n, NEW out, Booked(parts, n, out)
  PROVE  Booked(SetPart(parts, i, p), n, out)
<1> DEFINE new == SetPart(parts, i, p)
<1>1. /\ Uses(new) \subseteq Uses(parts) /\ Results(new) \subseteq Results(parts)
      /\ \A k \in Uses(new) \cup Results(new) : new[k] = parts[k]
  BY SetPartFacts
<1> HIDE DEF new
<1>2. Booked(new, n, out)
  BY <1>1 DEF Booked, UsesOnce, ResultsOnce
<1> QED
  BY <1>2 DEF new

(* A new call, in its message and in the others.                           *)
LEMMA UseBooked ==
  ASSUME NEW parts \in Seq(PartSet), NEW n \in Nat, NEW out, Booked(parts, n, out),
         n + 1 \in 1..MaxCalls
  PROVE  /\ Booked(Append(parts, Use(n + 1)), n + 1, out \cup {n + 1})
         /\ Booked(parts, n + 1, out \cup {n + 1})
<1> DEFINE new == Append(parts, Use(n + 1))
<1>1. \A k \in Uses(parts) \cup Results(parts) :
        parts[k].call \in Nat /\ parts[k].call <= n /\ k \in 1..Len(parts)
  <2> SUFFICES ASSUME NEW k \in Uses(parts) \cup Results(parts)
               PROVE  parts[k].call \in Nat /\ parts[k].call <= n /\ k \in 1..Len(parts)
    OBVIOUS
  <2>1. k \in 1..Len(parts) /\ parts[k].kind \in {"use", "result"} /\ parts[k] \in PartSet
    BY DEF Uses, Results
  <2>2. parts[k].call \in 1..MaxCalls
    BY <2>1, PartFields
  <2> QED
    BY <2>1, <2>2 DEF Booked
<1>2. Booked(parts, n + 1, out \cup {n + 1})
  <2>1. \A k \in Uses(parts) \cup Results(parts) :
          parts[k].call <= n + 1 /\ parts[k].call # n + 1
    BY <1>1
  <2> QED
    BY <2>1 DEF Booked
<1>3. Use(n + 1) \in PartSet /\ Use(n + 1).kind = "use" /\ Use(n + 1).call = n + 1
  BY NewParts
<1>4. /\ Len(parts) \in Nat /\ new[Len(parts) + 1] = Use(n + 1)
      /\ \A k \in 1..Len(parts) : new[k] = parts[k]
      /\ Uses(new) = Uses(parts) \cup {Len(parts) + 1} /\ Results(new) = Results(parts)
  <2>1. "use" # "result"
    OBVIOUS
  <2> QED
    BY <1>3, <2>1, AppendFacts
<1> HIDE DEF new
<1>5. \A k \in Uses(new) : \/ k = Len(parts) + 1 /\ new[k].call = n + 1
                           \/ k \in Uses(parts) /\ new[k].call = parts[k].call /\ parts[k].call # n + 1
                              /\ parts[k].call <= n + 1
  BY <1>1, <1>3, <1>4
<1>6. UsesOnce(new)
  BY <1>5 DEF UsesOnce, Booked
<1>7. \A k \in Results(new) : k \in Results(parts) /\ new[k] = parts[k]
  BY <1>1, <1>4
<1>8. \A k \in Uses(new) : new[k].call <= n + 1
  BY <1>5
<1>9. ResultsOnce(new) /\ \A k \in Results(new) : new[k].call <= n + 1 /\ new[k].call \notin out \cup {n + 1}
  BY <1>2, <1>7 DEF Booked, ResultsOnce
<1>10. Booked(new, n + 1, out \cup {n + 1})
  BY <1>6, <1>8, <1>9 DEF Booked
<1> QED
  BY <1>2, <1>10 DEF new

(* The result of a call that has none.                                     *)
Answers(parts, new, c) ==
  /\ new \in Seq(PartSet) /\ ResultsOnce(new)
  /\ \A d : HasResult(new, d) <=> HasResult(parts, d) \/ d = c
  /\ ErrorsIn(new) = ErrorsIn(parts)
  /\ Uses(new) = Uses(parts) /\ \A k \in Uses(new) : new[k] = parts[k]
  /\ Results(new) = Results(parts) \cup {Len(parts) + 1}
  /\ \A k \in Results(parts) : new[k] = parts[k]
  /\ new[Len(parts) + 1].call = c

LEMMA ResultAppended ==
  ASSUME NEW parts \in Seq(PartSet), NEW c, NEW p \in PartSet, p.kind = "result", p.call = c,
         ResultsOnce(parts), ~HasResult(parts, c)
  PROVE  Answers(parts, Append(parts, p), c)
<1> DEFINE new == Append(parts, p)
<1>1. p # Error
  BY DEF Error
<1>3. /\ new \in Seq(PartSet) /\ Len(new) = Len(parts) + 1 /\ Len(parts) \in Nat
      /\ new[Len(parts) + 1] = p /\ \A k \in 1..Len(parts) : new[k] = parts[k]
      /\ Uses(new) = Uses(parts) /\ ErrorsIn(new) = ErrorsIn(parts)
      /\ Results(new) = Results(parts) \cup {Len(parts) + 1}
  <2>1. "use" # "result"
    OBVIOUS
  <2> QED
    BY <1>1, <2>1, AppendFacts
<1> HIDE DEF new
<1>4. \A d : HasResult(new, d) <=> \E k \in Results(new) : new[k].call = d
  BY DEF HasResult, Results
<1>5. \A d : HasResult(parts, d) <=> \E k \in Results(parts) : parts[k].call = d
  BY DEF HasResult, Results
<1>6. \A k \in Results(parts) : k \in 1..Len(parts) /\ new[k] = parts[k]
  BY <1>3 DEF Results
<1>7. \A d : HasResult(new, d) <=> HasResult(parts, d) \/ d = c
  BY <1>1, <1>3, <1>4, <1>5, <1>6
<1>8. ResultsOnce(new)
  <2> SUFFICES ASSUME NEW j \in Results(new), NEW k \in Results(new), new[j].call = new[k].call
               PROVE  j = k
    BY DEF ResultsOnce
  <2>1. \A i \in Results(parts) : parts[i].call # c
    BY <1>5
  <2>2. \A i \in Results(new) : i # Len(parts) + 1 => i \in Results(parts) /\ new[i] = parts[i]
    BY <1>3, <1>6
  <2>3. new[Len(parts) + 1].call = c
    BY <1>1, <1>3
  <2> QED
    BY <2>1, <2>2, <2>3 DEF ResultsOnce
<1>9. \A k \in Uses(new) : new[k] = parts[k]
  BY <1>3 DEF Uses
<1> QED
  BY <1>3, <1>6, <1>7, <1>8, <1>9 DEF new, Answers

LEMMA ResultBooked ==
  ASSUME NEW parts \in Seq(PartSet), NEW c, NEW p \in PartSet, p.kind = "result", p.call = c,
         NEW n \in Nat, NEW out, Booked(parts, n, out), c \in out, c <= n
  PROVE  /\ ~HasResult(parts, c)
         /\ Booked(Append(parts, p), n, out \ {c})
         /\ Booked(parts, n, out \ {c})
<1> DEFINE new == Append(parts, p)
<1>1. ~HasResult(parts, c)
  BY DEF HasResult, Booked, Results
<1>2. Answers(parts, new, c)
  BY <1>1, ResultAppended DEF Booked
<1> HIDE DEF new
<1>3. Booked(new, n, out \ {c})
  BY <1>2 DEF Booked, UsesOnce, Answers
<1>4. Booked(parts, n, out \ {c})
  BY DEF Booked
<1> QED
  BY <1>1, <1>3, <1>4 DEF new

-------------------------------------------------------------------------------
(* The calls of a message without a result, and the results that close     *)
(* them.                                                                   *)

Lacking(parts) == {k \in 1..Len(parts) : Unanswered(parts, k)}

LEMMA MissingProperties ==
  ASSUME NEW parts \in Seq(PartSet)
  PROVE  /\ MissingCalls(parts) \in Seq(1..MaxCalls)
         /\ Elements(MissingCalls(parts)) = {parts[k].call : k \in Lacking(parts)}
         /\ UsesOnce(parts) => Distinct(MissingCalls(parts))
<1> DEFINE s == [k \in 1..Len(parts) |->
                   IF Unanswered(parts, k) THEN <<parts[k].call>> ELSE <<>>]
<1>1. Len(parts) \in Nat
  OBVIOUS
<1>2. \A k \in Lacking(parts) : k \in Uses(parts) /\ parts[k].call \in 1..MaxCalls
  <2> SUFFICES ASSUME NEW k \in Lacking(parts)
               PROVE  k \in Uses(parts) /\ parts[k].call \in 1..MaxCalls
    OBVIOUS
  <2>1. k \in 1..Len(parts) /\ parts[k].kind = "use" /\ parts[k] \in PartSet
    BY DEF Lacking, Unanswered
  <2> QED
    BY <2>1, PartFields DEF Uses
<1>3. ASSUME NEW k \in 1..Len(parts)
      PROVE  /\ s[k] \in Seq(1..MaxCalls) /\ Distinct(s[k])
             /\ Elements(s[k]) = IF Unanswered(parts, k) THEN {parts[k].call} ELSE {}
  <2>1. CASE Unanswered(parts, k)
    <3>1. s[k] = <<parts[k].call>> /\ parts[k].call \in 1..MaxCalls
      BY <1>2, <2>1 DEF Lacking
    <3>2. Len(s[k]) = 1 /\ s[k][1] = parts[k].call
      BY <3>1
    <3> QED
      BY <2>1, <3>1, <3>2 DEF Elements, Distinct
  <2>2. CASE ~Unanswered(parts, k)
    <3>1. s[k] = <<>>
      BY <2>2
    <3> QED
      BY <2>2, <3>1 DEF Elements, Distinct
  <2> QED
    BY <2>1, <2>2
<1>4. s \in Seq(Seq(1..MaxCalls)) /\ Len(s) = Len(parts)
  <2>1. s \in [1..Len(parts) -> Seq(1..MaxCalls)]
    BY <1>3
  <2> HIDE DEF s
  <2> QED
    BY <1>1, <2>1, FunctionIsSeq
<1>5. MissingCalls(parts) = FlattenSeq(s)
  BY DEF MissingCalls
<1> HIDE DEF s
<1>6. UNION {Elements(s[i]) : i \in 1..Len(s)} = {parts[k].call : k \in Lacking(parts)}
  <2>1. ASSUME NEW x \in UNION {Elements(s[i]) : i \in 1..Len(s)}
        PROVE  x \in {parts[k].call : k \in Lacking(parts)}
    <3>1. PICK i \in 1..Len(parts) : x \in Elements(s[i])
      BY <1>4, <2>1
    <3> QED
      BY <1>3, <3>1 DEF Lacking
  <2>2. ASSUME NEW k \in Lacking(parts)
        PROVE  parts[k].call \in UNION {Elements(s[i]) : i \in 1..Len(s)}
    <3>1. k \in 1..Len(s) /\ parts[k].call \in Elements(s[k])
      BY <1>3, <1>4, <2>2 DEF Lacking
    <3> QED
      BY <3>1
  <2> QED
    BY <2>1, <2>2
<1>7. ASSUME UsesOnce(parts), NEW i \in 1..Len(s), NEW j \in 1..Len(s), i # j
      PROVE  Elements(s[i]) \cap Elements(s[j]) = {}
  <2>1. CASE Unanswered(parts, i) /\ Unanswered(parts, j)
    <3>1. i \in Uses(parts) /\ j \in Uses(parts)
      BY <1>2, <1>4, <2>1 DEF Lacking
    <3>2. parts[i].call # parts[j].call
      BY <1>7, <3>1 DEF UsesOnce
    <3> QED
      BY <1>3, <1>4, <2>1, <3>2
  <2>2. CASE ~(Unanswered(parts, i) /\ Unanswered(parts, j))
    BY <1>3, <1>4, <2>2
  <2> QED
    BY <2>1, <2>2
<1>8. \A i \in 1..Len(s) : Distinct(s[i])
  BY <1>3, <1>4
<1>9. /\ FlattenSeq(s) \in Seq(1..MaxCalls)
      /\ Elements(FlattenSeq(s)) = UNION {Elements(s[i]) : i \in 1..Len(s)}
  BY <1>4, FlattenElements
<1>10. UsesOnce(parts) => Distinct(FlattenSeq(s))
  BY <1>4, <1>7, <1>8, FlattenElements
<1> QED
  BY <1>5, <1>6, <1>9, <1>10

LEMMA NothingMissing ==
  ASSUME NEW parts \in Seq(PartSet)
  PROVE  /\ MissingCalls(parts) = <<>> <=> Lacking(parts) = {}
         /\ Lacking(parts) = {} => CloseCalls(parts) = parts
<1>1. /\ MissingCalls(parts) \in Seq(1..MaxCalls)
      /\ Elements(MissingCalls(parts)) = {parts[k].call : k \in Lacking(parts)}
  BY MissingProperties
<1>2. Elements(MissingCalls(parts)) = {} <=> Lacking(parts) = {}
  BY <1>1
<1>3. MissingCalls(parts) = <<>> <=> Elements(MissingCalls(parts)) = {}
  <2>1. CASE MissingCalls(parts) = <<>>
    BY <2>1 DEF Elements
  <2>2. CASE MissingCalls(parts) # <<>>
    <3>1. 1 \in 1..Len(MissingCalls(parts))
      BY <1>1, <2>2
    <3> QED
      BY <2>2, <3>1 DEF Elements
  <2> QED
    BY <2>1, <2>2
<1>4. MissingCalls(parts) = <<>> => CloseCalls(parts) = parts
  <2> SUFFICES ASSUME MissingCalls(parts) = <<>> PROVE CloseCalls(parts) = parts
    OBVIOUS
  <2>1. [k \in 1..Len(MissingCalls(parts)) |-> Failure(MissingCalls(parts)[k])] = <<>>
    OBVIOUS
  <2>2. CloseCalls(parts) = parts \o <<>>
    BY <2>1 DEF CloseCalls, Failure
  <2> QED
    BY <2>2
<1> QED
  BY <1>2, <1>3, <1>4

(* The message after the results of its first j missing calls.             *)
PartlyClosed(parts, j) ==
  parts \o [k \in 1..j |-> Failure(MissingCalls(parts)[k])]

LEMMA NextClosed ==
  ASSUME NEW parts \in Seq(PartSet), NEW j \in 0..(Len(MissingCalls(parts)) - 1)
  PROVE  PartlyClosed(parts, j + 1) =
           Append(PartlyClosed(parts, j), Failure(MissingCalls(parts)[j + 1]))
<1> DEFINE mc == MissingCalls(parts)
           r(i) == [k \in 1..i |-> Failure(mc[k])]
<1>1. mc \in Seq(1..MaxCalls)
  BY MissingProperties
<1>2. j \in 0..(Len(mc) - 1)
  OBVIOUS
<1> HIDE DEF mc
<1>3. Len(mc) \in Nat /\ j \in Nat /\ j + 1 \in 1..Len(mc)
  BY <1>1, <1>2
<1>4. \A k \in 1..Len(mc) : Failure(mc[k]) \in PartSet
  <2> SUFFICES ASSUME NEW k \in 1..Len(mc) PROVE Failure(mc[k]) \in PartSet
    OBVIOUS
  <2>1. mc[k] \in 1..MaxCalls
    BY <1>1, ElementOfSeq
  <2> QED
    BY <2>1, FailedResult
<1>5. PICK a : a = r(j)
  OBVIOUS
<1>6. PICK b : b = r(j + 1)
  OBVIOUS
<1>7. PICK x \in PartSet : x = Failure(mc[j + 1])
  BY <1>3, <1>4
<1>8. a \in Seq(PartSet) /\ Len(a) = j /\ \A k \in 1..j : a[k] = Failure(mc[k])
  <2>1. \A k \in 1..j : Failure(mc[k]) \in PartSet
    BY <1>3, <1>4
  <2>2. a \in [1..j -> PartSet]
    BY <1>5, <2>1
  <2> QED
    BY <1>3, <1>5, <2>2, FunctionIsSeq
<1>9. b \in Seq(PartSet) /\ Len(b) = j + 1 /\ \A k \in 1..(j + 1) : b[k] = Failure(mc[k])
  <2>1. \A k \in 1..(j + 1) : Failure(mc[k]) \in PartSet
    BY <1>3, <1>4
  <2>2. b \in [1..(j + 1) -> PartSet]
    BY <1>6, <2>1
  <2> QED
    BY <1>3, <1>6, <2>2, FunctionIsSeq
<1>10. b = Append(a, x)
  <2>1. Append(a, x) \in Seq(PartSet) /\ Len(Append(a, x)) = j + 1
    BY <1>3, <1>8
  <2>2. \A k \in 1..(j + 1) : b[k] = Append(a, x)[k]
    BY <1>3, <1>7, <1>8, <1>9
  <2> QED
    BY <1>9, <2>1, <2>2, SeqEqual
<1>11. parts \o b = Append(parts \o a, x)
  BY <1>8, <1>10
<1> QED
  BY <1>5, <1>6, <1>7, <1>11 DEF PartlyClosed, mc

(* new is parts with one more result for each call of S.                   *)
ClosesFor(parts, new, S) ==
  /\ new \in Seq(PartSet) /\ ResultsOnce(new)
  /\ \A d : HasResult(new, d) <=> HasResult(parts, d) \/ d \in S
  /\ ErrorsIn(new) = ErrorsIn(parts)
  /\ Uses(new) = Uses(parts) /\ \A k \in Uses(new) : new[k] = parts[k]

FirstMissing(parts, j) == {MissingCalls(parts)[k] : k \in 1..j}

LEMMA PartlyClosedProperties ==
  ASSUME NEW parts \in Seq(PartSet), UsesOnce(parts), ResultsOnce(parts),
         NEW j \in 0..Len(MissingCalls(parts))
  PROVE  ClosesFor(parts, PartlyClosed(parts, j), FirstMissing(parts, j))
<1> DEFINE mc == MissingCalls(parts)
           T == {i \in 0..Len(mc) :
                   ClosesFor(parts, PartlyClosed(parts, i), FirstMissing(parts, i))}
<1>1. /\ mc \in Seq(1..MaxCalls) /\ Distinct(mc) /\ Len(mc) \in Nat
      /\ Elements(mc) = {parts[k].call : k \in Lacking(parts)}
  BY MissingProperties
<1>2. \A i \in 1..Len(mc) : ~HasResult(parts, mc[i])
  BY <1>1 DEF Elements, Lacking, Unanswered
<1> HIDE DEF mc
<1>3. 0 \in T
  <2>0. 0 \in 0..Len(mc)
    BY <1>1
  <2>1. PartlyClosed(parts, 0) = parts
    <3>1. [k \in 1..0 |-> Failure(MissingCalls(parts)[k])] = <<>>
      OBVIOUS
    <3>2. PartlyClosed(parts, 0) = parts \o <<>>
      BY <3>1 DEF PartlyClosed
    <3> QED
      BY <3>2
  <2>2. FirstMissing(parts, 0) = {}
    BY DEF FirstMissing
  <2>3. ClosesFor(parts, parts, {})
    BY DEF ClosesFor
  <2> QED
    BY <2>0, <2>1, <2>2, <2>3, Zenon
<1>4. ASSUME NEW i \in 0..(Len(mc) - 1), i \in T PROVE i + 1 \in T
  <2> DEFINE old == PartlyClosed(parts, i)
             c == mc[i + 1]
             new == PartlyClosed(parts, i + 1)
  <2>1. i + 1 \in 1..Len(mc) /\ i \in Nat /\ c \in 1..MaxCalls
    <3>1. i + 1 \in 1..Len(mc) /\ i \in Nat
      BY <1>1
    <3>2. \A k \in 1..Len(mc) : mc[k] \in 1..MaxCalls
      BY <1>1, ElementOfSeq
    <3> QED
      BY <3>1, <3>2, Zenon
  <2>2. ClosesFor(parts, old, FirstMissing(parts, i))
    BY <1>4
  <2>3. new = Append(old, Failure(c))
    BY NextClosed DEF mc
  <2> HIDE DEF new, old
  <2>4. /\ FirstMissing(parts, i + 1) = FirstMissing(parts, i) \cup {c}
        /\ c \notin FirstMissing(parts, i)
    <3>1. 1..(i + 1) = (1..i) \cup {i + 1} /\ \A k \in 1..i : k \in 1..Len(mc) /\ k # i + 1
      BY <1>1, <2>1
    <3>2. \A k \in 1..i : mc[k] # c
      BY <1>1, <2>1, <3>1 DEF Distinct
    <3> QED
      BY <3>1, <3>2 DEF FirstMissing, mc
  <2>5. ~HasResult(old, c)
    BY <1>2, <2>1, <2>2, <2>4 DEF ClosesFor
  <2>6. Answers(old, new, c)
    <3>1. /\ Failure(c) \in PartSet /\ Failure(c).kind = "result"
          /\ Failure(c).call = c
      BY <2>1, FailedResult
    <3>2. old \in Seq(PartSet) /\ ResultsOnce(old)
      BY <2>2 DEF ClosesFor
    <3> QED
      BY <2>3, <2>5, <3>1, <3>2, ResultAppended
  <2>7. ClosesFor(parts, new, FirstMissing(parts, i + 1))
    BY <2>2, <2>4, <2>6 DEF ClosesFor, Answers
  <2>8. i + 1 \in 0..Len(mc)
    BY <1>1, <2>1
  <2> QED
    BY <2>7, <2>8 DEF new
<1> HIDE DEF T
<1>5. j \in T
  <2>1. \A i \in 0..Len(mc) : i \in T
    BY <1>1, <1>3, <1>4, Induction
  <2> QED
    BY <2>1 DEF mc
<1> QED
  BY <1>5 DEF T

LEMMA CloseProperties ==
  ASSUME NEW parts \in Seq(PartSet), UsesOnce(parts), ResultsOnce(parts)
  PROVE  /\ CloseCalls(parts) = PartlyClosed(parts, Len(MissingCalls(parts)))
         /\ ClosesFor(parts, CloseCalls(parts), Elements(MissingCalls(parts)))
         /\ Lacking(CloseCalls(parts)) = {}
<1> DEFINE mc == MissingCalls(parts)
           new == CloseCalls(parts)
<1>1. Len(mc) \in Nat /\ Elements(mc) = {parts[k].call : k \in Lacking(parts)}
  BY MissingProperties
<1>2. new = PartlyClosed(parts, Len(mc))
  BY DEF CloseCalls, PartlyClosed, Failure
<1>3. FirstMissing(parts, Len(mc)) = Elements(mc)
  BY DEF FirstMissing, Elements
<1>4. Len(mc) \in 0..Len(mc)
  BY <1>1
<1> HIDE DEF mc, new
<1>5. ClosesFor(parts, new, Elements(mc))
  BY <1>2, <1>3, <1>4, PartlyClosedProperties DEF mc
<1>6. Lacking(new) = {}
  <2> SUFFICES ASSUME NEW k \in Lacking(new) PROVE FALSE
    OBVIOUS
  <2>1. k \in Uses(new) /\ ~HasResult(new, new[k].call)
    BY DEF Lacking, Unanswered, Uses
  <2>2. k \in Uses(parts) /\ new[k] = parts[k]
    BY <1>5, <2>1 DEF ClosesFor
  <2>3. ~HasResult(parts, parts[k].call) /\ parts[k].call \notin Elements(mc)
    BY <1>5, <2>1, <2>2 DEF ClosesFor
  <2>4. k \in Lacking(parts)
    BY <2>2, <2>3 DEF Lacking, Unanswered, Uses
  <2> QED
    BY <1>1, <2>3, <2>4
<1> QED
  BY <1>2, <1>5, <1>6 DEF mc, new

-------------------------------------------------------------------------------
(* What the tab makes of a sequence of events.                             *)

RunStates == Final \cup {"none", "running"}

RunAfter(r, e) ==
  CASE e.type = "run.start" -> "running"
    [] e.type = "run.end" /\ r # "none" -> e.status
    [] OTHER -> r

(* Messages as rows have them, no call with two results.                   *)
Good(msgs) == msgs \in Seq(MessageRow) /\ \A m \in 1..Len(msgs) : ResultsOnce(msgs[m].parts)

(* One event takes the run's copy from r to q and the messages' from msgs  *)
(* to next; with the custom adapter it adds only.                          *)
TabStep(kind, r, msgs, e, q, next) ==
  /\ q = RunAfter(r, e) /\ q \in RunStates
  /\ next = Applied(msgs, e) /\ Good(next)
  /\ kind = "turns" => OnlyAdded(msgs, next)

(* The events of w, one after the other, do.                               *)
Passes(kind, w, rs, ms) ==
  \A i \in 1..Len(w) : TabStep(kind, rs[i], ms[i], w[i], rs[i + 1], ms[i + 1])
Trace(kind, r, msgs, w, q, next) ==
  \E rs, ms : /\ rs[1] = r /\ ms[1] = msgs
              /\ rs[Len(w) + 1] = q /\ ms[Len(w) + 1] = next
              /\ Passes(kind, w, rs, ms)

LEMMA TraceNone ==
  ASSUME NEW kind, NEW r, NEW msgs, NEW q, NEW next
  PROVE  Trace(kind, r, msgs, <<>>, q, next) <=> r = q /\ msgs = next
<1>1. ASSUME Trace(kind, r, msgs, <<>>, q, next) PROVE r = q /\ msgs = next
  BY <1>1 DEF Trace
<1>2. ASSUME r = q, msgs = next PROVE Trace(kind, r, msgs, <<>>, q, next)
  <2> DEFINE rs == [i \in {1} |-> r]
             ms == [i \in {1} |-> msgs]
  <2>1. rs[1] = r /\ ms[1] = msgs
    OBVIOUS
  <2> HIDE DEF rs, ms
  <2>2. Passes(kind, <<>>, rs, ms)
    BY DEF Passes
  <2> QED
    BY <1>2, <2>1, <2>2 DEF Trace
<1> QED
  BY <1>1, <1>2

LEMMA TraceOne ==
  ASSUME NEW kind, NEW r, NEW msgs, NEW e, NEW q, NEW next,
         TabStep(kind, r, msgs, e, q, next)
  PROVE  Trace(kind, r, msgs, <<e>>, q, next)
<1> DEFINE rs == [i \in {1, 2} |-> IF i = 1 THEN r ELSE q]
           ms == [i \in {1, 2} |-> IF i = 1 THEN msgs ELSE next]
<1>1. rs[1] = r /\ ms[1] = msgs /\ rs[2] = q /\ ms[2] = next
  OBVIOUS
<1>2. Len(<<e>>) = 1 /\ <<e>>[1] = e
  OBVIOUS
<1> HIDE DEF rs, ms
<1>3. Passes(kind, <<e>>, rs, ms)
  BY <1>1, <1>2 DEF Passes
<1> QED
  BY <1>1, <1>2, <1>3 DEF Trace

LEMMA TraceHead ==
  ASSUME NEW kind, NEW r, NEW msgs, NEW X, NEW w \in Seq(X), w # <<>>, NEW q, NEW next,
         Trace(kind, r, msgs, w, q, next)
  PROVE  \E r1, m1 : /\ TabStep(kind, r, msgs, Head(w), r1, m1)
                     /\ Trace(kind, r1, m1, Tail(w), q, next)
<1>1. PICK rs, ms : /\ rs[1] = r /\ ms[1] = msgs
                    /\ rs[Len(w) + 1] = q /\ ms[Len(w) + 1] = next
                    /\ Passes(kind, w, rs, ms)
  BY DEF Trace
<1>2. /\ Len(w) \in Nat /\ 1 \in 1..Len(w) /\ Head(w) = w[1] /\ Len(Tail(w)) = Len(w) - 1
      /\ \A i \in 1..(Len(w) - 1) : Tail(w)[i] = w[i + 1]
  BY HeadTailProperties, EmptySeq, LenProperties
<1>3. TabStep(kind, r, msgs, Head(w), rs[2], ms[2])
  <2>1. TabStep(kind, rs[1], ms[1], w[1], rs[1 + 1], ms[1 + 1])
    BY <1>1, <1>2 DEF Passes
  <2> QED
    BY <1>1, <1>2, <2>1
<1> DEFINE n == Len(w)
           rt == [i \in 1..n |-> rs[i + 1]]
           mt == [i \in 1..n |-> ms[i + 1]]
<1>4. n \in Nat /\ 1 \in 1..n /\ \A i \in 1..n : rt[i] = rs[i + 1] /\ mt[i] = ms[i + 1]
  BY <1>2
<1> HIDE DEF rt, mt, n
<1>5. rt[1] = rs[2] /\ mt[1] = ms[2] /\ rt[n] = rs[n + 1] /\ mt[n] = ms[n + 1]
  BY <1>4
<1>6. ASSUME NEW i \in 1..(n - 1)
      PROVE  TabStep(kind, rt[i], mt[i], Tail(w)[i], rt[i + 1], mt[i + 1])
  <2>1. i \in 1..n /\ i + 1 \in 1..n /\ Tail(w)[i] = w[i + 1]
    BY <1>2, <1>4 DEF n
  <2>2. TabStep(kind, rs[i + 1], ms[i + 1], w[i + 1], rs[(i + 1) + 1], ms[(i + 1) + 1])
    BY <1>1, <2>1 DEF Passes, n
  <2>3. /\ rt[i] = rs[i + 1] /\ rt[i + 1] = rs[(i + 1) + 1]
        /\ mt[i] = ms[i + 1] /\ mt[i + 1] = ms[(i + 1) + 1]
    BY <1>4, <2>1
  <2> QED
    BY <2>1, <2>2, <2>3
<1>7. Len(Tail(w)) = n - 1 /\ (n - 1) + 1 = n
  BY <1>2, <1>4 DEF n
<1>8. Passes(kind, Tail(w), rt, mt)
  BY <1>6, <1>7 DEF Passes
<1>9. Trace(kind, rs[2], ms[2], Tail(w), q, next)
  BY <1>1, <1>5, <1>7, <1>8 DEF Trace, n
<1> QED
  BY <1>3, <1>9

LEMMA TraceThen ==
  ASSUME NEW kind, NEW X, NEW w \in Seq(X), NEW v \in Seq(X),
         NEW r, NEW msgs, NEW r1, NEW m1, NEW q, NEW next,
         Trace(kind, r, msgs, w, r1, m1), Trace(kind, r1, m1, v, q, next)
  PROVE  Trace(kind, r, msgs, w \o v, q, next)
<1>1. PICK rs, ms : /\ rs[1] = r /\ ms[1] = msgs
                    /\ rs[Len(w) + 1] = r1 /\ ms[Len(w) + 1] = m1
                    /\ Passes(kind, w, rs, ms)
  BY DEF Trace
<1>2. PICK rt, mt : /\ rt[1] = r1 /\ mt[1] = m1
                    /\ rt[Len(v) + 1] = q /\ mt[Len(v) + 1] = next
                    /\ Passes(kind, v, rt, mt)
  BY DEF Trace
<1> DEFINE n == Len(w)
           k == Len(v)
           u == w \o v
           ru == [i \in 1..(n + k + 1) |-> IF i <= n THEN rs[i] ELSE rt[i - n]]
           mu == [i \in 1..(n + k + 1) |-> IF i <= n THEN ms[i] ELSE mt[i - n]]
<1>3. /\ n \in Nat /\ k \in Nat /\ Len(u) = n + k
      /\ \A i \in 1..n : u[i] = w[i]
      /\ \A i \in 1..k : u[n + i] = v[i]
  OBVIOUS
<1>4. /\ \A i \in 1..(n + k + 1) : ru[i] = IF i <= n THEN rs[i] ELSE rt[i - n]
      /\ \A i \in 1..(n + k + 1) : mu[i] = IF i <= n THEN ms[i] ELSE mt[i - n]
  OBVIOUS
<1> HIDE DEF ru, mu, u
<1>5. rs[n + 1] = rt[1] /\ ms[n + 1] = mt[1]
  BY <1>1, <1>2 DEF n
<1> HIDE DEF n, k
<1>6. \A i \in 1..(n + 1) : ru[i] = rs[i] /\ mu[i] = ms[i]
  <2> SUFFICES ASSUME NEW i \in 1..(n + 1) PROVE ru[i] = rs[i] /\ mu[i] = ms[i]
    OBVIOUS
  <2>1. CASE i <= n
    BY <1>3, <1>4, <2>1
  <2>2. CASE i = n + 1
    <3>1. ~(i <= n) /\ i - n = 1 /\ i \in 1..(n + k + 1)
      BY <1>3, <2>2
    <3> QED
      BY <1>4, <1>5, <2>2, <3>1
  <2> QED
    BY <1>3, <2>1, <2>2
<1>7. \A i \in 1..(k + 1) : ru[n + i] = rt[i] /\ mu[n + i] = mt[i]
  <2> SUFFICES ASSUME NEW i \in 1..(k + 1) PROVE ru[n + i] = rt[i] /\ mu[n + i] = mt[i]
    OBVIOUS
  <2>1. ~(n + i <= n) /\ (n + i) - n = i /\ n + i \in 1..(n + k + 1)
    BY <1>3
  <2> QED
    BY <1>4, <2>1
<1>8. ASSUME NEW i \in 1..(n + k) PROVE TabStep(kind, ru[i], mu[i], u[i], ru[i + 1], mu[i + 1])
  <2>1. CASE i \in 1..n
    <3>1. TabStep(kind, rs[i], ms[i], w[i], rs[i + 1], ms[i + 1])
      BY <1>1, <2>1 DEF Passes, n
    <3>2. i \in 1..(n + 1) /\ i + 1 \in 1..(n + 1)
      BY <1>3, <2>1
    <3> QED
      BY <1>3, <1>6, <2>1, <3>1, <3>2
  <2>2. CASE i \notin 1..n
    <3> DEFINE j == i - n
    <3>1. j \in 1..k /\ n + j = i /\ n + (j + 1) = i + 1 /\ j \in 1..(k + 1) /\ j + 1 \in 1..(k + 1)
      BY <1>3, <2>2
    <3> HIDE DEF j
    <3>2. TabStep(kind, rt[j], mt[j], v[j], rt[j + 1], mt[j + 1])
      BY <1>2, <3>1 DEF Passes, k
    <3>3. /\ ru[i] = rt[j] /\ mu[i] = mt[j] /\ u[i] = v[j]
          /\ ru[i + 1] = rt[j + 1] /\ mu[i + 1] = mt[j + 1]
      BY <1>3, <1>7, <3>1
    <3> QED
      BY <3>2, <3>3
  <2> QED
    BY <2>1, <2>2
<1>9. Passes(kind, u, ru, mu)
  BY <1>3, <1>8 DEF Passes
<1>10. ru[1] = r /\ mu[1] = msgs /\ ru[Len(u) + 1] = q /\ mu[Len(u) + 1] = next
  <2>1. 1 \in 1..(n + 1) /\ k + 1 \in 1..(k + 1) /\ Len(u) + 1 = n + (k + 1)
    BY <1>3
  <2> QED
    BY <1>1, <1>2, <1>6, <1>7, <2>1 DEF k
<1>11. Trace(kind, r, msgs, u, q, next)
  BY <1>9, <1>10 DEF Trace
<1> QED
  BY <1>11 DEF u

-------------------------------------------------------------------------------
(* What the writes and the events do to the messages.                      *)

LEMMA SetPartAppends ==
  ASSUME NEW X, NEW s \in Seq(X), NEW x \in X
  PROVE  SetPart(s, Len(s), x) = Append(s, x)
<1> DEFINE new == Append(s, x)
<1>1. /\ new \in Seq(X) /\ Len(new) = Len(s) + 1 /\ Len(s) \in Nat
      /\ new[Len(s) + 1] = x /\ \A k \in 1..Len(s) : new[k] = s[k]
  OBVIOUS
<1>2. SetPart(s, Len(s), x) =
        [k \in 1..(Len(s) + 1) |->
           IF k = Len(s) + 1 THEN x ELSE IF k <= Len(s) THEN s[k] ELSE Hole]
  BY <1>1 DEF SetPart
<1> HIDE DEF new
<1>3. new = [k \in 1..(Len(s) + 1) |-> new[k]]
  <2>1. new \in [1..Len(new) -> X]
    BY <1>1, LenProperties
  <2> QED
    BY <1>1, <2>1
<1>4. \A k \in 1..(Len(s) + 1) :
        /\ k # Len(s) + 1 => k <= Len(s) /\ k \in 1..Len(s)
        /\ new[k] = IF k = Len(s) + 1 THEN x ELSE IF k <= Len(s) THEN s[k] ELSE Hole
  BY <1>1
<1> QED
  BY <1>2, <1>3, <1>4 DEF new

LEMMA Prefix ==
  ASSUME NEW X, NEW s \in Seq(X), NEW t \in Seq(X), Len(s) <= Len(t),
         \A k \in 1..Len(s) : t[k] = s[k]
  PROVE  IsPrefix(s, t)
<1>1. Len(s) \in Nat /\ Len(t) \in Nat /\ \A k \in 1..Len(s) : s[k] \in X /\ t[k] \in X
  BY ElementOfSeq
<1>2. \A k \in 1..((Len(s) - 1) + 1) : (1 + k) - 1 = k /\ k \in 1..Len(s)
  BY <1>1
<1>3. /\ SubSeq(s, 1, Len(s)) \in Seq(X) /\ SubSeq(t, 1, Len(s)) \in Seq(X)
      /\ Len(SubSeq(s, 1, Len(s))) = Len(SubSeq(t, 1, Len(s)))
      /\ Len(SubSeq(s, 1, Len(s))) = Len(s)
      /\ \A k \in 1..Len(s) : SubSeq(s, 1, Len(s))[k] = SubSeq(t, 1, Len(s))[k]
  BY <1>1
<1>4. SubSeq(s, 1, Len(s)) = SubSeq(t, 1, Len(s))
  BY <1>3, SeqEqual
<1> QED
  BY <1>4 DEF IsPrefix

LEMMA PrefixElements ==
  ASSUME NEW X, NEW s \in Seq(X), NEW t \in Seq(X), IsPrefix(s, t)
  PROVE  \A k \in 1..Len(s) : t[k] = s[k]
<1>1. Len(s) \in Nat /\ Len(t) \in Nat /\ Len(s) <= Len(t)
      /\ SubSeq(s, 1, Len(s)) = SubSeq(t, 1, Len(s))
  BY DEF IsPrefix
<1>2. \A k \in 1..Len(s) : SubSeq(s, 1, Len(s))[k] = s[k] /\ SubSeq(t, 1, Len(s))[k] = t[k]
  BY <1>1
<1> QED
  BY <1>1, <1>2

Status == {"streaming", "complete", "aborted", "error"}

LEMMA RowFields ==
  ASSUME NEW x \in MessageRow
  PROVE  x.parts \in Seq(PartSet) /\ x.status \in Status
  BY DEF MessageRow, PartSet, Status

LEMMA SameRow ==
  ASSUME NEW x \in MessageRow, NEW y \in MessageRow, x.parts = y.parts, x.status = y.status
  PROVE  x = y
  BY DEF MessageRow

(* The parts, or the status, of message m are replaced.                    *)
Put(msgs, m, parts) == [msgs EXCEPT ![m].parts = parts]
Mark(msgs, m, s) == [msgs EXCEPT ![m].status = s]

LEMMA PutParts ==
  ASSUME NEW msgs \in Seq(MessageRow), NEW m \in 1..Len(msgs), NEW parts \in Seq(PartSet)
  PROVE  LET new == Put(msgs, m, parts)
         IN  /\ new \in Seq(MessageRow) /\ Len(new) = Len(msgs)
             /\ new[m].parts = parts /\ new[m].status = msgs[m].status
             /\ \A k \in 1..Len(msgs) : k # m => new[k] = msgs[k]
<1> DEFINE x == [msgs[m] EXCEPT !.parts = parts]
<1>1. msgs[m] \in MessageRow
  BY ElementOfSeq
<1>2. x \in MessageRow /\ x.parts = parts /\ x.status = msgs[m].status
  BY <1>1 DEF MessageRow, PartSet
<1> HIDE DEF x
<1>3. Put(msgs, m, parts) = [msgs EXCEPT ![m] = x]
  BY DEF x, Put
<1> QED
  BY <1>2, <1>3, ExceptSeq

LEMMA PutTwice ==
  ASSUME NEW msgs \in Seq(MessageRow), NEW m \in 1..Len(msgs),
         NEW p \in Seq(PartSet), NEW q \in Seq(PartSet)
  PROVE  Put(Put(msgs, m, p), m, q) = Put(msgs, m, q)
<1>1. PICK a : a = Put(msgs, m, p)
  OBVIOUS
<1>2. PICK b : b = Put(a, m, q)
  OBVIOUS
<1>3. PICK c : c = Put(msgs, m, q)
  OBVIOUS
<1>4. /\ a \in Seq(MessageRow) /\ Len(a) = Len(msgs)
      /\ a[m].status = msgs[m].status
      /\ \A k \in 1..Len(msgs) : k # m => a[k] = msgs[k]
  BY <1>1, PutParts
<1>5. /\ b \in Seq(MessageRow) /\ Len(b) = Len(a)
      /\ b[m].parts = q /\ b[m].status = a[m].status
      /\ \A k \in 1..Len(a) : k # m => b[k] = a[k]
  <2>1. a \in Seq(MessageRow) /\ m \in 1..Len(a)
    BY <1>4
  <2>2. LET new == Put(a, m, q)
        IN  /\ new \in Seq(MessageRow) /\ Len(new) = Len(a)
            /\ new[m].parts = q /\ new[m].status = a[m].status
            /\ \A k \in 1..Len(a) : k # m => new[k] = a[k]
    BY <2>1, PutParts
  <2> QED
    BY <1>2, <2>2
<1>6. /\ c \in Seq(MessageRow) /\ Len(c) = Len(msgs)
      /\ c[m].parts = q /\ c[m].status = msgs[m].status
      /\ \A k \in 1..Len(msgs) : k # m => c[k] = msgs[k]
  BY <1>3, PutParts
<1>7. b[m] = c[m]
  <2>1. b[m] \in MessageRow /\ c[m] \in MessageRow
    BY <1>4, <1>5, <1>6, ElementOfSeq
  <2> QED
    BY <1>4, <1>5, <1>6, <2>1, SameRow
<1>8. \A k \in 1..Len(b) : b[k] = c[k]
  BY <1>4, <1>5, <1>6, <1>7
<1>9. b = c
  BY <1>4, <1>5, <1>6, <1>8, SeqEqual
<1> QED
  BY <1>1, <1>2, <1>3, <1>9

LEMMA PutStatus ==
  ASSUME NEW msgs \in Seq(MessageRow), NEW m \in 1..Len(msgs), NEW s \in Status
  PROVE  LET new == Mark(msgs, m, s)
         IN  /\ new \in Seq(MessageRow) /\ Len(new) = Len(msgs)
             /\ new[m].parts = msgs[m].parts /\ new[m].status = s
             /\ \A k \in 1..Len(msgs) : k # m => new[k] = msgs[k]
<1> DEFINE x == [msgs[m] EXCEPT !.status = s]
<1>1. msgs[m] \in MessageRow
  BY ElementOfSeq
<1>2. x \in MessageRow /\ x.parts = msgs[m].parts /\ x.status = s
  BY <1>1 DEF MessageRow, PartSet, Status
<1> HIDE DEF x
<1>3. Mark(msgs, m, s) = [msgs EXCEPT ![m] = x]
  BY DEF x, Mark
<1> QED
  BY <1>2, <1>3, ExceptSeq

LEMMA NewMessage ==
  ASSUME NEW msgs \in Seq(MessageRow), NEW x \in MessageRow
  PROVE  LET new == Append(msgs, x)
         IN  /\ new \in Seq(MessageRow) /\ Len(new) = Len(msgs) + 1 /\ Len(msgs) \in Nat
             /\ new[Len(msgs) + 1] = x
             /\ \A k \in 1..Len(msgs) : new[k] = msgs[k]
  OBVIOUS

(* Nothing of a message is taken back when its parts are kept.             *)
LEMMA KeepsParts ==
  ASSUME NEW msgs \in Seq(MessageRow), NEW next \in Seq(MessageRow), Len(msgs) <= Len(next),
         \A m \in 1..Len(msgs) : next[m].parts = msgs[m].parts
  PROVE  /\ OnlyAdded(msgs, next)
         /\ Len(next) = Len(msgs) /\ Good(msgs) => Good(next)
<1>1. Len(msgs) \in Nat /\ Len(next) \in Nat
  OBVIOUS
<1>2. ASSUME NEW m \in 1..Len(msgs)
      PROVE  m <= Len(next) /\ IsPrefix(msgs[m].parts, next[m].parts)
  <2>1. msgs[m].parts \in Seq(PartSet)
    BY ElementOfSeq, RowFields
  <2>2. IsPrefix(msgs[m].parts, msgs[m].parts)
    BY <2>1, Prefix
  <2> QED
    BY <1>1, <2>2
<1> QED
  BY <1>2 DEF OnlyAdded, Good

LEMMA PutAdds ==
  ASSUME NEW msgs \in Seq(MessageRow), NEW m \in 1..Len(msgs), NEW parts \in Seq(PartSet)
  PROVE  /\ IsPrefix(msgs[m].parts, parts) => OnlyAdded(msgs, Put(msgs, m, parts))
         /\ Good(msgs) /\ ResultsOnce(parts) => Good(Put(msgs, m, parts))
<1> DEFINE new == Put(msgs, m, parts)
<1>1. /\ new \in Seq(MessageRow) /\ Len(new) = Len(msgs) /\ Len(msgs) \in Nat
      /\ new[m].parts = parts
      /\ \A k \in 1..Len(msgs) : k # m => new[k] = msgs[k]
  BY PutParts
<1> HIDE DEF new
<1>2. \A k \in 1..Len(msgs) : IsPrefix(msgs[k].parts, msgs[k].parts)
  <2> SUFFICES ASSUME NEW k \in 1..Len(msgs) PROVE IsPrefix(msgs[k].parts, msgs[k].parts)
    OBVIOUS
  <2>1. msgs[k].parts \in Seq(PartSet)
    BY ElementOfSeq, RowFields
  <2> QED
    BY <2>1, Prefix
<1>3. IsPrefix(msgs[m].parts, parts) => OnlyAdded(msgs, new)
  BY <1>1, <1>2 DEF OnlyAdded
<1>4. Good(msgs) /\ ResultsOnce(parts) => Good(new)
  BY <1>1 DEF Good
<1> QED
  BY <1>3, <1>4 DEF new

LEMMA NewMessageAdds ==
  ASSUME NEW msgs \in Seq(MessageRow), NEW x \in MessageRow
  PROVE  /\ OnlyAdded(msgs, Append(msgs, x))
         /\ Good(msgs) /\ ResultsOnce(x.parts) => Good(Append(msgs, x))
<1> DEFINE new == Append(msgs, x)
<1>1. /\ new \in Seq(MessageRow) /\ Len(new) = Len(msgs) + 1 /\ Len(msgs) \in Nat
      /\ new[Len(msgs) + 1] = x
      /\ \A k \in 1..Len(msgs) : new[k] = msgs[k]
  BY NewMessage
<1> HIDE DEF new
<1>2. OnlyAdded(msgs, new)
  <2>1. Len(msgs) <= Len(new) /\ \A k \in 1..Len(msgs) : new[k].parts = msgs[k].parts
    BY <1>1
  <2> QED
    BY <1>1, <2>1, KeepsParts
<1>3. Good(msgs) /\ ResultsOnce(x.parts) => Good(new)
  BY <1>1 DEF Good
<1> QED
  BY <1>2, <1>3 DEF new

LEMMA AppendAdds ==
  ASSUME NEW parts \in Seq(PartSet), NEW p \in PartSet
  PROVE  Append(parts, p) \in Seq(PartSet) /\ IsPrefix(parts, Append(parts, p))
<1> DEFINE new == Append(parts, p)
<1>1. /\ new \in Seq(PartSet) /\ Len(parts) <= Len(new)
      /\ \A k \in 1..Len(parts) : new[k] = parts[k]
  OBVIOUS
<1> HIDE DEF new
<1>2. IsPrefix(parts, new)
  BY <1>1, Prefix
<1> QED
  BY <1>1, <1>2 DEF new

(* How the reducers apply each event.                                      *)
LEMMA OnRunStart ==
  ASSUME NEW msgs, NEW r
  PROVE  /\ Applied(msgs, RunStart) = msgs
         /\ RunAfter(r, RunStart) = "running"
  BY DEF Applied, RunAfter, RunStart

LEMMA OnRunEnd ==
  ASSUME NEW msgs, NEW r, NEW s
  PROVE  /\ Applied(msgs, RunEnd(s)) = AppliedEnd(msgs, s)
         /\ RunAfter(r, RunEnd(s)) = IF r = "none" THEN "none" ELSE s
  BY DEF Applied, RunAfter, RunEnd

LEMMA OnMessageStart ==
  ASSUME NEW msgs, NEW r, NEW m
  PROVE  /\ Applied(msgs, MessageStart(m)) = SetPart(msgs, m - 1, Fresh)
         /\ RunAfter(r, MessageStart(m)) = r
  BY DEF Applied, RunAfter, MessageStart

LEMMA OnMessageEnd ==
  ASSUME NEW msgs, NEW r, NEW m
  PROVE  /\ Applied(msgs, MessageEnd(m)) = Mark(msgs, m, "complete")
         /\ RunAfter(r, MessageEnd(m)) = r
  BY DEF Applied, RunAfter, MessageEnd, Mark

LEMMA OnPart ==
  ASSUME NEW msgs, NEW r, NEW m, NEW i, NEW p
  PROVE  /\ Applied(msgs, PartStart(m, i, p)) = Put(msgs, m, SetPart(msgs[m].parts, i, p))
         /\ RunAfter(r, PartStart(m, i, p)) = r
  BY DEF Applied, RunAfter, AppliedPart, PartStart, Put

LEMMA OnCall ==
  ASSUME NEW msgs, NEW r, NEW m, NEW c
  PROVE  /\ Applied(msgs, ToolCall(m, c)) = Put(msgs, m, Append(msgs[m].parts, Use(c)))
         /\ RunAfter(r, ToolCall(m, c)) = r
  BY DEF Applied, RunAfter, AppliedPart, ToolCall, Put

LEMMA OnResult ==
  ASSUME NEW msgs, NEW r, NEW m, NEW c, NEW f \in BOOLEAN
  PROVE  /\ Applied(msgs, ToolResult(m, c, f)) = Put(msgs, m, PutResult(msgs[m].parts, c, f))
         /\ RunAfter(r, ToolResult(m, c, f)) = r
  BY DEF Applied, RunAfter, AppliedPart, ToolResult, Put

-------------------------------------------------------------------------------
(* The inductive invariant.                                                *)

StreamEvent ==
  {RunStart}
    \cup {MessageStart(m) : m \in Nat} \cup {MessageEnd(m) : m \in Nat}
    \cup {PartStart(m, i, p) : m \in Nat, i \in Nat, p \in PartSet}
    \cup {ToolCall(m, c) : m \in Nat, c \in 1..MaxCalls}
    \cup {ToolResult(m, c, f) : m \in Nat, c \in 1..MaxCalls, f \in BOOLEAN}
Event == StreamEvent \cup {RunEnd(s) : s \in Final}

Phases == {"loading", "idle", "reading", "tools", "reporting", "returned", "threw", "done"}
Reading == {"reading", "tools", "reporting"}

Types ==
  /\ adapter \in Adapter /\ phase \in Phases /\ aborted \in BOOLEAN
  /\ row \in RunStates /\ shownRun \in RunStates
  /\ db \in Seq(MessageRow) /\ wire \in Seq(Event)
  /\ calls \in Nat /\ todo \in Nat /\ calls + todo <= MaxCalls
  /\ unanswered \subseteq 1..calls
  /\ nextPart \in 0..MaxTexts

(* While the run goes on: each call is booked, no error text is written,   *)
(* and only the last message may be open, in a run that has not returned   *)
(* or was aborted.                                                         *)
MayBeOpen == phase \in Reading \cup {"threw"} \/ (phase = "returned" /\ aborted)
InProgress(m) ==
  /\ Booked(db[m].parts, calls, unanswered) /\ ErrorsIn(db[m].parts) = {}
  /\ db[m].status \in {"streaming", "complete"}
  /\ db[m].status = "streaming" => m = Len(db) /\ MayBeOpen
Messages == phase # "done" => \A m \in 1..Len(db) : InProgress(m)

(* The custom adapter's index is the length of the list while it reads.    *)
Places ==
  /\ phase = "loading" => db = <<>> /\ row = "none"
  /\ phase \notin {"loading", "done"} => row = "running"
  /\ phase \in Reading => db # <<>>
  /\ phase \in {"reading", "tools"} => adapter = "turns"
  /\ phase = "reporting" => adapter = "single"
  /\ adapter = "single" => todo = 0
  /\ phase = "reading" => nextPart = Len(db[Current].parts)
  /\ phase = "reporting" => nextPart <= Len(db[Current].parts)

(* The rows of a run that is over.                                         *)
ErrorAtEnd(msgs) ==
  /\ msgs # <<>>
  /\ ErrorsIn(Last(msgs).parts) = {Len(Last(msgs).parts)}
  /\ \A m \in 1..(Len(msgs) - 1) : ErrorsIn(msgs[m].parts) = {}
Ending ==
  phase = "done" =>
    /\ row \in Final \cup {"none"} /\ Good(db)
    /\ row # "complete" => Answered(db) /\ ErrorAtEnd(db)
    /\ row = "complete" => \A m \in 1..Len(db) : ErrorsIn(db[m].parts) = {}

(* run.end is the last event.                                              *)
Wires ==
  /\ \A i \in 1..Len(wire) : wire[i] \notin StreamEvent => i = Len(wire) /\ phase = "done"
  /\ shownRun \in Final => phase = "done" /\ wire = <<>>

(* The events on the way turn the tab's copies into the rows.              *)
SameMessages(msgs, rows) ==
  Len(msgs) = Len(rows) /\ \A m \in 1..Len(rows) : SameMessage(msgs[m], rows[m])
Agrees(msgs) == IF phase = "done" THEN SameMessages(msgs, db) ELSE msgs = db
Mirror ==
  /\ Good(shown)
  /\ \E msgs : Agrees(msgs) /\ Trace(adapter, shownRun, shown, wire, row, msgs)

Inv == Types /\ Messages /\ Places /\ Ending /\ Wires /\ Mirror

-------------------------------------------------------------------------------
(* Writing an event's row and publishing the event.                        *)

LEMMA StreamEvents ==
  /\ RunStart \in StreamEvent
  /\ \A m \in Nat : MessageStart(m) \in StreamEvent /\ MessageEnd(m) \in StreamEvent
  /\ \A m, i \in Nat, p \in PartSet : PartStart(m, i, p) \in StreamEvent
  /\ \A m \in Nat, c \in 1..MaxCalls : ToolCall(m, c) \in StreamEvent
<1>1. RunStart \in StreamEvent
  BY DEF StreamEvent
<1>2. ASSUME NEW m \in Nat PROVE MessageStart(m) \in StreamEvent /\ MessageEnd(m) \in StreamEvent
  BY DEF StreamEvent
<1>3. ASSUME NEW m \in Nat, NEW i \in Nat, NEW p \in PartSet
      PROVE  PartStart(m, i, p) \in StreamEvent
  BY DEF StreamEvent
<1>4. ASSUME NEW m \in Nat, NEW c \in 1..MaxCalls PROVE ToolCall(m, c) \in StreamEvent
  BY DEF StreamEvent
<1> QED
  BY <1>1, <1>2, <1>3, <1>4

LEMMA ResultEvent ==
  ASSUME NEW m \in Nat, NEW c \in 1..MaxCalls, NEW f \in BOOLEAN
  PROVE  ToolResult(m, c, f) \in StreamEvent
  BY DEF StreamEvent

LEMMA EventTypes ==
  ASSUME NEW e \in Event
  PROVE  e \in StreamEvent <=> e.type # "run.end"
<1>1. CASE e \in StreamEvent
  BY <1>1 DEF StreamEvent, RunStart, MessageStart, MessageEnd, PartStart, ToolCall, ToolResult
<1>2. CASE \E s \in Final : e = RunEnd(s)
  <2>1. e.type = "run.end"
    BY <1>2 DEF RunEnd
  <2>2. \A f \in StreamEvent : f.type # "run.end"
    BY DEF StreamEvent, RunStart, MessageStart, MessageEnd, PartStart, ToolCall, ToolResult
  <2> QED
    BY <2>1, <2>2
<1> QED
  BY <1>1, <1>2 DEF Event

(* Any event that puts parts in place of the parts of message m.           *)
LEMMA PutStep ==
  ASSUME NEW kind, NEW r \in RunStates, NEW msgs, Good(msgs), NEW m \in 1..Len(msgs),
         NEW parts \in Seq(PartSet), ResultsOnce(parts),
         kind = "turns" => IsPrefix(msgs[m].parts, parts),
         NEW e, RunAfter(r, e) = r, Applied(msgs, e) = Put(msgs, m, parts)
  PROVE  TabStep(kind, r, msgs, e, r, Put(msgs, m, parts))
<1>1. msgs \in Seq(MessageRow)
  BY DEF Good
<1> QED
  BY <1>1, PutAdds DEF TabStep

LEMMA StartStep ==
  ASSUME NEW kind, NEW r \in RunStates, NEW msgs, Good(msgs)
  PROVE  TabStep(kind, r, msgs, MessageStart(Len(msgs) + 1), r, Append(msgs, Fresh))
<1>1. msgs \in Seq(MessageRow) /\ Len(msgs) \in Nat
  BY DEF Good
<1>2. Fresh \in MessageRow /\ Fresh.parts = <<>>
  BY DEF Fresh, MessageRow
<1>3. ResultsOnce(Fresh.parts)
  BY <1>2 DEF ResultsOnce, Results
<1>4. Applied(msgs, MessageStart(Len(msgs) + 1)) = Append(msgs, Fresh)
  <2>1. (Len(msgs) + 1) - 1 = Len(msgs)
    BY <1>1
  <2>2. SetPart(msgs, Len(msgs), Fresh) = Append(msgs, Fresh)
    BY <1>1, <1>2, SetPartAppends
  <2>3. Applied(msgs, MessageStart(Len(msgs) + 1)) = SetPart(msgs, (Len(msgs) + 1) - 1, Fresh)
    BY OnMessageStart
  <2> QED
    BY <2>1, <2>2, <2>3
<1>5. RunAfter(r, MessageStart(Len(msgs) + 1)) = r
  BY OnMessageStart
<1>6. OnlyAdded(msgs, Append(msgs, Fresh)) /\ Good(Append(msgs, Fresh))
  BY <1>1, <1>2, <1>3, NewMessageAdds
<1> QED
  BY <1>4, <1>5, <1>6 DEF TabStep

LEMMA EndStep ==
  ASSUME NEW kind, NEW r \in RunStates, NEW msgs, Good(msgs), NEW m \in 1..Len(msgs)
  PROVE  TabStep(kind, r, msgs, MessageEnd(m), r, Mark(msgs, m, "complete"))
<1>1. PICK new : new = Mark(msgs, m, "complete")
  OBVIOUS
<1>2. msgs \in Seq(MessageRow)
  BY DEF Good
<1>3. /\ new \in Seq(MessageRow) /\ Len(new) = Len(msgs) /\ Len(msgs) \in Nat
      /\ new[m].parts = msgs[m].parts
      /\ \A k \in 1..Len(msgs) : k # m => new[k] = msgs[k]
  <2>1. "complete" \in Status
    BY DEF Status
  <2> QED
    BY <1>1, <1>2, <2>1, PutStatus
<1>4. Applied(msgs, MessageEnd(m)) = new /\ RunAfter(r, MessageEnd(m)) = r
  <2>1. /\ Applied(msgs, MessageEnd(m)) = Mark(msgs, m, "complete")
        /\ RunAfter(r, MessageEnd(m)) = r
    BY OnMessageEnd
  <2> QED
    BY <1>1, <2>1
<1>5. OnlyAdded(msgs, new) /\ Good(new)
  <2>1. \A k \in 1..Len(msgs) : new[k].parts = msgs[k].parts
    BY <1>3
  <2> QED
    BY <1>2, <1>3, <2>1, KeepsParts
<1> QED
  BY <1>1, <1>4, <1>5 DEF TabStep

(* What is published while the run goes on.                                *)
Sends(events) ==
  /\ events \in Seq(StreamEvent)
  /\ wire' = wire \o events /\ UNCHANGED <<adapter, shownRun, shown>>
  /\ Trace(adapter, row, db, events, row', db')

LEMMA SendsKeepMirror ==
  ASSUME Types, Wires, Mirror, phase # "done", phase' # "done", NEW events, Sends(events)
  PROVE  Wires' /\ Mirror' /\ wire' \in Seq(Event)
<1>1. /\ events \in Seq(StreamEvent) /\ events \in Seq(Event)
      /\ wire' = wire \o events /\ adapter' = adapter /\ shownRun' = shownRun /\ shown' = shown
      /\ Trace(adapter, row, db, events, row', db')
  <2>1. StreamEvent \subseteq Event
    BY DEF Event
  <2>2. events \in Seq(StreamEvent)
    BY DEF Sends
  <2>3. events \in Seq(Event)
    BY <2>1, <2>2, SeqMonotonic
  <2> QED
    BY <2>2, <2>3 DEF Sends
<1>2. wire \in Seq(Event)
  BY DEF Types
<1>3. wire' \in Seq(Event)
  BY <1>1, <1>2
<1>4. \A i \in 1..Len(wire') : wire'[i] \in StreamEvent
  <2>1. \A i \in 1..Len(wire) : wire[i] \in StreamEvent
    BY DEF Wires
  <2>2. \A i \in 1..Len(events) : events[i] \in StreamEvent
    BY <1>1, ElementOfSeq
  <2>3. /\ Len(wire') = Len(wire) + Len(events) /\ Len(wire) \in Nat /\ Len(events) \in Nat
        /\ \A i \in 1..Len(wire) : wire'[i] = wire[i]
        /\ \A i \in 1..Len(events) : wire'[Len(wire) + i] = events[i]
    BY <1>1, <1>2
  <2>4. \A i \in 1..Len(wire') : i \in 1..Len(wire) \/ (i - Len(wire) \in 1..Len(events)
                                                        /\ i = Len(wire) + (i - Len(wire)))
    BY <2>3
  <2> QED
    BY <2>1, <2>2, <2>3, <2>4
<1>5. shownRun' \notin Final
  BY <1>1 DEF Wires
<1>6. Trace(adapter, shownRun, shown, wire, row, db)
  BY DEF Mirror, Agrees
<1>7. Trace(adapter, shownRun, shown, wire', row', db')
  BY <1>1, <1>2, <1>6, TraceThen
<1>8. Good(shown)
  BY DEF Mirror
<1>9. Wires'
  BY <1>4, <1>5 DEF Wires
<1>10. Mirror'
  BY <1>1, <1>7, <1>8 DEF Mirror, Agrees
<1> QED
  BY <1>3, <1>9, <1>10

(* A step that publishes nothing.                                          *)
LEMMA SendsNothing ==
  ASSUME Types, UNCHANGED <<adapter, row, db, wire, shownRun, shown>>
  PROVE  Sends(<<>>)
<1>1. wire \in Seq(Event) /\ <<>> \in Seq(StreamEvent)
  BY DEF Types
<1>2. wire' = wire \o <<>>
  BY <1>1
<1> QED
  BY <1>1, <1>2, TraceNone DEF Sends

LEMMA SendsOne ==
  ASSUME NEW e \in StreamEvent, Publish(<<e>>), adapter' = adapter,
         TabStep(adapter, row, db, e, row', db')
  PROVE  \E events : Sends(events)
<1>1. <<e>> \in Seq(StreamEvent)
  OBVIOUS
<1>2. Trace(adapter, row, db, <<e>>, row', db')
  BY TraceOne
<1> QED
  BY <1>1, <1>2 DEF Sends, Publish

LEMMA RowsGood ==
  ASSUME Types, Messages, phase # "done"
  PROVE  Good(db) /\ row \in RunStates /\ Len(db) \in Nat
  BY DEF Types, Messages, InProgress, Booked, Good

(* The parts of the current message are replaced.                          *)
LEMMA Rewritten ==
  ASSUME Types, Messages, phase # "done", db # <<>>,
         NEW parts \in Seq(PartSet), db' = Put(db, Current, parts),
         Booked(parts, calls', unanswered'), ErrorsIn(parts) = {},
         \A m \in 1..Len(db) : Booked(db[m].parts, calls', unanswered'),
         UNCHANGED <<phase, aborted>>
  PROVE  /\ db' \in Seq(MessageRow) /\ Len(db') = Len(db) /\ db' # <<>>
         /\ db'[Len(db)].parts = parts /\ Messages'
<1>1. db \in Seq(MessageRow) /\ Len(db) \in 1..Len(db) /\ Len(db) \in Nat
  BY DEF Types
<1>2. /\ db' \in Seq(MessageRow) /\ Len(db') = Len(db)
      /\ db'[Len(db)].parts = parts /\ db'[Len(db)].status = db[Len(db)].status
      /\ \A k \in 1..Len(db) : k # Len(db) => db'[k] = db[k]
  BY <1>1, PutParts DEF Current
<1>3. \A m \in 1..Len(db) : db'[m].status = db[m].status
  BY <1>2
<1>4. \A m \in 1..Len(db) : /\ ErrorsIn(db[m].parts) = {} /\ db[m].status \in {"streaming", "complete"}
                            /\ db[m].status = "streaming" => m = Len(db) /\ MayBeOpen
  BY DEF Messages, InProgress
<1>5. MayBeOpen' = MayBeOpen
  BY DEF MayBeOpen
<1>6. ASSUME NEW m \in 1..Len(db') PROVE InProgress(m)'
  <2>1. m \in 1..Len(db)
    BY <1>2
  <2>2. Booked(db'[m].parts, calls', unanswered') /\ ErrorsIn(db'[m].parts) = {}
    BY <1>2, <1>4, <2>1
  <2> QED
    BY <1>2, <1>3, <1>4, <1>5, <2>1, <2>2 DEF InProgress
<1>7. Messages'
  BY <1>6 DEF Messages
<1>8. db' # <<>>
  BY <1>1, <1>2
<1> QED
  BY <1>2, <1>7, <1>8

LEMMA CurrentMessage ==
  ASSUME Types, Messages, phase # "done", db # <<>>
  PROVE  /\ Current \in 1..Len(db) /\ db[Current].parts \in Seq(PartSet)
         /\ Booked(db[Current].parts, calls, unanswered) /\ ErrorsIn(db[Current].parts) = {}
         /\ ResultsOnce(db[Current].parts)
<1>1. db \in Seq(MessageRow) /\ Current \in 1..Len(db)
  BY DEF Types, Current
<1>2. InProgress(Current)
  BY <1>1 DEF Messages
<1>3. db[Current].parts \in Seq(PartSet)
  BY <1>1, ElementOfSeq, RowFields
<1> QED
  BY <1>1, <1>2, <1>3 DEF InProgress, Booked

(* A text or thinking part, at an index that is the length of the list in  *)
(* the custom adapter and at most that in the others.                      *)
LEMMA TextAdded ==
  ASSUME Types, Messages, phase # "done", db # <<>>,
         nextPart <= Len(db[Current].parts),
         adapter = "turns" => nextPart = Len(db[Current].parts),
         NEW part \in {Text, Thinking}, AddText(part),
         UNCHANGED <<adapter, phase, aborted, row, calls, unanswered>>
  PROVE  /\ db' \in Seq(MessageRow) /\ Len(db') = Len(db) /\ db' # <<>> /\ Messages'
         /\ nextPart' \in 0..MaxTexts
         /\ nextPart' <= Len(db'[Current'].parts)
         /\ adapter = "turns" => nextPart' = Len(db'[Current'].parts)
         /\ \E events : Sends(events)
<1> DEFINE old == db[Current].parts
           new == SetPart(old, nextPart, part)
<1>1. /\ Current \in 1..Len(db) /\ old \in Seq(PartSet) /\ Booked(old, calls, unanswered)
      /\ ErrorsIn(old) = {} /\ ResultsOnce(old)
  BY CurrentMessage
<1>2. /\ nextPart < MaxTexts /\ nextPart' = nextPart + 1
      /\ db' = Put(db, Current, new)
      /\ Publish(<<PartStart(Current, nextPart, part)>>)
  BY DEF AddText, TextIndex, Write, Put
<1>3. /\ part \in Plain \ {Error} /\ part \in PartSet /\ part # Error
      /\ part.kind # "use" /\ part.kind # "result"
  BY PartFields DEF Plain, PartSet, Part, Text, Thinking, Ref, Error
<1>4. nextPart \in Nat /\ MaxTexts \in Nat /\ nextPart <= Len(old)
  BY BoundsAssumption DEF Types
<1> HIDE DEF old
<1>5. /\ new \in Seq(PartSet) /\ Len(new) >= nextPart + 1
      /\ ErrorsIn(new) \subseteq ErrorsIn(old) /\ Booked(new, calls, unanswered)
  BY <1>1, <1>3, <1>4, SetPartFacts, SetPartBooked
<1>6. adapter = "turns" => new = Append(old, part)
  BY <1>1, <1>3, SetPartAppends DEF old
<1> HIDE DEF new
<1>7. ErrorsIn(new) = {} /\ ResultsOnce(new)
  BY <1>1, <1>5 DEF Booked
<1>8. \A m \in 1..Len(db) : Booked(db[m].parts, calls', unanswered')
  BY DEF Messages, InProgress
<1>9. /\ db' \in Seq(MessageRow) /\ Len(db') = Len(db) /\ db' # <<>>
      /\ db'[Len(db)].parts = new /\ Messages'
  BY <1>2, <1>5, <1>7, <1>8, Rewritten
<1>10. nextPart' \in 0..MaxTexts /\ nextPart' <= Len(db'[Current'].parts)
  BY <1>2, <1>4, <1>5, <1>9 DEF Current
<1>11. adapter = "turns" => nextPart' = Len(db'[Current'].parts)
  <2>1. adapter = "turns" => Len(new) = Len(old) + 1
    BY <1>1, <1>6
  <2> QED
    BY <1>2, <1>9, <2>1 DEF Current, old
<1>12. \E events : Sends(events)
  <2>1. Good(db) /\ row \in RunStates
    BY RowsGood
  <2>2. adapter = "turns" => IsPrefix(old, new)
    BY <1>1, <1>3, <1>6, AppendAdds
  <2>3. /\ Applied(db, PartStart(Current, nextPart, part)) = Put(db, Current, new)
        /\ RunAfter(row, PartStart(Current, nextPart, part)) = row
    BY OnPart DEF new, old
  <2>4. TabStep(adapter, row, db, PartStart(Current, nextPart, part), row', db')
    BY <1>1, <1>2, <1>5, <1>7, <2>1, <2>2, <2>3, PutStep DEF old
  <2>5. PartStart(Current, nextPart, part) \in StreamEvent
    BY <1>1, <1>3, <1>4, StreamEvents
  <2> QED
    BY <1>2, <2>4, <2>5, SendsOne
<1> QED
  BY <1>9, <1>10, <1>11, <1>12

LEMMA CallMade ==
  ASSUME Types, Messages, phase # "done", db # <<>>, MakeCall,
         UNCHANGED <<adapter, phase, aborted, row>>
  PROVE  /\ db' \in Seq(MessageRow) /\ Len(db') = Len(db) /\ db' # <<>> /\ Messages'
         /\ Len(db'[Current'].parts) >= Len(db[Current].parts)
         /\ calls' = calls + 1 /\ unanswered' \subseteq 1..calls'
         /\ \E events : Sends(events)
<1> DEFINE old == db[Current].parts
           new == Append(old, Use(calls + 1))
<1>1. /\ Current \in 1..Len(db) /\ old \in Seq(PartSet) /\ Booked(old, calls, unanswered)
      /\ ErrorsIn(old) = {} /\ ResultsOnce(old)
  BY CurrentMessage
<1>2. /\ calls < MaxCalls /\ calls' = calls + 1 /\ unanswered' = unanswered \cup {calls + 1}
      /\ db' = Put(db, Current, new)
      /\ Publish(<<ToolCall(Current, calls + 1)>>)
  BY DEF MakeCall, Write, Put
<1>3. calls \in Nat /\ calls + 1 \in 1..MaxCalls /\ unanswered' \subseteq 1..calls'
  BY <1>2, BoundsAssumption DEF Types
<1>4. Use(calls + 1) \in PartSet /\ Use(calls + 1) # Error /\ Use(calls + 1).kind = "use"
  BY <1>3, NewParts DEF Use, Error
<1> HIDE DEF old
<1>5. /\ new \in Seq(PartSet) /\ Len(new) = Len(old) + 1 /\ Len(old) \in Nat
      /\ ErrorsIn(new) = ErrorsIn(old) /\ IsPrefix(old, new)
  BY <1>1, <1>4, AppendFacts, AppendAdds
<1>6. Booked(new, calls', unanswered')
  BY <1>1, <1>2, <1>3, UseBooked
<1>7. \A m \in 1..Len(db) : Booked(db[m].parts, calls', unanswered')
  <2> SUFFICES ASSUME NEW m \in 1..Len(db) PROVE Booked(db[m].parts, calls', unanswered')
    OBVIOUS
  <2>1. db[m].parts \in Seq(PartSet) /\ Booked(db[m].parts, calls, unanswered)
    BY ElementOfSeq, RowFields DEF Messages, InProgress, Types
  <2> QED
    BY <1>2, <1>3, <2>1, UseBooked
<1> HIDE DEF new
<1>8. ErrorsIn(new) = {} /\ ResultsOnce(new)
  BY <1>1, <1>5, <1>6 DEF Booked
<1>9. /\ db' \in Seq(MessageRow) /\ Len(db') = Len(db) /\ db' # <<>>
      /\ db'[Len(db)].parts = new /\ Messages'
  BY <1>2, <1>5, <1>6, <1>7, <1>8, Rewritten
<1>10. Len(db'[Current'].parts) >= Len(db[Current].parts)
  BY <1>5, <1>9 DEF Current, old
<1>11. \E events : Sends(events)
  <2>1. Good(db) /\ row \in RunStates
    BY RowsGood
  <2>2. /\ Applied(db, ToolCall(Current, calls + 1)) = Put(db, Current, new)
        /\ RunAfter(row, ToolCall(Current, calls + 1)) = row
    BY OnCall DEF new, old
  <2>3. TabStep(adapter, row, db, ToolCall(Current, calls + 1), row', db')
    BY <1>1, <1>2, <1>5, <1>8, <2>1, <2>2, PutStep DEF old
  <2>4. ToolCall(Current, calls + 1) \in StreamEvent
    BY <1>1, <1>3, StreamEvents
  <2> QED
    BY <1>2, <2>3, <2>4, SendsOne
<1> QED
  BY <1>2, <1>3, <1>9, <1>10, <1>11

(* A result, and the card a tool may put after it.                         *)
LEMMA CallAnswered ==
  ASSUME Types, Messages, phase # "done", db # <<>>,
         NEW c \in unanswered, NEW failed \in BOOLEAN, NEW card \in BOOLEAN,
         Answer(c, failed, card), calls' = calls,
         UNCHANGED <<adapter, phase, aborted, row>>
  PROVE  /\ db' \in Seq(MessageRow) /\ Len(db') = Len(db) /\ db' # <<>> /\ Messages'
         /\ Len(db'[Current'].parts) >= Len(db[Current].parts)
         /\ unanswered' \subseteq 1..calls
         /\ \E events : Sends(events)
<1> DEFINE old == db[Current].parts
           e == ToolResult(Current, c, failed)
           f == PartStart(Current, Len(old) + 1, Ref)
<1>1. /\ Current \in 1..Len(db) /\ old \in Seq(PartSet) /\ Booked(old, calls, unanswered)
      /\ ErrorsIn(old) = {} /\ ResultsOnce(old)
  BY CurrentMessage
<1>2. c \in 1..calls /\ c \in 1..MaxCalls /\ calls \in Nat /\ c <= calls
  BY BoundsAssumption DEF Types
<1>3. PICK p : p = Result(c, failed)
  OBVIOUS
<1>4. p \in PartSet /\ p.kind = "result" /\ p.call = c
  BY <1>2, <1>3, NewResult
<1>5. p # Error /\ p.kind # "use"
  BY <1>4 DEF Error
<1>6. PICK mid : mid = Append(old, p)
  OBVIOUS
<1>7. PICK new : new = IF card THEN Append(mid, Ref) ELSE mid
  OBVIOUS
<1>8. /\ unanswered' = unanswered \ {c}
      /\ db' = Put(db, Current, new)
      /\ Publish(<<e>> \o (IF card THEN Refs(Current, mid) ELSE <<>>))
  BY <1>3, <1>6, <1>7 DEF Answer, Write, Put
<1> HIDE DEF old
<1>9. /\ mid \in Seq(PartSet) /\ Len(mid) = Len(old) + 1 /\ Len(old) \in Nat
      /\ ErrorsIn(mid) = ErrorsIn(old) /\ IsPrefix(old, mid)
  BY <1>1, <1>4, <1>5, <1>6, AppendFacts, AppendAdds
<1>10. ~HasResult(old, c) /\ Booked(mid, calls, unanswered') /\ ResultsOnce(mid)
  <2>1. ~HasResult(old, c) /\ Booked(Append(old, p), calls, unanswered \ {c})
    BY <1>1, <1>2, <1>4, ResultBooked
  <2>2. Booked(mid, calls, unanswered')
    BY <1>6, <1>8, <2>1
  <2> QED
    BY <2>1, <2>2 DEF Booked
<1>11. /\ Ref \in PartSet /\ Ref \in Plain \ {Error}
       /\ Ref # Error /\ Ref.kind # "use" /\ Ref.kind # "result"
  BY PartFields DEF Plain, PartSet, Part, Text, Thinking, Ref, Error
<1>12. PICK two : two = Append(mid, Ref)
  OBVIOUS
<1>13. two = SetPart(mid, Len(mid), Ref)
  BY <1>9, <1>11, <1>12, SetPartAppends
<1>14. /\ two \in Seq(PartSet) /\ Len(two) = Len(mid) + 1 /\ Len(mid) \in Nat
       /\ ErrorsIn(two) = ErrorsIn(mid) /\ IsPrefix(mid, two)
  BY <1>9, <1>11, <1>12, AppendFacts, AppendAdds
<1>15. Booked(two, calls, unanswered') /\ ResultsOnce(two)
  <2>1. Booked(SetPart(mid, Len(mid), Ref), calls, unanswered')
    BY <1>9, <1>10, <1>11, <1>14, SetPartBooked
  <2>2. Booked(two, calls, unanswered')
    BY <1>13, <2>1
  <2> QED
    BY <2>2 DEF Booked
<1>16. /\ new \in Seq(PartSet) /\ Len(new) >= Len(old) /\ ErrorsIn(new) = {}
       /\ Booked(new, calls, unanswered')
  BY <1>1, <1>7, <1>9, <1>10, <1>12, <1>14, <1>15
<1>17. \A m \in 1..Len(db) : Booked(db[m].parts, calls', unanswered')
  <2> SUFFICES ASSUME NEW m \in 1..Len(db) PROVE Booked(db[m].parts, calls, unanswered')
    OBVIOUS
  <2>1. db[m].parts \in Seq(PartSet) /\ Booked(db[m].parts, calls, unanswered)
    BY ElementOfSeq, RowFields DEF Messages, InProgress, Types
  <2> QED
    BY <1>8, <2>1 DEF Booked
<1>18. /\ db' \in Seq(MessageRow) /\ Len(db') = Len(db) /\ db' # <<>>
       /\ db'[Len(db)].parts = new /\ Messages'
  BY <1>8, <1>16, <1>17, Rewritten DEF Put
<1>19. Len(db'[Current'].parts) >= Len(old)
  BY <1>16, <1>18 DEF Current
<1>20. Good(db) /\ row \in RunStates /\ db \in Seq(MessageRow)
  BY RowsGood DEF Types
<1>21. TabStep(adapter, row, db, e, row, Put(db, Current, mid))
  <2>1. PutResult(old, c, failed) = mid
    BY <1>3, <1>6, <1>10 DEF PutResult
  <2>2. Applied(db, e) = Put(db, Current, mid) /\ RunAfter(row, e) = row
    BY <2>1, OnResult DEF old
  <2> QED
    BY <1>1, <1>9, <1>10, <1>20, <2>2, PutStep DEF old
<1>22. e \in StreamEvent
  <2>1. Current \in Nat
    BY <1>1
  <2> QED
    BY <1>2, <2>1, ResultEvent
<1> HIDE DEF e
<1>23. \E events : Sends(events)
  <2>1. CASE ~card
    <3>1. <<e>> \o <<>> = <<e>>
      OBVIOUS
    <3>2. Publish(<<e>>) /\ db' = Put(db, Current, mid)
      BY <1>7, <1>8, <2>1, <3>1
    <3> QED
      BY <1>21, <1>22, <3>2, SendsOne
  <2>2. CASE card
    <3> DEFINE g == PartStart(Current, Len(mid), Ref)
    <3>1. PICK one : one = Put(db, Current, mid)
      OBVIOUS
    <3>2. /\ one \in Seq(MessageRow) /\ Len(one) = Len(db) /\ one[Current].parts = mid
          /\ Good(one)
      BY <1>1, <1>9, <1>10, <1>20, <3>1, PutParts, PutAdds
    <3>3. /\ Applied(one, g) = Put(one, Current, two) /\ RunAfter(row, g) = row
      BY <1>13, <3>2, OnPart
    <3>4. TabStep(adapter, row, one, g, row, Put(one, Current, two))
      BY <1>1, <1>14, <1>15, <1>20, <3>2, <3>3, PutStep
    <3>5. Put(one, Current, two) = Put(db, Current, two)
      BY <1>1, <1>9, <1>14, <1>20, <3>1, PutTwice
    <3>6. Current \in Nat /\ Len(mid) \in Nat
      BY <1>1, <1>14
    <3>7. g \in StreamEvent
      BY <1>11, <3>6, StreamEvents
    <3> HIDE DEF g
    <3>8. Publish(<<e>> \o <<g>>)
      BY <1>8, <2>2 DEF Refs, RefIndex, g
    <3>9. <<e>> \o <<g>> \in Seq(StreamEvent) /\ <<e>> \in Seq(StreamEvent) /\ <<g>> \in Seq(StreamEvent)
      BY <1>22, <3>7
    <3>10. Trace(adapter, row, db, <<e>>, row, one) /\ Trace(adapter, row, one, <<g>>, row, db')
      BY <1>7, <1>8, <1>12, <1>21, <2>2, <3>1, <3>4, <3>5, TraceOne
    <3>11. Trace(adapter, row, db, <<e>> \o <<g>>, row, db')
      BY <3>9, <3>10, TraceThen
    <3> QED
      BY <3>8, <3>9, <3>11 DEF Sends, Publish
  <2> QED
    BY <2>1, <2>2
<1>24. unanswered' \subseteq 1..calls
  BY <1>8 DEF Types
<1> QED
  BY <1>18, <1>19, <1>23, <1>24 DEF old

LEMMA MessageOpened ==
  ASSUME Types, Messages, phase = "idle", OpenMessage,
         phase' \in Reading, UNCHANGED <<adapter, aborted, row, calls, unanswered>>
  PROVE  /\ db' \in Seq(MessageRow) /\ db' # <<>> /\ Messages'
         /\ nextPart' = 0 /\ Len(db'[Current'].parts) = 0
         /\ \E events : Sends(events)
<1> DEFINE e == MessageStart(Len(db) + 1)
<1>1. db' = Append(db, Fresh) /\ Publish(<<e>>) /\ nextPart' = 0
  BY DEF OpenMessage
<1>2. db \in Seq(MessageRow) /\ Good(db) /\ row \in RunStates
  BY RowsGood DEF Types
<1>3. Fresh \in MessageRow /\ Fresh.parts = <<>> /\ Fresh.status = "streaming"
  BY DEF Fresh, MessageRow
<1>4. /\ db' \in Seq(MessageRow) /\ Len(db') = Len(db) + 1 /\ Len(db) \in Nat
      /\ db'[Len(db) + 1] = Fresh
      /\ \A k \in 1..Len(db) : db'[k] = db[k]
  BY <1>1, <1>2, <1>3, NewMessage
<1>5. MayBeOpen'
  BY DEF MayBeOpen
<1>6. ASSUME NEW m \in 1..Len(db') PROVE InProgress(m)'
  <2>1. CASE m \in 1..Len(db)
    <3>1. InProgress(m) /\ ~MayBeOpen
      BY <2>1 DEF Messages, MayBeOpen, Reading
    <3> QED
      BY <1>4, <2>1, <3>1 DEF InProgress
  <2>2. CASE m = Len(db) + 1
    <3>1. db'[m].parts = <<>> /\ db'[m].status = "streaming"
      BY <1>3, <1>4, <2>2
    <3>2. Booked(<<>>, calls', unanswered') /\ ErrorsIn(<<>>) = {}
      BY DEF Booked, UsesOnce, ResultsOnce, Uses, Results, ErrorsIn
    <3> QED
      BY <1>4, <1>5, <2>2, <3>1, <3>2 DEF InProgress
  <2> QED
    BY <1>4, <2>1, <2>2
<1>7. Messages'
  BY <1>6 DEF Messages
<1>8. db' # <<>> /\ Len(db'[Current'].parts) = 0
  BY <1>3, <1>4 DEF Current
<1>9. e \in StreamEvent
  BY <1>4, StreamEvents
<1>10. TabStep(adapter, row, db, e, row', db')
  BY <1>1, <1>2, StartStep
<1>11. \E events : Sends(events)
  BY <1>1, <1>9, <1>10, SendsOne
<1> QED
  BY <1>1, <1>4, <1>7, <1>8, <1>11

(* A message ends; the adapter may return, throw or go on.                 *)
LEMMA MessageEnded ==
  ASSUME Types, Messages, phase \in Reading, db # <<>>, EndMessage,
         phase' \in {"idle", "returned", "threw"},
         UNCHANGED <<adapter, aborted, row, calls, unanswered>>
  PROVE  /\ db' \in Seq(MessageRow) /\ Messages'
         /\ \E events : Sends(events)
<1> DEFINE e == MessageEnd(Current)
<1>1. db' = Mark(db, Current, "complete") /\ Publish(<<e>>)
  BY DEF EndMessage, Mark
<1>2. phase # "done"
  BY DEF Reading
<1>3. db \in Seq(MessageRow) /\ Good(db) /\ row \in RunStates
  BY <1>2, RowsGood DEF Types
<1>4. Current \in 1..Len(db) /\ "complete" \in Status /\ Len(db) \in Nat
  BY <1>3 DEF Current, Status
<1>5. /\ db' \in Seq(MessageRow) /\ Len(db') = Len(db)
      /\ db'[Current].parts = db[Current].parts /\ db'[Current].status = "complete"
      /\ \A k \in 1..Len(db) : k # Current => db'[k] = db[k]
  BY <1>1, <1>3, <1>4, PutStatus
<1>6. ASSUME NEW m \in 1..Len(db') PROVE InProgress(m)'
  <2>1. InProgress(m) /\ m \in 1..Len(db)
    BY <1>2, <1>5 DEF Messages
  <2>2. db'[m].parts = db[m].parts /\ db'[m].status = "complete"
    BY <1>5, <2>1 DEF InProgress, Current
  <2> QED
    BY <2>1, <2>2 DEF InProgress
<1>7. Messages'
  BY <1>6 DEF Messages
<1>8. e \in StreamEvent
  BY <1>4, StreamEvents
<1>9. TabStep(adapter, row, db, e, row', db')
  BY <1>1, <1>3, <1>4, EndStep
<1>10. \E events : Sends(events)
  BY <1>1, <1>8, <1>9, SendsOne
<1> QED
  BY <1>5, <1>7, <1>10

-------------------------------------------------------------------------------
(* The steps of the adapter, of executeRun before the finalization, and    *)
(* the abort.                                                              *)

ServerTypes ==
  /\ adapter \in Adapter /\ phase \in Phases /\ aborted \in BOOLEAN
  /\ row \in RunStates /\ db \in Seq(MessageRow)
  /\ calls \in Nat /\ todo \in Nat /\ calls + todo <= MaxCalls
  /\ unanswered \subseteq 1..calls
  /\ nextPart \in 0..MaxTexts
GoesOn ==
  /\ ServerTypes' /\ Messages' /\ Places' /\ phase' # "done"
  /\ \E events : Sends(events)

LEMMA Resting ==
  ASSUME Types, Messages, phase # "done", phase' # "done", MayBeOpen => MayBeOpen',
         UNCHANGED <<adapter, row, db, calls, unanswered, wire, shownRun, shown>>
  PROVE  Messages' /\ \E events : Sends(events)
<1>1. \E events : Sends(events)
  BY SendsNothing
<1>2. ASSUME NEW m \in 1..Len(db') PROVE InProgress(m)'
  <2>1. InProgress(m)
    BY <1>2 DEF Messages
  <2> QED
    BY <2>1 DEF InProgress
<1> QED
  BY <1>1, <1>2 DEF Messages

LEMMA BeginGoesOn ==
  ASSUME Inv, Begin
  PROVE  GoesOn
<1> USE DEF Inv
<1>1. db = <<>> /\ row = "none" /\ phase = "loading"
  BY DEF Begin, Places
<1>2. /\ phase' = "idle" /\ row' = "running" /\ db' = db /\ Publish(<<RunStart>>)
      /\ UNCHANGED <<adapter, aborted, nextPart, calls, unanswered, todo>>
  BY DEF Begin
<1>3. ServerTypes'
  BY <1>1, <1>2 DEF Types, ServerTypes, Phases, RunStates
<1>4. Messages' /\ Places'
  BY <1>1, <1>2 DEF Messages, Places, Reading
<1>5. db \in Seq(MessageRow) /\ Good(db)
  BY <1>1, RowsGood DEF Types
<1>6. OnlyAdded(db, db)
  BY <1>5, KeepsParts
<1>7. /\ RunAfter(row, RunStart) = "running" /\ Applied(db, RunStart) = db
      /\ "running" \in RunStates
  BY OnRunStart DEF RunStates
<1>8. TabStep(adapter, row, db, RunStart, row', db')
  BY <1>2, <1>5, <1>6, <1>7 DEF TabStep
<1>9. \E events : Sends(events)
  BY <1>2, <1>8, StreamEvents, SendsOne
<1> QED
  BY <1>2, <1>3, <1>4, <1>9 DEF GoesOn

LEMMA ThrowsGoesOn ==
  ASSUME Inv, Throws
  PROVE  GoesOn
<1>1. phase \in {"returned", "idle"} /\ phase' = "threw"
      /\ UNCHANGED <<adapter, aborted, row, db, nextPart, calls, unanswered, todo,
                     wire, shownRun, shown>>
  BY DEF Throws
<1>2. ServerTypes'
  BY <1>1 DEF Inv, Types, ServerTypes, Phases
<1>3. Places'
  BY <1>1 DEF Inv, Places, Reading
<1>4. MayBeOpen'
  BY <1>1 DEF MayBeOpen
<1>5. Messages' /\ \E events : Sends(events)
  BY <1>1, <1>4, Resting DEF Inv
<1> QED
  BY <1>1, <1>2, <1>3, <1>5 DEF GoesOn

LEMMA AbortGoesOn ==
  ASSUME Inv, Abort
  PROVE  GoesOn
<1>1. phase # "done" /\ phase' = phase /\ aborted' = TRUE
      /\ UNCHANGED <<adapter, phase, row, db, nextPart, calls, unanswered, todo,
                     wire, shownRun, shown>>
  BY DEF Abort
<1>2. ServerTypes'
  BY <1>1 DEF Inv, Types, ServerTypes
<1>3. Places'
  BY <1>1 DEF Inv, Places, Current
<1>4. MayBeOpen => MayBeOpen'
  BY <1>1 DEF MayBeOpen
<1>5. Messages' /\ \E events : Sends(events)
  BY <1>1, <1>4, Resting DEF Inv
<1> QED
  BY <1>1, <1>2, <1>3, <1>5 DEF GoesOn

LEMMA TurnsGoOn ==
  ASSUME Inv, Turns
  PROVE  GoesOn
<1>1. CASE TurnReturns
  <2>1. /\ phase = "idle" /\ phase' = "returned"
        /\ UNCHANGED <<adapter, aborted, row, db, nextPart, calls, unanswered, todo,
                       wire, shownRun, shown>>
    BY <1>1 DEF TurnReturns
  <2>2. ServerTypes' /\ Places'
    BY <2>1 DEF Inv, Types, ServerTypes, Phases, Places, Reading
  <2>3. ~MayBeOpen
    BY <2>1 DEF MayBeOpen, Reading
  <2>4. Messages' /\ \E events : Sends(events)
    BY <2>1, <2>3, Resting DEF Inv
  <2> QED
    BY <2>1, <2>2, <2>4 DEF GoesOn
<1>2. CASE TurnStarts
  <2>1. /\ phase = "idle" /\ adapter = "turns" /\ phase' = "reading" /\ phase' \in Reading
        /\ OpenMessage /\ UNCHANGED <<adapter, aborted, row, calls, unanswered, todo>>
    BY <1>2 DEF TurnStarts, Reading
  <2>2. /\ db' \in Seq(MessageRow) /\ db' # <<>> /\ Messages'
        /\ nextPart' = 0 /\ Len(db'[Current'].parts) = 0
        /\ \E events : Sends(events)
    BY <2>1, MessageOpened DEF Inv
  <2>3. ServerTypes'
    BY <2>1, <2>2, BoundsAssumption DEF Inv, Types, ServerTypes, Phases
  <2>4. Places'
    BY <2>1, <2>2 DEF Inv, Places, Reading
  <2> QED
    BY <2>1, <2>2, <2>3, <2>4 DEF GoesOn
<1>3. CASE RequestFails
  <2>1. /\ phase = "reading" /\ phase \in Reading /\ phase' = "threw" /\ EndMessage
        /\ UNCHANGED <<adapter, aborted, row, nextPart, calls, unanswered, todo>>
        /\ db # <<>>
    BY <1>3 DEF RequestFails, Reading, Inv, Places
  <2>2. db' \in Seq(MessageRow) /\ Messages' /\ \E events : Sends(events)
    BY <2>1, MessageEnded DEF Inv
  <2>3. ServerTypes' /\ Places'
    BY <2>1, <2>2 DEF Inv, Types, ServerTypes, Phases, Places, Reading
  <2> QED
    BY <2>1, <2>2, <2>3 DEF GoesOn
<1>4. CASE Chunk
  <2>1. PICK part \in {Text, Thinking} : AddText(part)
    BY <1>4 DEF Chunk
  <2>2. /\ phase = "reading" /\ adapter = "turns" /\ phase # "done" /\ db # <<>>
        /\ UNCHANGED <<adapter, phase, aborted, row, calls, unanswered, todo>>
        /\ nextPart = Len(db[Current].parts) /\ nextPart \in Nat
    BY <1>4, BoundsAssumption DEF Chunk, Inv, Places, Reading, Types
  <2>3. /\ db' \in Seq(MessageRow) /\ Len(db') = Len(db) /\ db' # <<>> /\ Messages'
        /\ nextPart' \in 0..MaxTexts
        /\ adapter = "turns" => nextPart' = Len(db'[Current'].parts)
        /\ \E events : Sends(events)
    <3>1. nextPart <= Len(db[Current].parts)
      BY <2>2
    <3> QED
      BY <2>1, <2>2, <3>1, TextAdded DEF Inv
  <2>4. ServerTypes'
    BY <2>2, <2>3 DEF Inv, Types, ServerTypes
  <2>5. Places'
    BY <2>2, <2>3 DEF Inv, Places, Reading
  <2> QED
    BY <2>2, <2>3, <2>4, <2>5 DEF GoesOn
<1>5. CASE ReadingStops
  <2>1. /\ phase = "reading"
        /\ phase' = "threw" \/ (phase' = "returned" /\ aborted)
        /\ UNCHANGED <<adapter, aborted, row, db, nextPart, calls, unanswered, todo,
                       wire, shownRun, shown>>
    BY <1>5 DEF ReadingStops
  <2>2. ServerTypes' /\ Places'
    BY <2>1 DEF Inv, Types, ServerTypes, Phases, Places, Reading
  <2>3. MayBeOpen'
    BY <2>1 DEF MayBeOpen
  <2>4. phase # "done" /\ phase' # "done"
    BY <2>1
  <2>5. Messages' /\ \E events : Sends(events)
    BY <2>1, <2>3, <2>4, Resting DEF Inv
  <2> QED
    BY <2>2, <2>4, <2>5 DEF GoesOn
<1>6. CASE AnswerRead
  <2>1. /\ phase = "reading" /\ phase \in Reading /\ adapter = "turns" /\ db # <<>>
        /\ UNCHANGED <<adapter, aborted, row, nextPart, calls, unanswered>>
    BY <1>6 DEF AnswerRead, Reading, Inv, Places
  <2>2. CASE phase' = "returned" /\ EndMessage /\ UNCHANGED todo
    <3>1. db' \in Seq(MessageRow) /\ Messages' /\ \E events : Sends(events)
      BY <2>1, <2>2, MessageEnded DEF Inv
    <3>2. ServerTypes' /\ Places'
      BY <2>1, <2>2, <3>1 DEF Inv, Types, ServerTypes, Phases, Places, Reading
    <3> QED
      BY <2>2, <3>1, <3>2 DEF GoesOn
  <2>3. CASE /\ phase' = "tools" /\ todo' \in 1..(MaxCalls - calls)
             /\ UNCHANGED <<db, wire, shownRun, shown>>
    <3>1. MayBeOpen' /\ phase # "done" /\ phase' # "done"
      BY <2>1, <2>3 DEF MayBeOpen, Reading
    <3>2. Messages' /\ \E events : Sends(events)
      BY <2>1, <2>3, <3>1, Resting DEF Inv
    <3>3. ServerTypes'
      <4>1. todo' \in Nat /\ calls \in Nat /\ calls + todo' <= MaxCalls
        <5>1. calls \in Nat /\ MaxCalls \in Nat
          BY BoundsAssumption DEF Inv, Types
        <5>2. PICK t : t = todo'
          OBVIOUS
        <5>3. t \in 1..(MaxCalls - calls)
          BY <2>3, <5>2
        <5>4. t \in Nat /\ calls + t <= MaxCalls
          BY <5>1, <5>3
        <5> QED
          BY <5>1, <5>2, <5>4
      <4> QED
        BY <2>1, <2>3, <4>1 DEF Inv, Types, ServerTypes, Phases
    <3>4. Places'
      BY <2>1, <2>3 DEF Inv, Places, Reading
    <3> QED
      BY <3>1, <3>2, <3>3, <3>4 DEF GoesOn
  <2> QED
    BY <1>6, <2>2, <2>3 DEF AnswerRead
<1>7. CASE ToolStarts
  <2>1. /\ phase = "tools" /\ phase # "done" /\ db # <<>> /\ todo > 0 /\ todo' = todo - 1
        /\ MakeCall /\ UNCHANGED <<adapter, phase, aborted, row, nextPart>>
    BY <1>7 DEF ToolStarts, Reading, Inv, Places
  <2>2. /\ db' \in Seq(MessageRow) /\ Len(db') = Len(db) /\ db' # <<>> /\ Messages'
        /\ calls' = calls + 1 /\ unanswered' \subseteq 1..calls'
        /\ \E events : Sends(events)
    BY <2>1, CallMade DEF Inv
  <2>3. ServerTypes'
    BY <2>1, <2>2, BoundsAssumption DEF Inv, Types, ServerTypes
  <2>4. Places'
    BY <2>1, <2>2 DEF Inv, Places, Reading
  <2> QED
    BY <2>1, <2>2, <2>3, <2>4 DEF GoesOn
<1>8. CASE ToolReturns
  <2>1. /\ phase = "tools" /\ phase # "done" /\ db # <<>>
        /\ UNCHANGED <<adapter, phase, aborted, row, nextPart, calls, todo>>
    BY <1>8 DEF ToolReturns, Reading, Inv, Places
  <2>2. PICK c \in unanswered, failed \in BOOLEAN, card \in BOOLEAN : Answer(c, failed, card)
    BY <1>8 DEF ToolReturns, AnswerSome
  <2>3. /\ db' \in Seq(MessageRow) /\ Len(db') = Len(db) /\ db' # <<>> /\ Messages'
        /\ unanswered' \subseteq 1..calls
        /\ \E events : Sends(events)
    BY <2>1, <2>2, CallAnswered DEF Inv
  <2>4. ServerTypes'
    BY <2>1, <2>3 DEF Inv, Types, ServerTypes
  <2>5. Places'
    BY <2>1, <2>3 DEF Inv, Places, Reading
  <2> QED
    BY <2>1, <2>3, <2>4, <2>5 DEF GoesOn
<1>9. CASE ToolsEnd
  <2>1. /\ phase = "tools" /\ phase \in Reading /\ db # <<>>
        /\ UNCHANGED <<adapter, aborted, row, nextPart, calls, unanswered, todo>>
    BY <1>9 DEF ToolsEnd, Reading, Inv, Places
  <2>2. CASE phase' = "idle" /\ EndMessage
    <3>1. db' \in Seq(MessageRow) /\ Messages' /\ \E events : Sends(events)
      BY <2>1, <2>2, MessageEnded DEF Inv
    <3>2. ServerTypes' /\ Places'
      BY <2>1, <2>2, <3>1 DEF Inv, Types, ServerTypes, Phases, Places, Reading
    <3> QED
      BY <2>2, <3>1, <3>2 DEF GoesOn
  <2>3. CASE phase' = "threw" /\ UNCHANGED <<db, wire, shownRun, shown>>
    <3>1. MayBeOpen' /\ phase # "done" /\ phase' # "done"
      BY <2>1, <2>3 DEF MayBeOpen
    <3>2. Messages' /\ \E events : Sends(events)
      BY <2>1, <2>3, <3>1, Resting DEF Inv
    <3>3. ServerTypes' /\ Places'
      BY <2>1, <2>3 DEF Inv, Types, ServerTypes, Phases, Places, Reading
    <3> QED
      BY <3>1, <3>2, <3>3 DEF GoesOn
  <2> QED
    BY <1>9, <2>2, <2>3 DEF ToolsEnd
<1> QED
  BY <1>1, <1>2, <1>3, <1>4, <1>5, <1>6, <1>7, <1>8, <1>9 DEF Turns

LEMMA SingleGoesOn ==
  ASSUME Inv, Single
  PROVE  GoesOn
<1>1. CASE SingleStarts
  <2>1. /\ phase = "idle" /\ adapter = "single" /\ phase' = "reporting" /\ phase' \in Reading
        /\ OpenMessage /\ UNCHANGED <<adapter, aborted, row, calls, unanswered, todo>>
    BY <1>1 DEF SingleStarts, Reading
  <2>2. /\ db' \in Seq(MessageRow) /\ db' # <<>> /\ Messages'
        /\ nextPart' = 0 /\ Len(db'[Current'].parts) = 0
        /\ \E events : Sends(events)
    BY <2>1, MessageOpened DEF Inv
  <2>3. ServerTypes'
    BY <2>1, <2>2, BoundsAssumption DEF Inv, Types, ServerTypes, Phases
  <2>4. Places'
    BY <2>1, <2>2 DEF Inv, Places, Reading
  <2> QED
    BY <2>1, <2>2, <2>3, <2>4 DEF GoesOn
<1>2. CASE Reports
  <2>1. /\ phase = "reporting" /\ phase # "done" /\ db # <<>> /\ adapter = "single" /\ todo = 0
        /\ nextPart <= Len(db[Current].parts) /\ nextPart \in 0..MaxTexts
        /\ calls \in Nat /\ MaxCalls \in Nat /\ MaxTexts \in Nat
        /\ UNCHANGED <<adapter, phase, aborted, row, todo>>
    BY <1>2, BoundsAssumption DEF Reports, Reading, Inv, Places, Types
  <2>2. Len(db[Current].parts) \in Nat
    BY <2>1, CurrentMessage DEF Inv
  <2>3. CASE \E part \in {Text, Thinking} : AddText(part) /\ UNCHANGED <<calls, unanswered>>
    <3>1. PICK part \in {Text, Thinking} : AddText(part) /\ UNCHANGED <<calls, unanswered>>
      BY <2>3
    <3>2. adapter = "turns" => nextPart = Len(db[Current].parts)
      BY <2>1
    <3>3. /\ db' \in Seq(MessageRow) /\ Len(db') = Len(db) /\ db' # <<>> /\ Messages'
          /\ nextPart' \in 0..MaxTexts /\ nextPart' <= Len(db'[Current'].parts)
          /\ \E events : Sends(events)
      BY <2>1, <3>1, <3>2, TextAdded DEF Inv
    <3>4. ServerTypes'
      BY <2>1, <3>1, <3>3 DEF Inv, Types, ServerTypes
    <3>5. Places'
      BY <2>1, <3>1, <3>3 DEF Inv, Places, Reading
    <3> QED
      BY <2>1, <3>3, <3>4, <3>5 DEF GoesOn
  <2>4. CASE MakeCall /\ UNCHANGED nextPart
    <3>1. /\ db' \in Seq(MessageRow) /\ Len(db') = Len(db) /\ db' # <<>> /\ Messages'
          /\ Len(db'[Current'].parts) >= Len(db[Current].parts)
          /\ calls' = calls + 1 /\ unanswered' \subseteq 1..calls'
          /\ \E events : Sends(events)
      BY <2>1, <2>4, CallMade DEF Inv
    <3>2. Len(db'[Current'].parts) \in Nat /\ nextPart' <= Len(db'[Current'].parts)
      <4>1. Current' \in 1..Len(db') /\ db'[Current'] \in MessageRow
        BY <3>1, ElementOfSeq DEF Current
      <4>2. Len(db'[Current'].parts) \in Nat
        BY <4>1, RowFields
      <4> QED
        BY <2>1, <2>2, <2>4, <3>1, <4>2
    <3>3. ServerTypes'
      <4>1. calls < MaxCalls
        BY <2>4 DEF MakeCall
      <4> QED
        BY <2>1, <2>4, <3>1, <4>1 DEF Inv, Types, ServerTypes
    <3>4. Places'
      BY <2>1, <3>1, <3>2 DEF Inv, Places, Reading
    <3> QED
      BY <2>1, <3>1, <3>3, <3>4 DEF GoesOn
  <2>5. CASE AnswerSome /\ UNCHANGED <<nextPart, calls>>
    <3>1. PICK c \in unanswered, failed \in BOOLEAN, card \in BOOLEAN : Answer(c, failed, card)
      BY <2>5 DEF AnswerSome
    <3>2. /\ db' \in Seq(MessageRow) /\ Len(db') = Len(db) /\ db' # <<>> /\ Messages'
          /\ Len(db'[Current'].parts) >= Len(db[Current].parts)
          /\ unanswered' \subseteq 1..calls
          /\ \E events : Sends(events)
      BY <2>1, <2>5, <3>1, CallAnswered DEF Inv
    <3>3. Len(db'[Current'].parts) \in Nat /\ nextPart' <= Len(db'[Current'].parts)
      <4>1. Current' \in 1..Len(db') /\ db'[Current'] \in MessageRow
        BY <3>2, ElementOfSeq DEF Current
      <4>2. Len(db'[Current'].parts) \in Nat
        BY <4>1, RowFields
      <4> QED
        BY <2>1, <2>2, <2>5, <3>2, <4>2
    <3>4. ServerTypes'
      BY <2>1, <2>5, <3>2 DEF Inv, Types, ServerTypes
    <3>5. Places'
      BY <2>1, <3>2, <3>3 DEF Inv, Places, Reading
    <3> QED
      BY <2>1, <3>2, <3>4, <3>5 DEF GoesOn
  <2> QED
    BY <1>2, <2>3, <2>4, <2>5 DEF Reports
<1>3. CASE ReportEnds
  <2>1. /\ phase = "reporting" /\ phase \in Reading /\ db # <<>>
        /\ UNCHANGED <<adapter, aborted, row, nextPart, calls, unanswered, todo>>
    BY <1>3 DEF ReportEnds, Reading, Inv, Places
  <2>2. CASE phase' = "returned" /\ EndMessage
    <3>1. db' \in Seq(MessageRow) /\ Messages' /\ \E events : Sends(events)
      BY <2>1, <2>2, MessageEnded DEF Inv
    <3>2. ServerTypes' /\ Places'
      BY <2>1, <2>2, <3>1 DEF Inv, Types, ServerTypes, Phases, Places, Reading
    <3> QED
      BY <2>2, <3>1, <3>2 DEF GoesOn
  <2>3. CASE phase' = "threw" /\ UNCHANGED <<db, wire, shownRun, shown>>
    <3>1. MayBeOpen' /\ phase # "done" /\ phase' # "done"
      BY <2>1, <2>3 DEF MayBeOpen
    <3>2. Messages' /\ \E events : Sends(events)
      BY <2>1, <2>3, <3>1, Resting DEF Inv
    <3>3. ServerTypes' /\ Places'
      BY <2>1, <2>3 DEF Inv, Types, ServerTypes, Phases, Places, Reading
    <3> QED
      BY <3>1, <3>2, <3>3 DEF GoesOn
  <2> QED
    BY <1>3, <2>2, <2>3 DEF ReportEnds
<1> QED
  BY <1>1, <1>2, <1>3 DEF Single

LEMMA GoingOnKeepsInv ==
  ASSUME Inv, phase # "done", GoesOn
  PROVE  Inv'
<1>1. PICK events : Sends(events)
  BY DEF GoesOn
<1>2. Wires' /\ Mirror' /\ wire' \in Seq(Event)
  BY <1>1, SendsKeepMirror DEF Inv, GoesOn
<1>3. Types'
  BY <1>1, <1>2 DEF Inv, GoesOn, Types, ServerTypes, Sends
<1>4. Ending'
  BY DEF GoesOn, Ending
<1> QED
  BY <1>2, <1>3, <1>4 DEF Inv, GoesOn

-------------------------------------------------------------------------------
(* The finalization: the results that close the calls.                     *)

LEMMA RowsEqual ==
  ASSUME NEW a \in Seq(MessageRow), NEW b \in Seq(MessageRow), Len(a) = Len(b),
         \A k \in 1..Len(a) : a[k].parts = b[k].parts /\ a[k].status = b[k].status
  PROVE  a = b
<1>1. ASSUME NEW k \in 1..Len(a) PROVE a[k] = b[k]
  <2>1. a[k] \in MessageRow /\ b[k] \in MessageRow
    BY ElementOfSeq
  <2> QED
    BY <2>1, SameRow
<1> QED
  BY <1>1, SeqEqual

LEMMA PutSame ==
  ASSUME NEW msgs \in Seq(MessageRow), NEW m \in 1..Len(msgs)
  PROVE  Put(msgs, m, msgs[m].parts) = msgs
<1>1. PICK new : new = Put(msgs, m, msgs[m].parts)
  OBVIOUS
<1>2. msgs[m].parts \in Seq(PartSet)
  BY ElementOfSeq, RowFields
<1>3. /\ new \in Seq(MessageRow) /\ Len(new) = Len(msgs)
      /\ new[m].parts = msgs[m].parts /\ new[m].status = msgs[m].status
      /\ \A k \in 1..Len(msgs) : k # m => new[k] = msgs[k]
  BY <1>1, <1>2, PutParts
<1>4. \A k \in 1..Len(new) : new[k].parts = msgs[k].parts /\ new[k].status = msgs[k].status
  BY <1>3
<1> QED
  BY <1>1, <1>3, <1>4, RowsEqual

(* The event of such a result.                                             *)
Fails(m, c) == ToolResult(m, c, TRUE)

LEMMA FailStep ==
  ASSUME NEW kind, NEW r \in RunStates, NEW msgs, Good(msgs), NEW m \in 1..Len(msgs),
         NEW c \in 1..MaxCalls, ~HasResult(msgs[m].parts, c)
  PROVE  /\ Fails(m, c) \in StreamEvent
         /\ TabStep(kind, r, msgs, Fails(m, c), r, Put(msgs, m, Append(msgs[m].parts, Failure(c))))
<1> DEFINE old == msgs[m].parts
           e == Fails(m, c)
<1>1. msgs \in Seq(MessageRow) /\ ResultsOnce(old) /\ m \in Nat
  BY DEF Good
<1>2. old \in Seq(PartSet)
  BY <1>1, ElementOfSeq, RowFields
<1>3. Failure(c) \in PartSet /\ Failure(c).kind = "result" /\ Failure(c).call = c
  BY FailedResult
<1>4. PICK p \in PartSet : p = Failure(c)
  BY <1>3
<1>5. PICK new : new = Append(old, p)
  OBVIOUS
<1>6. Applied(msgs, e) = Put(msgs, m, PutResult(old, c, TRUE)) /\ RunAfter(r, e) = r
  <2>1. TRUE \in BOOLEAN
    OBVIOUS
  <2> QED
    BY <2>1, OnResult DEF Fails
<1>7. PutResult(old, c, TRUE) = new
  BY <1>4, <1>5 DEF PutResult, Failure
<1> HIDE DEF e, old
<1>8. Applied(msgs, e) = Put(msgs, m, new)
  BY <1>6, <1>7
<1>9. Answers(old, new, c)
  BY <1>1, <1>2, <1>3, <1>4, <1>5, ResultAppended DEF old
<1>10. new \in Seq(PartSet) /\ ResultsOnce(new) /\ IsPrefix(old, new)
  BY <1>2, <1>5, <1>9, AppendAdds DEF Answers
<1>11. TabStep(kind, r, msgs, e, r, Put(msgs, m, new))
  BY <1>6, <1>8, <1>10, PutStep DEF old
<1>12. Fails(m, c) \in StreamEvent
  <2>1. TRUE \in BOOLEAN
    OBVIOUS
  <2> QED
    BY <1>1, <2>1, ResultEvent DEF Fails
<1> QED
  BY <1>4, <1>5, <1>11, <1>12 DEF e, old

Sound(parts) == UsesOnce(parts) /\ ResultsOnce(parts)

LEMMA ClosedAdds ==
  ASSUME NEW parts \in Seq(PartSet), Sound(parts), NEW j \in 0..Len(MissingCalls(parts))
  PROVE  /\ PartlyClosed(parts, j) \in Seq(PartSet) /\ ResultsOnce(PartlyClosed(parts, j))
         /\ IsPrefix(parts, PartlyClosed(parts, j))
         /\ PartlyClosed(parts, 0) = parts
<1> DEFINE mc == MissingCalls(parts)
<1>1. mc \in Seq(1..MaxCalls) /\ j \in 0..Len(mc)
  BY MissingProperties
<1> HIDE DEF mc
<1>2. Len(mc) \in Nat /\ j \in Nat /\ j <= Len(mc)
  BY <1>1
<1>3. \A k \in 1..j : Failure(mc[k]) \in PartSet
  <2> SUFFICES ASSUME NEW k \in 1..j PROVE Failure(mc[k]) \in PartSet
    OBVIOUS
  <2>1. k \in 1..Len(mc)
    BY <1>2
  <2>2. mc[k] \in 1..MaxCalls
    BY <1>1, <2>1, ElementOfSeq
  <2> QED
    BY <2>2, FailedResult
<1>4. PICK a : a = [k \in 1..j |-> Failure(mc[k])]
  OBVIOUS
<1>5. a \in Seq(PartSet)
  <2>1. a \in [1..j -> PartSet]
    BY <1>3, <1>4
  <2> QED
    BY <1>2, <2>1, FunctionIsSeq
<1>6. PICK new : new = parts \o a
  OBVIOUS
<1>7. /\ new \in Seq(PartSet) /\ Len(parts) <= Len(new)
      /\ \A k \in 1..Len(parts) : new[k] = parts[k]
  BY <1>5, <1>6
<1>8. IsPrefix(parts, new)
  BY <1>7, Prefix
<1>9. PartlyClosed(parts, j) = new
  BY <1>4, <1>6 DEF PartlyClosed, mc
<1>10. ResultsOnce(new)
  <2>1. ClosesFor(parts, PartlyClosed(parts, j), FirstMissing(parts, j))
    BY PartlyClosedProperties DEF Sound
  <2> QED
    BY <1>9, <2>1 DEF ClosesFor
<1>11. PartlyClosed(parts, 0) = parts
  <2>1. [k \in 1..0 |-> Failure(mc[k])] = <<>>
    OBVIOUS
  <2>2. PartlyClosed(parts, 0) = parts \o <<>>
    BY <2>1 DEF PartlyClosed, mc
  <2> QED
    BY <2>2
<1> QED
  BY <1>7, <1>8, <1>9, <1>10, <1>11

(* The events that close message m take it through PartlyClosed.           *)
FirstFails(parts, m, j) == [k \in 1..j |-> Fails(m, MissingCalls(parts)[k])]

LEMMA NextFails ==
  ASSUME NEW parts \in Seq(PartSet), NEW m \in Nat, NEW j \in 0..Len(MissingCalls(parts))
  PROVE  /\ FirstFails(parts, m, j) \in Seq(StreamEvent)
         /\ FirstFails(parts, m, 0) = <<>>
         /\ j < Len(MissingCalls(parts)) =>
              FirstFails(parts, m, j + 1) =
                FirstFails(parts, m, j) \o <<Fails(m, MissingCalls(parts)[j + 1])>>
<1> DEFINE mc == MissingCalls(parts)
<1>1. mc \in Seq(1..MaxCalls) /\ j \in 0..Len(mc)
  BY MissingProperties
<1> HIDE DEF mc
<1>2. Len(mc) \in Nat /\ j \in Nat /\ j <= Len(mc)
  BY <1>1
<1>3. ASSUME NEW k \in 1..Len(mc) PROVE Fails(m, mc[k]) \in StreamEvent
  <2>1. mc[k] \in 1..MaxCalls
    BY <1>1, ElementOfSeq
  <2>2. TRUE \in BOOLEAN
    OBVIOUS
  <2> QED
    BY <2>1, <2>2, ResultEvent DEF Fails
<1>4. PICK a : a = [k \in 1..j |-> Fails(m, mc[k])]
  OBVIOUS
<1>5. a \in Seq(StreamEvent) /\ Len(a) = j /\ \A k \in 1..j : a[k] = Fails(m, mc[k])
  <2>1. \A k \in 1..j : Fails(m, mc[k]) \in StreamEvent
    BY <1>2, <1>3
  <2>2. a \in [1..j -> StreamEvent]
    BY <1>4, <2>1
  <2> QED
    BY <1>2, <1>4, <2>2, FunctionIsSeq
<1>6. ASSUME j < Len(mc)
      PROVE  [k \in 1..(j + 1) |-> Fails(m, mc[k])] = a \o <<Fails(m, mc[j + 1])>>
  <2>1. PICK b : b = [k \in 1..(j + 1) |-> Fails(m, mc[k])]
    OBVIOUS
  <2>2. PICK x \in StreamEvent : x = Fails(m, mc[j + 1])
    BY <1>2, <1>3, <1>6
  <2>3. b \in Seq(StreamEvent) /\ Len(b) = j + 1 /\ \A k \in 1..(j + 1) : b[k] = Fails(m, mc[k])
    <3>1. \A k \in 1..(j + 1) : Fails(m, mc[k]) \in StreamEvent
      BY <1>2, <1>3, <1>6
    <3>2. b \in [1..(j + 1) -> StreamEvent]
      BY <2>1, <3>1
    <3> QED
      BY <1>2, <2>1, <3>2, FunctionIsSeq
  <2>4. PICK d : d = a \o <<x>>
    OBVIOUS
  <2>5. /\ d \in Seq(StreamEvent) /\ Len(d) = j + 1 /\ d[j + 1] = x
        /\ \A k \in 1..j : d[k] = a[k]
    <3>1. d = Append(a, x)
      BY <1>5, <2>4
    <3> QED
      BY <1>2, <1>5, <3>1
  <2>6. \A k \in 1..(j + 1) : b[k] = d[k]
    <3>1. \A k \in 1..(j + 1) : k \in 1..j \/ k = j + 1
      BY <1>2
    <3> QED
      BY <1>2, <1>5, <2>2, <2>3, <2>5, <3>1
  <2>7. b = d
    BY <2>3, <2>5, <2>6, SeqEqual
  <2> QED
    BY <2>1, <2>2, <2>4, <2>7
<1>7. FirstFails(parts, m, 0) = <<>>
  <2>1. [k \in 1..0 |-> Fails(m, mc[k])] = <<>>
    OBVIOUS
  <2> QED
    BY <2>1 DEF FirstFails, mc
<1> QED
  BY <1>4, <1>5, <1>6, <1>7 DEF FirstFails, mc

LEMMA MessageCloses ==
  ASSUME NEW kind, NEW r \in RunStates, NEW msgs, Good(msgs), NEW m \in 1..Len(msgs),
         Sound(msgs[m].parts)
  PROVE  LET parts == msgs[m].parts
             n == Len(MissingCalls(parts))
         IN  /\ FirstFails(parts, m, n) \in Seq(StreamEvent)
             /\ Trace(kind, r, msgs, FirstFails(parts, m, n), r, Put(msgs, m, CloseCalls(parts)))
<1> DEFINE parts == msgs[m].parts
           mc == MissingCalls(parts)
           n == Len(mc)
           T == {j \in 0..n : Trace(kind, r, msgs, FirstFails(parts, m, j), r,
                                    Put(msgs, m, PartlyClosed(parts, j)))}
<1>1. msgs \in Seq(MessageRow) /\ m \in Nat
  BY DEF Good
<1>2. parts \in Seq(PartSet) /\ Sound(parts)
  BY <1>1, ElementOfSeq, RowFields
<1>3. mc \in Seq(1..MaxCalls) /\ n \in Nat /\ Distinct(mc)
      /\ Elements(mc) = {parts[k].call : k \in Lacking(parts)}
  BY <1>2, MissingProperties DEF Sound
<1>4. \A i \in 1..n : ~HasResult(parts, mc[i])
  BY <1>3 DEF Elements, Lacking, Unanswered
<1>5. Put(msgs, m, parts) = msgs
  BY <1>1, PutSame
<1> HIDE DEF parts
<1>6. 0 \in T
  <2>1. 0 \in 0..Len(MissingCalls(parts)) /\ 0 \in 0..n
    BY <1>3
  <2>2. FirstFails(parts, m, 0) = <<>> /\ PartlyClosed(parts, 0) = parts
    BY <1>1, <1>2, <2>1, NextFails, ClosedAdds
  <2>3. Trace(kind, r, msgs, FirstFails(parts, m, 0), r, Put(msgs, m, PartlyClosed(parts, 0)))
    BY <1>5, <2>2, TraceNone
  <2> QED
    BY <2>1, <2>3
<1>7. ASSUME NEW j \in 0..(n - 1), j \in T PROVE j + 1 \in T
  <2>1. /\ j \in Nat /\ j + 1 \in 1..n /\ j \in 0..n /\ j + 1 \in 0..n /\ j < n
    BY <1>3
  <2>2. PICK c \in 1..MaxCalls : c = mc[j + 1]
    BY <1>3, <2>1, ElementOfSeq
  <2>3. PICK old : old = PartlyClosed(parts, j)
    OBVIOUS
  <2>4. PICK new : new = PartlyClosed(parts, j + 1)
    OBVIOUS
  <2>5. PICK one : one = Put(msgs, m, old)
    OBVIOUS
  <2>6. PICK two : two = Put(msgs, m, new)
    OBVIOUS
  <2>7. old \in Seq(PartSet) /\ ResultsOnce(old) /\ IsPrefix(parts, old)
    BY <1>2, <2>1, <2>3, ClosedAdds
  <2>8. new \in Seq(PartSet) /\ ResultsOnce(new)
    BY <1>2, <2>1, <2>4, ClosedAdds
  <2>9. new = Append(old, Failure(c))
    BY <1>2, <2>2, <2>3, <2>4, NextClosed
  <2>10. ~HasResult(old, c)
    <3>1. ClosesFor(parts, old, FirstMissing(parts, j))
      BY <1>2, <2>1, <2>3, PartlyClosedProperties DEF Sound
    <3>2. c \notin FirstMissing(parts, j)
      <4>1. \A k \in 1..j : k \in 1..n /\ k # j + 1
        BY <1>3, <2>1
      <4> QED
        BY <1>3, <2>1, <2>2, <4>1 DEF FirstMissing, Distinct
    <3> QED
      BY <1>4, <2>1, <2>2, <3>1, <3>2 DEF ClosesFor
  <2>11. /\ one \in Seq(MessageRow) /\ Len(one) = Len(msgs) /\ one[m].parts = old
         /\ Good(one)
    BY <1>1, <2>5, <2>7, PutParts, PutAdds
  <2>12. m \in 1..Len(one)
    BY <2>11
  <2>13. /\ Fails(m, c) \in StreamEvent
         /\ TabStep(kind, r, one, Fails(m, c), r, Put(one, m, Append(old, Failure(c))))
    BY <2>10, <2>11, <2>12, FailStep
  <2>14. Put(one, m, new) = two
    BY <1>1, <2>5, <2>6, <2>7, <2>8, PutTwice
  <2>15. TabStep(kind, r, one, Fails(m, c), r, two)
    BY <2>9, <2>13, <2>14
  <2>16. Trace(kind, r, one, <<Fails(m, c)>>, r, two)
    BY <2>15, TraceOne
  <2>17. Trace(kind, r, msgs, FirstFails(parts, m, j), r, one)
    BY <1>7, <2>3, <2>5
  <2>18. /\ FirstFails(parts, m, j) \in Seq(StreamEvent)
         /\ FirstFails(parts, m, j + 1) = FirstFails(parts, m, j) \o <<Fails(m, c)>>
    BY <1>1, <1>2, <2>1, <2>2, NextFails
  <2>19. <<Fails(m, c)>> \in Seq(StreamEvent)
    BY <2>13
  <2>20. Trace(kind, r, msgs, FirstFails(parts, m, j + 1), r, two)
    BY <2>16, <2>17, <2>18, <2>19, TraceThen
  <2> QED
    BY <2>1, <2>4, <2>6, <2>20
<1> HIDE DEF T
<1>8. n \in T
  <2>1. \A j \in 0..n : j \in T
    BY <1>3, <1>6, <1>7, Induction
  <2> QED
    BY <1>3, <2>1
<1>9. CloseCalls(parts) = PartlyClosed(parts, n)
  BY <1>2, CloseProperties DEF Sound
<1>10. FirstFails(parts, m, n) \in Seq(StreamEvent)
  <2>1. n \in 0..n
    BY <1>3
  <2> QED
    BY <1>1, <1>2, <2>1, NextFails
<1> QED
  BY <1>8, <1>9, <1>10 DEF T, parts

(* The first n messages are closed.                                        *)
ClosedTo(msgs, n) ==
  [m \in 1..Len(msgs) |->
     IF m <= n THEN [msgs[m] EXCEPT !.parts = CloseCalls(@)] ELSE msgs[m]]

AllSound(msgs) == msgs \in Seq(MessageRow) /\ \A m \in 1..Len(msgs) : Sound(msgs[m].parts)

LEMMA ClosedToFacts ==
  ASSUME NEW msgs, AllSound(msgs), NEW n \in 0..Len(msgs)
  PROVE  LET new == ClosedTo(msgs, n)
         IN  /\ new \in Seq(MessageRow) /\ Len(new) = Len(msgs) /\ Good(new)
             /\ \A m \in 1..Len(msgs) :
                  /\ new[m].status = msgs[m].status
                  /\ new[m].parts = IF m <= n THEN CloseCalls(msgs[m].parts) ELSE msgs[m].parts
<1>1. msgs \in Seq(MessageRow) /\ Len(msgs) \in Nat
  BY DEF AllSound
<1>2. PICK new : new = ClosedTo(msgs, n)
  OBVIOUS
<1>3. ASSUME NEW m \in 1..Len(msgs)
      PROVE  /\ new[m] \in MessageRow /\ new[m].status = msgs[m].status
             /\ new[m].parts = IF m <= n THEN CloseCalls(msgs[m].parts) ELSE msgs[m].parts
             /\ ResultsOnce(new[m].parts)
  <2>1. msgs[m] \in MessageRow /\ Sound(msgs[m].parts)
    BY <1>1, ElementOfSeq DEF AllSound
  <2>2. msgs[m].parts \in Seq(PartSet)
    BY <2>1, RowFields
  <2>3. PICK closed : closed = CloseCalls(msgs[m].parts)
    OBVIOUS
  <2>4. closed \in Seq(PartSet) /\ ResultsOnce(closed)
    BY <2>1, <2>2, <2>3, CloseProperties DEF Sound, ClosesFor
  <2>5. new[m] = IF m <= n THEN [msgs[m] EXCEPT !.parts = closed] ELSE msgs[m]
    BY <1>2, <2>3 DEF ClosedTo
  <2>6. PICK x : x = [msgs[m] EXCEPT !.parts = closed]
    OBVIOUS
  <2>7. x \in MessageRow /\ x.parts = closed /\ x.status = msgs[m].status
    BY <2>1, <2>4, <2>6 DEF MessageRow, PartSet
  <2>8. new[m] = IF m <= n THEN x ELSE msgs[m]
    BY <2>5, <2>6
  <2> QED
    BY <2>1, <2>3, <2>4, <2>7, <2>8 DEF Sound
<1>4. new \in Seq(MessageRow) /\ Len(new) = Len(msgs)
  <2>1. new = [m \in 1..Len(msgs) |-> new[m]]
    BY <1>2 DEF ClosedTo
  <2>2. new \in [1..Len(msgs) -> MessageRow]
    BY <1>3, <2>1
  <2> QED
    BY <1>1, <2>2, FunctionIsSeq
<1>5. Good(new)
  BY <1>3, <1>4 DEF Good
<1> QED
  BY <1>2, <1>3, <1>4, <1>5

LEMMA ClosingTrace ==
  ASSUME NEW kind, NEW r \in RunStates, NEW msgs, AllSound(msgs), NEW status, status # "complete"
  PROVE  /\ ClosingEvents(status, msgs) \in Seq(StreamEvent)
         /\ Closed(status, msgs) = ClosedTo(msgs, Len(msgs))
         /\ Trace(kind, r, msgs, ClosingEvents(status, msgs), r, Closed(status, msgs))
<1> DEFINE Events(m) == FirstFails(msgs[m].parts, m, Len(MissingCalls(msgs[m].parts)))
<1>1. msgs \in Seq(MessageRow) /\ Len(msgs) \in Nat /\ Good(msgs)
  BY DEF AllSound, Good, Sound
<1>2. PICK s : s = [m \in 1..Len(msgs) |-> Events(m)]
  OBVIOUS
<1>3. ClosingEvents(status, msgs) = FlattenSeq(s)
  BY <1>2 DEF ClosingEvents, FirstFails, Fails
<1>4. ASSUME NEW m \in 1..Len(msgs) PROVE s[m] = Events(m) /\ s[m] \in Seq(StreamEvent)
  <2>1. Sound(msgs[m].parts)
    BY DEF AllSound
  <2>2. Events(m) \in Seq(StreamEvent)
    <3>1. "none" \in RunStates
      BY DEF RunStates
    <3> QED
      BY <1>1, <2>1, <3>1, MessageCloses
  <2> QED
    BY <1>2, <2>2
<1> HIDE DEF Events
<1>5. s \in Seq(Seq(StreamEvent)) /\ Len(s) = Len(msgs)
  <2>1. s \in [1..Len(msgs) -> Seq(StreamEvent)]
    BY <1>2, <1>4
  <2> QED
    BY <1>1, <2>1, FunctionIsSeq
<1>6. PICK f \in [0..Len(s) -> Seq(StreamEvent)] : Joins(s, Len(s), f) /\ FlattenSeq(s) = f[Len(s)]
  BY <1>5, FlattenJoins
<1> DEFINE T == {n \in 0..Len(msgs) : Trace(kind, r, msgs, f[n], r, ClosedTo(msgs, n))}
<1>7. 0 \in T
  <2>1. PICK new : new = ClosedTo(msgs, 0)
    OBVIOUS
  <2>2. 0 \in 0..Len(msgs) /\ \A m \in 1..Len(msgs) : ~(m <= 0)
    BY <1>1
  <2>3. /\ new \in Seq(MessageRow) /\ Len(new) = Len(msgs)
        /\ \A m \in 1..Len(msgs) :
             /\ new[m].status = msgs[m].status
             /\ new[m].parts = IF m <= 0 THEN CloseCalls(msgs[m].parts) ELSE msgs[m].parts
    BY <2>1, <2>2, ClosedToFacts
  <2>4. \A m \in 1..Len(new) : new[m].parts = msgs[m].parts /\ new[m].status = msgs[m].status
    BY <2>2, <2>3
  <2>5. new = msgs
    BY <1>1, <2>3, <2>4, RowsEqual
  <2>6. f[0] = <<>>
    BY <1>6 DEF Joins
  <2>7. Trace(kind, r, msgs, f[0], r, new)
    BY <2>5, <2>6, TraceNone
  <2> QED
    BY <2>1, <2>2, <2>7
<1>8. ASSUME NEW n \in 0..(Len(msgs) - 1), n \in T PROVE n + 1 \in T
  <2> DEFINE m == n + 1
             parts == msgs[m].parts
  <2>1. n \in Nat /\ n \in 0..Len(msgs) /\ m \in 0..Len(msgs) /\ m \in 1..Len(msgs) /\ m - 1 = n
    BY <1>1
  <2>2. PICK old : old = ClosedTo(msgs, n)
    OBVIOUS
  <2>3. PICK new : new = ClosedTo(msgs, m)
    OBVIOUS
  <2>4. /\ old \in Seq(MessageRow) /\ Len(old) = Len(msgs) /\ Good(old)
        /\ \A k \in 1..Len(msgs) :
             /\ old[k].status = msgs[k].status
             /\ old[k].parts = IF k <= n THEN CloseCalls(msgs[k].parts) ELSE msgs[k].parts
    BY <2>1, <2>2, ClosedToFacts
  <2>5. /\ new \in Seq(MessageRow) /\ Len(new) = Len(msgs)
        /\ \A k \in 1..Len(msgs) :
             /\ new[k].status = msgs[k].status
             /\ new[k].parts = IF k <= m THEN CloseCalls(msgs[k].parts) ELSE msgs[k].parts
    BY <2>1, <2>3, ClosedToFacts
  <2>6. Sound(parts) /\ parts \in Seq(PartSet)
    BY <1>1, <2>1, ElementOfSeq, RowFields DEF AllSound
  <2>7. ~(m <= n) /\ m <= m /\ \A k \in 1..Len(msgs) : k # m => (k <= n <=> k <= m)
    BY <1>1, <2>1
  <2>8. old[m].parts = parts /\ m \in 1..Len(old)
    BY <2>1, <2>4, <2>7
  <2>9. f[m] = f[n] \o s[m] /\ f[n] \in Seq(StreamEvent) /\ s[m] \in Seq(StreamEvent)
    <3>1. f[m] = f[m - 1] \o s[m]
      BY <1>5, <1>6, <2>1 DEF Joins
    <3>2. f[n] \in Seq(StreamEvent)
      BY <1>5, <1>6, <2>1
    <3>3. s[m] \in Seq(StreamEvent)
      BY <1>4, <2>1
    <3> QED
      BY <2>1, <3>1, <3>2, <3>3
  <2> HIDE DEF m
  <2>10. PICK closed : closed = CloseCalls(parts)
    OBVIOUS
  <2>11. closed \in Seq(PartSet)
    BY <2>6, <2>10, CloseProperties DEF Sound, ClosesFor
  <2>12. PICK put : put = Put(old, m, closed)
    OBVIOUS
  <2>13. /\ put \in Seq(MessageRow) /\ Len(put) = Len(old)
         /\ put[m].parts = closed /\ put[m].status = old[m].status
         /\ \A k \in 1..Len(old) : k # m => put[k] = old[k]
    BY <2>4, <2>8, <2>11, <2>12, PutParts
  <2>14. put = new
    <3>1. ASSUME NEW k \in 1..Len(put) PROVE put[k].parts = new[k].parts /\ put[k].status = new[k].status
      <4>1. k \in 1..Len(msgs) /\ k \in 1..Len(old)
        BY <2>4, <2>13
      <4>2. CASE k = m
        BY <2>4, <2>5, <2>7, <2>10, <2>13, <4>1, <4>2
      <4>3. CASE k # m
        BY <2>4, <2>5, <2>7, <2>13, <4>1, <4>3
      <4> QED
        BY <4>2, <4>3
    <3> QED
      BY <2>4, <2>5, <2>13, <3>1, RowsEqual
  <2>15. Trace(kind, r, old, s[m], r, put)
    <3>1. Trace(kind, r, old, FirstFails(old[m].parts, m, Len(MissingCalls(old[m].parts))), r,
                Put(old, m, CloseCalls(old[m].parts)))
      BY <2>4, <2>6, <2>8, MessageCloses
    <3>2. s[m] = FirstFails(parts, m, Len(MissingCalls(parts)))
      BY <1>4, <2>1 DEF Events
    <3> QED
      BY <2>8, <2>10, <2>12, <3>1, <3>2
  <2>16. Trace(kind, r, msgs, f[n], r, old)
    BY <1>8, <2>2
  <2>17. Trace(kind, r, msgs, f[m], r, new)
    BY <2>9, <2>14, <2>15, <2>16, TraceThen
  <2> QED
    BY <2>1, <2>3, <2>17 DEF m
<1> HIDE DEF T
<1>9. Len(msgs) \in T
  <2>1. \A n \in 0..Len(msgs) : n \in T
    BY <1>1, <1>7, <1>8, Induction
  <2> QED
    BY <1>1, <2>1
<1>10. Trace(kind, r, msgs, f[Len(msgs)], r, ClosedTo(msgs, Len(msgs)))
  BY <1>9 DEF T
<1>11. Closed(status, msgs) = ClosedTo(msgs, Len(msgs))
  <2>1. \A m \in 1..Len(msgs) : m <= Len(msgs)
    BY <1>1
  <2> QED
    BY <2>1 DEF Closed, ClosedTo
<1>12. f[Len(s)] \in Seq(StreamEvent)
  BY <1>1, <1>5
<1> QED
  BY <1>3, <1>5, <1>6, <1>10, <1>11, <1>12

-------------------------------------------------------------------------------
(* The finalization: the error text, and run.end.                          *)

Done(parts) == Sound(parts) /\ Lacking(parts) = {}

LEMMA ClosedDone ==
  ASSUME NEW parts \in Seq(PartSet), Sound(parts)
  PROVE  /\ CloseCalls(parts) \in Seq(PartSet) /\ Done(CloseCalls(parts))
         /\ ErrorsIn(CloseCalls(parts)) = ErrorsIn(parts)
         /\ IsPrefix(parts, CloseCalls(parts))
<1>1. /\ CloseCalls(parts) = PartlyClosed(parts, Len(MissingCalls(parts)))
      /\ ClosesFor(parts, CloseCalls(parts), Elements(MissingCalls(parts)))
      /\ Lacking(CloseCalls(parts)) = {}
  BY CloseProperties DEF Sound
<1>2. Len(MissingCalls(parts)) \in 0..Len(MissingCalls(parts))
  <2>1. MissingCalls(parts) \in Seq(1..MaxCalls)
    BY MissingProperties
  <2> QED
    BY <2>1
<1>3. IsPrefix(parts, CloseCalls(parts))
  BY <1>1, <1>2, ClosedAdds
<1>4. Sound(CloseCalls(parts))
  BY <1>1 DEF ClosesFor, Sound, UsesOnce
<1> QED
  BY <1>1, <1>3, <1>4 DEF ClosesFor, Done

LEMMA ErrorAdded ==
  ASSUME NEW parts \in Seq(PartSet), Done(parts), ErrorsIn(parts) = {}
  PROVE  LET new == Append(parts, Error)
         IN  /\ new \in Seq(PartSet) /\ Done(new) /\ ErrorsIn(new) = {Len(new)}
             /\ IsPrefix(parts, new)
<1>1. PICK new : new = Append(parts, Error)
  OBVIOUS
<1>2. Error \in PartSet /\ Error.kind # "use" /\ Error.kind # "result"
  BY DEF PartSet, Part, Error
<1>3. /\ new \in Seq(PartSet) /\ Len(new) = Len(parts) + 1 /\ Len(parts) \in Nat
      /\ \A k \in 1..Len(parts) : new[k] = parts[k]
      /\ Uses(new) = Uses(parts) /\ Results(new) = Results(parts)
      /\ ErrorsIn(new) = ErrorsIn(parts) \cup {Len(parts) + 1}
  BY <1>1, <1>2, AppendFacts
<1>4. IsPrefix(parts, new)
  BY <1>1, <1>2, AppendAdds
<1>5. \A k \in Uses(new) \cup Results(new) : k \in 1..Len(parts) /\ new[k] = parts[k]
  BY <1>3 DEF Uses, Results
<1>6. Sound(new)
  BY <1>3, <1>5 DEF Sound, Done, UsesOnce, ResultsOnce
<1>7. \A c : HasResult(parts, c) => HasResult(new, c)
  BY <1>3, <1>5 DEF HasResult, Results
<1>8. Lacking(new) = {}
  <2> SUFFICES ASSUME NEW k \in Lacking(new) PROVE FALSE
    OBVIOUS
  <2>1. k \in Uses(new) /\ ~HasResult(new, new[k].call)
    BY DEF Lacking, Unanswered, Uses
  <2>2. k \in Lacking(parts)
    BY <1>3, <1>5, <1>7, <2>1 DEF Lacking, Unanswered, Uses
  <2> QED
    BY <2>2 DEF Done
<1> QED
  BY <1>1, <1>3, <1>4, <1>6, <1>8 DEF Done

LEMMA SettledFacts ==
  ASSUME NEW msgs \in Seq(MessageRow), NEW status \in Final
  PROVE  LET new == Settled(status, msgs)
         IN  /\ new \in Seq(MessageRow) /\ Len(new) = Len(msgs)
             /\ \A m \in 1..Len(msgs) :
                  /\ new[m].parts = msgs[m].parts
                  /\ new[m].status = IF msgs[m].status = "streaming" THEN EndStatus(status)
                                                                    ELSE msgs[m].status
<1>1. PICK new : new = Settled(status, msgs)
  OBVIOUS
<1>2. PICK end \in Status : end = EndStatus(status)
  BY DEF EndStatus, Status, Final
<1>3. ASSUME NEW m \in 1..Len(msgs)
      PROVE  /\ new[m] \in MessageRow /\ new[m].parts = msgs[m].parts
             /\ new[m].status = IF msgs[m].status = "streaming" THEN end ELSE msgs[m].status
  <2>1. msgs[m] \in MessageRow
    BY ElementOfSeq
  <2>2. PICK x : x = [msgs[m] EXCEPT !.status = end]
    OBVIOUS
  <2>3. x \in MessageRow /\ x.parts = msgs[m].parts /\ x.status = end
    BY <2>1, <2>2 DEF MessageRow, Status
  <2>4. new[m] = IF msgs[m].status = "streaming" THEN x ELSE msgs[m]
    BY <1>1, <1>2, <2>2 DEF Settled
  <2> QED
    BY <2>1, <2>3, <2>4
<1>4. new \in Seq(MessageRow) /\ Len(new) = Len(msgs)
  <2>1. new = [m \in 1..Len(msgs) |-> new[m]]
    BY <1>1 DEF Settled
  <2>2. new \in [1..Len(msgs) -> MessageRow] /\ Len(msgs) \in Nat
    BY <1>3, <2>1
  <2> QED
    BY <2>2, FunctionIsSeq
<1> QED
  BY <1>1, <1>2, <1>3, <1>4

(* next is msgs with the error in message last, or in a message of its own *)
(* that is the last.                                                       *)
Errored(msgs, next, last) ==
  /\ next \in Seq(MessageRow)
  /\ \A m \in 1..Len(msgs) :
       next[m].parts = IF m = last THEN Append(msgs[m].parts, Error) ELSE msgs[m].parts
  /\ IF last > 0 THEN Len(next) = Len(msgs)
                 ELSE Len(next) = Len(msgs) + 1 /\ next[Len(msgs) + 1].parts = <<Error>>

PutsError(kind, r, msgs, events, last) ==
  \E next : /\ Trace(kind, r, msgs, events, r, next)
            /\ Good(next) /\ Errored(msgs, next, last)
            /\ \A m \in 1..Len(msgs) : next[m].status = msgs[m].status
            /\ last = 0 => next[Len(msgs) + 1].status = "complete"

LEMMA ThreeInARow ==
  ASSUME NEW X, NEW e \in X, NEW f \in X, NEW g \in X
  PROVE  /\ <<e>> \in Seq(X) /\ <<f>> \in Seq(X) /\ <<g>> \in Seq(X)
         /\ <<e>> \o <<f>> \in Seq(X)
         /\ (<<e>> \o <<f>>) \o <<g>> = <<e, f, g>> /\ <<e, f, g>> \in Seq(X)
<1>1. /\ <<e>> \in Seq(X) /\ <<f>> \in Seq(X) /\ <<g>> \in Seq(X) /\ <<e, f, g>> \in Seq(X)
      /\ Len(<<e>>) = 1 /\ Len(<<f>>) = 1 /\ Len(<<g>>) = 1
      /\ <<e>>[1] = e /\ <<f>>[1] = f /\ <<g>>[1] = g
  OBVIOUS
<1>2. PICK u : u = <<e>> \o <<f>>
  OBVIOUS
<1>3. u \in Seq(X) /\ Len(u) = 2 /\ u[1] = e /\ u[2] = f
  <2>1. Len(u) = Len(<<e>>) + Len(<<f>>) /\ u \in Seq(X)
    BY <1>1, <1>2, ConcatProperties
  <2>2. \A i \in 1..(Len(<<e>>) + Len(<<f>>)) :
          u[i] = IF i <= Len(<<e>>) THEN <<e>>[i] ELSE <<f>>[i - Len(<<e>>)]
    BY <1>1, <1>2, ConcatProperties
  <2> QED
    BY <1>1, <2>1, <2>2
<1>4. PICK w : w = u \o <<g>>
  OBVIOUS
<1>5. w \in Seq(X) /\ Len(w) = 3 /\ w[1] = e /\ w[2] = f /\ w[3] = g
  <2>1. Len(w) = Len(u) + Len(<<g>>) /\ w \in Seq(X)
    BY <1>1, <1>3, <1>4, ConcatProperties
  <2>2. \A i \in 1..(Len(u) + Len(<<g>>)) :
          w[i] = IF i <= Len(u) THEN u[i] ELSE <<g>>[i - Len(u)]
    BY <1>1, <1>3, <1>4, ConcatProperties
  <2> QED
    BY <1>1, <1>3, <2>1, <2>2
<1>6. PICK v : v = <<e, f, g>>
  OBVIOUS
<1>7. Len(v) = 3 /\ v[1] = e /\ v[2] = f /\ v[3] = g /\ v \in Seq(X)
  BY <1>1, <1>6
<1>8. \A i \in 1..Len(w) : w[i] = v[i]
  <2>1. \A i \in 1..3 : i = 1 \/ i = 2 \/ i = 3
    OBVIOUS
  <2> QED
    BY <1>5, <1>7, <2>1
<1>9. w = v
  BY <1>5, <1>7, <1>8, SeqEqual
<1> QED
  BY <1>1, <1>2, <1>3, <1>4, <1>6, <1>9

LEMMA PartAtEnd ==
  ASSUME NEW kind, NEW r \in RunStates, NEW msgs, Good(msgs), NEW m \in 1..Len(msgs),
         NEW p \in PartSet, p.kind # "use", p.kind # "result"
  PROVE  LET old == msgs[m].parts
             new == Append(old, p)
         IN  /\ new \in Seq(PartSet) /\ ResultsOnce(new)
             /\ TabStep(kind, r, msgs, PartStart(m, Len(old), p), r, Put(msgs, m, new))
<1>1. PICK old : old = msgs[m].parts
  OBVIOUS
<1>2. PICK new : new = Append(old, p)
  OBVIOUS
<1>3. PICK i : i = Len(old)
  OBVIOUS
<1>4. old \in Seq(PartSet) /\ ResultsOnce(old)
  <2>1. msgs \in Seq(MessageRow) /\ ResultsOnce(old)
    BY <1>1 DEF Good
  <2> QED
    BY <1>1, <2>1, ElementOfSeq, RowFields
<1>5. new \in Seq(PartSet) /\ IsPrefix(old, new)
  BY <1>2, <1>4, AppendAdds
<1>6. Results(new) = Results(old) /\ \A k \in 1..Len(old) : new[k] = old[k]
  BY <1>2, <1>4, AppendFacts
<1>7. ResultsOnce(new)
  BY <1>4, <1>6 DEF ResultsOnce, Results
<1>8. SetPart(old, i, p) = new
  BY <1>2, <1>3, <1>4, SetPartAppends
<1>9. /\ Applied(msgs, PartStart(m, i, p)) = Put(msgs, m, SetPart(msgs[m].parts, i, p))
      /\ RunAfter(r, PartStart(m, i, p)) = r
  BY OnPart
<1>10. Applied(msgs, PartStart(m, i, p)) = Put(msgs, m, new)
  BY <1>1, <1>8, <1>9
<1>11. TabStep(kind, r, msgs, PartStart(m, i, p), r, Put(msgs, m, new))
  BY <1>1, <1>5, <1>7, <1>9, <1>10, PutStep
<1> QED
  BY <1>1, <1>2, <1>3, <1>5, <1>7, <1>11

LEMMA ErrorTrace ==
  ASSUME NEW kind, NEW r \in RunStates, NEW msgs, Good(msgs),
         NEW last \in {0, Len(msgs)},
         NEW status, status # "complete",
         NEW settled, Len(settled) = Len(msgs),
         \A m \in 1..Len(msgs) : settled[m].parts = msgs[m].parts
  PROVE  /\ ErrorEvents(status, settled, last) \in Seq(StreamEvent)
         /\ PutsError(kind, r, msgs, ErrorEvents(status, settled, last), last)
<1>1. msgs \in Seq(MessageRow) /\ Len(msgs) \in Nat
  BY DEF Good
<1>2. Error \in PartSet /\ Error.kind # "use" /\ Error.kind # "result"
  BY DEF PartSet, Part, Error
<1>3. CASE last > 0
  <2> DEFINE old == msgs[last].parts
             e == PartStart(last, Len(old), Error)
  <2>1. last \in 1..Len(msgs) /\ last \in Nat /\ last = Len(msgs)
    BY <1>1, <1>3
  <2>2. old \in Seq(PartSet) /\ ResultsOnce(old) /\ Len(old) \in Nat
    <3>1. old \in Seq(PartSet)
      BY <1>1, <2>1, ElementOfSeq, RowFields
    <3>2. ResultsOnce(old)
      BY <2>1 DEF Good
    <3> QED
      BY <3>1, <3>2
  <2>3. ErrorEvents(status, settled, last) = <<e>>
    BY <1>3, <2>1 DEF ErrorEvents, ErrorIndex
  <2>4. e \in StreamEvent
    BY <1>2, <2>1, <2>2, StreamEvents
  <2>5. PICK new : new = Append(old, Error)
    OBVIOUS
  <2>6. /\ new \in Seq(PartSet) /\ ResultsOnce(new)
        /\ TabStep(kind, r, msgs, e, r, Put(msgs, last, new))
    BY <1>2, <2>1, <2>5, PartAtEnd
  <2>7. PICK next : next = Put(msgs, last, new)
    OBVIOUS
  <2>8. /\ next \in Seq(MessageRow) /\ Len(next) = Len(msgs)
        /\ next[last].parts = new /\ next[last].status = msgs[last].status
        /\ \A k \in 1..Len(msgs) : k # last => next[k] = msgs[k]
    BY <1>1, <2>1, <2>6, <2>7, PutParts
  <2>9. Good(next)
    BY <1>1, <2>1, <2>6, <2>7, PutAdds
  <2>11. TabStep(kind, r, msgs, e, r, next)
    BY <2>6, <2>7
  <2> HIDE DEF e
  <2>12. Trace(kind, r, msgs, <<e>>, r, next)
    BY <2>11, TraceOne
  <2>13. Errored(msgs, next, last)
    BY <1>3, <2>5, <2>8 DEF Errored
  <2>14. \A m \in 1..Len(msgs) : next[m].status = msgs[m].status
    BY <2>8
  <2>15. <<e>> \in Seq(StreamEvent)
    BY <2>4
  <2> QED
    BY <1>3, <2>3, <2>9, <2>12, <2>13, <2>14, <2>15 DEF PutsError
<1>4. CASE last = 0
  <2> DEFINE m == Len(msgs) + 1
             e == MessageStart(m)
             f == PartStart(m, 0, Error)
             g == MessageEnd(m)
  <2>1. ErrorEvents(status, settled, last) = <<e, f, g>>
    BY <1>4 DEF ErrorEvents
  <2>2. m \in Nat /\ 0 \in Nat
    BY <1>1
  <2>3. e \in StreamEvent /\ f \in StreamEvent /\ g \in StreamEvent
    BY <1>2, <2>2, StreamEvents
  <2>4. PICK one : one = Append(msgs, Fresh)
    OBVIOUS
  <2>5. Fresh \in MessageRow /\ Fresh.parts = <<>>
    BY DEF Fresh, MessageRow
  <2>6. TabStep(kind, r, msgs, e, r, one)
    BY <2>4, StartStep
  <2>7. /\ one \in Seq(MessageRow) /\ Len(one) = m /\ one[m] = Fresh /\ m \in 1..Len(one)
        /\ \A k \in 1..Len(msgs) : one[k] = msgs[k] /\ k # m /\ k \in 1..Len(one)
        /\ Good(one)
    <3>1. /\ one \in Seq(MessageRow) /\ Len(one) = m /\ one[m] = Fresh
          /\ \A k \in 1..Len(msgs) : one[k] = msgs[k]
      BY <1>1, <2>4, <2>5, NewMessage
    <3>2. m \in 1..Len(one) /\ \A k \in 1..Len(msgs) : k # m /\ k \in 1..Len(one)
      BY <1>1, <3>1
    <3>3. Good(one)
      BY <2>6 DEF TabStep
    <3> QED
      BY <3>1, <3>2, <3>3
  <2> HIDE DEF m
  <2>8. PICK parts \in Seq(PartSet) : parts = <<Error>>
    <3>1. PICK x \in PartSet : x = Error
      BY <1>2
    <3>2. <<x>> \in Seq(PartSet)
      OBVIOUS
    <3> QED
      BY <3>1, <3>2
  <2>9. Len(parts) = 1 /\ parts[1] = Error
    BY <2>8
  <2>10. PICK two : two = Put(one, m, parts)
    OBVIOUS
  <2>11. /\ two \in Seq(MessageRow) /\ Len(two) = m /\ two[m].parts = parts /\ m \in 1..Len(two)
         /\ \A k \in 1..Len(msgs) : two[k] = msgs[k] /\ k \in 1..Len(two)
    <3>1. one \in Seq(MessageRow) /\ m \in 1..Len(one)
      BY <2>7
    <3>2. /\ two \in Seq(MessageRow) /\ Len(two) = Len(one) /\ two[m].parts = parts
          /\ \A k \in 1..Len(one) : k # m => two[k] = one[k]
      BY <2>10, <3>1, PutParts
    <3> QED
      BY <2>7, <3>2
  <2>12. ResultsOnce(parts)
    BY <1>2, <2>9 DEF ResultsOnce, Results
  <2>13. TabStep(kind, r, one, f, r, two)
    <3>1. SetPart(<<>>, 0, Error) = parts
      <4>1. <<>> \in Seq(PartSet) /\ Len(<<>>) = 0
        OBVIOUS
      <4>2. SetPart(<<>>, Len(<<>>), Error) = Append(<<>>, Error)
        BY <1>2, <4>1, SetPartAppends
      <4>3. Append(<<>>, Error) = <<Error>>
        OBVIOUS
      <4> QED
        BY <2>8, <4>1, <4>2, <4>3
    <3>2. Applied(one, f) = Put(one, m, SetPart(one[m].parts, 0, Error)) /\ RunAfter(r, f) = r
      BY OnPart
    <3>3. Applied(one, f) = Put(one, m, parts) /\ RunAfter(r, f) = r
      BY <2>5, <2>7, <3>1, <3>2
    <3>4. IsPrefix(one[m].parts, parts)
      <4>1. one[m].parts = <<>> /\ <<>> \in Seq(PartSet)
        BY <2>5, <2>7
      <4>2. Len(<<>>) <= Len(parts) /\ \A k \in 1..Len(<<>>) : parts[k] = <<>>[k]
        BY <2>9
      <4> QED
        BY <2>8, <4>1, <4>2, Prefix
    <3> QED
      BY <2>7, <2>10, <2>12, <3>3, <3>4, PutStep
  <2>14. PICK next : next = Mark(two, m, "complete")
    OBVIOUS
  <2>15. Good(two)
    BY <2>13 DEF TabStep
  <2>16. TabStep(kind, r, two, g, r, next)
    BY <2>11, <2>14, <2>15, EndStep
  <2>17. Good(next)
    BY <2>16 DEF TabStep
  <2>18. /\ next \in Seq(MessageRow) /\ Len(next) = m /\ next[m].parts = parts
         /\ next[m].status = "complete"
         /\ \A k \in 1..Len(msgs) : next[k] = msgs[k]
    <3>1. "complete" \in Status
      BY DEF Status
    <3>2. /\ next \in Seq(MessageRow) /\ Len(next) = Len(two) /\ next[m].parts = two[m].parts
          /\ next[m].status = "complete"
          /\ \A k \in 1..Len(two) : k # m => next[k] = two[k]
      BY <2>11, <2>14, <3>1, PutStatus
    <3> QED
      BY <2>7, <2>11, <3>2
  <2> HIDE DEF e, f, g
  <2>19. Trace(kind, r, msgs, <<e>>, r, one) /\ Trace(kind, r, one, <<f>>, r, two)
         /\ Trace(kind, r, two, <<g>>, r, next)
    BY <2>6, <2>13, <2>16, TraceOne
  <2>20. /\ <<e>> \in Seq(StreamEvent) /\ <<f>> \in Seq(StreamEvent) /\ <<g>> \in Seq(StreamEvent)
         /\ <<e>> \o <<f>> \in Seq(StreamEvent)
         /\ (<<e>> \o <<f>>) \o <<g>> = <<e, f, g>> /\ <<e, f, g>> \in Seq(StreamEvent)
    BY <2>3, ThreeInARow
  <2>21. Trace(kind, r, msgs, <<e>> \o <<f>>, r, two)
    BY <2>19, <2>20, TraceThen
  <2>22. Trace(kind, r, msgs, (<<e>> \o <<f>>) \o <<g>>, r, next)
    BY <2>19, <2>20, <2>21, TraceThen
  <2>23. Errored(msgs, next, last)
    <3>1. \A k \in 1..Len(msgs) : k # last
      BY <1>4
    <3> QED
      BY <1>4, <2>8, <2>18, <3>1 DEF Errored, m
  <2> QED
    BY <1>4, <2>1, <2>17, <2>18, <2>20, <2>22, <2>23 DEF m, PutsError
<1> QED
  BY <1>1, <1>3, <1>4

LEMMA EndFails ==
  ASSUME NEW kind, NEW r \in RunStates, NEW msgs \in Seq(MessageRow),
         \A m \in 1..Len(msgs) : Done(msgs[m].parts),
         NEW status \in {"failed", "aborted"}
  PROVE  LET next == Settled(status, msgs)
         IN  TabStep(kind, r, msgs, RunEnd(status), IF r = "none" THEN "none" ELSE status, next)
<1>1. status \in Final /\ status \in RunStates /\ "none" \in RunStates /\ status # "complete"
  BY DEF Final, RunStates
<1>2. AllSound(msgs) /\ Len(msgs) \in Nat
  BY DEF AllSound, Done
<1>3. PICK closed : closed = Closed(status, msgs)
  OBVIOUS
<1>4. closed = ClosedTo(msgs, Len(msgs))
  BY <1>1, <1>2, <1>3, ClosingTrace
<1>5. Len(msgs) \in 0..Len(msgs) /\ \A m \in 1..Len(msgs) : m <= Len(msgs)
  BY <1>2
<1>6. /\ closed \in Seq(MessageRow) /\ Len(closed) = Len(msgs)
      /\ \A m \in 1..Len(msgs) :
           /\ closed[m].status = msgs[m].status
           /\ closed[m].parts = CloseCalls(msgs[m].parts)
  BY <1>2, <1>4, <1>5, ClosedToFacts
<1>7. ASSUME NEW m \in 1..Len(closed)
      PROVE  closed[m].parts = msgs[m].parts /\ closed[m].status = msgs[m].status
  <2>1. m \in 1..Len(msgs)
    BY <1>6
  <2>2. msgs[m].parts \in Seq(PartSet) /\ Lacking(msgs[m].parts) = {}
    BY <2>1, ElementOfSeq, RowFields DEF Done
  <2>3. CloseCalls(msgs[m].parts) = msgs[m].parts
    BY <2>2, NothingMissing
  <2> QED
    BY <1>6, <2>1, <2>3
<1>8. closed = msgs
  BY <1>6, <1>7, RowsEqual
<1>9. PICK next : next = Settled(status, msgs)
  OBVIOUS
<1>10. /\ next \in Seq(MessageRow) /\ Len(next) = Len(msgs)
       /\ \A m \in 1..Len(msgs) : next[m].parts = msgs[m].parts
  BY <1>1, <1>9, SettledFacts
<1>11. Good(msgs) /\ Len(msgs) <= Len(next)
  BY <1>2, <1>10 DEF Good, AllSound, Sound
<1>12. Good(next) /\ OnlyAdded(msgs, next)
  BY <1>10, <1>11, KeepsParts
<1>13. Applied(msgs, RunEnd(status)) = next
  <2>1. Applied(msgs, RunEnd(status)) = AppliedEnd(msgs, status)
    BY OnRunEnd
  <2>2. AppliedEnd(msgs, status) = Settled(status, Closed(status, msgs))
    BY <1>1 DEF AppliedEnd
  <2> QED
    BY <1>3, <1>8, <1>9, <2>1, <2>2
<1>14. RunAfter(r, RunEnd(status)) = IF r = "none" THEN "none" ELSE status
  BY OnRunEnd
<1>15. (IF r = "none" THEN "none" ELSE status) \in RunStates
  BY <1>1
<1> QED
  BY <1>9, <1>12, <1>13, <1>14, <1>15 DEF TabStep

LEMMA VisualisedFacts ==
  ASSUME NEW msgs \in Seq(MessageRow), NEW last \in {0, Len(msgs)},
         NEW status, status # "complete"
  PROVE  LET new == Visualised(status, msgs, last)
         IN  /\ Errored(msgs, new, last)
             /\ \A m \in 1..Len(msgs) : new[m].status = msgs[m].status
             /\ last = 0 => new[Len(msgs) + 1].status = "error"
<1>1. Len(msgs) \in Nat
  OBVIOUS
<1>2. Error \in PartSet
  BY DEF PartSet, Part
<1>3. PICK new : new = Visualised(status, msgs, last)
  OBVIOUS
<1>4. CASE last > 0
  <2>1. last \in 1..Len(msgs)
    BY <1>1, <1>4
  <2>2. msgs[last].parts \in Seq(PartSet)
    BY <2>1, ElementOfSeq, RowFields
  <2>3. PICK parts \in Seq(PartSet) : parts = Append(msgs[last].parts, Error)
    BY <1>2, <2>2, AppendAdds
  <2>4. new = Put(msgs, last, parts)
    BY <1>3, <1>4, <2>3 DEF Visualised, Put
  <2>5. /\ new \in Seq(MessageRow) /\ Len(new) = Len(msgs)
        /\ new[last].parts = parts /\ new[last].status = msgs[last].status
        /\ \A k \in 1..Len(msgs) : k # last => new[k] = msgs[k]
    BY <2>1, <2>4, PutParts
  <2>6. last # 0 /\ \A m \in 1..Len(msgs) : new[m].status = msgs[m].status
    BY <1>4, <2>5
  <2>7. Errored(msgs, new, last)
    BY <1>4, <2>3, <2>5 DEF Errored
  <2> QED
    BY <1>3, <2>6, <2>7
<1>5. CASE last = 0
  <2>1. PICK row1 : row1 = [status |-> "error", parts |-> <<Error>>]
    OBVIOUS
  <2>2. PICK parts \in Seq(PartSet) : parts = <<Error>>
    <3>1. PICK x \in PartSet : x = Error
      BY <1>2
    <3>2. <<x>> \in Seq(PartSet)
      OBVIOUS
    <3> QED
      BY <3>1, <3>2
  <2>3. row1 \in MessageRow /\ row1.parts = <<Error>> /\ row1.status = "error"
    <3>1. row1 = [status |-> "error", parts |-> parts]
      BY <2>1, <2>2
    <3> QED
      BY <2>2, <3>1 DEF MessageRow, PartSet
  <2>4. new = Append(msgs, row1)
    BY <1>1, <1>3, <1>5, <2>1 DEF Visualised
  <2>5. /\ new \in Seq(MessageRow) /\ Len(new) = Len(msgs) + 1
        /\ new[Len(msgs) + 1] = row1
        /\ \A k \in 1..Len(msgs) : new[k] = msgs[k]
    BY <2>3, <2>4, NewMessage
  <2>6. \A k \in 1..Len(msgs) : k # last
    BY <1>5
  <2>7. Errored(msgs, new, last)
    BY <1>5, <2>3, <2>5, <2>6 DEF Errored
  <2> QED
    BY <1>3, <2>3, <2>5, <2>7
<1> QED
  BY <1>1, <1>4, <1>5

LEMMA ErroredFacts ==
  ASSUME NEW msgs \in Seq(MessageRow),
         \A m \in 1..Len(msgs) : Done(msgs[m].parts) /\ ErrorsIn(msgs[m].parts) = {},
         NEW last \in {0, Len(msgs)}, NEW next, Errored(msgs, next, last)
  PROVE  /\ next \in Seq(MessageRow) /\ Good(next) /\ ErrorAtEnd(next)
         /\ \A m \in 1..Len(next) : Done(next[m].parts)
         /\ OnlyAdded(msgs, next)
<1>1. Len(msgs) \in Nat /\ next \in Seq(MessageRow) /\ Len(next) \in Nat
  BY DEF Errored
<1>2. ASSUME NEW m \in 1..Len(msgs)
      PROVE  /\ m \in 1..Len(next) /\ Done(next[m].parts) /\ IsPrefix(msgs[m].parts, next[m].parts)
             /\ m = last => ErrorsIn(next[m].parts) = {Len(next[m].parts)}
             /\ m # last => ErrorsIn(next[m].parts) = {}
  <2>1. PICK parts \in Seq(PartSet) : parts = msgs[m].parts
    BY ElementOfSeq, RowFields
  <2>2. Done(parts) /\ ErrorsIn(parts) = {}
    BY <2>1
  <2>3. m \in 1..Len(next)
    BY <1>1 DEF Errored
  <2>4. CASE m = last
    <3>1. next[m].parts = Append(parts, Error)
      BY <2>1, <2>4 DEF Errored
    <3> QED
      BY <2>1, <2>2, <2>3, <2>4, <3>1, ErrorAdded
  <2>5. CASE m # last
    <3>1. next[m].parts = parts
      BY <2>1, <2>5 DEF Errored
    <3>2. IsPrefix(parts, parts)
      BY <2>1, Prefix
    <3> QED
      BY <2>1, <2>2, <2>3, <2>5, <3>1, <3>2
  <2> QED
    BY <2>4, <2>5
<1>3. OnlyAdded(msgs, next)
  BY <1>1, <1>2 DEF OnlyAdded
<1>4. ASSUME last = 0
      PROVE  /\ Len(next) = Len(msgs) + 1
             /\ Done(next[Len(msgs) + 1].parts)
             /\ ErrorsIn(next[Len(msgs) + 1].parts) = {Len(next[Len(msgs) + 1].parts)}
  <2>1. Len(next) = Len(msgs) + 1 /\ next[Len(msgs) + 1].parts = <<Error>>
    BY <1>4 DEF Errored
  <2>2. <<>> \in Seq(PartSet) /\ Done(<<>>) /\ ErrorsIn(<<>>) = {}
    BY DEF Done, Sound, UsesOnce, ResultsOnce, Uses, Results, Lacking, ErrorsIn
  <2>3. Append(<<>>, Error) = <<Error>>
    OBVIOUS
  <2>4. /\ Done(Append(<<>>, Error))
        /\ ErrorsIn(Append(<<>>, Error)) = {Len(Append(<<>>, Error))}
    BY <2>2, ErrorAdded
  <2> QED
    BY <2>1, <2>3, <2>4
<1>5. last # 0 => Len(next) = Len(msgs) /\ last = Len(msgs) /\ last \in 1..Len(msgs)
  BY <1>1 DEF Errored
<1>6. ASSUME NEW m \in 1..Len(next)
      PROVE  /\ Done(next[m].parts)
             /\ m = Len(next) => ErrorsIn(next[m].parts) = {Len(next[m].parts)}
             /\ m # Len(next) => ErrorsIn(next[m].parts) = {}
  <2>1. CASE last = 0
    <3>1. Len(next) = Len(msgs) + 1
      BY <1>4, <2>1
    <3>2. CASE m = Len(next)
      BY <1>4, <2>1, <3>1, <3>2
    <3>3. CASE m # Len(next)
      <4>1. m \in 1..Len(msgs) /\ m # last
        BY <1>1, <2>1, <3>1, <3>3
      <4> QED
        BY <1>2, <3>3, <4>1
    <3> QED
      BY <3>2, <3>3
  <2>2. CASE last # 0
    BY <1>2, <1>5, <2>2
  <2> QED
    BY <2>1, <2>2
<1>7. Len(next) \in 1..Len(next) /\ next # <<>>
  BY <1>1, <1>4, <1>5
<1>8. ErrorAtEnd(next)
  <2>1. Last(next) = next[Len(next)]
    BY DEF Last
  <2>2. \A m \in 1..(Len(next) - 1) : m \in 1..Len(next) /\ m # Len(next)
    BY <1>1
  <2> QED
    BY <1>6, <1>7, <2>1, <2>2 DEF ErrorAtEnd
<1>9. Good(next)
  BY <1>1, <1>6 DEF Good, Done, Sound
<1> QED
  BY <1>1, <1>3, <1>6, <1>8, <1>9

(* The last events: nothing follows run.end.                               *)
LEMMA LastEvents ==
  ASSUME Inv, phase # "done", phase' = "done", adapter' = adapter,
         NEW status \in Final, NEW events \in Seq(StreamEvent),
         Publish(events \o <<RunEnd(status)>>),
         NEW mid, Trace(adapter, row, db, events, row, mid),
         NEW end, TabStep(adapter, row, mid, RunEnd(status), row', end),
         SameMessages(end, db')
  PROVE  Wires' /\ Mirror' /\ wire' \in Seq(Event)
<1>1. PICK e \in Event : e = RunEnd(status)
  BY DEF Event
<1>2. events \in Seq(Event) /\ <<e>> \in Seq(Event) /\ wire \in Seq(Event)
  <2>1. StreamEvent \subseteq Event
    BY DEF Event
  <2>2. events \in Seq(Event)
    BY <2>1, SeqMonotonic
  <2> QED
    BY <2>2 DEF Inv, Types
<1>3. PICK more : more = events \o <<e>>
  OBVIOUS
<1>4. /\ more \in Seq(Event) /\ Len(more) = Len(events) + 1 /\ Len(events) \in Nat
      /\ \A i \in 1..Len(events) : more[i] = events[i]
  <2>1. more = Append(events, e)
    BY <1>2, <1>3
  <2> QED
    BY <1>2, <2>1
<1>5. wire' = wire \o more /\ shownRun' = shownRun /\ shown' = shown
  BY <1>1, <1>3 DEF Publish
<1>6. /\ wire' \in Seq(Event) /\ Len(wire') = Len(wire) + Len(more) /\ Len(wire) \in Nat
      /\ \A i \in 1..Len(wire) : wire'[i] = wire[i]
      /\ \A i \in 1..Len(more) : wire'[Len(wire) + i] = more[i]
  <2>1. PICK new : new = wire \o more
    OBVIOUS
  <2>2. /\ new \in Seq(Event) /\ Len(new) = Len(wire) + Len(more) /\ Len(wire) \in Nat
        /\ \A i \in 1..Len(wire) : new[i] = wire[i]
        /\ \A i \in 1..Len(more) : new[Len(wire) + i] = more[i]
    <3>1. /\ new \in Seq(Event) /\ Len(new) = Len(wire) + Len(more)
          /\ \A i \in 1..(Len(wire) + Len(more)) :
               new[i] = IF i <= Len(wire) THEN wire[i] ELSE more[i - Len(wire)]
      <4>1. wire \in Seq(Event)
        BY <1>2
      <4>2. more \in Seq(Event)
        BY <1>4
      <4> QED
        BY <2>1, <4>1, <4>2, ConcatProperties
    <3>2. Len(wire) \in Nat /\ Len(more) \in Nat
      BY <1>2, <1>4
    <3>3. ASSUME NEW i \in 1..Len(more) PROVE new[Len(wire) + i] = more[i]
      <4>1. /\ Len(wire) + i \in 1..(Len(wire) + Len(more)) /\ ~(Len(wire) + i <= Len(wire))
            /\ (Len(wire) + i) - Len(wire) = i
        BY <3>2
      <4> QED
        BY <3>1, <4>1
    <3>4. ASSUME NEW i \in 1..Len(wire) PROVE new[i] = wire[i]
      BY <3>1, <3>2
    <3> QED
      BY <3>1, <3>2, <3>3, <3>4
  <2> QED
    BY <1>5, <2>1, <2>2
<1>7. Wires'
  <2>1. \A i \in 1..Len(wire) : wire[i] \in StreamEvent
    BY DEF Inv, Wires
  <2>2. \A i \in 1..Len(events) : events[i] \in StreamEvent
    BY ElementOfSeq
  <2>3. ASSUME NEW i \in 1..Len(wire'), wire'[i] \notin StreamEvent PROVE i = Len(wire')
    <3>1. CASE i \in 1..Len(wire)
      BY <1>6, <2>1, <2>3, <3>1
    <3>2. CASE i \notin 1..Len(wire)
      <4> DEFINE k == i - Len(wire)
      <4>1. k \in 1..Len(more) /\ i = Len(wire) + k
        BY <1>4, <1>6, <3>2
      <4> HIDE DEF k
      <4>2. k \notin 1..Len(events)
        BY <1>4, <1>6, <2>2, <2>3, <4>1
      <4>3. k = Len(more)
        BY <1>4, <4>1, <4>2
      <4> QED
        BY <1>6, <4>1, <4>3
    <3> QED
      BY <3>1, <3>2
  <2>4. shownRun' \notin Final
    BY <1>5 DEF Inv, Wires
  <2> QED
    BY <2>3, <2>4 DEF Wires
<1>8. Mirror'
  <2>1. Trace(adapter, shownRun, shown, wire, row, db) /\ Good(shown)
    BY DEF Inv, Mirror, Agrees
  <2>2. Trace(adapter, row, mid, <<e>>, row', end)
    BY <1>1, TraceOne
  <2>3. Trace(adapter, row, db, more, row', end)
    BY <1>2, <1>3, <2>2, TraceThen
  <2>4. Trace(adapter, shownRun, shown, wire', row', end)
    BY <1>2, <1>4, <1>5, <2>1, <2>3, TraceThen
  <2> QED
    BY <1>5, <2>1, <2>4 DEF Mirror, Agrees
<1> QED
  BY <1>6, <1>7, <1>8

LEMMA RowsBefore ==
  ASSUME Inv, phase # "done"
  PROVE  /\ AllSound(db) /\ \A m \in 1..Len(db) : ErrorsIn(db[m].parts) = {}
         /\ row \in {"none", "running"} /\ row \in RunStates
<1>1. db \in Seq(MessageRow) /\ row \in RunStates
  BY DEF Inv, Types
<1>2. \A m \in 1..Len(db) : InProgress(m)
  BY DEF Inv, Messages
<1>3. AllSound(db) /\ \A m \in 1..Len(db) : ErrorsIn(db[m].parts) = {}
  BY <1>1, <1>2 DEF InProgress, Booked, Sound, AllSound
<1>4. row \in {"none", "running"}
  BY DEF Inv, Places
<1> QED
  BY <1>1, <1>3, <1>4

(* The rows are written, the events sent, and the tab's copies will agree. *)
Concludes ==
  /\ Inv' /\ UNCHANGED <<adapter, shownRun, shown>>
  /\ \E events, end : /\ Trace(adapter, row, db, events, row', end)
                      /\ events \in Seq(Event) /\ SameMessages(end, db')

LEMMA FailureConcludes ==
  ASSUME Inv, phase # "done", NEW status \in {"failed", "aborted"}, NEW last \in {0, Len(db)},
         Finalize(status, last)
  PROVE  Concludes
<1>1. /\ AllSound(db) /\ db \in Seq(MessageRow) /\ Len(db) \in Nat
      /\ \A m \in 1..Len(db) : ErrorsIn(db[m].parts) = {}
      /\ row \in RunStates /\ status \in Final /\ status # "complete"
  <2>1. /\ AllSound(db) /\ \A m \in 1..Len(db) : ErrorsIn(db[m].parts) = {}
        /\ row \in RunStates
    BY RowsBefore
  <2>2. db \in Seq(MessageRow)
    BY <2>1 DEF AllSound
  <2>3. Len(db) \in Nat
    BY <2>2
  <2>4. status \in Final /\ status # "complete"
    BY DEF Final
  <2> QED
    BY <2>1, <2>2, <2>3, <2>4
<1>2. PICK closed : closed = Closed(status, db)
  OBVIOUS
<1>3. PICK settled : settled = Settled(status, closed)
  OBVIOUS
<1>4. PICK closing : closing = ClosingEvents(status, db)
  OBVIOUS
<1>5. PICK errors : errors = ErrorEvents(status, settled, last)
  OBVIOUS
<1>6. /\ phase' = "done" /\ row' = (IF row = "none" THEN "none" ELSE status)
      /\ db' = Visualised(status, settled, last)
      /\ Publish(closing \o errors \o <<RunEnd(status)>>)
      /\ UNCHANGED <<adapter, aborted, nextPart, calls, unanswered, todo>>
  BY <1>2, <1>3, <1>4, <1>5 DEF Finalize, EndEvents
<1>7. /\ closing \in Seq(StreamEvent) /\ closed = ClosedTo(db, Len(db))
      /\ Trace(adapter, row, db, closing, row, closed)
  BY <1>1, <1>2, <1>4, ClosingTrace
<1>8. /\ closed \in Seq(MessageRow) /\ Len(closed) = Len(db) /\ Good(closed)
      /\ \A m \in 1..Len(db) : closed[m].parts = CloseCalls(db[m].parts)
  <2>1. Len(db) \in 0..Len(db) /\ \A m \in 1..Len(db) : m <= Len(db)
    BY <1>1
  <2> QED
    BY <1>1, <1>7, <2>1, ClosedToFacts
<1>9. ASSUME NEW m \in 1..Len(db)
      PROVE  Done(closed[m].parts) /\ ErrorsIn(closed[m].parts) = {}
  <2>1. db[m].parts \in Seq(PartSet) /\ Sound(db[m].parts) /\ ErrorsIn(db[m].parts) = {}
    BY <1>1, ElementOfSeq, RowFields DEF AllSound
  <2>2. Done(CloseCalls(db[m].parts)) /\ ErrorsIn(CloseCalls(db[m].parts)) = {}
    BY <2>1, ClosedDone
  <2> QED
    BY <1>8, <2>2
<1>10. /\ settled \in Seq(MessageRow) /\ Len(settled) = Len(closed)
       /\ \A m \in 1..Len(closed) :
            /\ settled[m].parts = closed[m].parts
            /\ settled[m].status = IF closed[m].status = "streaming" THEN EndStatus(status)
                                                                    ELSE closed[m].status
  BY <1>1, <1>3, <1>8, SettledFacts
<1>11. last \in {0, Len(closed)} /\ last \in {0, Len(settled)}
  BY <1>8, <1>10
<1>12. errors \in Seq(StreamEvent)
  BY <1>1, <1>5, <1>8, <1>10, <1>11, ErrorTrace
<1>13. PICK mid : /\ Trace(adapter, row, closed, errors, row, mid)
                  /\ Good(mid) /\ Errored(closed, mid, last)
                  /\ \A m \in 1..Len(closed) : mid[m].status = closed[m].status
                  /\ last = 0 => mid[Len(closed) + 1].status = "complete"
  <2>1. Good(closed) /\ Len(settled) = Len(closed)
        /\ \A m \in 1..Len(closed) : settled[m].parts = closed[m].parts
    BY <1>8, <1>10
  <2>2. PutsError(adapter, row, closed, ErrorEvents(status, settled, last), last)
    BY <1>1, <1>11, <2>1, ErrorTrace
  <2> QED
    BY <1>5, <2>2 DEF PutsError
<1>14. \A m \in 1..Len(closed) : Done(closed[m].parts) /\ ErrorsIn(closed[m].parts) = {}
  BY <1>8, <1>9
<1>15. \A m \in 1..Len(settled) : Done(settled[m].parts) /\ ErrorsIn(settled[m].parts) = {}
  BY <1>10, <1>14
<1>16. mid \in Seq(MessageRow) /\ \A m \in 1..Len(mid) : Done(mid[m].parts)
  BY <1>8, <1>11, <1>13, <1>14, ErroredFacts
<1>17. PICK end : end = Settled(status, mid)
  OBVIOUS
<1>18. TabStep(adapter, row, mid, RunEnd(status), row', end)
  BY <1>1, <1>6, <1>16, <1>17, EndFails
<1>19. /\ Len(end) = Len(mid)
       /\ \A m \in 1..Len(mid) :
            /\ end[m].parts = mid[m].parts
            /\ end[m].status = IF mid[m].status = "streaming" THEN EndStatus(status)
                                                             ELSE mid[m].status
  BY <1>1, <1>16, <1>17, SettledFacts
<1>20. /\ Errored(settled, db', last)
       /\ \A m \in 1..Len(settled) : db'[m].status = settled[m].status
       /\ last = 0 => db'[Len(settled) + 1].status = "error"
  BY <1>1, <1>6, <1>10, <1>11, VisualisedFacts
<1>21. /\ db' \in Seq(MessageRow) /\ Good(db') /\ ErrorAtEnd(db')
       /\ \A m \in 1..Len(db') : Done(db'[m].parts)
  BY <1>10, <1>11, <1>15, <1>20, ErroredFacts
<1>22. SameMessages(end, db')
  <2>1. Len(mid) = Len(db') /\ Len(end) = Len(db')
    BY <1>10, <1>13, <1>19, <1>20 DEF Errored
  <2>2. ASSUME NEW m \in 1..Len(db') PROVE SameMessage(end[m], db'[m])
    <3>1. CASE m \in 1..Len(closed)
      <4>1. mid[m].parts = db'[m].parts
        BY <1>10, <1>13, <1>20, <3>1 DEF Errored
      <4>2. mid[m].status = closed[m].status /\ db'[m].status = settled[m].status
        BY <1>10, <1>13, <1>20, <3>1
      <4>3. end[m].parts = db'[m].parts /\ end[m].status = db'[m].status
        BY <1>10, <1>19, <2>1, <3>1, <4>1, <4>2
      <4> QED
        BY <4>3 DEF SameMessage
    <3>2. CASE m \notin 1..Len(closed)
      <4>1. last = 0 /\ m = Len(closed) + 1 /\ Len(db') = Len(closed) + 1
        <5>1. Len(db') = Len(closed) \/ (last = 0 /\ Len(db') = Len(closed) + 1)
          BY <1>1, <1>8, <1>10, <1>20 DEF Errored
        <5> QED
          BY <1>1, <1>8, <3>2, <5>1
      <4>2. mid[m].parts = <<Error>> /\ db'[m].parts = <<Error>>
        BY <1>10, <1>13, <1>20, <4>1 DEF Errored
      <4>3. mid[m].status = "complete" /\ db'[m].status = "error"
        BY <1>10, <1>13, <1>20, <4>1
      <4>4. end[m].parts = <<Error>> /\ end[m].status = "complete"
        BY <1>19, <2>1, <4>2, <4>3
      <4> QED
        BY <4>2, <4>3, <4>4 DEF SameMessage
    <3> QED
      BY <3>1, <3>2
  <2> QED
    BY <2>1, <2>2 DEF SameMessages
<1>23. PICK events \in Seq(StreamEvent) : events = closing \o errors
  <2>1. closing \in Seq(StreamEvent)
    BY <1>7
  <2>2. closing \o errors \in Seq(StreamEvent)
    BY <1>12, <2>1, ConcatProperties
  <2> QED
    BY <2>2
<1>24. Trace(adapter, row, db, events, row, mid)
  BY <1>7, <1>12, <1>13, <1>23, TraceThen
<1>25. Publish(events \o <<RunEnd(status)>>)
  BY <1>6, <1>23
<1>26. Wires' /\ Mirror' /\ wire' \in Seq(Event)
  BY <1>1, <1>6, <1>18, <1>22, <1>24, <1>25, LastEvents
<1>27. row' \in RunStates /\ row' \in Final \cup {"none"} /\ row' # "complete"
  BY <1>1, <1>6 DEF RunStates
<1>28. UNCHANGED <<adapter, shownRun, shown>>
  BY <1>6 DEF Publish
<1>29. Types'
  BY <1>6, <1>21, <1>26, <1>27, <1>28 DEF Inv, Types, Phases
<1>30. Messages' /\ Places'
  BY <1>6 DEF Messages, Inv, Places, Reading
<1>31. Ending'
  <2>1. Answered(db')
    <3> SUFFICES ASSUME NEW m \in 1..Len(db') PROVE MissingCalls(db'[m].parts) = <<>>
      BY DEF Answered
    <3>1. PICK parts \in Seq(PartSet) : parts = db'[m].parts
      BY <1>21, ElementOfSeq, RowFields
    <3>2. Lacking(parts) = {}
      BY <1>21, <3>1 DEF Done
    <3> QED
      BY <3>1, <3>2, NothingMissing
  <2> QED
    BY <1>21, <1>27, <2>1 DEF Ending
<1>32. Inv'
  BY <1>26, <1>29, <1>30, <1>31 DEF Inv
<1>33. \E ev, en : /\ Trace(adapter, row, db, ev, row', en)
                   /\ ev \in Seq(Event) /\ SameMessages(en, db')
  <2>1. PICK e \in Event : e = RunEnd(status)
    BY <1>1 DEF Event
  <2>2. events \in Seq(Event) /\ <<e>> \in Seq(Event)
    <3>1. StreamEvent \subseteq Event
      BY DEF Event
    <3>2. events \in Seq(Event)
      BY <3>1, SeqMonotonic
    <3> QED
      BY <3>2
  <2>3. Trace(adapter, row, mid, <<e>>, row', end)
    BY <1>18, <2>1, TraceOne
  <2>4. Trace(adapter, row, db, events \o <<e>>, row', end) /\ events \o <<e>> \in Seq(Event)
    BY <1>24, <2>2, <2>3, TraceThen
  <2> QED
    BY <1>22, <2>4
<1> QED
  BY <1>28, <1>32, <1>33 DEF Concludes

LEMMA CompletionConcludes ==
  ASSUME Inv, phase = "returned", ~aborted, Finalize("complete", Len(db))
  PROVE  Concludes
<1> DEFINE done == RunEnd("complete")
<1>1. /\ AllSound(db) /\ db \in Seq(MessageRow) /\ Len(db) \in Nat
      /\ \A m \in 1..Len(db) : ErrorsIn(db[m].parts) = {}
      /\ row = "running" /\ row \in RunStates
  <2>1. phase # "done" /\ row = "running"
    BY DEF Inv, Places
  <2>2. /\ AllSound(db) /\ \A m \in 1..Len(db) : ErrorsIn(db[m].parts) = {}
        /\ row \in RunStates
    BY <2>1, RowsBefore
  <2>3. db \in Seq(MessageRow)
    BY <2>2 DEF AllSound
  <2>4. Len(db) \in Nat
    BY <2>3
  <2> QED
    BY <2>1, <2>2, <2>3, <2>4
<1>2. Good(db)
  BY <1>1 DEF AllSound, Good, Sound
<1>3. /\ phase' = "done" /\ row' = "complete"
      /\ db' = Settled("complete", db)
      /\ Publish((<<>> \o <<>>) \o <<done>>)
      /\ UNCHANGED <<adapter, aborted, nextPart, calls, unanswered, todo>>
  BY <1>1 DEF Finalize, EndEvents, ClosingEvents, ErrorEvents, Visualised, Closed
<1>4. "complete" \in Final /\ "complete" \in RunStates
  BY DEF Final, RunStates
<1>5. \A m \in 1..Len(db) : db[m].status # "streaming"
  BY DEF Inv, Messages, InProgress, MayBeOpen, Reading
<1>6. /\ db' \in Seq(MessageRow) /\ Len(db') = Len(db)
      /\ \A m \in 1..Len(db) : db'[m].parts = db[m].parts /\ db'[m].status = db[m].status
  <2>1. PICK new : new = Settled("complete", db)
    OBVIOUS
  <2>2. /\ new \in Seq(MessageRow) /\ Len(new) = Len(db)
        /\ \A m \in 1..Len(db) :
             /\ new[m].parts = db[m].parts
             /\ new[m].status = IF db[m].status = "streaming" THEN EndStatus("complete")
                                                             ELSE db[m].status
    BY <1>1, <1>4, <2>1, SettledFacts
  <2> QED
    BY <1>3, <1>5, <2>1, <2>2
<1>7. SameMessages(db, db')
  BY <1>6 DEF SameMessages, SameMessage
<1>8. Applied(db, done) = db /\ RunAfter(row, done) = "complete"
  BY <1>1, OnRunEnd DEF AppliedEnd
<1>9. OnlyAdded(db, db)
  BY <1>1, KeepsParts
<1>10. TabStep(adapter, row, db, done, row', db)
  BY <1>2, <1>3, <1>4, <1>8, <1>9 DEF TabStep
<1>11. PICK events \in Seq(StreamEvent) : events = <<>>
  <2>1. <<>> \in Seq(StreamEvent)
    OBVIOUS
  <2> QED
    BY <2>1
<1>12. Trace(adapter, row, db, events, row, db)
  BY <1>11, TraceNone
<1>13. <<>> \o <<>> = events
  BY <1>11
<1>14. Publish(events \o <<done>>)
  BY <1>3, <1>13
<1>15. Wires' /\ Mirror' /\ wire' \in Seq(Event)
  BY <1>3, <1>4, <1>7, <1>10, <1>12, <1>14, LastEvents
<1>16. UNCHANGED <<adapter, shownRun, shown>>
  BY <1>3 DEF Publish
<1>17. Types'
  BY <1>3, <1>4, <1>6, <1>15, <1>16 DEF Inv, Types, Phases
<1>18. Messages' /\ Places'
  BY <1>3 DEF Messages, Inv, Places, Reading
<1>19. Ending'
  <2>1. Good(db')
    BY <1>2, <1>6 DEF Good
  <2>2. \A m \in 1..Len(db') : ErrorsIn(db'[m].parts) = {}
    BY <1>1, <1>6
  <2> QED
    BY <1>3, <1>4, <2>1, <2>2 DEF Ending
<1>20. Inv'
  BY <1>15, <1>17, <1>18, <1>19 DEF Inv
<1>21. PICK e \in Event : e = done
  BY <1>4 DEF Event
<1>22. Trace(adapter, row, db, <<e>>, row', db) /\ <<e>> \in Seq(Event)
  BY <1>10, <1>21, TraceOne
<1> QED
  BY <1>7, <1>16, <1>20, <1>22 DEF Concludes

-------------------------------------------------------------------------------
(* The transcript is only added to, over any number of events.             *)

LEMMA AddsTransitive ==
  ASSUME NEW a \in Seq(MessageRow), NEW b \in Seq(MessageRow), NEW c \in Seq(MessageRow),
         OnlyAdded(a, b), OnlyAdded(b, c)
  PROVE  OnlyAdded(a, c)
<1>1. Len(a) \in Nat /\ Len(b) \in Nat /\ Len(c) \in Nat
  OBVIOUS
<1>2. ASSUME NEW m \in 1..Len(a)
      PROVE  m <= Len(c) /\ IsPrefix(a[m].parts, c[m].parts)
  <2>1. m \in 1..Len(b) /\ IsPrefix(a[m].parts, b[m].parts)
    BY <1>1 DEF OnlyAdded
  <2>2. m \in 1..Len(c) /\ IsPrefix(b[m].parts, c[m].parts)
    BY <1>1, <2>1 DEF OnlyAdded
  <2>3. PICK s \in Seq(PartSet) : s = a[m].parts
    BY ElementOfSeq, RowFields
  <2>4. PICK t \in Seq(PartSet) : t = b[m].parts
    BY <2>1, ElementOfSeq, RowFields
  <2>5. PICK u \in Seq(PartSet) : u = c[m].parts
    BY <2>2, ElementOfSeq, RowFields
  <2>6. IsPrefix(s, u)
    <3>1. IsPrefix(s, t) /\ IsPrefix(t, u)
      BY <2>1, <2>2, <2>3, <2>4, <2>5
    <3>2. Len(s) \in Nat /\ Len(t) \in Nat /\ Len(u) \in Nat /\ Len(s) <= Len(t) /\ Len(t) <= Len(u)
      BY <3>1 DEF IsPrefix
    <3>3. \A k \in 1..Len(s) : t[k] = s[k]
      BY <3>1, PrefixElements
    <3>4. \A k \in 1..Len(t) : u[k] = t[k]
      BY <3>1, PrefixElements
    <3>5. \A k \in 1..Len(s) : k \in 1..Len(t) /\ u[k] = s[k]
      BY <3>2, <3>3, <3>4
    <3> QED
      BY <3>2, <3>5, Prefix
  <2> QED
    BY <1>1, <2>2, <2>3, <2>5, <2>6
<1> QED
  BY <1>2 DEF OnlyAdded

LEMMA TraceAdds ==
  ASSUME NEW r, NEW msgs \in Seq(MessageRow), NEW X, NEW w \in Seq(X), NEW q, NEW next,
         Trace("turns", r, msgs, w, q, next)
  PROVE  OnlyAdded(msgs, next)
<1>1. PICK rs, ms : /\ ms[1] = msgs /\ ms[Len(w) + 1] = next
                    /\ Passes("turns", w, rs, ms)
  BY DEF Trace
<1>2. Len(w) \in Nat
  OBVIOUS
<1> DEFINE T == {i \in 0..Len(w) : ms[i + 1] \in Seq(MessageRow) /\ OnlyAdded(msgs, ms[i + 1])}
<1>3. 0 \in T
  <2>1. OnlyAdded(msgs, msgs)
    <3>1. Len(msgs) <= Len(msgs)
      OBVIOUS
    <3> QED
      BY <3>1, KeepsParts
  <2>2. 0 + 1 = 1
    OBVIOUS
  <2> QED
    BY <1>1, <1>2, <2>1, <2>2
<1>4. ASSUME NEW i \in 0..(Len(w) - 1), i \in T PROVE i + 1 \in T
  <2>1. i + 1 \in 1..Len(w) /\ i + 1 \in 0..Len(w)
    BY <1>2
  <2>2. TabStep("turns", rs[i + 1], ms[i + 1], w[i + 1], rs[(i + 1) + 1], ms[(i + 1) + 1])
    BY <1>1, <2>1 DEF Passes
  <2>3. ms[(i + 1) + 1] \in Seq(MessageRow) /\ OnlyAdded(ms[i + 1], ms[(i + 1) + 1])
    BY <2>2 DEF TabStep, Good
  <2>4. ms[i + 1] \in Seq(MessageRow) /\ OnlyAdded(msgs, ms[i + 1])
    BY <1>4
  <2>5. OnlyAdded(msgs, ms[(i + 1) + 1])
    BY <2>3, <2>4, AddsTransitive
  <2> QED
    BY <2>1, <2>3, <2>5
<1> HIDE DEF T
<1>5. Len(w) \in T
  <2>1. \A i \in 0..Len(w) : i \in T
    BY <1>2, <1>3, <1>4, Induction
  <2> QED
    BY <1>2, <2>1
<1> QED
  BY <1>1, <1>5 DEF T

-------------------------------------------------------------------------------
(* An event arrives.                                                       *)

LEMMA DeliverKeepsInv ==
  ASSUME Inv, Deliver
  PROVE  /\ Inv'
         /\ shownRun \notin Final
         /\ adapter = "turns" => OnlyAdded(shown, shown')
<1> DEFINE e == Head(wire)
<1>1. /\ wire # <<>> /\ wire' = Tail(wire)
      /\ shown' = Applied(shown, e) /\ shownRun' = RunAfter(shownRun, e)
      /\ UNCHANGED <<adapter, phase, aborted, row, db, nextPart, calls, unanswered, todo>>
  BY DEF Deliver, RunAfter, server
<1>2. wire \in Seq(Event) /\ shownRun \notin Final
  BY <1>1 DEF Inv, Types, Wires
<1>3. PICK msgs : Agrees(msgs) /\ Trace(adapter, shownRun, shown, wire, row, msgs)
  BY DEF Inv, Mirror
<1>4. PICK r1, m1 : /\ TabStep(adapter, shownRun, shown, e, r1, m1)
                    /\ Trace(adapter, r1, m1, Tail(wire), row, msgs)
  BY <1>1, <1>2, <1>3, TraceHead
<1>5. /\ shownRun' = r1 /\ shown' = m1 /\ r1 \in RunStates /\ Good(m1)
      /\ adapter = "turns" => OnlyAdded(shown, m1)
  BY <1>1, <1>4 DEF TabStep
<1>6. /\ wire' \in Seq(Event) /\ Len(wire) \in Nat /\ Len(wire') = Len(wire) - 1
      /\ e = wire[1] /\ e \in Event /\ 1 \in 1..Len(wire)
      /\ \A i \in 1..Len(wire') : i + 1 \in 1..Len(wire) /\ wire'[i] = wire[i + 1]
  <2>1. /\ Tail(wire) \in Seq(Event) /\ Len(Tail(wire)) = Len(wire) - 1 /\ Len(wire) \in Nat
        /\ Head(wire) = wire[1] /\ Head(wire) \in Event
        /\ \A i \in 1..(Len(wire) - 1) : Tail(wire)[i] = wire[i + 1]
    BY <1>1, <1>2, HeadTailProperties, EmptySeq, LenProperties
  <2>2. Len(wire) # 0
    BY <1>1, <1>2, EmptySeq
  <2> QED
    BY <1>1, <2>1, <2>2
<1>7. Types'
  BY <1>1, <1>5, <1>6 DEF Inv, Types
<1>8. Messages' /\ Places' /\ Ending'
  BY <1>1 DEF Inv, Messages, InProgress, MayBeOpen, Places, Current, Ending
<1>9. Wires'
  <2>1. \A i \in 1..Len(wire) : wire[i] \notin StreamEvent => i = Len(wire) /\ phase = "done"
    BY DEF Inv, Wires
  <2>2. ASSUME NEW i \in 1..Len(wire'), wire'[i] \notin StreamEvent
        PROVE  i = Len(wire') /\ phase' = "done"
    <3>1. i + 1 \in 1..Len(wire) /\ wire[i + 1] \notin StreamEvent
      BY <1>6, <2>2
    <3>2. i + 1 = Len(wire) /\ phase = "done"
      BY <2>1, <3>1
    <3>3. i = Len(wire) - 1
      BY <1>6, <3>2
    <3> QED
      BY <1>1, <1>6, <3>2, <3>3
  <2>3. ASSUME shownRun' \in Final PROVE phase' = "done" /\ wire' = <<>>
    <3>1. e.type = "run.end"
      BY <1>1, <1>2, <2>3 DEF RunAfter, Final
    <3>2. e \notin StreamEvent
      BY <1>6, <3>1, EventTypes
    <3>3. 1 = Len(wire) /\ phase = "done"
      BY <1>6, <2>1, <3>2
    <3>4. wire' = <<>>
      <4>1. Len(Tail(wire)) = 0 /\ Tail(wire) \in Seq(Event)
        BY <1>1, <1>6, <3>3
      <4> QED
        BY <1>1, <4>1, EmptySeq
    <3> QED
      BY <1>1, <3>3, <3>4
  <2> QED
    BY <2>2, <2>3 DEF Wires
<1>10. Mirror'
  <2>1. Agrees(msgs)'
    BY <1>1, <1>3 DEF Agrees
  <2> QED
    BY <1>1, <1>4, <1>5, <2>1 DEF Mirror
<1> QED
  BY <1>2, <1>5, <1>7, <1>8, <1>9, <1>10 DEF Inv

-------------------------------------------------------------------------------
(* The invariant, and what each step does to the transcript.               *)

LEMMA InitInv ==
  ASSUME Init
  PROVE  Inv
<1>1. Types
  <2>1. MaxCalls \in Nat /\ MaxTexts \in Nat
    BY BoundsAssumption
  <2>2. /\ adapter \in Adapter /\ phase = "loading" /\ aborted = FALSE /\ row = "none"
        /\ shownRun = "none" /\ db = <<>> /\ wire = <<>> /\ unanswered = {}
    BY DEF Init
  <2>3. calls = 0 /\ todo = 0 /\ nextPart = 0
    BY DEF Init
  <2>4. calls \in Nat /\ todo \in Nat /\ calls + todo <= MaxCalls /\ nextPart \in 0..MaxTexts
    BY <2>1, <2>3
  <2>5. "none" \in RunStates /\ "loading" \in Phases
    BY DEF Phases, RunStates
  <2>6. <<>> \in Seq(MessageRow) /\ <<>> \in Seq(Event)
    OBVIOUS
  <2> QED
    BY <2>2, <2>4, <2>5, <2>6 DEF Types
<1>2. Messages /\ Places /\ Ending /\ Wires
  BY DEF Init, Messages, Places, Ending, Wires, Reading, Final
<1>3. Mirror
  <2>1. shown = <<>> /\ db = <<>> /\ wire = <<>> /\ shownRun = row /\ phase # "done"
    BY DEF Init
  <2>2. Good(<<>>)
    BY DEF Good
  <2>3. Trace(adapter, shownRun, shown, wire, row, db)
    BY <2>1, TraceNone
  <2> QED
    BY <2>1, <2>2, <2>3 DEF Mirror, Agrees
<1> QED
  BY <1>1, <1>2, <1>3 DEF Inv

(* What a step of the server does.                                         *)
ServerSteps ==
  /\ Inv' /\ UNCHANGED <<adapter, shownRun, shown>>
  /\ adapter = "turns" => OnlyAdded(db, db')

LEMMA GoingOnSteps ==
  ASSUME Inv, phase # "done", GoesOn
  PROVE  ServerSteps
<1>1. Inv'
  BY GoingOnKeepsInv
<1>2. PICK events : Sends(events)
  BY DEF GoesOn
<1>3. /\ events \in Seq(StreamEvent) /\ UNCHANGED <<adapter, shownRun, shown>>
      /\ Trace(adapter, row, db, events, row', db')
  BY <1>2 DEF Sends
<1>4. db \in Seq(MessageRow)
  BY DEF Inv, Types
<1>5. adapter = "turns" => OnlyAdded(db, db')
  BY <1>3, <1>4, TraceAdds
<1> QED
  BY <1>1, <1>3, <1>5 DEF ServerSteps

LEMMA ConcludingSteps ==
  ASSUME Inv, Concludes
  PROVE  ServerSteps
<1>1. Inv' /\ UNCHANGED <<adapter, shownRun, shown>>
  BY DEF Concludes
<1>2. PICK events, end : /\ Trace(adapter, row, db, events, row', end)
                         /\ events \in Seq(Event) /\ SameMessages(end, db')
  BY DEF Concludes
<1>3. db \in Seq(MessageRow) /\ Len(db) \in Nat
  BY DEF Inv, Types
<1>4. ASSUME adapter = "turns" PROVE OnlyAdded(db, db')
  <2>1. OnlyAdded(db, end)
    BY <1>2, <1>3, <1>4, TraceAdds
  <2>2. Len(db') \in Nat
    BY <1>1 DEF Inv, Types
  <2>3. Len(end) = Len(db') /\ \A m \in 1..Len(db') : end[m].parts = db'[m].parts
    BY <1>2 DEF SameMessages, SameMessage
  <2>4. ASSUME NEW m \in 1..Len(db) PROVE m <= Len(db') /\ IsPrefix(db[m].parts, db'[m].parts)
    <3>1. m <= Len(end) /\ IsPrefix(db[m].parts, end[m].parts)
      BY <2>1 DEF OnlyAdded
    <3>2. m \in 1..Len(db')
      BY <1>3, <2>2, <2>3, <3>1
    <3> QED
      BY <2>2, <2>3, <3>1, <3>2
  <2> QED
    BY <2>4 DEF OnlyAdded
<1> QED
  BY <1>1, <1>4 DEF ServerSteps

LEMMA StepOfServer ==
  ASSUME Inv, Server \/ Abort
  PROVE  ServerSteps
<1>1. CASE Refuse
  <2>1. phase # "done" /\ "failed" \in {"failed", "aborted"} /\ 0 \in {0, Len(db)}
        /\ Finalize("failed", 0)
    BY <1>1 DEF Refuse
  <2> QED
    BY <2>1, FailureConcludes, ConcludingSteps
<1>2. CASE Begin
  BY <1>2, BeginGoesOn, GoingOnSteps DEF Begin
<1>3. CASE Throws
  BY <1>3, ThrowsGoesOn, GoingOnSteps DEF Throws
<1>4. CASE Turns
  <2>1. phase # "done"
    BY <1>4 DEF Turns, TurnReturns, TurnStarts, RequestFails, Chunk, ReadingStops, AnswerRead,
                ToolStarts, ToolReturns, ToolsEnd
  <2> QED
    BY <1>4, <2>1, TurnsGoOn, GoingOnSteps
<1>5. CASE Single
  <2>1. phase # "done"
    BY <1>5 DEF Single, SingleStarts, Reports, ReportEnds
  <2> QED
    BY <1>5, <2>1, SingleGoesOn, GoingOnSteps
<1>6. CASE Finish
  <2>1. phase \in {"returned", "threw"} /\ phase # "done"
    BY <1>6 DEF Finish
  <2>2. CASE Outcome = "complete"
    <3>1. phase = "returned" /\ ~aborted
      BY <2>1, <2>2 DEF Outcome
    <3>2. Finalize("complete", Len(db))
      BY <1>6, <2>2, <3>1 DEF Finish
    <3> QED
      BY <3>1, <3>2, CompletionConcludes, ConcludingSteps
  <2>3. CASE Outcome # "complete"
    <3>1. PICK status \in {"failed", "aborted"} : status = Outcome
      BY <2>1, <2>3 DEF Outcome
    <3>2. PICK last \in {0, Len(db)} : Finalize(status, last)
      BY <1>6, <3>1 DEF Finish
    <3> QED
      BY <2>1, <3>2, FailureConcludes, ConcludingSteps
  <2> QED
    BY <2>2, <2>3
<1>7. CASE Abort
  BY <1>7, AbortGoesOn, GoingOnSteps DEF Abort
<1> QED
  BY <1>1, <1>2, <1>3, <1>4, <1>5, <1>6, <1>7 DEF Server, Stream

LEMMA NextInv ==
  ASSUME Inv, [Next]_vars
  PROVE  Inv'
<1>1. CASE Server \/ Abort
  BY <1>1, StepOfServer DEF ServerSteps
<1>2. CASE Deliver
  BY <1>2, DeliverKeepsInv
<1>3. CASE Ended \/ UNCHANGED vars
  <2>1. UNCHANGED <<adapter, phase, aborted, row, db, nextPart, calls, unanswered, todo,
                    wire, shownRun, shown>>
    BY <1>3 DEF Ended, vars, server
  <2>2. Types' /\ Messages' /\ Places' /\ Ending' /\ Wires'
    BY <2>1 DEF Inv, Types, Messages, InProgress, MayBeOpen, Places, Current, Ending, Wires
  <2>3. Mirror'
    BY <2>1 DEF Inv, Mirror, Agrees
  <2> QED
    BY <2>2, <2>3 DEF Inv
<1> QED
  BY <1>1, <1>2, <1>3 DEF Next

LEMMA SpecInv == Spec => []Inv
<1>1. Init => Inv
  BY InitInv
<1>2. Inv /\ [Next]_vars => Inv'
  BY NextInv
<1> QED
  BY <1>1, <1>2, PTL DEF Spec

-------------------------------------------------------------------------------
(* The theorems.                                                           *)

(* Every value has its type, in every state: no assignment at an index,    *)
(* by persistEvent or by the reducers of the tab, leaves a hole in a list  *)
(* of parts or of messages.                                                *)
THEOREM TranscriptTyped == Spec => []TypeOK
<1>1. ASSUME Inv PROVE TypeOK
  <2>1. /\ adapter \in Adapter /\ phase \in Phases /\ row \in RunStates /\ shownRun \in RunStates
        /\ db \in Seq(MessageRow) /\ unanswered \subseteq 1..calls /\ calls + todo <= MaxCalls
        /\ nextPart \in 0..MaxTexts
    BY <1>1 DEF Inv, Types
  <2>2. shown \in Seq(MessageRow)
    BY <1>1 DEF Inv, Mirror, Good
  <2>3. nextPart <= MaxTexts
    BY <2>1, BoundsAssumption
  <2> QED
    BY <2>1, <2>2, <2>3 DEF TypeOK, Phases, RunStates
<1> QED
  BY <1>1, SpecInv, PTL

(* With nothing on the way, the tab has what the trace ends with.          *)
LEMMA NothingOnTheWay ==
  ASSUME Inv, phase = "done", wire = <<>>
  PROVE  shownRun = row /\ SameMessages(shown, db)
<1>1. PICK msgs : SameMessages(msgs, db) /\ Trace(adapter, shownRun, shown, wire, row, msgs)
  BY DEF Inv, Mirror, Agrees
<1>2. shownRun = row /\ shown = msgs
  BY <1>1, TraceNone
<1> QED
  BY <1>1, <1>2

(* However the run ends and whatever is still on its way then: when the    *)
(* last event has arrived, the tab shows what the rows hold.               *)
THEOREM TabEndsInStep == Spec => []TabInStep
<1>1. ASSUME Inv PROVE TabInStep
  <2> SUFFICES ASSUME phase = "done", wire = <<>>
               PROVE  /\ shownRun = row /\ Len(shown) = Len(db)
                      /\ \A m \in 1..Len(db) : SameMessage(shown[m], db[m])
    BY DEF TabInStep, Drained
  <2> QED
    BY <1>1, NothingOnTheWay DEF SameMessages
<1> QED
  BY <1>1, SpecInv, PTL

(* No call is given two results, and none is left without one in the rows  *)
(* of a run that failed or was aborted, nor in the tab after its run.end.  *)
THEOREM CallsAreAnswered == Spec => []EveryCallAnswered
<1>1. ASSUME Inv PROVE EveryCallAnswered
  <2>1. AnsweredOnce(db)
    <3>1. CASE phase = "done"
      BY <1>1, <3>1 DEF Inv, Ending, Good, AnsweredOnce, ResultsOnce
    <3>2. CASE phase # "done"
      BY <1>1, <3>2 DEF Inv, Messages, InProgress, Booked, AnsweredOnce, ResultsOnce
    <3> QED
      BY <3>1, <3>2
  <2>2. AnsweredOnce(shown)
    BY <1>1 DEF Inv, Mirror, Good, AnsweredOnce, ResultsOnce
  <2>3. row \in {"failed", "aborted"} => Answered(db)
    BY <1>1 DEF Inv, Places, Ending
  <2>4. ASSUME shownRun \in {"failed", "aborted"} PROVE Answered(shown)
    <3>1. phase = "done" /\ wire = <<>>
      BY <1>1, <2>4 DEF Inv, Wires, Final
    <3>2. shownRun = row /\ SameMessages(shown, db)
      BY <1>1, <3>1, NothingOnTheWay
    <3> QED
      BY <2>3, <2>4, <3>2 DEF SameMessages, SameMessage, Answered
  <2> QED
    BY <2>1, <2>2, <2>3, <2>4 DEF EveryCallAnswered
<1> QED
  BY <1>1, SpecInv, PTL

(* The error text of a run that did not complete is shown once, as the     *)
(* very last part; that of a run that completed nowhere.                   *)
THEOREM ErrorIsShown == Spec => []ErrorShown
<1>1. ASSUME Inv PROVE ErrorShown
  <2> SUFFICES ASSUME phase = "done", wire = <<>>
               PROVE  IF row = "complete"
                      THEN \A m \in 1..Len(shown) : ErrorsIn(shown[m].parts) = {}
                      ELSE ErrorAtEnd(shown)
    BY DEF ErrorShown, Drained, ErrorAtEnd
  <2>1. Len(shown) = Len(db) /\ \A m \in 1..Len(db) : shown[m].parts = db[m].parts
    BY <1>1, NothingOnTheWay DEF SameMessages, SameMessage
  <2>2. /\ row = "complete" => \A m \in 1..Len(db) : ErrorsIn(db[m].parts) = {}
        /\ row # "complete" => ErrorAtEnd(db)
    BY <1>1 DEF Inv, Ending
  <2>3. CASE row = "complete"
    BY <2>1, <2>2, <2>3
  <2>4. CASE row # "complete"
    <3>1. /\ db # <<>> /\ ErrorsIn(db[Len(db)].parts) = {Len(db[Len(db)].parts)}
          /\ \A m \in 1..(Len(db) - 1) : ErrorsIn(db[m].parts) = {}
      BY <2>2, <2>4 DEF ErrorAtEnd, Last
    <3>2. db \in Seq(MessageRow) /\ shown \in Seq(MessageRow)
      BY <1>1 DEF Inv, Types, Mirror, Good
    <3>3. Len(db) \in Nat /\ Len(db) \in 1..Len(db) /\ shown # <<>>
      BY <2>1, <3>1, <3>2, EmptySeq
    <3>4. ErrorsIn(shown[Len(shown)].parts) = {Len(shown[Len(shown)].parts)}
      BY <2>1, <3>1, <3>3
    <3>5. ASSUME NEW m \in 1..(Len(shown) - 1) PROVE ErrorsIn(shown[m].parts) = {}
      <4>1. m \in 1..(Len(db) - 1) /\ m \in 1..Len(db)
        BY <2>1, <3>3
      <4>2. ErrorsIn(db[m].parts) = {} /\ shown[m].parts = db[m].parts
        BY <2>1, <3>1, <4>1
      <4> QED
        BY <4>2
    <3> QED
      BY <2>4, <3>3, <3>4, <3>5 DEF ErrorAtEnd, Last
  <2> QED
    BY <2>3, <2>4
<1> QED
  BY <1>1, SpecInv, PTL

(* What the tab shows of a run does not change after the run's run.end:    *)
(* finalize publishes run.end last, and nothing of the run after it.       *)
THEOREM EndingIsFinal == Spec => EndIsFinal
<1>1. ASSUME Inv, [Next]_vars
      PROVE  [(shownRun \in Final) => UNCHANGED <<shown, shownRun>>]_vars
  <2>1. CASE Server \/ Abort
    BY <1>1, <2>1, StepOfServer DEF ServerSteps
  <2>2. CASE Deliver
    BY <1>1, <2>2, DeliverKeepsInv
  <2>3. CASE Ended \/ UNCHANGED vars
    BY <2>3 DEF Ended, vars
  <2> QED
    BY <1>1, <2>1, <2>2, <2>3 DEF Next
<1> QED
  BY <1>1, SpecInv, PTL DEF Spec, EndIsFinal

(* A custom agent's transcript grows only, in the rows and in the tab,     *)
(* through every event, the finalization and run.end.                      *)
THEOREM TranscriptOnlyGrows == Spec => TurnsOnlyAdd
<1>1. ASSUME Inv, [Next]_vars
      PROVE  [adapter = "turns" => OnlyAdded(db, db') /\ OnlyAdded(shown, shown')]_vars
  <2>1. db \in Seq(MessageRow) /\ shown \in Seq(MessageRow)
    BY <1>1 DEF Inv, Types, Mirror, Good
  <2>2. OnlyAdded(db, db) /\ OnlyAdded(shown, shown)
    <3>1. Len(db) <= Len(db) /\ Len(shown) <= Len(shown)
      BY <2>1
    <3> QED
      BY <2>1, <3>1, KeepsParts
  <2>3. CASE Server \/ Abort
    <3>1. shown' = shown /\ (adapter = "turns" => OnlyAdded(db, db'))
      BY <1>1, <2>3, StepOfServer DEF ServerSteps
    <3> QED
      BY <2>2, <3>1
  <2>4. CASE Deliver
    <3>1. db' = db /\ (adapter = "turns" => OnlyAdded(shown, shown'))
      BY <1>1, <2>4, DeliverKeepsInv DEF Deliver, server
    <3> QED
      BY <2>2, <3>1
  <2>5. CASE Ended \/ UNCHANGED vars
    BY <2>5 DEF Ended
  <2> QED
    BY <1>1, <2>3, <2>4, <2>5 DEF Next
<1> QED
  BY <1>1, SpecInv, PTL DEF Spec, TurnsOnlyAdd

===============================================================================
