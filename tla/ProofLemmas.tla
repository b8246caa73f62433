----------------------------- MODULE ProofLemmas -----------------------------
(***************************************************************************)
(* Facts about numbers and sequences that the proofs of several components *)
(* use.  The induction theorems of the library take a predicate as an      *)
(* operator; here induction is stated over sets of numbers, from the       *)
(* least-number principle.                                                 *)
(***************************************************************************)
EXTENDS Integers, WellFoundedInduction, SequenceTheorems, TLAPS

\* A set of natural numbers that is not empty has a least element.
LEMMA LeastNumber ==
    ASSUME NEW T \in SUBSET Nat, T # {}
    PROVE  \E m \in T : \A k \in T : m <= k
  <1> DEFINE R == OpToRel(<, Nat)
  <1>1. IsWellFoundedOn(R, Nat)
    BY NatLessThanWellFounded
  <1> HIDE DEF R
  <1>2. PICK m \in T : \A k \in T : ~ (<<k, m>> \in R)
    BY <1>1, WFMin
  <1>3. ASSUME NEW k \in T, k < m PROVE FALSE
    <2>1. <<k, m>> \in R
      BY <1>3 DEF R, OpToRel
    <2> QED  BY <1>2, <2>1
  <1> QED  BY <1>2, <1>3

\* Induction: what holds of 0, and of n + 1 if of n, holds of every number.
LEMMA SetInduction ==
    ASSUME NEW S, 0 \in S, \A n \in Nat : n \in S => n + 1 \in S
    PROVE  Nat \subseteq S
  <1> DEFINE T == Nat \ S
  <1>1. SUFFICES ASSUME T # {} PROVE FALSE
    OBVIOUS
  <1>2. PICK m \in T : \A k \in T : m <= k
    BY <1>1, LeastNumber
  <1>3. m # 0 /\ m - 1 \in Nat /\ m - 1 \notin T /\ m - 1 + 1 = m
    BY <1>2
  <1> QED  BY <1>2, <1>3

\* A function on an initial segment of the numbers is a sequence; what SubSeq and
\* Append make of it.
LEMMA SegmentInSeq ==
    ASSUME NEW S, NEW n \in Nat, NEW f \in [1..n -> S]
    PROVE  f \in Seq(S) /\ Len(f) = n
  OBVIOUS

LEMMA SegmentIsSeq ==
    ASSUME NEW n \in Nat, NEW f, f = [k \in 1..n |-> f[k]]
    PROVE  /\ Len(f) = n
           /\ f \in Seq({f[k] : k \in 1..n})
           /\ \A m \in 0..n : SubSeq(f, 1, m) = [k \in 1..m |-> f[k]]
           /\ \A e : Append(f, e) = [k \in 1..(n + 1) |-> IF k = n + 1 THEN e ELSE f[k]]
  <1> DEFINE S == {f[k] : k \in 1..n}
  <1>1. f \in [1..n -> S]
    OBVIOUS
  <1>2. f \in Seq(S) /\ Len(f) = n
    BY <1>1, SegmentInSeq
  <1>3. ASSUME NEW m \in 0..n
        PROVE  SubSeq(f, 1, m) = [k \in 1..m |-> f[k]]
    <2> DEFINE g == [k \in 1..m |-> f[k]]
    <2>1. g \in [1..m -> S]
      OBVIOUS
    <2>2. g \in Seq(S) /\ Len(g) = m
      <3> HIDE DEF g, S
      <3> QED  BY <2>1, SegmentInSeq, m \in Nat
    <2>3. SubSeq(f, 1, m) \in Seq(S) /\ Len(SubSeq(f, 1, m)) = m
          /\ \A k \in 1..m : SubSeq(f, 1, m)[k] = f[k]
      BY <1>2
    <2>4. \A k \in 1..m : g[k] = f[k]
      OBVIOUS
    <2> HIDE DEF g
    <2> QED  BY <2>2, <2>3, <2>4, SeqEqual DEF g
  <1>4. ASSUME NEW e
        PROVE  Append(f, e) = [k \in 1..(n + 1) |-> IF k = n + 1 THEN e ELSE f[k]]
    <2> DEFINE g == [k \in 1..(n + 1) |-> IF k = n + 1 THEN e ELSE f[k]]
               U == S \union {e}
    <2>1. g \in [1..(n + 1) -> U]
      OBVIOUS
    <2>2. g \in Seq(U) /\ Len(g) = n + 1
      <3> HIDE DEF g, U
      <3> QED  BY <2>1, SegmentInSeq, n + 1 \in Nat
    <2>3. f \in Seq(U) /\ e \in U
      <3>1. f \in [1..n -> U]
        BY <1>1
      <3> QED  BY <3>1, SegmentInSeq
    <2>4. Append(f, e) \in Seq(U) /\ Len(Append(f, e)) = n + 1
          /\ (\A k \in 1..n : Append(f, e)[k] = f[k]) /\ Append(f, e)[n + 1] = e
      BY <1>2, <2>3, AppendProperties
    <2>5. \A k \in 1..(n + 1) : g[k] = Append(f, e)[k]
      BY <2>4
    <2> HIDE DEF g
    <2> QED  BY <2>2, <2>4, <2>5, SeqEqual DEF g
  <1> QED  BY <1>2, <1>3, <1>4

\* Sequences of whatever elements: what Append and concatenation make of them.
IsSequence(f) == Len(f) \in Nat /\ f = [k \in 1..Len(f) |-> f[k]]

LEMMA SeqIsSequence ==
    ASSUME NEW S, NEW f \in Seq(S)
    PROVE  IsSequence(f)
  BY DEF IsSequence

LEMMA EmptyIsSequence == IsSequence(<< >>) /\ Len(<< >>) = 0
  <1>1. << >> \in Seq(Nat)
    OBVIOUS
  <1> QED  BY <1>1, SeqIsSequence

LEMMA AppendIsSequence ==
    ASSUME NEW f, IsSequence(f), NEW e
    PROVE  /\ IsSequence(Append(f, e))
           /\ Len(Append(f, e)) = Len(f) + 1
           /\ \A k \in 1..Len(f) : Append(f, e)[k] = f[k]
           /\ Append(f, e)[Len(f) + 1] = e
  <1> DEFINE U == {f[k] : k \in 1..Len(f)} \union {e}
  <1>1. f \in Seq(U)
    <2>1. f \in [1..Len(f) -> U]
      BY DEF IsSequence
    <2> QED  BY <2>1, SegmentInSeq DEF IsSequence
  <1>2. e \in U
    OBVIOUS
  <1> HIDE DEF U
  <1>3. /\ Append(f, e) \in Seq(U) /\ Len(Append(f, e)) = Len(f) + 1
        /\ \A k \in 1..Len(f) : Append(f, e)[k] = f[k]
        /\ Append(f, e)[Len(f) + 1] = e
    BY <1>1, <1>2, AppendProperties
  <1> QED  BY <1>3, SeqIsSequence

LEMMA ConcatIsSequence ==
    ASSUME NEW f, IsSequence(f), NEW g, IsSequence(g)
    PROVE  /\ IsSequence(f \o g)
           /\ Len(f \o g) = Len(f) + Len(g)
           /\ \A k \in 1..Len(f) : (f \o g)[k] = f[k]
           /\ \A k \in 1..Len(g) : (f \o g)[Len(f) + k] = g[k]
  <1> DEFINE U == {f[k] : k \in 1..Len(f)} \union {g[k] : k \in 1..Len(g)}
  <1>1. f \in Seq(U)
    <2>1. f \in [1..Len(f) -> U]
      BY DEF IsSequence
    <2> QED  BY <2>1, SegmentInSeq DEF IsSequence
  <1>2. g \in Seq(U)
    <2>1. g \in [1..Len(g) -> U]
      BY DEF IsSequence
    <2> QED  BY <2>1, SegmentInSeq DEF IsSequence
  <1> HIDE DEF U
  <1>3. /\ f \o g \in Seq(U) /\ Len(f \o g) = Len(f) + Len(g)
        /\ \A k \in 1..(Len(f) + Len(g)) :
              (f \o g)[k] = IF k <= Len(f) THEN f[k] ELSE g[k - Len(f)]
    BY <1>1, <1>2, ConcatProperties
  <1>4. \A k \in 1..Len(f) : (f \o g)[k] = f[k]
    BY <1>1, <1>2, <1>3
  <1>5. \A k \in 1..Len(g) : (f \o g)[Len(f) + k] = g[k]
    <2> SUFFICES ASSUME NEW k \in 1..Len(g) PROVE (f \o g)[Len(f) + k] = g[k]
      OBVIOUS
    <2>1. Len(f) \in Nat /\ Len(g) \in Nat
      BY <1>1, <1>2
    <2>2. Len(f) + k \in 1..(Len(f) + Len(g)) /\ ~(Len(f) + k <= Len(f)) /\ Len(f) + k - Len(f) = k
      BY <2>1
    <2> QED  BY <1>3, <2>2
  <1> QED  BY <1>3, <1>4, <1>5, SeqIsSequence
=============================================================================
