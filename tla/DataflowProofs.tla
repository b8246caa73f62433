---------------------------- MODULE DataflowProofs ----------------------------
(***************************************************************************)
(* The last phase of TypecheckProgram, for every program and class.        *)
(*                                                                         *)
(* Folding: EveryStringHasAnId, FoldingPreservesMeaning and                *)
(* EveryConstantFolds follow from FoldInv, which says what has become of   *)
(* each expression: one with a constant meaning, as long as folding is     *)
(* right about its operands, is the literal of that meaning.  The last two *)
(* are about the programs that FoldsRight describes.                       *)
(*                                                                         *)
(* The visitors: FieldOrderIsExact, RejectionIsExact and EveryErrorIsRight *)
(* follow from DataflowInv.  The reports on an initialiser and its reads   *)
(* are two functions on the same places, compared place by place.  For     *)
(* methods, the points of all runs are the least set closed under the      *)
(* edges of the body (RunsAre).  What the visitor calls unreachable no run *)
(* reaches, because the points it allows are closed (VisitsJustified); and *)
(* where it reports nothing each statement is entered by a run, which ends *)
(* it if the visitor says so (VisitsAccept).                               *)
(*                                                                         *)
(* That the functions defined by recursion on places exist, and what they  *)
(* are, is shown first in each part.                                       *)
(***************************************************************************)
EXTENDS Dataflow, ProofLemmas, FiniteSetTheorems

-----------------------------------------------------------------------------
(***************************************************************************)
(* The meanings of expressions exist: they are defined by recursion on the *)
(* places of expressions, each of which comes after its operands.          *)
(***************************************************************************)
OperandsBefore(e, i) ==
    /\ e.k \in {"unary", "cast"} => e.e \in 1..(i - 1)
    /\ e.k = "binary" => e.l \in 1..(i - 1) /\ e.r \in 1..(i - 1)

WellOrdered(p) == IsSequence(p) /\ \A i \in 1..Len(p) : OperandsBefore(p[i], i)

\* What an expression means depends on the meanings and types of what is before it.
LEMMA MeaningIsLocal ==
    ASSUME NEW p, NEW q, NEW i, NEW e, OperandsBefore(e, i), NEW m1, NEW m2, NEW env,
           \A j \in 1..(i - 1) : m1[j] = m2[j] /\ p[j].tid = q[j].tid
    PROVE  MeaningOf(e, p, m1, env) = MeaningOf(e, q, m2, env)
  <1>1. CASE e.k \in {"unary", "cast"}
    <2>1. m1[e.e] = m2[e.e]
      BY <1>1 DEF OperandsBefore
    <2>2. e.k # "const" /\ e.k # "lit" /\ e.k # "name" /\ e.k # "binary"
      BY <1>1
    <2> QED  BY <1>1, <2>1, <2>2 DEF MeaningOf
  <1>2. CASE e.k = "binary"
    <2>1. /\ m1[e.l] = m2[e.l] /\ p[e.l].tid = q[e.l].tid
          /\ m1[e.r] = m2[e.r] /\ p[e.r].tid = q[e.r].tid
      BY <1>2 DEF OperandsBefore
    <2>2. e.k # "const" /\ e.k # "lit" /\ e.k # "name" /\ e.k # "unary" /\ e.k # "cast"
      BY <1>2
    <2> QED  BY <1>2, <2>1, <2>2 DEF MeaningOf
  <1>3. CASE e.k \notin {"unary", "cast", "binary"}
    BY <1>3 DEF MeaningOf
  <1> QED  BY <1>1, <1>2, <1>3

AreMeanings(m, n, p, env) == m = [i \in 1..n |-> MeaningOf(p[i], p, m, env)]

LEMMA MeaningsUpTo ==
    ASSUME NEW p, WellOrdered(p), NEW env, NEW n \in Nat, n <= Len(p)
    PROVE  \E m : AreMeanings(m, n, p, env)
  <1> DEFINE Good == {k \in Nat : k <= Len(p) => \E m : AreMeanings(m, k, p, env)}
  <1>0. Len(p) \in Nat
    BY DEF WellOrdered, IsSequence
  <1>1. 0 \in Good
    <2> DEFINE m0 == [i \in 1..0 |-> 0]
    <2>1. m0 = [i \in 1..0 |-> MeaningOf(p[i], p, m0, env)]
      OBVIOUS
    <2> HIDE DEF m0
    <2>2. AreMeanings(m0, 0, p, env)
      BY <2>1 DEF AreMeanings
    <2> QED  BY <2>2
  <1>2. ASSUME NEW k \in Nat, k \in Good PROVE k + 1 \in Good
    <2> SUFFICES ASSUME k + 1 <= Len(p) PROVE \E m : AreMeanings(m, k + 1, p, env)
      OBVIOUS
    <2>1. PICK m : AreMeanings(m, k, p, env)
      BY <1>0, <1>2
    <2> DEFINE next == [i \in 1..(k + 1) |-> IF i <= k THEN m[i] ELSE MeaningOf(p[k + 1], p, m, env)]
    <2>2. ASSUME NEW i \in 1..(k + 1) PROVE next[i] = MeaningOf(p[i], p, next, env)
      <3>1. \A j \in 1..(i - 1) : m[j] = next[j] /\ p[j].tid = p[j].tid
        OBVIOUS
      <3>2. OperandsBefore(p[i], i)
        BY <1>0 DEF WellOrdered
      <3>3. next[i] = MeaningOf(p[i], p, m, env)
        <4>1. CASE i <= k
          <5>1. next[i] = m[i] /\ i \in 1..k
            BY <4>1
          <5> HIDE DEF next
          <5>2. m[i] = MeaningOf(p[i], p, m, env)
            BY <2>1, <5>1 DEF AreMeanings
          <5> QED  BY <5>1, <5>2
        <4>2. CASE i = k + 1
          BY <4>2
        <4> QED  BY <4>1, <4>2
      <3> HIDE DEF next
      <3>4. MeaningOf(p[i], p, m, env) = MeaningOf(p[i], p, next, env)
        BY <3>1, <3>2, MeaningIsLocal
      <3> QED  BY <3>3, <3>4
    <2>3. next = [i \in 1..(k + 1) |-> next[i]]
      OBVIOUS
    <2> HIDE DEF next
    <2>4. AreMeanings(next, k + 1, p, env)
      BY <2>2, <2>3 DEF AreMeanings
    <2> QED  BY <2>4
  <1> HIDE DEF Good
  <1>3. Nat \subseteq Good
    BY <1>1, <1>2, SetInduction
  <1> QED  BY <1>3 DEF Good

LEMMA MeaningsExist ==
    ASSUME NEW p, WellOrdered(p), NEW env
    PROVE  AreMeanings(Meanings(p, env), Len(p), p, env)
  <1>1. Len(p) \in Nat /\ DOMAIN p = 1..Len(p)
    BY DEF WellOrdered, IsSequence
  <1>2. PICK m : AreMeanings(m, Len(p), p, env)
    <2> DEFINE n == Len(p)
    <2>1. n \in Nat /\ n <= Len(p)
      BY <1>1
    <2> HIDE DEF n
    <2>2. \E m : AreMeanings(m, n, p, env)
      BY <2>1, MeaningsUpTo, Zenon
    <2> QED  BY <2>2 DEF n
  <1>3. \E f : f = [i \in DOMAIN p |-> MeaningOf(p[i], p, f, env)]
    BY <1>1, <1>2 DEF AreMeanings
  <1>4. Meanings(p, env) = [i \in DOMAIN p |-> MeaningOf(p[i], p, Meanings(p, env), env)]
    BY <1>3 DEF Meanings
  <1> QED  BY <1>1, <1>4 DEF AreMeanings

\* A program that goes on means the same as far as it went.
LEMMA MeaningsOfPrefix ==
    ASSUME NEW p, WellOrdered(p), NEW q, WellOrdered(q), NEW env, Len(p) <= Len(q),
           \A i \in 1..Len(p) : q[i] = p[i]
    PROVE  \A i \in 1..Len(p) : Meanings(q, env)[i] = Meanings(p, env)[i]
  <1> DEFINE m == Meanings(p, env)
             w == Meanings(q, env)
             Good == {k \in Nat : \A i \in 1..k : i <= Len(p) => w[i] = m[i]}
  <1>0. Len(p) \in Nat /\ Len(q) \in Nat
    BY DEF WellOrdered, IsSequence
  <1>1. AreMeanings(m, Len(p), p, env) /\ AreMeanings(w, Len(q), q, env)
    BY MeaningsExist
  <1> HIDE DEF m, w
  <1>2. 0 \in Good
    OBVIOUS
  <1>3. ASSUME NEW k \in Nat, k \in Good PROVE k + 1 \in Good
    <2> SUFFICES ASSUME NEW i \in 1..(k + 1), i <= Len(p) PROVE w[i] = m[i]
      OBVIOUS
    <2>1. CASE i <= k
      BY <1>3, <2>1
    <2>2. CASE i = k + 1
      <3>1. \A j \in 1..(i - 1) : w[j] = m[j] /\ q[j].tid = p[j].tid
        BY <1>0, <1>3, <2>2
      <3>2. OperandsBefore(p[i], i)
        BY <1>0, <2>2 DEF WellOrdered
      <3>3. MeaningOf(p[i], q, w, env) = MeaningOf(p[i], p, m, env)
        BY <3>1, <3>2, MeaningIsLocal
      <3>4. i \in 1..Len(q) /\ i \in 1..Len(p)
        BY <1>0, <2>2
      <3>5. w[i] = MeaningOf(q[i], q, w, env) /\ m[i] = MeaningOf(p[i], p, m, env)
        BY <1>1, <3>4 DEF AreMeanings
      <3>6. q[i] = p[i]
        BY <3>4
      <3> QED  BY <3>3, <3>5, <3>6
    <2> QED  BY <2>1, <2>2
  <1> HIDE DEF Good
  <1>4. Nat \subseteq Good
    BY <1>2, <1>3, SetInduction
  <1>5. \A i \in 1..Len(p) : w[i] = m[i]
    BY <1>0, <1>4 DEF Good
  <1> QED  BY <1>5 DEF m, w

-----------------------------------------------------------------------------
(***************************************************************************)
(* Numbers of a few bytes, types and values.                               *)
(***************************************************************************)
Half(n) == Modulus(n) \div 2

LEMMA EvenHalf ==
    ASSUME NEW k \in Nat, NEW m, m = 2 * k
    PROVE  m \div 2 = k /\ m \in Nat
  OBVIOUS

LEMMA Halves ==
    /\ \A n \in {1, 2, 4} : /\ Modulus(n) \in Nat /\ Modulus(n) > 0
                            /\ Half(n) \in Nat /\ Half(n) > 0 /\ Modulus(n) = 2 * Half(n)
    /\ Modulus(2) <= Half(4) /\ Half(1) <= Half(4) /\ Half(2) <= Half(4)
  <1>1. PICK h \in Nat : Radix = 2 * h
    <2>1. Radix \in Nat /\ Radix % 2 = 0
      BY RadixAssumption
    <2>2. Radix \div 2 \in Nat /\ Radix = 2 * (Radix \div 2)
      BY <2>1
    <2> QED  BY <2>2
  <1>2. h >= 1 /\ Radix >= 2 /\ Radix \in Nat
    BY <1>1, RadixAssumption
  <1> DEFINE s == h * Radix
  <1>3. Modulus(1) = 2 * h /\ Modulus(2) = 2 * s /\ Modulus(4) = 2 * (s * (Radix * Radix))
    <2>1. Modulus(1) = Radix /\ Modulus(2) = Radix * Radix /\ Modulus(4) = (Radix * Radix) * (Radix * Radix)
      BY DEF Modulus
    <2>2. Radix * Radix = 2 * s
      BY <1>1, <1>2
    <2>3. (2 * s) * (Radix * Radix) = 2 * (s * (Radix * Radix))
      BY <1>1, <1>2
    <2> QED  BY <1>1, <2>1, <2>2, <2>3
  <1>4. s \in Nat /\ s >= 1 /\ h <= s
    BY <1>1, <1>2
  <1> HIDE DEF s
  <1>5. 2 * s = Radix * Radix
    BY <1>3 DEF Modulus
  <1> DEFINE q == s * (Radix * Radix)
  <1>6. q = s * (2 * s)
    BY <1>5
  <1>7. q \in Nat /\ q >= 1 /\ 2 * s <= q /\ s <= q
    BY <1>4, <1>6
  <1> HIDE DEF q
  <1>8. Modulus(1) = 2 * h /\ Modulus(2) = 2 * s /\ Modulus(4) = 2 * q
    BY <1>3 DEF q
  <1>9. Half(1) = h /\ Half(2) = s /\ Half(4) = q
    BY <1>4, <1>7, <1>8, EvenHalf DEF Half
  <1> QED  BY <1>2, <1>4, <1>7, <1>8, <1>9

LEMMA ModOfSmall ==
    ASSUME NEW m \in Nat, m > 0, NEW v \in Int
    PROVE  /\ v % m \in 0..(m - 1)
           /\ v \in 0..(m - 1) => v % m = v
           /\ v < 0 /\ v >= -m => v % m = v + m
  OBVIOUS

LEMMA SignedIsSmall ==
    ASSUME NEW n \in {1, 2, 4}, NEW v \in Int
    PROVE  /\ Signed(v, n) \in -Half(n)..(Half(n) - 1)
           /\ v \in -Half(n)..(Half(n) - 1) => Signed(v, n) = v
  <1> DEFINE m == Modulus(n)
             h == Half(n)
             u == v % m
  <1>1. m \in Nat /\ m > 0 /\ h \in Nat /\ h > 0 /\ m = 2 * h
    BY Halves
  <1>2. Signed(v, n) = IF 2 * u >= m THEN u - m ELSE u
    BY DEF Signed
  <1> HIDE DEF m, h
  <1>3. /\ u \in 0..(m - 1)
        /\ v \in 0..(m - 1) => u = v
        /\ v < 0 /\ v >= -m => u = v + m
    BY <1>1, ModOfSmall
  <1> HIDE DEF u
  <1>4. Signed(v, n) \in -h..(h - 1)
    BY <1>1, <1>2, <1>3
  <1>5. v \in -h..(h - 1) => Signed(v, n) = v
    <2> SUFFICES ASSUME v \in -h..(h - 1) PROVE Signed(v, n) = v
      OBVIOUS
    <2>1. CASE v < 0
      <3>1. u = v + m
        BY <1>1, <1>3, <2>1
      <3> QED  BY <1>1, <1>2, <2>1, <3>1
    <2>2. CASE v >= 0
      <3>1. u = v
        BY <1>1, <1>3, <2>2
      <3> QED  BY <1>1, <1>2, <2>2, <3>1
    <2> QED  BY <2>1, <2>2
  <1> QED  BY <1>4, <1>5 DEF h

\* The types are different.
LEMMA Types ==
    /\ kBool \notin Numeric /\ kNull \notin Numeric /\ String \notin Numeric /\ Object \notin Numeric
    /\ kBool # kNull /\ kBool # String /\ kBool # Object /\ kNull # String
    /\ kInt # kChar /\ kInt # kShort /\ kInt # kByte
    /\ kChar # kShort /\ kChar # kByte /\ kShort # kByte
    /\ \A t : IsNumeric(t) <=> t \in Numeric
    /\ \A t : IsPrimitive(t) <=> t \in Numeric \/ t = kBool
    /\ \A t : IsReference(t) <=> t \notin Numeric /\ t # kBool
  <1>1. /\ kBool.base = "bool" /\ kByte.base = "byte" /\ kShort.base = "short" /\ kChar.base = "char"
        /\ kInt.base = "int" /\ kNull.base = "null" /\ Object.base = "Object" /\ String.base = "String"
    BY DEF Type, kBool, kByte, kShort, kChar, kInt, kNull, Object, String
  <1>2. /\ kBool \notin Numeric /\ kNull \notin Numeric /\ String \notin Numeric /\ Object \notin Numeric
        /\ kBool # kNull /\ kBool # String /\ kBool # Object /\ kNull # String
        /\ kInt # kChar /\ kInt # kShort /\ kInt # kByte
        /\ kChar # kShort /\ kChar # kByte /\ kShort # kByte
    BY <1>1 DEF Numeric
  <1> QED  BY <1>2 DEF IsNumeric, IsPrimitive, IsReference, Numeric

\* The values of each type; any sequence is a string's.
InRange(t, v) ==
    /\ t = kInt => v \in -Half(4)..(Half(4) - 1)
    /\ t = kShort => v \in -Half(2)..(Half(2) - 1)
    /\ t = kByte => v \in -Half(1)..(Half(1) - 1)
    /\ t = kChar => v \in 0..(Modulus(2) - 1)
    /\ t = kBool => v \in {0, 1}

LEMMA NumbersAreInts ==
    ASSUME NEW t \in Numeric, NEW v, InRange(t, v)
    PROVE  v \in Int /\ v \in -Half(4)..(Half(4) - 1)
  BY Halves, Types DEF InRange, Numeric

LEMMA NarrowIs ==
    ASSUME NEW v \in Int
    PROVE  /\ Narrow(v, kInt) = Signed(v, 4)
           /\ Narrow(v, kShort) = Signed(v, 2)
           /\ Narrow(v, kByte) = Signed(v, 1)
           /\ Narrow(v, kChar) = v % Modulus(2)
  <1>1. Narrow(v, kInt) = Signed(v, 4)
    BY Types DEF Narrow
  <1>2. Narrow(v, kShort) = Signed(v, 2)
    BY Types DEF Narrow
  <1>3. Narrow(v, kByte) = Signed(v, 1)
    BY Types DEF Narrow
  <1>4. Narrow(v, kChar) = v % Modulus(2)
    BY Types DEF Narrow
  <1> QED  BY <1>1, <1>2, <1>3, <1>4

LEMMA NarrowedInRange ==
    ASSUME NEW t \in Numeric, NEW v \in Int
    PROVE  InRange(t, Narrow(v, t))
  <1>1. CASE t = kInt
    BY <1>1, NarrowIs, SignedIsSmall, Types DEF InRange, Numeric
  <1>2. CASE t = kShort
    BY <1>2, NarrowIs, SignedIsSmall, Types DEF InRange, Numeric
  <1>3. CASE t = kByte
    BY <1>3, NarrowIs, SignedIsSmall, Types DEF InRange, Numeric
  <1>4. CASE t = kChar
    <2>1. v % Modulus(2) \in 0..(Modulus(2) - 1)
      BY Halves, ModOfSmall
    <2> QED  BY <1>4, <2>1, NarrowIs, Types DEF InRange, Numeric
  <1> QED  BY <1>1, <1>2, <1>3, <1>4 DEF Numeric

\* A value of its type is what it is narrowed to.
LEMMA NarrowKeeps ==
    ASSUME NEW t, NEW v, InRange(t, v)
    PROVE  Narrow(v, t) = v
  <1>1. CASE t = kInt
    BY <1>1, NarrowIs, SignedIsSmall, NumbersAreInts DEF InRange, Numeric
  <1>2. CASE t = kShort
    <2>1. v \in Int /\ v \in -Half(2)..(Half(2) - 1)
      BY <1>2, NumbersAreInts DEF InRange, Numeric
    <2> QED  BY <1>2, <2>1, NarrowIs, SignedIsSmall
  <1>3. CASE t = kByte
    <2>1. v \in Int /\ v \in -Half(1)..(Half(1) - 1)
      BY <1>3, NumbersAreInts DEF InRange, Numeric
    <2> QED  BY <1>3, <2>1, NarrowIs, SignedIsSmall
  <1>4. CASE t = kChar
    <2>1. v \in Int /\ v \in 0..(Modulus(2) - 1)
      BY <1>4, NumbersAreInts DEF InRange, Numeric
    <2>2. v % Modulus(2) = v
      BY <2>1, Halves, ModOfSmall
    <2> QED  BY <1>4, <2>1, <2>2, NarrowIs
  <1>5. CASE t \notin Numeric
    BY <1>5 DEF Narrow, Numeric
  <1> QED  BY <1>1, <1>2, <1>3, <1>4, <1>5 DEF Numeric

\* A value that an expression gives, or an exception.
LEMMA GivesOrThrows ==
    /\ \A v : Gives(v) # Throws
    /\ \A v : Gives(v)[1] = v
    /\ \A v, w : Gives(v) = Gives(w) => v = w
  <1>1. \A v : Gives(v)[1] = v
    BY DEF Gives
  <1>2. \A v, w : Gives(v) = Gives(w) => v = w
    BY <1>1
  <1>3. ASSUME NEW v PROVE Gives(v) # Throws
    <2>1. Len(Gives(v)) = 1 /\ Len(Throws) = 0
      BY DEF Gives, Throws
    <2> QED  BY <2>1
  <1> QED  BY <1>1, <1>2, <1>3

-----------------------------------------------------------------------------
(***************************************************************************)
(* Folding an operation on constants gives what the operation means.       *)
(***************************************************************************)
\* A value that a literal of type t may have.
Known(t, v) == t \in Numeric \union {kBool, String} /\ InRange(t, v)
MeaningOfLit(t, v) == Meaning(TRUE, Gives(ValueOf(Lit(t, v))))

IsKnown(w) == w.constant = TRUE
IsUnknown(w) == w.constant = FALSE

\* A constant of type t that means w.
IsConstantOf(e, t, w) == \E v : e = Const(Lit(t, v)) /\ Known(t, v) /\ w = MeaningOfLit(t, v)

LEMMA MeaningOfLitIs ==
    ASSUME NEW t, NEW v, Known(t, v)
    PROVE  /\ MeaningOfLit(t, v).constant = TRUE
           /\ t # String => MeaningOfLit(t, v).value = Gives(v)
           /\ t = String => MeaningOfLit(t, v).value = Gives(Reference(v, "interned"))
  <1>1. Lit(t, v).tid = t /\ Lit(t, v).value = v
    BY DEF Lit
  <1>2. t # kNull
    BY Types DEF Known
  <1>3. MeaningOfLit(t, v).constant = TRUE /\ MeaningOfLit(t, v).value = Gives(ValueOf(Lit(t, v)))
    BY DEF MeaningOfLit, Meaning
  <1>4. CASE t = String
    BY <1>1, <1>2, <1>3, <1>4 DEF ValueOf
  <1>5. CASE t # String
    BY <1>1, <1>2, <1>3, <1>5 DEF ValueOf
  <1> QED  BY <1>3, <1>4, <1>5

LEMMA BoolIsConstant ==
    ASSUME NEW b \in BOOLEAN
    PROVE  IsConstantOf(Bool(b), kBool, Meaning(TRUE, Gives(Truth(b))))
  <1>1. Known(kBool, Truth(b))
    BY Types DEF Known, InRange, Truth, Numeric
  <1>2. MeaningOfLit(kBool, Truth(b)) = Meaning(TRUE, Gives(Truth(b)))
    <2>1. ValueOf(Lit(kBool, Truth(b))) = Truth(b)
      BY Types DEF ValueOf, Lit
    <2> QED  BY <2>1 DEF MeaningOfLit
  <1> QED  BY <1>1, <1>2 DEF IsConstantOf, Bool

LEMMA NumberIsConstant ==
    ASSUME NEW t \in Numeric, NEW v, InRange(t, v)
    PROVE  IsConstantOf(Const(Lit(t, v)), t, Meaning(TRUE, Gives(v)))
  <1>1. Known(t, v)
    BY DEF Known
  <1>2. MeaningOfLit(t, v) = Meaning(TRUE, Gives(v))
    <2>1. ValueOf(Lit(t, v)) = v
      BY Types DEF ValueOf, Lit
    <2> QED  BY <2>1 DEF MeaningOfLit
  <1> QED  BY <1>1, <1>2 DEF IsConstantOf

LEMMA StringIsConstant ==
    ASSUME NEW s
    PROVE  IsConstantOf(Const(Lit(String, s)), String, Meaning(TRUE, Gives(Reference(s, "interned"))))
  <1>1. Known(String, s)
    BY Types DEF Known, InRange, Numeric
  <1>2. MeaningOfLit(String, s) = Meaning(TRUE, Gives(Reference(s, "interned")))
    <2>1. ValueOf(Lit(String, s)) = Reference(s, "interned")
      BY Types DEF ValueOf, Lit
    <2> QED  BY <2>1 DEF MeaningOfLit
  <1> QED  BY <1>1, <1>2 DEF IsConstantOf

LEMMA StringText ==
    ASSUME NEW s
    PROVE  Stringify(Lit(String, s)) = s
  <1>1. Lit(String, s).tid = String /\ Lit(String, s).value = s
    BY DEF Lit
  <1>2. String # kChar /\ String # kBool
    BY Types DEF Numeric
  <1> HIDE DEF String
  <1> QED  BY <1>1, <1>2 DEF Stringify

LEMMA BinaryFolds ==
    ASSUME NEW e, NEW lt, NEW rt, NEW lv, NEW rv, NEW strs,
           OperandsFit(e.op, lt, rt), e.op \notin {"BAND", "BOR", "XOR"}, Known(lt, lv), Known(rt, rv)
    PROVE  LET f == FoldBinary(e, Lit(lt, lv), Lit(rt, rv), strs).e
               w == MeaningOfBinary(e.op, lt, rt, MeaningOfLit(lt, lv), MeaningOfLit(rt, rv))
           IN  (f = e /\ IsUnknown(w)) \/ IsConstantOf(f, BinaryType(e.op, lt, rt), w)
  <1> DEFINE op == e.op
             l == MeaningOfLit(lt, lv)
             r == MeaningOfLit(rt, rv)
             w == MeaningOfBinary(op, lt, rt, l, r)
             f == FoldBinary(e, Lit(lt, lv), Lit(rt, rv), strs).e
             Goal == (f = e /\ IsUnknown(w)) \/ IsConstantOf(f, BinaryType(op, lt, rt), w)
  <1>0. SUFFICES Goal
    OBVIOUS
  <1>1. /\ Lit(lt, lv).tid = lt /\ Lit(lt, lv).value = lv
        /\ Lit(rt, rv).tid = rt /\ Lit(rt, rv).value = rv
    BY DEF Lit
  <1>2. /\ \A a, s : Done(a, s).e = a
        /\ \A s : FoldedString(s, strs).e = Const(Lit(String, s))
    BY DEF Done, FoldedString
  <1>3. f = IF lt = kBool /\ rt = kBool THEN Bool(FoldBool(op, lv, rv))
            ELSE IF IsNumericOp(op) /\ String \in {lt, rt}
            THEN Const(Lit(String, Stringify(Lit(lt, lv)) \o Stringify(Lit(rt, rv))))
            ELSE IF op \in {"DIV", "MOD"} /\ rv = 0 THEN e
            ELSE IF IsNumericOp(op) THEN Const(Lit(kInt, FoldInt(op, lv, rv)))
            ELSE Bool(FoldRelation(op, lv, rv))
    BY <1>1, <1>2 DEF FoldBinary
  <1>4. /\ l.constant = TRUE /\ r.constant = TRUE
        /\ lt # String => l.value = Gives(lv)
        /\ lt = String => l.value = Gives(Reference(lv, "interned"))
        /\ rt # String => r.value = Gives(rv)
        /\ rt = String => r.value = Gives(Reference(rv, "interned"))
    BY MeaningOfLitIs
  <1> HIDE DEF l, r, f
  <1>5. CASE lt = kBool /\ rt = kBool
    <2>1. op \in {"AND", "OR", "EQ", "NEQ"}
      BY <1>5, Types DEF OperandsFit
    <2>2. lv \in {0, 1} /\ rv \in {0, 1}
      BY <1>5 DEF Known, InRange
    <2>3. f = Bool(FoldBool(op, lv, rv))
      BY <1>3, <1>5
    <2>4. w = Meaning(TRUE, IF (op = "AND" /\ lv = 0) \/ (op = "OR" /\ lv = 1) THEN Gives(lv)
                            ELSE Operate(op, lt, rt, lv, rv, TRUE))
      <3>1. l.constant = TRUE /\ r.constant = TRUE /\ l.value = Gives(lv) /\ r.value = Gives(rv)
        BY <1>4, <1>5, Types
      <3>2. l.value # Throws /\ r.value # Throws /\ l.value[1] = lv /\ r.value[1] = rv
        BY <3>1, GivesOrThrows
      <3>3. (l.value = Gives(0) <=> lv = 0) /\ (l.value = Gives(1) <=> lv = 1) /\ (r.value = Gives(0) <=> rv = 0)
        BY <3>1, GivesOrThrows
      <3>4. ConstantOperation(op, l, r) = TRUE
        BY <2>1, <3>1, <3>3 DEF ConstantOperation
      <3>5. w = Meaning(ConstantOperation(op, l, r),
                        IF (op = "AND" /\ l.value = Gives(0)) \/ (op = "OR" /\ l.value = Gives(1))
                        THEN l.value
                        ELSE Operate(op, lt, rt, l.value[1], r.value[1], ConstantOperation(op, l, r)))
        BY <3>1, <3>2 DEF MeaningOfBinary
      <3> HIDE DEF w
      <3> QED  BY <2>1, <3>1, <3>2, <3>3, <3>4, <3>5
    <2>5. Operate(op, lt, rt, lv, rv, TRUE) =
            IF op \in {"AND", "OR"} THEN Gives(rv) ELSE Gives(Operation(op, lv, rv))
      BY <1>5, <2>1, Types DEF Operate
    <2>6. FoldBool(op, lv, rv) \in BOOLEAN /\ w = Meaning(TRUE, Gives(Truth(FoldBool(op, lv, rv))))
      <3>1. CASE op = "AND"
        <4>1. FoldBool(op, lv, rv) = (lv = 1 /\ rv = 1)
          BY <3>1 DEF FoldBool
        <4> QED  BY <2>2, <2>4, <2>5, <3>1, <4>1 DEF Truth
      <3>2. CASE op = "OR"
        <4>1. FoldBool(op, lv, rv) = (lv = 1 \/ rv = 1)
          BY <3>2 DEF FoldBool
        <4> QED  BY <2>2, <2>4, <2>5, <3>2, <4>1 DEF Truth
      <3>3. CASE op = "EQ"
        <4>1. FoldBool(op, lv, rv) = (lv = rv) /\ Operation(op, lv, rv) = Truth(lv = rv)
          BY <3>3 DEF FoldBool, Operation
        <4> QED  BY <2>2, <2>4, <2>5, <3>3, <4>1
      <3>4. CASE op = "NEQ"
        <4>1. FoldBool(op, lv, rv) = (lv # rv) /\ Operation(op, lv, rv) = Truth(lv # rv)
          BY <3>4 DEF FoldBool, Operation
        <4> QED  BY <2>2, <2>4, <2>5, <3>4, <4>1
      <3> QED  BY <2>1, <3>1, <3>2, <3>3, <3>4
    <2>7. BinaryType(op, lt, rt) = kBool
      BY <2>1 DEF BinaryType
    <2> QED  BY <2>3, <2>6, <2>7, BoolIsConstant
  <1>6. CASE op = "ADD" /\ String \in {lt, rt}
    <2>1. ~(lt = kBool /\ rt = kBool) /\ IsNumericOp(op) /\ op \notin {"AND", "OR", "DIV", "MOD"}
      BY <1>6, Types DEF IsNumericOp
    <2> DEFINE x == IF lt = String THEN Reference(lv, "interned") ELSE lv
               y == IF rt = String THEN Reference(rv, "interned") ELSE rv
    <2>2. l.value = Gives(x) /\ r.value = Gives(y)
      BY <1>4
    <2>3. TextOf(lt, x) = Stringify(Lit(lt, lv))
      <3>1. CASE lt = String
        <4>1. IsReference(lt)
          BY <3>1, Types
        <4>2. Stringify(Lit(lt, lv)) = lv
          BY <3>1, StringText
        <4> QED  BY <3>1, <4>1, <4>2 DEF TextOf, Reference
      <3>2. CASE lt # String
        <4>1. ~IsReference(lt)
          BY <3>2, Types DEF Known
        <4> QED  BY <3>2, <4>1 DEF TextOf
      <3> QED  BY <3>1, <3>2
    <2>4. TextOf(rt, y) = Stringify(Lit(rt, rv))
      <3>1. CASE rt = String
        <4>1. IsReference(rt)
          BY <3>1, Types
        <4>2. Stringify(Lit(rt, rv)) = rv
          BY <3>1, StringText
        <4> QED  BY <3>1, <4>1, <4>2 DEF TextOf, Reference
      <3>2. CASE rt # String
        <4>1. ~IsReference(rt)
          BY <3>2, Types DEF Known
        <4> QED  BY <3>2, <4>1 DEF TextOf
      <3> QED  BY <3>1, <3>2
    <2> HIDE DEF x, y
    <2>5. w = Meaning(TRUE, Operate(op, lt, rt, x, y, TRUE))
      <3>1. l.constant = TRUE /\ r.constant = TRUE /\ l.value = Gives(x) /\ r.value = Gives(y)
        BY <1>4, <2>2
      <3>2. l.value # Throws /\ r.value # Throws /\ l.value[1] = x /\ r.value[1] = y
        BY <3>1, GivesOrThrows
      <3>3. (l.value = Gives(0) <=> x = 0) /\ (l.value = Gives(1) <=> x = 1) /\ (r.value = Gives(0) <=> y = 0)
        BY <3>1, GivesOrThrows
      <3>4. ConstantOperation(op, l, r) = TRUE
        BY <2>1, <3>1, <3>3 DEF ConstantOperation
      <3>5. w = Meaning(ConstantOperation(op, l, r),
                        IF (op = "AND" /\ l.value = Gives(0)) \/ (op = "OR" /\ l.value = Gives(1))
                        THEN l.value
                        ELSE Operate(op, lt, rt, l.value[1], r.value[1], ConstantOperation(op, l, r)))
        BY <3>1, <3>2 DEF MeaningOfBinary
      <3> HIDE DEF w
      <3> QED  BY <2>1, <3>1, <3>2, <3>3, <3>4, <3>5
    <2> DEFINE s == Stringify(Lit(lt, lv)) \o Stringify(Lit(rt, rv))
    <2>6. Operate(op, lt, rt, x, y, TRUE) = Gives(Reference(s, "interned"))
      BY <1>6, <2>3, <2>4 DEF Operate
    <2>7. f = Const(Lit(String, s))
      BY <1>3, <1>6, <2>1
    <2>8. BinaryType(op, lt, rt) = String
      BY <1>6 DEF BinaryType
    <2> HIDE DEF s
    <2> QED  BY <2>5, <2>6, <2>7, <2>8, StringIsConstant
  <1>7. CASE lt \in Numeric /\ rt \in Numeric
    <2>1. /\ op \in {"ADD", "SUB", "MUL", "DIV", "MOD", "LT", "LE", "GT", "GE", "EQ", "NEQ"}
          /\ lt # kBool /\ lt # String /\ rt # String
      BY <1>7, Types DEF OperandsFit
    <2>2. lv \in Int /\ rv \in Int
      BY <1>7, NumbersAreInts DEF Known
    <2>3. f = IF op \in {"DIV", "MOD"} /\ rv = 0 THEN e
              ELSE IF IsNumericOp(op) THEN Const(Lit(kInt, FoldInt(op, lv, rv)))
              ELSE Bool(FoldRelation(op, lv, rv))
      BY <1>3, <2>1
    <2> DEFINE known == ~(op \in {"DIV", "MOD"} /\ rv = 0)
    <2>4. w = Meaning(known, Operate(op, lt, rt, lv, rv, known))
      <3>1. l.constant = TRUE /\ r.constant = TRUE /\ l.value = Gives(lv) /\ r.value = Gives(rv)
        BY <1>4, <2>1
      <3>2. l.value # Throws /\ r.value # Throws /\ l.value[1] = lv /\ r.value[1] = rv
        BY <3>1, GivesOrThrows
      <3>3. (l.value = Gives(0) <=> lv = 0) /\ (l.value = Gives(1) <=> lv = 1) /\ (r.value = Gives(0) <=> rv = 0)
        BY <3>1, GivesOrThrows
      <3>4. ConstantOperation(op, l, r) = known
        BY <2>1, <3>1, <3>3 DEF ConstantOperation
      <3>5. w = Meaning(ConstantOperation(op, l, r),
                        IF (op = "AND" /\ l.value = Gives(0)) \/ (op = "OR" /\ l.value = Gives(1))
                        THEN l.value
                        ELSE Operate(op, lt, rt, l.value[1], r.value[1], ConstantOperation(op, l, r)))
        BY <3>1, <3>2 DEF MeaningOfBinary
      <3> HIDE DEF w
      <3> QED  BY <2>1, <3>1, <3>2, <3>3, <3>4, <3>5
    <2>5. Operate(op, lt, rt, lv, rv, known) =
            IF op \in {"DIV", "MOD"} /\ rv = 0 THEN Throws ELSE Gives(Operation(op, lv, rv))
      BY <1>7, <2>1, Types DEF Operate
    <2>6. CASE op \in {"DIV", "MOD"} /\ rv = 0
      <3>1. IsUnknown(w)
        <4>1. known = FALSE
          BY <2>6
        <4>2. \A c, v : Meaning(c, v).constant = c
          BY DEF Meaning
        <4> QED  BY <2>4, <4>1, <4>2 DEF IsUnknown
      <3> QED  BY <2>3, <2>6, <3>1
    <2>7. CASE IsNumericOp(op) /\ ~(op \in {"DIV", "MOD"} /\ rv = 0)
      <3>1. FoldInt(op, lv, rv) = Operation(op, lv, rv)
        <4>1. op \in {"ADD", "SUB", "MUL", "DIV", "MOD"}
          BY <2>7 DEF IsNumericOp
        <4> QED  BY <4>1 DEF FoldInt, Operation
      <3>2. InRange(kInt, FoldInt(op, lv, rv))
        <4>1. op \in {"DIV", "MOD"} => Quotient(lv, rv) \in Int
          <5> SUFFICES ASSUME op \in {"DIV", "MOD"} PROVE Quotient(lv, rv) \in Int
            OBVIOUS
          <5>1. Abs(lv) \in Nat /\ Abs(rv) \in Nat /\ Abs(rv) > 0
            BY <2>2, <2>7 DEF Abs
          <5>2. Abs(lv) \div Abs(rv) \in Int
            BY <5>1
          <5> QED  BY <5>2 DEF Quotient
        <4> DEFINE v == CASE op = "ADD" -> lv + rv
                          [] op = "SUB" -> lv - rv
                          [] op = "MUL" -> lv * rv
                          [] op = "DIV" -> Quotient(lv, rv)
                          [] op = "MOD" -> Remainder(lv, rv)
        <4>2. v \in Int
          <5>1. CASE op = "MOD"
            <6>1. rv * Quotient(lv, rv) \in Int
              BY <2>2, <4>1, <5>1
            <6> QED  BY <2>2, <5>1, <6>1 DEF Remainder
          <5>2. CASE op = "DIV"
            BY <4>1, <5>2
          <5>3. CASE op = "MUL"
            BY <2>2, <5>3
          <5>4. CASE op \in {"ADD", "SUB"}
            BY <2>2, <5>4
          <5> QED  BY <2>7, <5>1, <5>2, <5>3, <5>4 DEF IsNumericOp
        <4>3. FoldInt(op, lv, rv) = Narrow(v, kInt)
          BY DEF FoldInt
        <4> HIDE DEF v
        <4> QED  BY <4>2, <4>3, NarrowedInRange DEF Numeric
      <3>3. f = Const(Lit(kInt, FoldInt(op, lv, rv)))
        BY <2>3, <2>7
      <3>4. w = Meaning(TRUE, Gives(FoldInt(op, lv, rv)))
        BY <2>4, <2>5, <2>7, <3>1
      <3>5. BinaryType(op, lt, rt) = kInt
        BY <1>7, <2>7, Types DEF IsNumericOp, BinaryType
      <3> QED  BY <3>2, <3>3, <3>4, <3>5, NumberIsConstant DEF Numeric
    <2>8. CASE ~IsNumericOp(op)
      <3>1. op \in {"LT", "LE", "GT", "GE", "EQ", "NEQ"}
        BY <2>1, <2>8 DEF IsNumericOp
      <3>2. FoldRelation(op, lv, rv) \in BOOLEAN /\ Operation(op, lv, rv) = Truth(FoldRelation(op, lv, rv))
        <4>1. CASE op = "LT"
          BY <2>2, <4>1 DEF FoldRelation, Operation
        <4>2. CASE op = "LE"
          BY <2>2, <4>2 DEF FoldRelation, Operation
        <4>3. CASE op = "GT"
          BY <2>2, <4>3 DEF FoldRelation, Operation
        <4>4. CASE op = "GE"
          BY <2>2, <4>4 DEF FoldRelation, Operation
        <4>5. CASE op = "EQ"
          BY <4>5 DEF FoldRelation, Operation
        <4>6. CASE op = "NEQ"
          BY <4>6 DEF FoldRelation, Operation
        <4> QED  BY <3>1, <4>1, <4>2, <4>3, <4>4, <4>5, <4>6
      <3>3. f = Bool(FoldRelation(op, lv, rv))
        BY <2>3, <2>8, <3>1
      <3>4. w = Meaning(TRUE, Gives(Truth(FoldRelation(op, lv, rv))))
        BY <2>4, <2>5, <3>1, <3>2
      <3>5. BinaryType(op, lt, rt) = kBool
        BY <3>1 DEF BinaryType
      <3> QED  BY <3>2, <3>3, <3>4, <3>5, BoolIsConstant
    <2> QED  BY <2>6, <2>7, <2>8
  <1>8. CASE op \in {"EQ", "NEQ"} /\ IsReference(lt) /\ IsReference(rt)
    <2>1. lt = String /\ rt = String /\ lt # kBool
      BY <1>8, Types DEF Known
    <2> DEFINE x == Reference(lv, "interned")
               y == Reference(rv, "interned")
    <2>2. l.value = Gives(x) /\ r.value = Gives(y)
      BY <1>4, <2>1
    <2>3. (x = y <=> lv = rv) /\ x.object = "interned"
      BY DEF Reference
    <2> HIDE DEF x, y
    <2>4. w = Meaning(TRUE, Operate(op, lt, rt, x, y, TRUE))
      <3>1. l.constant = TRUE /\ r.constant = TRUE /\ l.value = Gives(x) /\ r.value = Gives(y)
        BY <1>4, <2>2
      <3>2. l.value # Throws /\ r.value # Throws /\ l.value[1] = x /\ r.value[1] = y
        BY <3>1, GivesOrThrows
      <3>3. (l.value = Gives(0) <=> x = 0) /\ (l.value = Gives(1) <=> x = 1) /\ (r.value = Gives(0) <=> y = 0)
        BY <3>1, GivesOrThrows
      <3>4. ConstantOperation(op, l, r) = TRUE
        BY <1>8, <3>1, <3>3 DEF ConstantOperation
      <3>5. w = Meaning(ConstantOperation(op, l, r),
                        IF (op = "AND" /\ l.value = Gives(0)) \/ (op = "OR" /\ l.value = Gives(1))
                        THEN l.value
                        ELSE Operate(op, lt, rt, l.value[1], r.value[1], ConstantOperation(op, l, r)))
        BY <3>1, <3>2 DEF MeaningOfBinary
      <3> HIDE DEF w
      <3> QED  BY <1>8, <3>1, <3>2, <3>3, <3>4, <3>5
    <2>5. Operate(op, lt, rt, x, y, TRUE) = Gives(Truth((lv = rv) = (op = "EQ")))
      BY <1>8, <2>3 DEF Operate
    <2>6. FoldRelation(op, lv, rv) = ((lv = rv) = (op = "EQ"))
      BY <1>8 DEF FoldRelation
    <2>7. f = Bool(FoldRelation(op, lv, rv))
      BY <1>3, <1>8, <2>1 DEF IsNumericOp
    <2>8. BinaryType(op, lt, rt) = kBool
      BY <1>8 DEF BinaryType
    <2>9. FoldRelation(op, lv, rv) \in BOOLEAN
      BY <2>6
    <2> QED  BY <2>4, <2>5, <2>6, <2>7, <2>8, <2>9, BoolIsConstant
  <1>9. \/ lt = kBool /\ rt = kBool
        \/ op = "ADD" /\ String \in {lt, rt}
        \/ lt \in Numeric /\ rt \in Numeric
        \/ op \in {"EQ", "NEQ"} /\ IsReference(lt) /\ IsReference(rt)
    BY Types DEF OperandsFit
  <1> QED  BY <1>5, <1>6, <1>7, <1>8, <1>9

-----------------------------------------------------------------------------
(***************************************************************************)
(* One visit: what becomes of an expression has its type, refers to what   *)
(* is there and means the same.                                            *)
(***************************************************************************)
ConstantTypes == Numeric \union {kBool, String}

\* What has become of expression i of the program.
RewrittenWell(i) ==
    /\ folded[i].tid = original[i].tid
    /\ OperandsBefore(folded[i], Rewritten(i))
    /\ IsConst(folded[i]) => \E v : /\ folded[i] = Const(Lit(original[i].tid, v))
                                    /\ original[i].tid \in ConstantTypes

\* How far the pass is, and the form of what it leaves.
FoldShape ==
    /\ IsSequence(original) /\ WellTypedProgram(original)
    /\ IsSequence(folded) /\ Len(folded) <= Len(original)
    /\ \A i \in 1..Len(folded) : RewrittenWell(i)

LEMMA ConstIs ==
    ASSUME NEW t, NEW v
    PROVE  /\ IsConst(Const(Lit(t, v))) /\ Const(Lit(t, v)).tid = t
           /\ Const(Lit(t, v)).constant = Lit(t, v)
           /\ Lit(t, v).tid = t /\ Lit(t, v).value = v
           /\ Const(Lit(t, v)).k = "const"
  BY DEF Const, Lit, IsConst

\* Expressions of a well-typed program by kind.
LEMMA Kinds ==
    ASSUME NEW p, NEW i, WellTyped(p, i)
    PROVE  LET e == p[i]
           IN  /\ e.k \in {"lit", "name", "unary", "cast", "binary"}
               /\ e.k = "lit" => e = Lit(e.tid, e.value) /\ LitFits(e)
               /\ e.k = "unary" =>
                    /\ e.e \in 1..(i - 1)
                    /\ \/ e.op = "SUB" /\ e.tid = kInt /\ IsNumeric(p[e.e].tid)
                       \/ e.op = "NOT" /\ e.tid = kBool /\ p[e.e].tid = kBool
               /\ e.k = "cast" => e.e \in 1..(i - 1) /\ e = Cast(e.tid, e.e) /\ CastAllowed(e.tid, p[e.e].tid)
               /\ e.k = "binary" =>
                    /\ e.l \in 1..(i - 1) /\ e.r \in 1..(i - 1)
                    /\ OperandsFit(e.op, p[e.l].tid, p[e.r].tid)
                    /\ e.tid = BinaryType(e.op, p[e.l].tid, p[e.r].tid)
                    /\ e = [k |-> "binary", op |-> e.op, l |-> e.l, r |-> e.r, tid |-> e.tid]
  <1> DEFINE e == p[i]
  <1>1. CASE e.k = "lit" /\ e = Lit(e.tid, e.value) /\ LitFits(e)
    BY <1>1
  <1>2. CASE e.k = "name" /\ e = Name(e.tid, e.vid)
    BY <1>2
  <1>3. CASE /\ e.k = "unary" /\ e.e \in 1..(i - 1)
             /\ \/ e = Unary("SUB", e.e) /\ IsNumeric(p[e.e].tid)
                \/ e = Unary("NOT", e.e) /\ p[e.e].tid = kBool
    <2>1. \A o : /\ Unary("SUB", o).op = "SUB" /\ Unary("SUB", o).tid = kInt
                 /\ Unary("NOT", o).op = "NOT" /\ Unary("NOT", o).tid = kBool
      BY DEF Unary
    <2> QED  BY <1>3, <2>1
  <1>4. CASE /\ e.k = "cast" /\ e.e \in 1..(i - 1)
             /\ e = Cast(e.tid, e.e) /\ CastAllowed(e.tid, p[e.e].tid)
    BY <1>4
  <1>5. CASE /\ e.k = "binary" /\ e.l \in 1..(i - 1) /\ e.r \in 1..(i - 1)
             /\ OperandsFit(e.op, p[e.l].tid, p[e.r].tid)
             /\ e = [k |-> "binary", op |-> e.op, l |-> e.l, r |-> e.r,
                     tid |-> BinaryType(e.op, p[e.l].tid, p[e.r].tid)]
    BY <1>5
  <1> QED  BY <1>1, <1>2, <1>3, <1>4, <1>5 DEF WellTyped

LEMMA RewriteIs ==
    ASSUME NEW e, NEW strs
    PROVE  /\ e.k = "lit" => Rewrite(e, strs) = LitExpr(e, strs)
           /\ e.k = "binary" => Rewrite(e, strs) = BinExpr(e, strs)
           /\ e.k = "unary" => Rewrite(e, strs) = UnaryExpr(e, strs)
           /\ e.k = "cast" => Rewrite(e, strs) = CastExpr(e, strs)
           /\ e.k = "name" => Rewrite(e, strs) = Done(e, strs)
  BY DEF Rewrite

\* Folding an operation, whatever the values of its operands.
LEMMA FoldBinaryShape ==
    ASSUME NEW e, NEW lt, NEW rt, NEW lv, NEW rv, NEW strs,
           OperandsFit(e.op, lt, rt), lt \in ConstantTypes, rt \in ConstantTypes
    PROVE  LET f == FoldBinary(e, Lit(lt, lv), Lit(rt, rv), strs).e
               t == BinaryType(e.op, lt, rt)
           IN  f = e \/ (t \in ConstantTypes /\ \E v : f = Const(Lit(t, v)))
  <1> DEFINE op == e.op
             f == FoldBinary(e, Lit(lt, lv), Lit(rt, rv), strs).e
             t == BinaryType(op, lt, rt)
             Goal == f = e \/ (t \in ConstantTypes /\ \E v : f = Const(Lit(t, v)))
  <1>0. SUFFICES Goal
    OBVIOUS
  <1>1. /\ Lit(lt, lv).tid = lt /\ Lit(lt, lv).value = lv
        /\ Lit(rt, rv).tid = rt /\ Lit(rt, rv).value = rv
    BY DEF Lit
  <1>2. /\ \A a, s : Done(a, s).e = a
        /\ \A s : FoldedString(s, strs).e = Const(Lit(String, s))
    BY DEF Done, FoldedString
  <1>3. f = IF lt = kBool /\ rt = kBool THEN Bool(FoldBool(op, lv, rv))
            ELSE IF IsNumericOp(op) /\ String \in {lt, rt}
            THEN Const(Lit(String, Stringify(Lit(lt, lv)) \o Stringify(Lit(rt, rv))))
            ELSE IF op \in {"DIV", "MOD"} /\ rv = 0 THEN e
            ELSE IF IsNumericOp(op) THEN Const(Lit(kInt, FoldInt(op, lv, rv)))
            ELSE Bool(FoldRelation(op, lv, rv))
    BY <1>1, <1>2 DEF FoldBinary
  <1> HIDE DEF f
  <1>4. \A b : \E v : Bool(b) = Const(Lit(kBool, v))
    BY DEF Bool
  <1>5. CASE lt = kBool /\ rt = kBool
    <2>1. op \in {"AND", "OR", "EQ", "NEQ", "BAND", "BOR", "XOR"}
      BY <1>5, Types DEF OperandsFit
    <2>2. t = kBool
      BY <2>1 DEF BinaryType
    <2>3. f = Bool(FoldBool(op, lv, rv))
      BY <1>3, <1>5
    <2> HIDE DEF t
    <2> QED  BY <1>4, <2>2, <2>3 DEF ConstantTypes
  <1>6. CASE ~(lt = kBool /\ rt = kBool) /\ IsNumericOp(op) /\ String \in {lt, rt}
    <2>1. op = "ADD"
      BY <1>6, Types DEF OperandsFit, IsNumericOp
    <2>2. t = String
      BY <1>6, <2>1 DEF BinaryType
    <2>3. f = Const(Lit(String, Stringify(Lit(lt, lv)) \o Stringify(Lit(rt, rv))))
      BY <1>3, <1>6
    <2> HIDE DEF t
    <2> QED  BY <2>2, <2>3 DEF ConstantTypes
  <1>7. CASE ~(lt = kBool /\ rt = kBool) /\ IsNumericOp(op) /\ String \notin {lt, rt}
    <2>1. t = kInt
      <3>1. op \in {"ADD", "SUB", "MUL", "DIV", "MOD"}
        BY <1>7 DEF IsNumericOp
      <3> QED  BY <1>7, <3>1 DEF BinaryType
    <2> HIDE DEF t
    <2>2. kInt \in ConstantTypes
      BY DEF ConstantTypes, Numeric
    <2>3. f = e \/ f = Const(Lit(kInt, FoldInt(op, lv, rv)))
      BY <1>3, <1>7
    <2> QED  BY <2>1, <2>2, <2>3
  <1>8. CASE ~(lt = kBool /\ rt = kBool) /\ ~IsNumericOp(op)
    <2>1. op \in {"LT", "LE", "GT", "GE", "EQ", "NEQ"}
      BY <1>8 DEF OperandsFit, IsNumericOp
    <2>2. t = kBool
      BY <2>1 DEF BinaryType
    <2> HIDE DEF t
    <2>3. f = Bool(FoldRelation(op, lv, rv))
      BY <1>3, <1>8, <2>1
    <2> QED  BY <1>4, <2>2, <2>3 DEF ConstantTypes
  <1> QED  BY <1>5, <1>6, <1>7, <1>8

\* What a visit may leave of expression i.
Shape(f, i) ==
    /\ f.tid = original[i].tid
    /\ OperandsBefore(f, Rewritten(i))
    /\ IsConst(f) => \E v : /\ f = Const(Lit(original[i].tid, v))
                            /\ original[i].tid \in ConstantTypes

LEMMA ConstShape ==
    ASSUME NEW i, NEW f, NEW v, f = Const(Lit(original[i].tid, v)), original[i].tid \in ConstantTypes
    PROVE  Shape(f, i)
  <1>1. f.tid = original[i].tid /\ f.k = "const"
    BY ConstIs
  <1> QED  BY <1>1 DEF Shape, OperandsBefore

LEMMA DoneIs ==
    /\ \A a, s : Done(a, s).e = a /\ Done(a, s).strings = s
    /\ \A t, s : FoldedString(t, s).e = Const(Lit(String, t)) /\ FoldedString(t, s).strings = AddString(s, t)
  BY DEF Done, FoldedString

LEMMA VisitLeavesShape ==
    ASSUME FoldShape, NEW strs, NEW i, i = Len(folded) + 1, i <= Len(original)
    PROVE  Shape(Rewrite(original[i], strs).e, i)
  <1> DEFINE n == Len(original)
             e == original[i]
             f == Rewrite(e, strs).e
  <1>1. /\ n \in Nat /\ Len(folded) \in Nat /\ i \in 1..n /\ WellTyped(original, i)
        /\ \A o \in 1..(i - 1) : RewrittenWell(o)
    BY DEF FoldShape, IsSequence, WellTypedProgram
  <1>2. /\ Rewritten(i) = n + i
        /\ \A o \in 1..(i - 1) : o \in 1..(Rewritten(i) - 1) /\ Rewritten(o) \in 1..(Rewritten(i) - 1)
    BY <1>1 DEF Rewritten
  <1>3. OperandsBefore(e, Rewritten(i)) /\ ~IsConst(e)
    BY <1>1, <1>2, Kinds DEF OperandsBefore, IsConst
  <1>4. Shape(e, i)
    BY <1>3 DEF Shape
  <1> HIDE DEF n, f
  <1>5. CASE e.k = "lit"
    <2>1. e = Lit(e.tid, e.value) /\ LitFits(e)
      BY <1>1, <1>5, Kinds
    <2>2. f = LitExpr(e, strs).e
      BY <1>5, RewriteIs DEF f
    <2>3. CASE e.tid = kNull
      <3>1. LitExpr(e, strs) = Done(e, strs)
        BY <2>3, Types DEF LitExpr
      <3>2. f = e
        BY <2>2, <3>1, DoneIs
      <3> QED  BY <1>4, <3>2 DEF f
    <2>4. CASE e.tid = String
      <3>1. f = Const(Lit(String, e.value))
        BY <2>2, <2>4, DoneIs, Types DEF LitExpr
      <3> QED  BY <2>4, <3>1, ConstShape DEF f, ConstantTypes
    <2>5. CASE e.tid # kNull /\ e.tid # String
      <3>1. f = Const(Lit(e.tid, e.value))
        BY <2>1, <2>2, <2>5, DoneIs DEF LitExpr
      <3>2. e.tid \in ConstantTypes
        BY <2>1, <2>5 DEF LitFits, ConstantTypes, Numeric
      <3> QED  BY <3>1, <3>2, ConstShape DEF f
    <2> QED  BY <2>3, <2>4, <2>5
  <1>6. CASE e.k = "name"
    <2>1. f = e
      BY <1>6, RewriteIs, DoneIs DEF f
    <2> QED  BY <1>4, <2>1 DEF f
  <1>7. CASE e.k = "unary"
    <2>1. /\ e.e \in 1..(i - 1)
          /\ \/ e.op = "SUB" /\ e.tid = kInt
             \/ e.op = "NOT" /\ e.tid = kBool
      BY <1>1, <1>7, Kinds
    <2> DEFINE rhs == folded[e.e]
    <2>2. f = IF ~IsConst(rhs) THEN e
              ELSE IF e.op = "SUB" THEN Const(Lit(kInt, Narrow(-rhs.constant.value, kInt)))
              ELSE Bool(rhs.constant.value = 0)
      BY <1>7, RewriteIs, DoneIs DEF f, UnaryExpr
    <2>3. f = e \/ \E v : f = Const(Lit(e.tid, v))
      BY <2>1, <2>2 DEF Bool
    <2>4. e.tid \in ConstantTypes
      BY <2>1 DEF ConstantTypes, Numeric
    <2> QED  BY <1>4, <2>3, <2>4, ConstShape DEF f
  <1>8. CASE e.k = "cast"
    <2>1. e.e \in 1..(i - 1) /\ e = Cast(e.tid, e.e) /\ CastAllowed(e.tid, original[e.e].tid)
      BY <1>1, <1>8, Kinds
    <2> DEFINE inner == folded[e.e]
               cast == [e EXCEPT !.e = Rewritten(e.e)]
    <2>2. Shape(cast, i)
      <3>1. cast.k = "cast" /\ cast.tid = e.tid /\ cast.e = Rewritten(e.e)
        BY <2>1 DEF Cast
      <3> HIDE DEF cast
      <3> QED  BY <1>2, <2>1, <3>1 DEF Shape, OperandsBefore, IsConst
    <2>3. f = IF ~IsConst(inner) THEN cast
              ELSE IF e.tid = inner.tid THEN inner
              ELSE IF IsPrimitive(e.tid) THEN Const(Lit(e.tid, FoldCast(e.tid, inner.constant.value)))
              ELSE cast
      BY <1>8, RewriteIs, DoneIs DEF f, CastExpr
    <2> HIDE DEF cast
    <2>4. CASE f = cast
      BY <2>2, <2>4 DEF f
    <2>5. CASE IsConst(inner) /\ e.tid = inner.tid
      <3>1. PICK v : inner = Const(Lit(original[e.e].tid, v)) /\ original[e.e].tid \in ConstantTypes
        BY <1>1, <2>1, <2>5 DEF RewrittenWell
      <3>2. inner.tid = original[e.e].tid
        BY <3>1, ConstIs
      <3>3. f = Const(Lit(e.tid, v)) /\ e.tid \in ConstantTypes
        BY <2>3, <2>5, <3>1, <3>2
      <3> QED  BY <3>3, ConstShape DEF f
    <2>6. CASE IsPrimitive(e.tid) /\ f = Const(Lit(e.tid, FoldCast(e.tid, inner.constant.value)))
      <3>1. e.tid \in ConstantTypes
        BY <2>6, Types DEF ConstantTypes
      <3> QED  BY <2>6, <3>1, ConstShape DEF f
    <2> QED  BY <2>3, <2>4, <2>5, <2>6
  <1>9. CASE e.k = "binary"
    <2>1. /\ e.l \in 1..(i - 1) /\ e.r \in 1..(i - 1)
          /\ OperandsFit(e.op, original[e.l].tid, original[e.r].tid)
          /\ e.tid = BinaryType(e.op, original[e.l].tid, original[e.r].tid)
          /\ e = [k |-> "binary", op |-> e.op, l |-> e.l, r |-> e.r, tid |-> e.tid]
      BY <1>1, <1>9, Kinds
    <2> DEFINE l == folded[e.l]
               r == folded[e.r]
               new == [e EXCEPT !.l = Rewritten(e.l), !.r = Rewritten(e.r)]
    <2>2. Shape(new, i)
      <3>1. new.k = "binary" /\ new.tid = e.tid /\ new.l = Rewritten(e.l) /\ new.r = Rewritten(e.r)
        BY <2>1
      <3> HIDE DEF new
      <3> QED  BY <1>2, <2>1, <3>1 DEF Shape, OperandsBefore, IsConst
    <2>3. f = IF IsConst(l) /\ IsConst(r) THEN FoldBinary(e, l.constant, r.constant, strs).e ELSE new
      <3>1. BinExpr(e, strs) = IF IsConst(l) /\ IsConst(r) THEN FoldBinary(e, l.constant, r.constant, strs)
                               ELSE Done(new, strs)
        BY DEF BinExpr
      <3>2. f = BinExpr(e, strs).e
        BY <1>9, RewriteIs DEF f
      <3> HIDE DEF l, r, new
      <3> QED  BY <3>1, <3>2, DoneIs
    <2> HIDE DEF new
    <2>4. CASE ~(IsConst(l) /\ IsConst(r))
      BY <2>2, <2>3, <2>4 DEF f
    <2>5. CASE IsConst(l) /\ IsConst(r)
      <3>1. PICK lv : l = Const(Lit(original[e.l].tid, lv)) /\ original[e.l].tid \in ConstantTypes
        BY <1>1, <2>1, <2>5 DEF RewrittenWell
      <3>2. PICK rv : r = Const(Lit(original[e.r].tid, rv)) /\ original[e.r].tid \in ConstantTypes
        BY <1>1, <2>1, <2>5 DEF RewrittenWell
      <3>3. l.constant = Lit(original[e.l].tid, lv) /\ r.constant = Lit(original[e.r].tid, rv)
        BY <3>1, <3>2, ConstIs
      <3>4. f = FoldBinary(e, Lit(original[e.l].tid, lv), Lit(original[e.r].tid, rv), strs).e
        BY <2>3, <2>5, <3>3
      <3>5. f = e \/ (e.tid \in ConstantTypes /\ \E v : f = Const(Lit(e.tid, v)))
        BY <2>1, <3>1, <3>2, <3>4, FoldBinaryShape
      <3> QED  BY <1>4, <3>5, ConstShape DEF f
    <2> QED  BY <2>4, <2>5
  <1> QED  BY <1>1, <1>5, <1>6, <1>7, <1>8, <1>9, Kinds

\* Expression j is rewritten rightly, m being the meanings of all expressions.
Agrees(m, j) ==
    /\ m[Rewritten(j)] = m[j]
    /\ \/ IsConstantOf(folded[j], original[j].tid, m[j])
       \/ ~IsConst(folded[j]) /\ IsUnknown(m[j])

\* What FoldsRight asks of expression i of p, m being the meanings.
RightAt(p, m, i) ==
    /\ p[i].k = "binary" /\ p[i].op \in {"BAND", "BOR", "XOR"}
         => ~(m[p[i].l].constant /\ m[p[i].r].constant)
    /\ p[i].k = "cast" /\ p[i].tid \in {kByte, kShort} /\ m[p[i].e].constant
         => FoldCast(p[i].tid, m[p[i].e].value[1]) = Narrow(m[p[i].e].value[1], p[i].tid)

LEMMA ConstMeans ==
    ASSUME NEW f, NEW t, NEW w, IsConstantOf(f, t, w), NEW p, NEW m, NEW env
    PROVE  MeaningOf(f, p, m, env) = w /\ IsKnown(w)
  <1>1. PICK v : f = Const(Lit(t, v)) /\ Known(t, v) /\ w = MeaningOfLit(t, v)
    BY DEF IsConstantOf
  <1>2. f.k = "const" /\ f.constant = Lit(t, v)
    BY <1>1, ConstIs
  <1>3. MeaningOf(f, p, m, env) = Meaning(TRUE, Gives(ValueOf(f.constant)))
    BY <1>2 DEF MeaningOf
  <1>4. \A c, u : Meaning(c, u).constant = c
    BY DEF Meaning
  <1> QED  BY <1>1, <1>2, <1>3, <1>4 DEF MeaningOfLit, IsKnown

LEMMA ConstantsOfMeaning ==
    /\ \A u : IsUnknown(Meaning(FALSE, u))
    /\ \A op, w : IsUnknown(w) => IsUnknown(MeaningOfUnary(op, w))
    /\ \A t, w : IsUnknown(w) => IsUnknown(MeaningOfCast(t, w))
    /\ \A op, lt, rt, l, r : IsUnknown(l) \/ IsUnknown(r) => IsUnknown(MeaningOfBinary(op, lt, rt, l, r))
  <1>1. \A c, u : Meaning(c, u).constant = c
    BY DEF Meaning
  <1>2. \A op, w : IsUnknown(w) => IsUnknown(MeaningOfUnary(op, w))
    BY <1>1 DEF MeaningOfUnary, IsUnknown
  <1>3. \A t, w : IsUnknown(w) => IsUnknown(MeaningOfCast(t, w))
    BY <1>1 DEF MeaningOfCast, IsUnknown
  <1>4. ASSUME NEW op, NEW lt, NEW rt, NEW l, NEW r, IsUnknown(l) \/ IsUnknown(r)
        PROVE  IsUnknown(MeaningOfBinary(op, lt, rt, l, r))
    <2>1. ConstantOperation(op, l, r) = FALSE
      BY <1>4 DEF ConstantOperation, IsUnknown
    <2>2. MeaningOfBinary(op, lt, rt, l, r).constant = ConstantOperation(op, l, r)
      BY <1>1 DEF MeaningOfBinary
    <2> QED  BY <2>1, <2>2 DEF IsUnknown
  <1> QED  BY <1>1, <1>2, <1>3, <1>4 DEF IsUnknown

\* A constant's meaning.
LEMMA KnownMeans ==
    ASSUME NEW t, NEW v, Known(t, v)
    PROVE  /\ IsKnown(MeaningOfLit(t, v))
           /\ MeaningOfLit(t, v).value # Throws
           /\ t # String => MeaningOfLit(t, v).value[1] = v
           /\ Gives(MeaningOfLit(t, v).value[1]) = MeaningOfLit(t, v).value
           /\ MeaningOfLit(t, v) = Meaning(TRUE, MeaningOfLit(t, v).value)
  <1>1. PICK u : MeaningOfLit(t, v).value = Gives(u) /\ (t # String => u = v)
    BY MeaningOfLitIs
  <1>2. IsKnown(MeaningOfLit(t, v))
    BY MeaningOfLitIs DEF IsKnown
  <1>3. MeaningOfLit(t, v) = Meaning(TRUE, MeaningOfLit(t, v).value)
    BY DEF MeaningOfLit, Meaning
  <1> QED  BY <1>1, <1>2, <1>3, GivesOrThrows

\* What an operand that has become a constant is.
LEMMA ConstOperand ==
    ASSUME NEW m, NEW o, Agrees(m, o), IsConst(folded[o])
    PROVE  \E v : /\ folded[o] = Const(Lit(original[o].tid, v))
                  /\ folded[o].constant = Lit(original[o].tid, v) /\ folded[o].constant.value = v
                  /\ folded[o].tid = original[o].tid
                  /\ Known(original[o].tid, v)
                  /\ m[o] = MeaningOfLit(original[o].tid, v)
                  /\ IsKnown(m[o])
                  /\ m[o].value # Throws
                  /\ original[o].tid # String => m[o].value[1] = v
  <1>1. PICK v : /\ folded[o] = Const(Lit(original[o].tid, v)) /\ Known(original[o].tid, v)
                 /\ m[o] = MeaningOfLit(original[o].tid, v)
    BY DEF Agrees, IsConstantOf
  <1>2. /\ folded[o].constant = Lit(original[o].tid, v) /\ folded[o].constant.value = v
        /\ folded[o].tid = original[o].tid
    BY <1>1, ConstIs
  <1> DEFINE t == original[o].tid
  <1>3. Known(t, v)
    BY <1>1
  <1>4. /\ IsKnown(MeaningOfLit(t, v))
        /\ MeaningOfLit(t, v).value # Throws
        /\ t # String => MeaningOfLit(t, v).value[1] = v
    BY <1>3, KnownMeans
  <1> QED  BY <1>1, <1>2, <1>4

\* What a visit may make of expression i, which means w: a constant of that meaning,
\* or no constant if it is not one of the language.
Outcome(f, i, w) ==
    \/ IsConstantOf(f, original[i].tid, w)
    \/ ~IsConst(f) /\ IsUnknown(w)

LEMMA VisitMeans ==
    ASSUME FoldShape, NEW strs, NEW i, i = Len(folded) + 1, i <= Len(original),
           NEW env, NEW p, NEW m,
           \A j \in 1..(i - 1) : p[j].tid = original[j].tid /\ p[Rewritten(j)].tid = original[j].tid,
           \A j \in 1..(i - 1) : Agrees(m, j),
           m[i] = MeaningOf(original[i], p, m, env),
           RightAt(original, m, i)
    PROVE  /\ MeaningOf(Rewrite(original[i], strs).e, p, m, env) = m[i]
           /\ Outcome(Rewrite(original[i], strs).e, i, m[i])
  <1> DEFINE n == Len(original)
             e == original[i]
             f == Rewrite(e, strs).e
             Goal == MeaningOf(f, p, m, env) = m[i] /\ Outcome(f, i, m[i])
  <1>0. SUFFICES Goal
    OBVIOUS
  <1>1. n \in Nat /\ Len(folded) \in Nat /\ i \in 1..n /\ WellTyped(original, i)
    BY DEF FoldShape, IsSequence, WellTypedProgram
  <1> HIDE DEF n, f
  <1>2. IsConstantOf(f, e.tid, m[i]) => Goal
    BY ConstMeans DEF Outcome
  <1>3. f = e /\ IsUnknown(m[i]) => Goal
    <2>1. ~IsConst(e)
      BY <1>1, Kinds DEF IsConst
    <2> QED  BY <2>1 DEF Outcome
  <1>5. CASE e.k = "lit"
    <2>1. e = Lit(e.tid, e.value) /\ LitFits(e)
      BY <1>1, <1>5, Kinds
    <2>2. f = LitExpr(e, strs).e
      BY <1>5, RewriteIs DEF f
    <2>3. m[i] = Meaning(e.tid # kNull, Gives(ValueOf(e)))
      BY <1>5 DEF MeaningOf
    <2>4. CASE e.tid = kNull
      <3>1. LitExpr(e, strs) = Done(e, strs)
        BY <2>4, Types DEF LitExpr
      <3>2. f = e
        BY <2>2, <3>1, DoneIs
      <3>3. IsUnknown(m[i])
        BY <2>3, <2>4, ConstantsOfMeaning
      <3> QED  BY <1>3, <3>2, <3>3
    <2>5. CASE e.tid # kNull
      <3>1. f = Const(Lit(e.tid, e.value))
        <4>1. CASE e.tid = String
          BY <2>2, <2>5, <4>1, DoneIs DEF LitExpr
        <4>2. CASE e.tid # String
          BY <2>1, <2>2, <2>5, <4>2, DoneIs DEF LitExpr
        <4> QED  BY <4>1, <4>2
      <3>2. Known(e.tid, e.value)
        BY <2>1, <2>5, Types DEF LitFits, Known, InRange, Half, Numeric
      <3>3. m[i] = MeaningOfLit(e.tid, e.value)
        <4>1. ValueOf(e) = ValueOf(Lit(e.tid, e.value))
          BY <2>1
        <4>2. (e.tid # kNull) = TRUE
          BY <2>5
        <4> QED  BY <2>3, <4>1, <4>2 DEF MeaningOfLit
      <3> QED  BY <1>2, <3>1, <3>2, <3>3 DEF IsConstantOf
    <2> QED  BY <2>4, <2>5
  <1>6. CASE e.k = "name"
    <2>1. f = e
      BY <1>6, RewriteIs, DoneIs DEF f
    <2>2. IsUnknown(m[i])
      BY <1>6, ConstantsOfMeaning DEF MeaningOf
    <2> QED  BY <1>3, <2>1, <2>2
  <1>7. CASE e.k = "unary"
    <2>1. /\ e.e \in 1..(i - 1)
          /\ \/ e.op = "SUB" /\ e.tid = kInt /\ IsNumeric(original[e.e].tid)
             \/ e.op = "NOT" /\ e.tid = kBool /\ original[e.e].tid = kBool
      BY <1>1, <1>7, Kinds
    <2> DEFINE rhs == folded[e.e]
    <2>2. f = IF ~IsConst(rhs) THEN e
              ELSE IF e.op = "SUB" THEN Const(Lit(kInt, Narrow(-rhs.constant.value, kInt)))
              ELSE Bool(rhs.constant.value = 0)
      BY <1>7, RewriteIs, DoneIs DEF f, UnaryExpr
    <2>3. m[i] = MeaningOfUnary(e.op, m[e.e])
      BY <1>7 DEF MeaningOf
    <2>4. Agrees(m, e.e)
      BY <2>1
    <2>5. CASE ~IsConst(rhs)
      <3>1. IsUnknown(m[e.e])
        BY <2>4, <2>5, ConstIs DEF Agrees, IsConstantOf
      <3> QED  BY <1>3, <2>2, <2>3, <2>5, <3>1, ConstantsOfMeaning
    <2>6. CASE IsConst(rhs)
      <3> DEFINE t == original[e.e].tid
      <3>1. PICK v : /\ rhs.constant.value = v /\ Known(t, v)
                     /\ IsKnown(m[e.e]) /\ m[e.e].value # Throws
                     /\ t # String => m[e.e].value[1] = v
        BY <2>4, <2>6, ConstOperand
      <3>2. CASE e.op = "SUB"
        <4>1. e.tid = kInt /\ t \in Numeric /\ t # String
          BY <2>1, <3>2, Types
        <4>2. v \in Int
          BY <3>1, <4>1, NumbersAreInts DEF Known
        <4>3. InRange(kInt, Narrow(-v, kInt))
          BY <4>2, NarrowedInRange DEF Numeric
        <4>4. m[i] = Meaning(TRUE, Gives(Narrow(-v, kInt)))
          BY <2>3, <3>1, <3>2, <4>1 DEF MeaningOfUnary, IsKnown
        <4>5. f = Const(Lit(kInt, Narrow(-v, kInt)))
          BY <2>2, <2>6, <3>1, <3>2
        <4> QED  BY <1>2, <4>1, <4>3, <4>4, <4>5, NumberIsConstant DEF Numeric
      <3>3. CASE e.op = "NOT"
        <4>1. e.tid = kBool /\ t = kBool /\ t # String
          BY <2>1, <3>3, Types
        <4>2. v \in {0, 1}
          BY <3>1, <4>1 DEF Known, InRange
        <4>3. Truth(v = 0) = 1 - v /\ (v = 0) \in BOOLEAN
          BY <4>2 DEF Truth
        <4>4. m[i] = Meaning(TRUE, Gives(Truth(v = 0)))
          BY <2>3, <3>1, <3>3, <4>1, <4>3 DEF MeaningOfUnary, IsKnown
        <4>5. f = Bool(v = 0)
          BY <2>2, <2>6, <3>1, <3>3
        <4> QED  BY <1>2, <4>1, <4>3, <4>4, <4>5, BoolIsConstant
      <3> QED  BY <2>1, <3>2, <3>3
    <2> QED  BY <2>5, <2>6
  <1>8. CASE e.k = "cast"
    <2>1. e.e \in 1..(i - 1) /\ e = Cast(e.tid, e.e) /\ CastAllowed(e.tid, original[e.e].tid)
      BY <1>1, <1>8, Kinds
    <2> DEFINE inner == folded[e.e]
               cast == [e EXCEPT !.e = Rewritten(e.e)]
               t == original[e.e].tid
    <2>2. f = IF ~IsConst(inner) THEN cast
              ELSE IF e.tid = inner.tid THEN inner
              ELSE IF IsPrimitive(e.tid) THEN Const(Lit(e.tid, FoldCast(e.tid, inner.constant.value)))
              ELSE cast
      <3>1. CastExpr(e, strs) = IF ~IsConst(inner) THEN Done(cast, strs)
              ELSE IF e.tid = inner.tid THEN Done(inner, strs)
              ELSE IF IsPrimitive(e.tid)
              THEN Done(Const(Lit(e.tid, FoldCast(e.tid, inner.constant.value))), strs)
              ELSE Done(cast, strs)
        BY DEF CastExpr
      <3>2. f = CastExpr(e, strs).e
        BY <1>8, RewriteIs DEF f
      <3> HIDE DEF inner, cast
      <3> QED  BY <3>1, <3>2, DoneIs
    <2>3. m[i] = MeaningOfCast(e.tid, m[e.e])
      BY <1>8 DEF MeaningOf
    <2>4. Agrees(m, e.e)
      BY <2>1
    <2>5. f = cast /\ IsUnknown(m[i]) => Goal
      <3>1. cast.k = "cast" /\ cast.tid = e.tid /\ cast.e = Rewritten(e.e)
        BY <2>1 DEF Cast
      <3> HIDE DEF cast
      <3>2. MeaningOf(cast, p, m, env) = MeaningOfCast(e.tid, m[Rewritten(e.e)])
        BY <3>1 DEF MeaningOf
      <3>3. m[Rewritten(e.e)] = m[e.e]
        BY <2>4 DEF Agrees
      <3> QED  BY <2>3, <3>1, <3>2, <3>3 DEF Outcome, IsConst
    <2> HIDE DEF cast
    <2>6. CASE ~IsConst(inner)
      <3>1. IsUnknown(m[e.e])
        BY <2>4, <2>6, ConstIs DEF Agrees, IsConstantOf
      <3> QED  BY <2>2, <2>3, <2>5, <2>6, <3>1, ConstantsOfMeaning
    <2>7. CASE IsConst(inner)
      <3>1. PICK v : /\ inner = Const(Lit(t, v)) /\ inner.constant.value = v /\ inner.tid = t /\ Known(t, v)
                     /\ m[e.e] = MeaningOfLit(t, v)
                     /\ IsKnown(m[e.e]) /\ m[e.e].value # Throws
                     /\ t # String => m[e.e].value[1] = v
        BY <2>4, <2>7, ConstOperand
      <3>2. m[i] = Meaning(TRUE /\ (IsPrimitive(e.tid) \/ e.tid = String), Gives(Narrow(m[e.e].value[1], e.tid)))
        BY <2>3, <3>1 DEF MeaningOfCast, IsKnown
      <3>3. CASE e.tid = t
        <4>1. f = inner
          BY <2>2, <2>7, <3>1, <3>3
        <4>2. IsPrimitive(e.tid) \/ e.tid = String
          BY <3>1, <3>3, Types DEF Known
        <4>3. Gives(m[e.e].value[1]) = m[e.e].value
          <5>1. Known(t, v)
            BY <3>1
          <5>2. Gives(MeaningOfLit(t, v).value[1]) = MeaningOfLit(t, v).value
            BY <5>1, KnownMeans
          <5> QED  BY <3>1, <5>2
        <4>4. Narrow(m[e.e].value[1], e.tid) = m[e.e].value[1]
          <5>1. CASE t # String
            BY <3>1, <3>3, <5>1, NarrowKeeps DEF Known
          <5>2. CASE t = String
            <6>1. e.tid \notin Numeric
              BY <3>3, <5>2, Types
            <6> QED  BY <6>1 DEF Narrow, Numeric
          <5> QED  BY <5>1, <5>2
        <4>5. m[i] = Meaning(TRUE, m[e.e].value)
          <5>1. (TRUE /\ (IsPrimitive(e.tid) \/ e.tid = String)) = TRUE
            BY <4>2
          <5> QED  BY <3>2, <4>3, <4>4, <5>1
        <4>6. m[e.e] = Meaning(TRUE, m[e.e].value)
          <5>1. Known(t, v)
            BY <3>1
          <5>2. MeaningOfLit(t, v) = Meaning(TRUE, MeaningOfLit(t, v).value)
            BY <5>1, KnownMeans
          <5> QED  BY <3>1, <5>2
        <4>7. IsConstantOf(f, e.tid, m[i])
          BY <3>1, <3>3, <4>1, <4>5, <4>6 DEF IsConstantOf
        <4> QED  BY <1>2, <4>7
      <3>4. CASE e.tid # t /\ IsPrimitive(e.tid)
        <4>1. e.tid \in Numeric /\ t \in Numeric /\ t # String
          BY <2>1, <3>4, Types DEF CastAllowed
        <4>2. v \in Int /\ v \in -Half(4)..(Half(4) - 1)
          BY <3>1, <4>1, NumbersAreInts DEF Known
        <4>3. m[e.e].value[1] = v
          BY <3>1, <4>1
        <4>4. FoldCast(e.tid, v) = Narrow(v, e.tid)
          <5>1. CASE e.tid \in {kByte, kShort}
            BY <1>8, <3>1, <4>3, <5>1 DEF RightAt, IsKnown
          <5>2. CASE e.tid = kInt
            <6>1. FoldCast(kInt, v) = v
              BY Types DEF FoldCast
            <6>2. Signed(v, 4) = v
              BY <4>2, SignedIsSmall
            <6>3. Narrow(v, kInt) = Signed(v, 4)
              BY <4>2, NarrowIs
            <6> QED  BY <5>2, <6>1, <6>2, <6>3
          <5>3. CASE e.tid = kChar
            <6>1. FoldCast(kChar, v) = v % Modulus(2)
              BY Types DEF FoldCast
            <6> QED  BY <4>2, <5>3, <6>1, NarrowIs
          <5> QED  BY <4>1, <5>1, <5>2, <5>3 DEF Numeric
        <4>5. InRange(e.tid, FoldCast(e.tid, v))
          BY <4>1, <4>2, <4>4, NarrowedInRange
        <4>6. f = Const(Lit(e.tid, FoldCast(e.tid, v)))
          BY <2>2, <2>7, <3>1, <3>4
        <4>7. m[i] = Meaning(TRUE, Gives(FoldCast(e.tid, v)))
          <5>1. (TRUE /\ (IsPrimitive(e.tid) \/ e.tid = String)) = TRUE
            BY <3>4
          <5> QED  BY <3>2, <4>3, <4>4, <5>1
        <4> QED  BY <1>2, <4>1, <4>5, <4>6, <4>7, NumberIsConstant
      <3>5. CASE e.tid # t /\ ~IsPrimitive(e.tid)
        <4>1. e.tid # String
          BY <2>1, <3>1, <3>5, Types DEF CastAllowed, Known
        <4>2. IsUnknown(m[i])
          BY <3>2, <3>5, <4>1, ConstantsOfMeaning
        <4>3. f = cast
          BY <2>2, <2>7, <3>1, <3>5
        <4> QED  BY <2>5, <4>2, <4>3
      <3> QED  BY <3>3, <3>4, <3>5
    <2> QED  BY <2>6, <2>7
  <1>9. CASE e.k = "binary"
    <2>1. /\ e.l \in 1..(i - 1) /\ e.r \in 1..(i - 1)
          /\ OperandsFit(e.op, original[e.l].tid, original[e.r].tid)
          /\ e.tid = BinaryType(e.op, original[e.l].tid, original[e.r].tid)
          /\ e = [k |-> "binary", op |-> e.op, l |-> e.l, r |-> e.r, tid |-> e.tid]
      BY <1>1, <1>9, Kinds
    <2> DEFINE l == folded[e.l]
               r == folded[e.r]
               lt == original[e.l].tid
               rt == original[e.r].tid
               new == [e EXCEPT !.l = Rewritten(e.l), !.r = Rewritten(e.r)]
    <2>2. f = IF IsConst(l) /\ IsConst(r) THEN FoldBinary(e, l.constant, r.constant, strs).e ELSE new
      <3>1. BinExpr(e, strs) = IF IsConst(l) /\ IsConst(r) THEN FoldBinary(e, l.constant, r.constant, strs)
                               ELSE Done(new, strs)
        BY DEF BinExpr
      <3>2. f = BinExpr(e, strs).e
        BY <1>9, RewriteIs DEF f
      <3> HIDE DEF l, r, new
      <3> QED  BY <3>1, <3>2, DoneIs
    <2>3. m[i] = MeaningOfBinary(e.op, lt, rt, m[e.l], m[e.r])
      <3>1. p[e.l].tid = lt /\ p[e.r].tid = rt
        BY <2>1
      <3> QED  BY <1>9, <3>1 DEF MeaningOf
    <2>4. Agrees(m, e.l) /\ Agrees(m, e.r)
      BY <2>1
    <2>5. CASE ~(IsConst(l) /\ IsConst(r))
      <3>1. IsUnknown(m[e.l]) \/ IsUnknown(m[e.r])
        BY <2>4, <2>5, ConstIs DEF Agrees, IsConstantOf
      <3>2. IsUnknown(m[i])
        BY <2>3, <3>1, ConstantsOfMeaning
      <3>3. /\ new.k = "binary" /\ new.op = e.op
            /\ new.l = Rewritten(e.l) /\ new.r = Rewritten(e.r)
        BY <2>1
      <3> HIDE DEF new
      <3>4. MeaningOf(new, p, m, env)
              = MeaningOfBinary(e.op, p[Rewritten(e.l)].tid, p[Rewritten(e.r)].tid, m[Rewritten(e.l)], m[Rewritten(e.r)])
        BY <3>3 DEF MeaningOf
      <3>5. p[Rewritten(e.l)].tid = lt /\ p[Rewritten(e.r)].tid = rt
        BY <2>1
      <3>6. m[Rewritten(e.l)] = m[e.l] /\ m[Rewritten(e.r)] = m[e.r]
        BY <2>4 DEF Agrees
      <3>7. f = new
        BY <2>2, <2>5
      <3> QED  BY <2>3, <3>2, <3>3, <3>4, <3>5, <3>6, <3>7 DEF Outcome, IsConst
    <2>6. CASE IsConst(l) /\ IsConst(r)
      <3>1. PICK lv : l.constant = Lit(lt, lv) /\ Known(lt, lv) /\ m[e.l] = MeaningOfLit(lt, lv) /\ IsKnown(m[e.l])
        BY <2>4, <2>6, ConstOperand
      <3>2. PICK rv : r.constant = Lit(rt, rv) /\ Known(rt, rv) /\ m[e.r] = MeaningOfLit(rt, rv) /\ IsKnown(m[e.r])
        BY <2>4, <2>6, ConstOperand
      <3>3. e.op \notin {"BAND", "BOR", "XOR"}
        BY <1>9, <3>1, <3>2 DEF RightAt, IsKnown
      <3>4. f = FoldBinary(e, Lit(lt, lv), Lit(rt, rv), strs).e
        BY <2>2, <2>6, <3>1, <3>2
      <3>5. m[i] = MeaningOfBinary(e.op, lt, rt, MeaningOfLit(lt, lv), MeaningOfLit(rt, rv))
        BY <2>3, <3>1, <3>2
      <3>6. (f = e /\ IsUnknown(m[i])) \/ IsConstantOf(f, BinaryType(e.op, lt, rt), m[i])
        <4> HIDE DEF lt, rt
        <4> QED  BY <2>1, <3>1, <3>2, <3>3, <3>4, <3>5, BinaryFolds DEF lt, rt
      <3> QED  BY <1>2, <1>3, <2>1, <3>6
    <2> QED  BY <2>5, <2>6
  <1> QED  BY <1>1, <1>5, <1>6, <1>7, <1>8, <1>9, Kinds

-----------------------------------------------------------------------------
(***************************************************************************)
(* Every string of the program has one id.                                 *)
(***************************************************************************)
LEMMA AddStringAdds ==
    ASSUME NEW strs, IsSequence(strs), IsInjective(strs), NEW s
    PROVE  LET new == AddString(strs, s)
           IN  /\ IsSequence(new) /\ IsInjective(new) /\ Contains(new, s)
               /\ \A c : Contains(strs, c) => Contains(new, c)
  <1> DEFINE new == AddString(strs, s)
             Goal == /\ IsSequence(new) /\ IsInjective(new) /\ Contains(new, s)
                     /\ \A c : Contains(strs, c) => Contains(new, c)
  <1> SUFFICES Goal
    OBVIOUS
  <1>1. CASE Contains(strs, s)
    <2>1. new = strs
      BY <1>1 DEF AddString
    <2> QED  BY <1>1, <2>1
  <1>2. CASE ~Contains(strs, s)
    <2>1. new = Append(strs, s)
      BY <1>2 DEF AddString
    <2> HIDE DEF new
    <2>2. /\ IsSequence(new) /\ Len(new) = Len(strs) + 1
          /\ \A k \in 1..Len(strs) : new[k] = strs[k]
          /\ new[Len(strs) + 1] = s
      BY <2>1, AppendIsSequence
    <2>3. Len(strs) \in Nat /\ DOMAIN strs = 1..Len(strs) /\ DOMAIN new = 1..(Len(strs) + 1)
      BY <2>2 DEF IsSequence
    <2>4. \A k \in 1..Len(strs) : strs[k] # s
      BY <1>2 DEF Contains
    <2>5. IsInjective(new)
      <3>1. ASSUME NEW a \in DOMAIN new, NEW b \in DOMAIN new, new[a] = new[b] PROVE a = b
        <4>1. CASE a \in 1..Len(strs) /\ b \in 1..Len(strs)
          BY <2>2, <2>3, <3>1, <4>1 DEF IsInjective
        <4>2. CASE a \in 1..Len(strs) /\ b = Len(strs) + 1
          BY <2>2, <2>4, <3>1, <4>2
        <4>3. CASE a = Len(strs) + 1 /\ b \in 1..Len(strs)
          BY <2>2, <2>4, <3>1, <4>3
        <4>4. CASE a = Len(strs) + 1 /\ b = Len(strs) + 1
          BY <4>4
        <4> QED  BY <2>3, <4>1, <4>2, <4>3, <4>4
      <3> QED  BY <3>1 DEF IsInjective
    <2>6. Contains(new, s)
      BY <2>2, <2>3 DEF Contains
    <2>7. \A c : Contains(strs, c) => Contains(new, c)
      BY <2>2, <2>3 DEF Contains
    <2> QED  BY <2>2, <2>5, <2>6, <2>7
  <1> QED  BY <1>1, <1>2

\* What a visit may leave: the new expression f and the new strings strs.
Listed(f, strs, i) ==
    /\ IsSequence(strs) /\ IsInjective(strs)
    /\ \A s : Contains(strings, s) => Contains(strs, s)
    /\ original[i].k = "lit" /\ original[i].tid = String => Contains(strs, original[i].value)
    /\ f.k = "lit" => f = original[i]
    /\ IsConst(f) /\ f.constant.tid = String => Contains(strs, f.constant.value)

LEMMA Unlisted ==
    ASSUME IsSequence(strings), IsInjective(strings), NEW i, NEW f,
           ~(original[i].k = "lit" /\ original[i].tid = String),
           f.k = "lit" => f = original[i],
           IsConst(f) => f.constant.tid # String
    PROVE  Listed(f, strings, i)
  BY DEF Listed

LEMMA AddedIsListed ==
    ASSUME IsSequence(strings), IsInjective(strings), NEW i, NEW s,
           original[i].k = "lit" => original[i].value = s
    PROVE  Listed(Const(Lit(String, s)), AddString(strings, s), i)
  <1> DEFINE f == Const(Lit(String, s))
             strs == AddString(strings, s)
  <1>1. /\ IsSequence(strs) /\ IsInjective(strs) /\ Contains(strs, s)
        /\ \A c : Contains(strings, c) => Contains(strs, c)
    BY AddStringAdds
  <1>2. f.k = "const" /\ f.constant.value = s
    BY ConstIs
  <1> HIDE DEF f, strs
  <1>3. Listed(f, strs, i)
    BY <1>1, <1>2 DEF Listed
  <1> QED  BY <1>3 DEF f, strs

LEMMA VisitLists ==
    ASSUME FoldShape, IsSequence(strings), StringsHaveIds,
           NEW i, i = Len(folded) + 1, i <= Len(original)
    PROVE  Listed(Rewrite(original[i], strings).e, Rewrite(original[i], strings).strings, i)
  <1> DEFINE e == original[i]
             f == Rewrite(e, strings).e
             strs == Rewrite(e, strings).strings
  <1>1. /\ Len(original) \in Nat /\ Len(folded) \in Nat /\ i \in 1..Len(original)
        /\ WellTyped(original, i) /\ DOMAIN folded = 1..(i - 1)
        /\ \A o \in 1..(i - 1) : RewrittenWell(o)
    BY DEF FoldShape, IsSequence, WellTypedProgram
  <1>2. IsInjective(strings)
    BY DEF StringsHaveIds
  <1> HIDE DEF f, strs
  <1>3. ASSUME f = e, strs = strings, ~(e.k = "lit" /\ e.tid = String) PROVE Listed(f, strs, i)
    <2>1. ~IsConst(e)
      BY <1>1, Kinds DEF IsConst
    <2>2. Listed(e, strings, i)
      BY <1>2, <1>3, <2>1, Unlisted
    <2> QED  BY <1>3, <2>2
  <1>4. ASSUME NEW t, NEW v, f = Const(Lit(t, v)), strs = strings, t # String, ~(e.k = "lit" /\ e.tid = String)
        PROVE  Listed(f, strs, i)
    <2>1. f.k = "const" /\ f.constant.tid = t
      BY <1>4, ConstIs
    <2>2. f.k # "lit"
      BY <2>1
    <2> QED  BY <1>2, <1>4, <2>1, <2>2, Unlisted
  <1>5. CASE e.k = "lit"
    <2>1. e = Lit(e.tid, e.value) /\ LitFits(e)
      BY <1>1, <1>5, Kinds
    <2>2. f = LitExpr(e, strings).e /\ strs = LitExpr(e, strings).strings
      BY <1>5, RewriteIs DEF f, strs
    <2>3. CASE e.tid = kNull
      <3>1. LitExpr(e, strings) = Done(e, strings)
        BY <2>3, Types DEF LitExpr
      <3> QED  BY <1>3, <2>2, <2>3, <3>1, DoneIs, Types DEF f, strs
    <2>4. CASE e.tid = String
      <3>1. LitExpr(e, strings) = FoldedString(e.value, strings)
        BY <2>4, Types DEF LitExpr
      <3>2. f = Const(Lit(String, e.value)) /\ strs = AddString(strings, e.value)
        BY <2>2, <3>1, DoneIs
      <3> QED  BY <1>2, <3>2, AddedIsListed DEF f, strs
    <2>5. CASE e.tid # kNull /\ e.tid # String
      <3>1. LitExpr(e, strings) = Done(Const(e), strings)
        BY <2>5 DEF LitExpr
      <3>2. f = Const(Lit(e.tid, e.value)) /\ strs = strings
        BY <2>1, <2>2, <3>1, DoneIs
      <3> QED  BY <1>4, <2>5, <3>2 DEF f, strs
    <2> QED  BY <2>3, <2>4, <2>5
  <1>6. CASE e.k = "name"
    <2>1. f = e /\ strs = strings
      BY <1>6, RewriteIs, DoneIs DEF f, strs
    <2> QED  BY <1>3, <1>6, <2>1 DEF f, strs
  <1>7. CASE e.k = "unary"
    <2> DEFINE rhs == folded[e.e]
    <2>1. UnaryExpr(e, strings) =
            IF ~IsConst(rhs) THEN Done(e, strings)
            ELSE IF e.op = "SUB" THEN Done(Const(Lit(kInt, Narrow(-rhs.constant.value, kInt))), strings)
            ELSE Done(Bool(rhs.constant.value = 0), strings)
      BY DEF UnaryExpr
    <2>2. f = UnaryExpr(e, strings).e /\ strs = UnaryExpr(e, strings).strings
      BY <1>7, RewriteIs DEF f, strs
    <2> HIDE DEF rhs
    <2>3. /\ strs = strings
          /\ \/ f = e
             \/ \E t \in {kInt, kBool} : \E v : f = Const(Lit(t, v))
      <3>1. \/ UnaryExpr(e, strings) = Done(e, strings)
            \/ \E t \in {kInt, kBool} : \E v : UnaryExpr(e, strings) = Done(Const(Lit(t, v)), strings)
        BY <2>1 DEF Bool
      <3> QED  BY <2>2, <3>1, DoneIs
    <2>4. kInt # String /\ kBool # String
      BY Types DEF Numeric
    <2> QED  BY <1>3, <1>4, <1>7, <2>3, <2>4 DEF f, strs
  <1>8. CASE e.k = "cast"
    <2>1. e.e \in 1..(i - 1) /\ e = Cast(e.tid, e.e)
      BY <1>1, <1>8, Kinds
    <2> DEFINE inner == folded[e.e]
               cast == [e EXCEPT !.e = Rewritten(e.e)]
    <2>2. CastExpr(e, strings) =
            IF ~IsConst(inner) THEN Done(cast, strings)
            ELSE IF e.tid = inner.tid THEN Done(inner, strings)
            ELSE IF IsPrimitive(e.tid)
            THEN Done(Const(Lit(e.tid, FoldCast(e.tid, inner.constant.value))), strings)
            ELSE Done(cast, strings)
      BY DEF CastExpr
    <2>3. f = CastExpr(e, strings).e /\ strs = CastExpr(e, strings).strings
      BY <1>8, RewriteIs DEF f, strs
    <2>4. cast.k = "cast"
      BY <2>1 DEF Cast
    <2>5. HasId(inner.constant) \/ ~IsConst(inner)
      BY <1>1, <2>1 DEF StringsHaveIds
    <2> HIDE DEF inner, cast
    <2>6. CASE f = cast /\ strs = strings
      <3>1. ~IsConst(f) /\ f.k # "lit"
        BY <2>4, <2>6 DEF IsConst
      <3> QED  BY <1>2, <1>8, <2>6, <3>1, Unlisted DEF f, strs
    <2>7. CASE IsConst(inner) /\ f = inner /\ strs = strings
      <3>1. f.k = "const"
        BY <2>7 DEF IsConst
      <3>2. f.constant.tid = String => Contains(strings, f.constant.value)
        BY <2>5, <2>7 DEF HasId
      <3>3. Listed(f, strings, i)
        BY <1>2, <1>8, <3>1, <3>2 DEF Listed
      <3> QED  BY <2>7, <3>3 DEF f, strs
    <2>8. CASE /\ f = Const(Lit(e.tid, FoldCast(e.tid, inner.constant.value)))
               /\ strs = strings /\ IsPrimitive(e.tid)
      <3>1. e.tid # String
        BY <2>8, Types
      <3> QED  BY <1>4, <1>8, <2>8, <3>1 DEF f, strs
    <2> QED  BY <2>2, <2>3, <2>6, <2>7, <2>8, DoneIs
  <1>9. CASE e.k = "binary"
    <2>1. e = [k |-> "binary", op |-> e.op, l |-> e.l, r |-> e.r, tid |-> e.tid]
      BY <1>1, <1>9, Kinds
    <2> DEFINE l == folded[e.l]
               r == folded[e.r]
               new == [e EXCEPT !.l = Rewritten(e.l), !.r = Rewritten(e.r)]
    <2>2. BinExpr(e, strings) = IF IsConst(l) /\ IsConst(r) THEN FoldBinary(e, l.constant, r.constant, strings)
                                ELSE Done(new, strings)
      BY DEF BinExpr
    <2>3. f = BinExpr(e, strings).e /\ strs = BinExpr(e, strings).strings
      BY <1>9, RewriteIs DEF f, strs
    <2>4. new.k = "binary"
      BY <2>1
    <2> HIDE DEF l, r, new
    <2>5. CASE f = new /\ strs = strings
      <3>1. ~IsConst(f) /\ f.k # "lit"
        BY <2>4, <2>5 DEF IsConst
      <3> QED  BY <1>2, <1>9, <2>5, <3>1, Unlisted DEF f, strs
    <2>6. CASE f = FoldBinary(e, l.constant, r.constant, strings).e
                 /\ strs = FoldBinary(e, l.constant, r.constant, strings).strings
      <3>1. \/ f = e /\ strs = strings
            \/ (\E t \in {kInt, kBool} : \E v : f = Const(Lit(t, v))) /\ strs = strings
            \/ \E s : f = Const(Lit(String, s)) /\ strs = AddString(strings, s)
        <4> DEFINE whole == FoldBinary(e, l.constant, r.constant, strings)
        <4>1. \/ whole = Done(e, strings)
              \/ \E t \in {kInt, kBool} : \E v : whole = Done(Const(Lit(t, v)), strings)
              \/ \E s : whole = FoldedString(s, strings)
          BY DEF FoldBinary, Bool
        <4>2. f = whole.e /\ strs = whole.strings
          BY <2>6
        <4> HIDE DEF whole
        <4> QED  BY <4>1, <4>2, DoneIs
      <3>2. CASE \E s : f = Const(Lit(String, s)) /\ strs = AddString(strings, s)
        BY <1>2, <1>9, <3>2, AddedIsListed DEF f, strs
      <3>3. kInt # String /\ kBool # String
        BY Types DEF Numeric
      <3> QED  BY <1>3, <1>4, <1>9, <3>1, <3>2, <3>3 DEF f, strs
    <2> QED  BY <2>2, <2>3, <2>5, <2>6, DoneIs
  <1> QED  BY <1>1, <1>5, <1>6, <1>7, <1>8, <1>9, Kinds

-----------------------------------------------------------------------------
(***************************************************************************)
(* The invariant of folding.                                               *)
(***************************************************************************)

\* A program followed by what became of it.
LEMMA NodesAre ==
    ASSUME NEW p, IsSequence(p), WellTypedProgram(p), NEW f, IsSequence(f), Len(f) <= Len(p),
           \A i \in 1..Len(f) : OperandsBefore(f[i], Len(p) + i)
    PROVE  /\ WellOrdered(p) /\ WellOrdered(p \o f)
           /\ Len(p) \in Nat /\ Len(f) \in Nat /\ Len(p \o f) = Len(p) + Len(f)
           /\ \A i \in 1..Len(p) : (p \o f)[i] = p[i]
           /\ \A i \in 1..Len(f) : (p \o f)[Len(p) + i] = f[i]
  <1> DEFINE q == p \o f
  <1>1. /\ IsSequence(q) /\ Len(q) = Len(p) + Len(f)
        /\ \A i \in 1..Len(p) : q[i] = p[i]
        /\ \A i \in 1..Len(f) : q[Len(p) + i] = f[i]
    BY ConcatIsSequence
  <1>2. Len(p) \in Nat /\ Len(f) \in Nat
    BY DEF IsSequence
  <1> HIDE DEF q
  <1>3. ASSUME NEW i \in 1..Len(p) PROVE OperandsBefore(p[i], i)
    <2>1. WellTyped(p, i)
      BY DEF WellTypedProgram, IsSequence
    <2> QED  BY <2>1, Kinds DEF OperandsBefore
  <1>4. ASSUME NEW i \in 1..Len(q) PROVE OperandsBefore(q[i], i)
    <2>1. CASE i <= Len(p)
      <3>1. i \in 1..Len(p) /\ q[i] = p[i]
        BY <1>1, <1>2, <2>1
      <3> QED  BY <1>3, <3>1
    <2>2. CASE i > Len(p)
      <3>1. i - Len(p) \in 1..Len(f) /\ Len(p) + (i - Len(p)) = i
        BY <1>1, <1>2, <2>2
      <3>2. q[i] = f[i - Len(p)]
        BY <1>1, <3>1
      <3> QED  BY <3>1, <3>2
    <2> QED  BY <1>1, <1>2, <2>1, <2>2
  <1>5. WellOrdered(p) /\ WellOrdered(q)
    BY <1>1, <1>3, <1>4 DEF WellOrdered
  <1> QED  BY <1>1, <1>2, <1>5 DEF q

\* Each expression so far is rewritten rightly, if the program is one that folding
\* gets right.
MeaningsKept == FoldsRight(original) => \A env \in Valuations : \A i \in 1..Len(folded) : Agrees(Meanings(Nodes, env), i)

\* The inductive invariant of the pass.
FoldInv == FoldShape /\ IsSequence(strings) /\ StringsHaveIds /\ MeaningsKept

\* What a step does.
LEMMA FoldStep ==
    ASSUME FoldShape, ConstantFold
    PROVE  LET i == Len(folded) + 1
               next == Rewrite(original[i], strings)
           IN  /\ original' = original /\ strings' = next.strings
               /\ Len(folded) \in Nat /\ i <= Len(original) /\ Len(folded') = i
               /\ IsSequence(folded')
               /\ \A j \in 1..Len(folded) : folded'[j] = folded[j]
               /\ folded'[i] = next.e
  <1>1. /\ Len(folded) \in Nat /\ Len(original) \in Nat /\ IsSequence(folded)
    BY DEF FoldShape, IsSequence
  <1>2. /\ Len(folded) < Len(original)
        /\ folded' = Append(folded, Rewrite(original[Len(folded) + 1], strings).e)
        /\ strings' = Rewrite(original[Len(folded) + 1], strings).strings
        /\ original' = original
    BY DEF ConstantFold
  <1> QED  BY <1>1, <1>2, AppendIsSequence

LEMMA ShapeKept ==
    ASSUME FoldShape, ConstantFold
    PROVE  FoldShape'
  <1> DEFINE i == Len(folded) + 1
             f == Rewrite(original[i], strings).e
  <1>1. /\ original' = original
        /\ Len(folded) \in Nat /\ i <= Len(original) /\ Len(folded') = i
        /\ IsSequence(folded')
        /\ \A j \in 1..Len(folded) : folded'[j] = folded[j]
        /\ folded'[i] = f
    BY FoldStep
  <1>2. Shape(f, i)
    BY <1>1, VisitLeavesShape
  <1> HIDE DEF f
  <1>3. ASSUME NEW j \in 1..Len(folded') PROVE RewrittenWell(j)'
    <2>1. CASE j \in 1..Len(folded)
      <3>1. RewrittenWell(j)
        BY <2>1 DEF FoldShape
      <3> QED  BY <1>1, <2>1, <3>1 DEF RewrittenWell, Rewritten
    <2>2. CASE j = i
      BY <1>1, <1>2, <2>2 DEF RewrittenWell, Rewritten, Shape
    <2> QED  BY <1>1, <2>1, <2>2
  <1> QED  BY <1>1, <1>3 DEF FoldShape

LEMMA StringsKept ==
    ASSUME FoldShape, IsSequence(strings), StringsHaveIds, ConstantFold
    PROVE  IsSequence(strings') /\ StringsHaveIds'
  <1> DEFINE i == Len(folded) + 1
             f == Rewrite(original[i], strings).e
             strs == Rewrite(original[i], strings).strings
  <1>1. /\ original' = original /\ strings' = strs
        /\ Len(folded) \in Nat /\ i <= Len(original) /\ Len(folded') = i
        /\ IsSequence(folded')
        /\ \A j \in 1..Len(folded) : folded'[j] = folded[j]
        /\ folded'[i] = f
    BY FoldStep
  <1>2. Listed(f, strs, i)
    BY <1>1, VisitLists
  <1> HIDE DEF f, strs
  <1>3. DOMAIN folded = 1..Len(folded) /\ DOMAIN folded' = 1..i
    BY <1>1 DEF FoldShape, IsSequence
  <1>4. \A lit : HasId(lit) => HasId(lit)'
    BY <1>1, <1>2 DEF HasId, Listed
  <1>5. ASSUME NEW j \in DOMAIN folded'
        PROVE  /\ original'[j].k = "lit" => HasId(original[j])'
               /\ folded'[j].k = "lit" => HasId(folded[j])'
               /\ IsConst(folded'[j]) => HasId(folded[j].constant)'
    <2>1. CASE j \in 1..Len(folded)
      <3>1. /\ original[j].k = "lit" => HasId(original[j])
            /\ folded[j].k = "lit" => HasId(folded[j])
            /\ IsConst(folded[j]) => HasId(folded[j].constant)
        BY <1>3, <2>1 DEF StringsHaveIds
      <3>2. original'[j] = original[j] /\ folded'[j] = folded[j]
        BY <1>1, <2>1
      <3> QED  BY <1>4, <3>1, <3>2 DEF HasId
    <2>2. CASE j = i
      <3>1. original'[j] = original[i] /\ folded'[j] = f /\ strings' = strs
        BY <1>1, <2>2
      <3> QED  BY <1>2, <3>1 DEF HasId, Listed
    <2> QED  BY <1>1, <1>3, <2>1, <2>2
  <1>6. IsInjective(strings') /\ IsSequence(strings')
    BY <1>1, <1>2 DEF Listed
  <1> QED  BY <1>5, <1>6 DEF StringsHaveIds

\* What all expressions mean before and after a step, for one valuation.
LEMMA AgreementKept ==
    ASSUME FoldShape, ConstantFold, FoldsRight(original), NEW env \in Valuations,
           \A j \in 1..Len(folded) : Agrees(Meanings(Nodes, env), j)
    PROVE  \A j \in 1..Len(folded') : Agrees(Meanings(Nodes, env), j)'
  <1> DEFINE i == Len(folded) + 1
             e == original[i]
             f == Rewrite(e, strings).e
             p == original \o folded
             q == original \o folded'
             m0 == Meanings(original, env)
             m == Meanings(p, env)
             w == Meanings(q, env)
             n == Len(original)
  <1>1. /\ original' = original
        /\ Len(folded) \in Nat /\ i <= n /\ Len(folded') = i
        /\ IsSequence(folded')
        /\ \A j \in 1..Len(folded) : folded'[j] = folded[j]
        /\ folded'[i] = f
    BY FoldStep
  <1>2. IsSequence(original) /\ WellTypedProgram(original) /\ IsSequence(folded) /\ Len(folded) <= n
    BY DEF FoldShape
  <1>3. Shape(f, i)
    BY <1>1, VisitLeavesShape
  <1> HIDE DEF f
  <1>4. \A j \in 1..Len(folded) : OperandsBefore(folded[j], n + j)
    BY DEF FoldShape, RewrittenWell, Rewritten
  <1>5. \A j \in 1..i : OperandsBefore(folded'[j], n + j)
    <2>1. OperandsBefore(folded'[i], n + i)
      BY <1>1, <1>3 DEF Shape, Rewritten
    <2> QED  BY <1>1, <1>4, <2>1
  <1>6. /\ WellOrdered(original) /\ WellOrdered(p)
        /\ n \in Nat /\ Len(p) = n + Len(folded)
        /\ \A j \in 1..n : p[j] = original[j]
        /\ \A j \in 1..Len(folded) : p[n + j] = folded[j]
    BY <1>2, <1>4, NodesAre
  <1>7. /\ WellOrdered(q)
        /\ Len(q) = n + i
        /\ \A j \in 1..n : q[j] = original[j]
        /\ \A j \in 1..i : q[n + j] = folded'[j]
    <2>1. IsSequence(folded') /\ Len(folded') = i /\ i <= n
      BY <1>1
    <2>2. \A j \in 1..Len(folded') : OperandsBefore(folded'[j], n + j)
      BY <1>5, <2>1
    <2>3. /\ WellOrdered(q)
          /\ Len(q) = n + Len(folded')
          /\ \A j \in 1..n : q[j] = original[j]
          /\ \A j \in 1..Len(folded') : q[n + j] = folded'[j]
      <3> HIDE DEF i
      <3>1. Len(folded') <= Len(original)
        BY <2>1, <1>1
      <3>2. \A j \in 1..Len(folded') : OperandsBefore(folded'[j], Len(original) + j)
        BY <2>2
      <3>3. IsSequence(original) /\ WellTypedProgram(original) /\ IsSequence(folded')
        BY <1>2, <2>1
      <3> HIDE DEF n, q
      <3> QED  BY <3>1, <3>2, <3>3, NodesAre DEF n, q
    <2> HIDE DEF q, i
    <2> QED  BY <2>1, <2>3
  <1>8. Nodes = p /\ Nodes' = q
    BY <1>1 DEF Nodes
  <1> HIDE DEF p, q
  <1>9. \A j \in 1..n : m0[j] = w[j]
    <2>1. n <= Len(q)
      BY <1>1, <1>6, <1>7
    <2>2. \A j \in 1..Len(original) : Meanings(q, env)[j] = Meanings(original, env)[j]
      <3>1. WellOrdered(original) /\ WellOrdered(q)
        BY <1>6, <1>7
      <3>2. Len(original) <= Len(q) /\ \A j \in 1..Len(original) : q[j] = original[j]
        BY <1>7, <2>1
      <3> QED  BY <3>1, <3>2, MeaningsOfPrefix
    <2> QED  BY <2>2
  <1>10. \A j \in 1..Len(p) : m[j] = w[j]
    <2>1. Len(p) <= Len(q)
      BY <1>1, <1>6, <1>7
    <2>2. \A j \in 1..Len(p) : q[j] = p[j]
      <3> SUFFICES ASSUME NEW j \in 1..Len(p) PROVE q[j] = p[j]
        OBVIOUS
      <3>1. CASE j <= n
        BY <1>6, <1>7, <3>1
      <3>2. CASE j > n
        <4>1. j - n \in 1..Len(folded) /\ n + (j - n) = j
          BY <1>1, <1>6, <3>2
        <4> DEFINE k == j - n
        <4>2. k \in 1..Len(folded) /\ k \in 1..i /\ n + k = j
          BY <1>1, <4>1
        <4> HIDE DEF k
        <4>3. p[n + k] = folded[k] /\ q[n + k] = folded'[k] /\ folded'[k] = folded[k]
          BY <1>1, <1>6, <1>7, <4>2
        <4> QED  BY <4>2, <4>3
      <3> QED  BY <1>6, <3>1, <3>2
    <2>3. \A j \in 1..Len(p) : Meanings(q, env)[j] = Meanings(p, env)[j]
      <3>1. WellOrdered(p) /\ WellOrdered(q)
        BY <1>6, <1>7
      <3> QED  BY <2>1, <2>2, <3>1, MeaningsOfPrefix
    <2> QED  BY <2>3
  <1>11. /\ w[i] = MeaningOf(e, q, w, env)
         /\ w[n + i] = MeaningOf(f, q, w, env)
    <2>1. AreMeanings(w, Len(q), q, env)
      BY <1>7, MeaningsExist
    <2>2. i \in 1..Len(q) /\ n + i \in 1..Len(q) /\ q[i] = e /\ q[n + i] = f
      <3>1. i \in 1..n /\ i \in 1..i /\ i \in 1..Len(q) /\ n + i \in 1..Len(q)
        BY <1>1, <1>6, <1>7
      <3>2. q[i] = original[i] /\ q[n + i] = folded'[i]
        BY <1>7, <3>1
      <3> QED  BY <1>1, <3>1, <3>2
    <2> HIDE DEF w, e
    <2> QED  BY <2>1, <2>2 DEF AreMeanings
  <1>12. \A j \in 1..(i - 1) : Agrees(m, j)
    BY <1>1, <1>8
  <1>13. RightAt(original, m0, i)
    <2>1. i \in DOMAIN original
      BY <1>1, <1>2 DEF IsSequence
    <2> HIDE DEF i
    <2> QED  BY <2>1 DEF FoldsRight, RightAt
  <1> HIDE DEF m0, m, w
  <1>14. \A j \in 1..(i - 1) : Agrees(w, j)
    <2> SUFFICES ASSUME NEW j \in 1..(i - 1) PROVE Agrees(w, j)
      OBVIOUS
    <2>1. m[j] = w[j] /\ m[n + j] = w[n + j]
      BY <1>1, <1>6, <1>10
    <2>2. Agrees(m, j)
      BY <1>12
    <2> QED  BY <2>1, <2>2 DEF Agrees, Rewritten
  <1>15. RightAt(original, w, i)
    <2>1. WellTyped(original, i)
      BY <1>1, <1>2 DEF WellTypedProgram, IsSequence
    <2>2. OperandsBefore(e, i)
      BY <2>1, Kinds DEF OperandsBefore
    <2>3. e.k = "binary" => m0[e.l] = w[e.l] /\ m0[e.r] = w[e.r]
      <3> SUFFICES ASSUME e.k = "binary" PROVE m0[e.l] = w[e.l] /\ m0[e.r] = w[e.r]
        OBVIOUS
      <3>1. e.l \in 1..(i - 1) /\ e.r \in 1..(i - 1)
        BY <2>2 DEF OperandsBefore
      <3> HIDE DEF e
      <3>2. e.l \in 1..n /\ e.r \in 1..n
        BY <1>1, <1>6, <3>1
      <3> QED  BY <1>9, <3>2
    <2>4. e.k = "cast" => m0[e.e] = w[e.e]
      <3> SUFFICES ASSUME e.k = "cast" PROVE m0[e.e] = w[e.e]
        OBVIOUS
      <3>1. e.e \in 1..(i - 1)
        BY <2>2 DEF OperandsBefore
      <3>2. e.e \in 1..n
        BY <1>1, <1>6, <3>1
      <3> QED  BY <1>9, <3>2
    <2> QED  BY <1>13, <2>3, <2>4 DEF RightAt
  <1>16. \A j \in 1..(i - 1) : q[j].tid = original[j].tid /\ q[Rewritten(j)].tid = original[j].tid
    <2> SUFFICES ASSUME NEW j \in 1..(i - 1)
                 PROVE  q[j].tid = original[j].tid /\ q[Rewritten(j)].tid = original[j].tid
      OBVIOUS
    <2>1. j \in 1..n /\ j \in 1..i /\ j \in 1..Len(folded)
      BY <1>1, <1>6
    <2>2. q[j] = original[j] /\ q[n + j] = folded'[j] /\ folded'[j] = folded[j]
      BY <1>1, <1>7, <2>1
    <2>3. folded[j].tid = original[j].tid
      BY <2>1 DEF FoldShape, RewrittenWell
    <2> QED  BY <2>2, <2>3 DEF Rewritten
  <1>17. MeaningOf(f, q, w, env) = w[i] /\ Outcome(f, i, w[i])
    <2>1. i = Len(folded) + 1 /\ i <= Len(original)
      BY <1>1
    <2>2. w[i] = MeaningOf(original[i], q, w, env)
      BY <1>11
    <2> HIDE DEF i
    <2>3. MeaningOf(Rewrite(original[i], strings).e, q, w, env) = w[i]
            /\ Outcome(Rewrite(original[i], strings).e, i, w[i])
      BY <1>14, <1>15, <1>16, <2>1, <2>2, VisitMeans
    <2> QED  BY <2>3 DEF f
  <1>18. ASSUME NEW j \in 1..Len(folded')
         PROVE  /\ w[n + j] = w[j]
                /\ \/ IsConstantOf(folded'[j], original[j].tid, w[j])
                   \/ ~IsConst(folded'[j]) /\ IsUnknown(w[j])
    <2>1. CASE j \in 1..(i - 1)
      <3>1. folded'[j] = folded[j]
        BY <1>1, <2>1
      <3>2. Agrees(w, j)
        BY <1>14, <2>1
      <3> QED  BY <3>1, <3>2 DEF Agrees, Rewritten
    <2>2. CASE j = i
      <3>1. w[n + i] = w[i] /\ Outcome(f, i, w[i])
        BY <1>11, <1>17
      <3> QED  BY <1>1, <2>2, <3>1 DEF Outcome
    <2> QED  BY <1>1, <2>1, <2>2
  <1>19. original' = original /\ n = Len(original)
    BY <1>1
  <1> QED  BY <1>8, <1>18, <1>19 DEF w, Agrees, Rewritten

LEMMA MeaningsKeptOnce ==
    ASSUME FoldShape, ConstantFold, MeaningsKept
    PROVE  MeaningsKept'
  <1>1. original' = original
    BY FoldStep
  <1> SUFFICES ASSUME FoldsRight(original)', NEW env \in Valuations, NEW j \in 1..Len(folded')
               PROVE  Agrees(Meanings(Nodes, env), j)'
    BY DEF MeaningsKept
  <1>2. FoldsRight(original)
    BY <1>1 DEF FoldsRight
  <1>3. \A k \in 1..Len(folded) : Agrees(Meanings(Nodes, env), k)
    BY <1>2 DEF MeaningsKept
  <1> QED  BY <1>2, <1>3, AgreementKept

LEMMA FoldInvStarts ==
    ASSUME IsSequence(original), WellTypedProgram(original), folded = << >>, strings = << >>
    PROVE  FoldInv
  <1>1. IsSequence(<< >>) /\ Len(<< >>) = 0 /\ DOMAIN << >> = {}
    BY EmptyIsSequence DEF IsSequence
  <1>2. FoldShape
    BY <1>1 DEF FoldShape, IsSequence
  <1>3. IsInjective(strings) /\ DOMAIN folded = {}
    BY <1>1 DEF IsInjective
  <1> QED  BY <1>1, <1>2, <1>3 DEF FoldInv, StringsHaveIds, MeaningsKept

LEMMA FoldInvKept ==
    ASSUME FoldInv, [ConstantFold]_vars
    PROVE  FoldInv'
  <1>1. CASE ConstantFold
    BY <1>1, ShapeKept, StringsKept, MeaningsKeptOnce DEF FoldInv
  <1>2. CASE UNCHANGED vars
    BY <1>2 DEF vars, FoldInv, FoldShape, RewrittenWell, Rewritten, StringsHaveIds, HasId, MeaningsKept,
                Nodes, Agrees, FoldsRight
  <1> QED  BY <1>1, <1>2

\* What the invariant says of the program's expressions themselves.
LEMMA MeaningsOfProgram ==
    ASSUME FoldShape, NEW env
    PROVE  \A i \in 1..Len(original) : Meanings(Nodes, env)[i] = Meanings(original, env)[i]
  <1>1. \A i \in 1..Len(folded) : OperandsBefore(folded[i], Len(original) + i)
    BY DEF FoldShape, RewrittenWell, Rewritten
  <1>2. /\ IsSequence(original) /\ WellTypedProgram(original) /\ IsSequence(folded)
        /\ Len(folded) <= Len(original)
    BY DEF FoldShape
  <1> DEFINE q == original \o folded
  <1>3. /\ WellOrdered(original) /\ WellOrdered(q)
        /\ Len(original) \in Nat /\ Len(folded) \in Nat /\ Len(q) = Len(original) + Len(folded)
        /\ \A i \in 1..Len(original) : q[i] = original[i]
    BY <1>1, <1>2, NodesAre
  <1> HIDE DEF q
  <1>4. Len(original) <= Len(q)
    BY <1>3
  <1>5. \A i \in 1..Len(original) : Meanings(q, env)[i] = Meanings(original, env)[i]
    BY <1>3, <1>4, MeaningsOfPrefix
  <1> QED  BY <1>5 DEF q, Nodes

LEMMA FoldInvPreservesMeaning ==
    ASSUME FoldInv, FoldsRight(original)
    PROVE  MeaningPreserved
  <1>1. DOMAIN folded = 1..Len(folded)
    BY DEF FoldInv, FoldShape, IsSequence
  <1>2. \A i \in DOMAIN folded : folded[i].tid = original[i].tid
    BY <1>1 DEF FoldInv, FoldShape, RewrittenWell
  <1>3. \A env \in Valuations : \A i \in DOMAIN folded : Meanings(Nodes, env)[Rewritten(i)] = Meanings(Nodes, env)[i]
    BY <1>1 DEF FoldInv, MeaningsKept, Agrees
  <1> QED  BY <1>2, <1>3 DEF MeaningPreserved

LEMMA FoldInvFoldsConstants ==
    ASSUME FoldInv, FoldsRight(original)
    PROVE  ConstantsFold
  <1> SUFFICES ASSUME NEW i \in DOMAIN folded, IsConstant(original, i) PROVE IsConst(folded[i])
    BY DEF ConstantsFold
  <1>1. i \in 1..Len(folded) /\ i \in 1..Len(original)
    BY DEF FoldInv, FoldShape, IsSequence
  <1>2. PICK env : env \in Valuations
    BY ValuationsAssumption
  <1> DEFINE w == Meanings(Nodes, env)[i]
  <1>3. w = Meanings(original, env)[i]
    BY <1>1, MeaningsOfProgram DEF FoldInv
  <1>4. IsConstantOf(folded[i], original[i].tid, w) \/ (~IsConst(folded[i]) /\ IsUnknown(w))
    <2>1. Agrees(Meanings(Nodes, env), i)
      BY <1>1, <1>2 DEF FoldInv, MeaningsKept
    <2> QED  BY <2>1 DEF Agrees
  <1>5. Meanings(original, env)[i].constant
    BY <1>2 DEF IsConstant
  <1>6. ~IsUnknown(w)
    BY <1>3, <1>5 DEF IsUnknown
  <1> QED  BY <1>4, <1>6, ConstIs DEF IsConstantOf

LEMMA SpecHasFoldInv == Spec => []FoldInv
  <1>1. Init => FoldInv
    <2> SUFFICES ASSUME Init PROVE FoldInv
      OBVIOUS
    <2>1. original \in Seq(Range(original)) /\ WellTypedProgram(original)
      BY ProgramsAssumption DEF Init
    <2>2. IsSequence(original)
      BY <2>1, SeqIsSequence
    <2> QED  BY <2>1, <2>2, FoldInvStarts DEF Init
  <1>2. FoldInv /\ [ConstantFold]_vars => FoldInv'
    BY FoldInvKept
  <1> QED  BY <1>1, <1>2, PTL DEF Spec

\* Each string left in the program has one id, for every program: a literal, a
\* folded one, and a string that became a constant only by folding.
THEOREM EveryStringHasAnId == Spec => []StringsHaveIds
  <1>1. FoldInv => StringsHaveIds
    BY DEF FoldInv
  <1> QED  BY <1>1, SpecHasFoldInv, PTL

\* Folding changes no type, no value and no exception of a program without the
\* operations and casts that it gets wrong.
THEOREM FoldingPreservesMeaning == Spec => [](FoldsRight(original) => MeaningPreserved)
  <1>1. FoldInv => (FoldsRight(original) => MeaningPreserved)
    BY FoldInvPreservesMeaning
  <1> QED  BY <1>1, SpecHasFoldInv, PTL

\* In such a program every constant expression of the language is folded.
THEOREM EveryConstantFolds == Spec => [](FoldsRight(original) => ConstantsFold)
  <1>1. FoldInv => (FoldsRight(original) => ConstantsFold)
    BY FoldInvFoldsConstants
  <1> QED  BY <1>1, SpecHasFoldInv, PTL

-----------------------------------------------------------------------------
(***************************************************************************)
(* Initialisers.                                                           *)
(***************************************************************************)
\* The trees of IsInitialiser.
InitialiserIs(tree) ==
  /\ Len(tree) \in Nat /\ Len(tree) > 0 /\ DOMAIN tree = 1..Len(tree)
  /\ \A i \in 1..Len(tree) : IsOperation(tree[i], i)

LEMMA Operations ==
    ASSUME NEW tree, InitialiserIs(tree), NEW i \in 1..Len(tree)
    PROVE  /\ tree[i].k \in {"this", "field", "assign", "op"}
           /\ tree[i].k = "field" => tree[i].base \in 1..(i - 1)
           /\ tree[i].k = "assign" =>
                /\ tree[i].lhs \in 1..(i - 1) /\ tree[i].rhs \in 1..(i - 1)
                /\ tree[tree[i].lhs].k = "field" => tree[tree[i].lhs].base \in 1..(i - 1)
           /\ tree[i].k = "op" => \A k \in DOMAIN tree[i].args : tree[i].args[k] \in 1..(i - 1)
  <1>1. /\ tree[i].k \in {"this", "field", "assign", "op"}
        /\ tree[i].k = "field" => tree[i].base \in 1..(i - 1)
        /\ tree[i].k = "assign" => tree[i].lhs \in 1..(i - 1) /\ tree[i].rhs \in 1..(i - 1)
        /\ tree[i].k = "op" => tree[i].args \in Seq(1..(i - 1))
    BY DEF InitialiserIs, IsOperation
  <1>2. ASSUME tree[i].k = "assign", tree[tree[i].lhs].k = "field"
        PROVE  tree[tree[i].lhs].base \in 1..(i - 1)
    <2> DEFINE j == tree[i].lhs
    <2>1. j \in 1..(i - 1)
      BY <1>1, <1>2
    <2>2. Len(tree) \in Nat
      BY DEF InitialiserIs
    <2> HIDE DEF j
    <2>3. IsOperation(tree[j], j)
      BY <2>1, <2>2 DEF InitialiserIs
    <2>4. tree[j].k = "field"
      BY <1>2 DEF j
    <2>5. tree[j].base \in 1..(j - 1)
      BY <2>3, <2>4 DEF IsOperation
    <2>6. tree[j].base \in 1..(i - 1)
      BY <2>1, <2>5
    <2> QED  BY <2>6 DEF j
  <1>3. tree[i].k = "op" => \A k \in DOMAIN tree[i].args : tree[i].args[k] \in 1..(i - 1)
    BY <1>1
  <1> QED  BY <1>1, <1>2, <1>3

LEMMA OrderedIsLocal ==
    ASSUME NEW tree, InitialiserIs(tree), NEW i \in 1..Len(tree), NEW cur, NEW f, NEW g,
           \A j \in 1..(i - 1) : f[j] = g[j]
    PROVE  Ordered(f, tree, i, cur) = Ordered(g, tree, i, cur)
  <1> DEFINE e == tree[i]
  <1>1. CASE e.k = "this"
    BY <1>1 DEF Ordered
  <1>2. CASE e.k = "field"
    <2>1. f[e.base] = g[e.base]
      BY <1>2, Operations
    <2> QED  BY <1>2, <2>1 DEF Ordered
  <1>3. CASE e.k = "assign"
    <2>1. AssignErrors(f, tree, e) = AssignErrors(g, tree, e)
      BY <1>3, Operations DEF AssignErrors
    <2> QED  BY <1>3, <2>1 DEF Ordered
  <1>4. CASE e.k = "op"
    <2>1. \A k \in DOMAIN e.args : f[e.args[k]] = g[e.args[k]]
      BY <1>4, Operations
    <2>2. UNION {f[e.args[k]] : k \in DOMAIN e.args} = UNION {g[e.args[k]] : k \in DOMAIN e.args}
      BY <2>1
    <2> QED  BY <1>4, <2>2 DEF Ordered
  <1> QED  BY <1>1, <1>2, <1>3, <1>4, Operations

LEMMA ReadsOfIsLocal ==
    ASSUME NEW tree, InitialiserIs(tree), NEW i \in 1..Len(tree), NEW f, NEW g,
           \A j \in 1..(i - 1) : f[j] = g[j]
    PROVE  ReadsOf(f, tree, i) = ReadsOf(g, tree, i)
  <1> DEFINE e == tree[i]
  <1>1. CASE e.k = "this"
    BY <1>1 DEF ReadsOf
  <1>2. CASE e.k = "field"
    <2>1. f[e.base] = g[e.base]
      BY <1>2, Operations
    <2> QED  BY <1>2, <2>1 DEF ReadsOf
  <1>3. CASE e.k = "assign"
    <2>1. /\ f[e.rhs] = g[e.rhs] /\ f[e.lhs] = g[e.lhs]
          /\ tree[e.lhs].k = "field" => f[tree[e.lhs].base] = g[tree[e.lhs].base]
      BY <1>3, Operations
    <2> QED  BY <1>3, <2>1 DEF ReadsOf
  <1>4. CASE e.k = "op"
    <2>1. \A k \in DOMAIN e.args : f[e.args[k]] = g[e.args[k]]
      BY <1>4, Operations
    <2>2. UNION {f[e.args[k]] : k \in DOMAIN e.args} = UNION {g[e.args[k]] : k \in DOMAIN e.args}
      BY <2>1
    <2> QED  BY <1>4, <2>2 DEF ReadsOf
  <1> QED  BY <1>1, <1>2, <1>3, <1>4, Operations

LEMMA OrderErrorsExist ==
    ASSUME NEW tree, InitialiserIs(tree), NEW cur
    PROVE  \A i \in 1..Len(tree) : OrderErrors(tree, cur)[i] = Ordered(OrderErrors(tree, cur), tree, i, cur)
  <1> DEFINE Are(f, n) == f = [i \in 1..n |-> Ordered(f, tree, i, cur)]
             Good == {n \in Nat : n <= Len(tree) => \E f : Are(f, n)}
  <1>0. Len(tree) \in Nat /\ DOMAIN tree = 1..Len(tree)
    BY DEF InitialiserIs
  <1>1. 0 \in Good
    <2> DEFINE f0 == [i \in 1..0 |-> 0]
    <2>1. f0 = [i \in 1..0 |-> Ordered(f0, tree, i, cur)]
      OBVIOUS
    <2> HIDE DEF f0
    <2>2. Are(f0, 0)
      BY <2>1
    <2> QED  BY <2>2
  <1>2. ASSUME NEW n \in Nat, n \in Good PROVE n + 1 \in Good
    <2> SUFFICES ASSUME n + 1 <= Len(tree) PROVE \E f : Are(f, n + 1)
      OBVIOUS
    <2>1. PICK f : f = [i \in 1..n |-> Ordered(f, tree, i, cur)]
      BY <1>0, <1>2
    <2> DEFINE g == [i \in 1..(n + 1) |-> Ordered(f, tree, i, cur)]
    <2>2. ASSUME NEW i \in 1..(n + 1) PROVE g[i] = Ordered(g, tree, i, cur)
      <3>1. \A j \in 1..(i - 1) : f[j] = g[j]
        <4> SUFFICES ASSUME NEW j \in 1..(i - 1) PROVE f[j] = g[j]
          OBVIOUS
        <4>1. j \in 1..n /\ j \in 1..(n + 1)
          OBVIOUS
        <4> QED  BY <2>1, <4>1
      <3>2. g[i] = Ordered(f, tree, i, cur) /\ i \in 1..Len(tree)
        BY <1>0
      <3> HIDE DEF g
      <3>3. Ordered(f, tree, i, cur) = Ordered(g, tree, i, cur)
        BY <3>1, <3>2, OrderedIsLocal
      <3> QED  BY <3>2, <3>3
    <2>3. g = [i \in 1..(n + 1) |-> g[i]]
      OBVIOUS
    <2> HIDE DEF g
    <2>4. g = [i \in 1..(n + 1) |-> Ordered(g, tree, i, cur)]
      BY <2>2, <2>3
    <2> QED  BY <2>4
  <1> HIDE DEF Good
  <1>3. Nat \subseteq Good
    BY <1>1, <1>2, SetInduction
  <1>4. \E f : f = [i \in DOMAIN tree |-> Ordered(f, tree, i, cur)]
    BY <1>0, <1>3 DEF Good
  <1> DEFINE h == OrderErrors(tree, cur)
  <1>5. h = [i \in DOMAIN tree |-> Ordered(h, tree, i, cur)]
    BY <1>4 DEF OrderErrors
  <1> HIDE DEF h
  <1>6. \A i \in 1..Len(tree) : h[i] = Ordered(h, tree, i, cur)
    BY <1>0, <1>5
  <1> QED  BY <1>6 DEF h

LEMMA ReadsExist ==
    ASSUME NEW tree, InitialiserIs(tree)
    PROVE  \A i \in 1..Len(tree) : Reads(tree)[i] = ReadsOf(Reads(tree), tree, i)
  <1> DEFINE Are(f, n) == f = [i \in 1..n |-> ReadsOf(f, tree, i)]
             Good == {n \in Nat : n <= Len(tree) => \E f : Are(f, n)}
  <1>0. Len(tree) \in Nat /\ DOMAIN tree = 1..Len(tree)
    BY DEF InitialiserIs
  <1>1. 0 \in Good
    <2> DEFINE f0 == [i \in 1..0 |-> 0]
    <2>1. f0 = [i \in 1..0 |-> ReadsOf(f0, tree, i)]
      OBVIOUS
    <2> HIDE DEF f0
    <2>2. Are(f0, 0)
      BY <2>1
    <2> QED  BY <2>2
  <1>2. ASSUME NEW n \in Nat, n \in Good PROVE n + 1 \in Good
    <2> SUFFICES ASSUME n + 1 <= Len(tree) PROVE \E f : Are(f, n + 1)
      OBVIOUS
    <2>1. PICK f : f = [i \in 1..n |-> ReadsOf(f, tree, i)]
      BY <1>0, <1>2
    <2> DEFINE g == [i \in 1..(n + 1) |-> ReadsOf(f, tree, i)]
    <2>2. ASSUME NEW i \in 1..(n + 1) PROVE g[i] = ReadsOf(g, tree, i)
      <3>1. \A j \in 1..(i - 1) : f[j] = g[j]
        <4> SUFFICES ASSUME NEW j \in 1..(i - 1) PROVE f[j] = g[j]
          OBVIOUS
        <4>1. j \in 1..n /\ j \in 1..(n + 1)
          OBVIOUS
        <4> QED  BY <2>1, <4>1
      <3>2. g[i] = ReadsOf(f, tree, i) /\ i \in 1..Len(tree)
        BY <1>0
      <3> HIDE DEF g
      <3>3. ReadsOf(f, tree, i) = ReadsOf(g, tree, i)
        BY <3>1, <3>2, ReadsOfIsLocal
      <3> QED  BY <3>2, <3>3
    <2>3. g = [i \in 1..(n + 1) |-> g[i]]
      OBVIOUS
    <2> HIDE DEF g
    <2>4. g = [i \in 1..(n + 1) |-> ReadsOf(g, tree, i)]
      BY <2>2, <2>3
    <2> QED  BY <2>4
  <1> HIDE DEF Good
  <1>3. Nat \subseteq Good
    BY <1>1, <1>2, SetInduction
  <1>4. \E f : f = [i \in DOMAIN tree |-> ReadsOf(f, tree, i)]
    BY <1>0, <1>3 DEF Good
  <1> DEFINE h == Reads(tree)
  <1>5. h = [i \in DOMAIN tree |-> ReadsOf(h, tree, i)]
    BY <1>4 DEF Reads
  <1> HIDE DEF h
  <1>6. \A i \in 1..Len(tree) : h[i] = ReadsOf(h, tree, i)
    BY <1>0, <1>5
  <1> QED  BY <1>6 DEF h

\* The accesses reported are the reads that are not in order.
LEMMA ReportedReads ==
    ASSUME NEW tree, InitialiserIs(tree), NEW cur
    PROVE  \A i \in 1..Len(tree) :
              /\ OrderErrors(tree, cur)[i] = {j \in Reads(tree)[i] : ~InOrder(tree[j], tree, cur)}
              /\ Reads(tree)[i] \subseteq
                   {j \in 1..Len(tree) : tree[j].k = "field" /\ tree[tree[j].base] = ImplicitThis}
  <1> DEFINE errors == OrderErrors(tree, cur)
             reads == Reads(tree)
             Late(S) == {j \in S : ~InOrder(tree[j], tree, cur)}
             Simple(S) == S \subseteq {j \in 1..Len(tree) : tree[j].k = "field" /\ tree[tree[j].base] = ImplicitThis}
             Right(i) == errors[i] = Late(reads[i]) /\ Simple(reads[i])
             Good == {n \in Nat : \A i \in 1..n : i <= Len(tree) => Right(i)}
  <1>0. Len(tree) \in Nat
    BY DEF InitialiserIs
  <1>1. \A i \in 1..Len(tree) : errors[i] = Ordered(errors, tree, i, cur) /\ reads[i] = ReadsOf(reads, tree, i)
    BY OrderErrorsExist, ReadsExist
  <1> HIDE DEF errors, reads
  <1>2. 0 \in Good
    OBVIOUS
  <1>3. ASSUME NEW n \in Nat, n \in Good PROVE n + 1 \in Good
    <2> SUFFICES ASSUME n + 1 <= Len(tree) PROVE Right(n + 1)
      BY <1>3
    <2> DEFINE i == n + 1
               e == tree[i]
    <2>1. i \in 1..Len(tree) /\ \A j \in 1..(i - 1) : Right(j)
      BY <1>0, <1>3
    <2>2. errors[i] = Ordered(errors, tree, i, cur) /\ reads[i] = ReadsOf(reads, tree, i)
      BY <1>1, <2>1
    <2>3. /\ e.k \in {"this", "field", "assign", "op"}
          /\ e.k = "field" => e.base \in 1..(i - 1)
          /\ e.k = "assign" =>
               /\ e.lhs \in 1..(i - 1) /\ e.rhs \in 1..(i - 1)
               /\ tree[e.lhs].k = "field" => tree[e.lhs].base \in 1..(i - 1)
          /\ e.k = "op" => \A k \in DOMAIN e.args : e.args[k] \in 1..(i - 1)
      BY <2>1, Operations
    <2> HIDE DEF i
    <2>4. CASE e.k = "this"
      <3>1. errors[i] = {} /\ reads[i] = {}
        BY <2>2, <2>4 DEF Ordered, ReadsOf
      <3> QED  BY <3>1 DEF i
    <2>5. CASE e.k = "field"
      <3>1. Right(e.base)
        BY <2>1, <2>3, <2>5
      <3>2. /\ errors[i] = (IF InOrder(e, tree, cur) THEN {} ELSE {i}) \cup errors[e.base]
            /\ reads[i] = reads[e.base] \cup (IF tree[e.base] = ImplicitThis THEN {i} ELSE {})
        BY <2>2, <2>5 DEF Ordered, ReadsOf
      <3>3. CASE tree[e.base] = ImplicitThis
        <4>1. reads[i] = reads[e.base] \cup {i}
          BY <3>2, <3>3
        <4>2. Simple(reads[i])
          BY <2>1, <2>5, <3>1, <3>3, <4>1
        <4>3. errors[i] = Late(reads[i])
          BY <3>1, <3>2, <4>1
        <4> QED  BY <4>2, <4>3 DEF i
      <3>4. CASE tree[e.base] # ImplicitThis
        <4>1. InOrder(e, tree, cur)
          BY <3>4 DEF InOrder
        <4>2. errors[i] = errors[e.base] /\ reads[i] = reads[e.base]
          BY <3>2, <3>4, <4>1
        <4> QED  BY <3>1, <4>2 DEF i
      <3> QED  BY <3>3, <3>4
    <2>6. CASE e.k = "assign"
      <3> DEFINE o == IF tree[e.lhs].k = "field" THEN tree[e.lhs].base ELSE e.lhs
      <3>1. o \in 1..(i - 1) /\ e.rhs \in 1..(i - 1)
        BY <2>3, <2>6
      <3>2. Right(o) /\ Right(e.rhs)
        BY <2>1, <3>1
      <3>3. errors[i] = errors[o] \cup errors[e.rhs]
        BY <2>2, <2>6 DEF Ordered, AssignErrors
      <3>4. reads[i] = reads[o] \cup reads[e.rhs]
        BY <2>2, <2>6 DEF ReadsOf
      <3> HIDE DEF o
      <3>5. Right(i)
        BY <3>2, <3>3, <3>4
      <3> QED  BY <3>5 DEF i
    <2>7. CASE e.k = "op"
      <3>1. \A k \in DOMAIN e.args : Right(e.args[k])
        BY <2>1, <2>3, <2>7
      <3>2. errors[i] = UNION {errors[e.args[k]] : k \in DOMAIN e.args}
        BY <2>2, <2>7 DEF Ordered
      <3>3. reads[i] = UNION {reads[e.args[k]] : k \in DOMAIN e.args}
        BY <2>2, <2>7 DEF ReadsOf
      <3>4. errors[i] = Late(reads[i])
        BY <3>1, <3>2, <3>3
      <3>5. Simple(reads[i])
        BY <3>1, <3>3
      <3> QED  BY <3>4, <3>5 DEF i
    <2> QED  BY <2>3, <2>4, <2>5, <2>6, <2>7
  <1> HIDE DEF Good
  <1>4. Nat \subseteq Good
    BY <1>2, <1>3, SetInduction
  <1>5. \A i \in 1..Len(tree) : Right(i)
    BY <1>0, <1>4 DEF Good
  <1> QED  BY <1>5 DEF errors, reads

\* Ids of fields.
LEMMA GreatestNumber ==
    ASSUME NEW N \in Nat, NEW T \in SUBSET (1..N), T # {}
    PROVE  \E m \in T : \A k \in T : m >= k
  <1> DEFINE U == {N - k : k \in T}
  <1>1. U \in SUBSET Nat /\ U # {}
    <2>1. \A k \in T : N - k \in Nat
      OBVIOUS
    <2>2. PICK k \in T : TRUE
      OBVIOUS
    <2>3. N - k \in U
      OBVIOUS
    <2> QED  BY <2>1, <2>3
  <1>2. PICK u \in U : \A k \in U : u <= k
    BY <1>1, LeastNumber
  <1>3. PICK m \in T : u = N - m
    BY <1>2
  <1>4. ASSUME NEW k \in T PROVE m >= k
    <2>1. N - k \in U
      OBVIOUS
    <2>2. N - m <= N - k
      BY <1>2, <1>3, <2>1
    <2> QED  BY <2>2
  <1> QED  BY <1>4

LEMMA MaxIs ==
    ASSUME NEW N \in Nat, NEW T \in SUBSET (1..N), T # {}
    PROVE  Max(T) \in T /\ \A k \in T : Max(T) >= k
  <1>1. \E m \in T : \A k \in T : m >= k
    BY GreatestNumber
  <1> QED  BY <1>1 DEF Max

\* A class of DataflowClasses.
LEMMA ClassIs ==
    ASSUME class \in DataflowClasses
    PROVE  /\ IsSequence(class.exprs) /\ WellTypedProgram(class.exprs)
           /\ Len(class.inherited) \in Nat /\ Len(class.members) \in Nat
           /\ DOMAIN class.inherited = 1..Len(class.inherited)
           /\ DOMAIN class.members = 1..Len(class.members)
           /\ \A i \in 1..Len(class.inherited) : class.inherited[i].k = "field"
           /\ \A i \in 1..Len(class.members) : class.members[i].k = "method" => IsBody(class.members[i].body, class.exprs)
           /\ \A i \in 1..Len(class.members) : class.members[i].k = "field" => IsInitialiser(class.members[i].val)
           /\ \A i, j \in 1..Len(class.members) :
                 class.members[i].k = "field" /\ class.members[j].k = "field"
                   /\ class.members[i].name = class.members[j].name => i = j
  <1>1. IsClass(class)
    BY ClassesAssumption
  <1>2. /\ IsSequence(class.exprs) /\ IsSequence(class.inherited) /\ IsSequence(class.members)
        /\ WellTypedProgram(class.exprs)
    BY <1>1, SeqIsSequence DEF IsClass
  <1>3. /\ Len(class.inherited) \in Nat /\ Len(class.members) \in Nat
        /\ DOMAIN class.inherited = 1..Len(class.inherited)
        /\ DOMAIN class.members = 1..Len(class.members)
    BY <1>2 DEF IsSequence
  <1> QED  BY <1>1, <1>2, <1>3 DEF IsClass

\* The own field at place i has the greatest id of its name.
LEMMA OwnFieldId ==
    ASSUME class \in DataflowClasses, NEW i \in 1..Len(class.members), class.members[i].k = "field"
    PROVE  /\ FieldIdOf(class.members[i].name) = Len(class.inherited) + i
           /\ FieldAt(Len(class.inherited) + i) = class.members[i]
           /\ IsOwn(Len(class.inherited) + i)
  <1> DEFINE h == Len(class.inherited)
             n == Len(class.members)
             name == class.members[i].name
             T == FieldIds(name)
  <1>1. h \in Nat /\ n \in Nat /\ i \in 1..n
    BY ClassIs
  <1>2. ASSUME NEW j \in 1..n PROVE IsOwn(h + j) /\ FieldAt(h + j) = class.members[j]
    <2>1. h + j > h /\ (h + j) - h = j
      BY <1>1
    <2> HIDE DEF n
    <2>2. IsOwn(h + j)
      BY <2>1 DEF IsOwn
    <2>3. FieldAt(h + j) = class.members[(h + j) - h]
      BY <2>2 DEF FieldAt
    <2> QED  BY <2>1, <2>2, <2>3
  <1>3. h + i \in T
    BY <1>1, <1>2 DEF FieldIds
  <1>4. T \in SUBSET (1..(h + n)) /\ h + n \in Nat
    <2>1. T \subseteq 1..(h + n)
      BY DEF FieldIds
    <2> HIDE DEF h, n, T
    <2> QED  BY <1>1, <2>1
  <1>5. Max(T) \in T /\ Max(T) >= h + i
    BY <1>3, <1>4, MaxIs
  <1>6. ASSUME NEW m \in T, m >= h + i PROVE m = h + i
    <2> DEFINE j == m - h
    <2>1. j \in 1..n /\ m = h + j
      <3>1. m \in 1..(h + n)
        BY <1>4
      <3> HIDE DEF h, n, T
      <3> QED  BY <1>1, <1>6, <3>1
    <2> HIDE DEF j
    <2>2. class.members[j].k = "field" /\ class.members[j].name = name
      BY <1>2, <1>6, <2>1 DEF FieldIds
    <2>3. j = i
      BY <1>1, <2>1, <2>2, ClassIs
    <2> QED  BY <2>1, <2>3
  <1>7. Max(T) = h + i
    BY <1>5, <1>6
  <1> QED  BY <1>1, <1>2, <1>7 DEF FieldIdOf

\* A read of a field by its simple name is in order unless the field has no value yet.
LEMMA InOrderIs ==
    ASSUME class \in DataflowClasses, NEW m \in 1..Len(class.members), class.members[m].k = "field",
           NEW e \in Range(class.members[m].val), e.k = "field",
           class.members[m].val[e.base] = ImplicitThis
    PROVE  ~InOrder(e, class.members[m].val, FieldIdOf(class.members[m].name)) <=> e.name \in Unready(m)
  <1> DEFINE h == Len(class.inherited)
             n == Len(class.members)
             fid == FieldIdOf(e.name)
             cur == FieldIdOf(class.members[m].name)
  <1>1. h \in Nat /\ n \in Nat
    BY ClassIs
  <1>2. cur = h + m
    BY OwnFieldId
  <1>3. ~InOrder(e, class.members[m].val, cur) <=> IsOwn(fid) /\ ~FieldAt(fid).isStatic /\ ~(fid < cur)
    BY DEF InOrder
  <1>4. e.name \in Unready(m) <=> \E i \in m..n : class.members[i].k = "field" /\ class.members[i].name = e.name
    BY DEF Unready
  <1>5. ASSUME NEW i \in 1..n, class.members[i].k = "field", class.members[i].name = e.name
        PROVE  ~class.members[i].isStatic
    BY <1>1, <1>5, ClassIs, ClassesAssumption DEF IsClass
  <1>6. CASE \E i \in 1..n : class.members[i].k = "field" /\ class.members[i].name = e.name
    <2>1. PICK i \in 1..n : class.members[i].k = "field" /\ class.members[i].name = e.name
      BY <1>6
    <2>2. fid = h + i /\ IsOwn(fid) /\ FieldAt(fid) = class.members[i]
      BY <2>1, OwnFieldId
    <2>3. ~FieldAt(fid).isStatic
      BY <1>5, <2>1, <2>2
    <2>4. \A j \in 1..n : class.members[j].k = "field" /\ class.members[j].name = e.name => j = i
      BY <2>1, ClassIs
    <2> HIDE DEF fid, cur
    <2>5. ~(fid < cur) <=> i >= m
      BY <1>1, <1>2, <2>1, <2>2
    <2>6. e.name \in Unready(m) <=> i >= m
      BY <1>1, <1>4, <2>1, <2>4
    <2>7. ~InOrder(e, class.members[m].val, cur) <=> i >= m
      BY <1>3, <2>2, <2>3, <2>5
    <2> QED  BY <2>6, <2>7 DEF cur
  <1>7. CASE ~\E i \in 1..n : class.members[i].k = "field" /\ class.members[i].name = e.name
    <2> DEFINE T == FieldIds(e.name)
    <2>1. \A f \in T : ~IsOwn(f)
      <3> SUFFICES ASSUME NEW f \in T, IsOwn(f) PROVE FALSE
        OBVIOUS
      <3>1. f \in 1..(h + n) /\ FieldAt(f).k = "field" /\ FieldAt(f).name = e.name
        BY DEF FieldIds
      <3>2. f > h /\ FieldAt(f) = class.members[f - h]
        BY DEF IsOwn, FieldAt
      <3>3. f - h \in 1..n
        <4> HIDE DEF h, n
        <4> QED  BY <1>1, <3>1, <3>2
      <3> QED  BY <1>7, <3>1, <3>2, <3>3
    <2>2. T # {}
      <3>1. \E f \in Range(class.inherited) \cup Range(class.members) : f.k = "field" /\ f.name = e.name
        BY ClassesAssumption, ClassIs DEF IsClass
      <3>2. PICK f \in 1..h : class.inherited[f].k = "field" /\ class.inherited[f].name = e.name
        BY <1>7, <3>1, ClassIs DEF Range
      <3>3. f \in 1..(h + n) /\ ~(f > h)
        <4> HIDE DEF h, n
        <4> QED  BY <1>1
      <3>4. FieldAt(f) = class.inherited[f]
        BY <3>3 DEF FieldAt, IsOwn
      <3>5. f \in T
        BY <3>2, <3>3, <3>4 DEF FieldIds
      <3> QED  BY <3>5
    <2>3. T \in SUBSET (1..(h + n)) /\ h + n \in Nat
      <3>1. T \subseteq 1..(h + n)
        BY DEF FieldIds
      <3> HIDE DEF h, n, T
      <3> QED  BY <1>1, <3>1
    <2>4. fid \in T
      BY <2>2, <2>3, MaxIs DEF FieldIdOf
    <2>5. ~IsOwn(fid)
      BY <2>1, <2>4
    <2>6. e.name \notin Unready(m)
      BY <1>1, <1>4, <1>7
    <2> QED  BY <1>3, <2>5, <2>6
  <1> QED  BY <1>6, <1>7
-----------------------------------------------------------------------------
(***************************************************************************)
(* Runs.                                                                   *)
(***************************************************************************)
LEMMA PointsDiffer ==
    /\ \A i, j : Start(i) = Start(j) => i = j
    /\ \A i, j : End(i) = End(j) => i = j
    /\ \A i, j : Start(i) # End(j)
    /\ \A i : Start(i) # Returned /\ End(i) # Returned
  BY DEF Start, End, Returned

\* Induction on the places up to N: a place is in S if those before it are.
LEMMA PlaceInduction ==
    ASSUME NEW N \in Nat, NEW S, \A i \in 1..N : 1..(i - 1) \subseteq S => i \in S
    PROVE  1..N \subseteq S
  <1> DEFINE T == {n \in Nat : n <= N => 1..n \subseteq S}
  <1>1. 0 \in T
    OBVIOUS
  <1>2. ASSUME NEW n \in Nat, n \in T PROVE n + 1 \in T
    <2> SUFFICES ASSUME n + 1 <= N PROVE 1..(n + 1) \subseteq S
      OBVIOUS
    <2>1. 1..n \subseteq S
      BY <1>2
    <2>2. n + 1 \in 1..N /\ (n + 1) - 1 = n
      OBVIOUS
    <2>3. n + 1 \in S
      BY <2>1, <2>2
    <2>4. 1..(n + 1) = 1..n \cup {n + 1}
      OBVIOUS
    <2> QED  BY <2>1, <2>3, <2>4
  <1> HIDE DEF T
  <1>3. Nat \subseteq T
    BY <1>1, <1>2, SetInduction
  <1> QED  BY <1>3 DEF T

\* The bodies of IsBody.
BodyIs(body) ==
  /\ Len(body) \in Nat /\ Len(body) > 0 /\ DOMAIN body = 1..Len(body)
  /\ \A i \in 1..Len(body) :
        LET s == body[i]
        IN  /\ s.k \in {"simple", "return", "block", "if", "loop"}
            /\ s.k = "block" =>
                 /\ Len(s.stmts) \in Nat /\ DOMAIN s.stmts = 1..Len(s.stmts)
                 /\ \A k \in 1..Len(s.stmts) : s.stmts[k] \in 1..(i - 1)
                 /\ \A k, l \in 1..Len(s.stmts) : s.stmts[k] = s.stmts[l] => k = l
            /\ s.k = "if" => s.then \in 1..(i - 1) /\ s.else \in 1..(i - 1) /\ s.then # s.else
            /\ s.k = "loop" => s.body \in 1..(i - 1)
  /\ \A i, j \in 1..Len(body) : PartsOf(body[i]) \cap PartsOf(body[j]) # {} => i = j
  /\ \A i \in 1..(Len(body) - 1) : \E j \in 1..Len(body) : i \in PartsOf(body[j])

LEMMA BodiesAre ==
    ASSUME NEW body, NEW exprs, IsBody(body, exprs)
    PROVE  BodyIs(body)
  <1>1. /\ body \in Seq(Range(body)) /\ body # << >>
        /\ \A i \in DOMAIN body : IsStatement(body[i], i, exprs)
        /\ \A i, j \in DOMAIN body : PartsOf(body[i]) \cap PartsOf(body[j]) # {} => i = j
        /\ \A i \in 1..(Len(body) - 1) : \E j \in DOMAIN body : i \in PartsOf(body[j])
    BY DEF IsBody
  <1>2. Len(body) \in Nat /\ Len(body) > 0 /\ DOMAIN body = 1..Len(body)
    BY <1>1
  <1>3. ASSUME NEW i \in 1..Len(body)
        PROVE  LET s == body[i]
               IN  /\ s.k \in {"simple", "return", "block", "if", "loop"}
                   /\ s.k = "block" =>
                        /\ Len(s.stmts) \in Nat /\ DOMAIN s.stmts = 1..Len(s.stmts)
                        /\ \A k \in 1..Len(s.stmts) : s.stmts[k] \in 1..(i - 1)
                        /\ \A k, l \in 1..Len(s.stmts) : s.stmts[k] = s.stmts[l] => k = l
                   /\ s.k = "if" => s.then \in 1..(i - 1) /\ s.else \in 1..(i - 1) /\ s.then # s.else
                   /\ s.k = "loop" => s.body \in 1..(i - 1)
    <2> DEFINE s == body[i]
    <2>1. IsStatement(s, i, exprs)
      BY <1>1, <1>2
    <2> HIDE DEF s
    <2>2. s.k \in {"simple", "return", "block", "if", "loop"}
      BY <2>1 DEF IsStatement
    <2>3. s.k = "if" => s.then \in 1..(i - 1) /\ s.else \in 1..(i - 1) /\ s.then # s.else
      BY <2>1 DEF IsStatement
    <2>4. s.k = "loop" => s.body \in 1..(i - 1)
      BY <2>1 DEF IsStatement
    <2>5. ASSUME s.k = "block"
          PROVE  /\ Len(s.stmts) \in Nat /\ DOMAIN s.stmts = 1..Len(s.stmts)
                 /\ \A k \in 1..Len(s.stmts) : s.stmts[k] \in 1..(i - 1)
                 /\ \A k, l \in 1..Len(s.stmts) : s.stmts[k] = s.stmts[l] => k = l
      <3>1. s.stmts \in Seq(1..(i - 1)) /\ IsInjective(s.stmts)
        BY <2>1, <2>5 DEF IsStatement
      <3>2. Len(s.stmts) \in Nat /\ DOMAIN s.stmts = 1..Len(s.stmts)
        BY <3>1
      <3>3. \A k \in 1..Len(s.stmts) : s.stmts[k] \in 1..(i - 1)
        BY <3>1
      <3>4. \A k, l \in 1..Len(s.stmts) : s.stmts[k] = s.stmts[l] => k = l
        BY <3>1, <3>2 DEF IsInjective
      <3> QED  BY <3>2, <3>3, <3>4
    <2> QED  BY <2>2, <2>3, <2>4, <2>5 DEF s
  <1> QED  BY <1>1, <1>2, <1>3 DEF BodyIs

\* One statement of a body.
LEMMA StatementIs ==
    ASSUME NEW body, BodyIs(body), NEW i \in 1..Len(body)
    PROVE  /\ body[i].k \in {"simple", "return", "block", "if", "loop"}
           /\ body[i].k = "block" =>
                /\ Len(body[i].stmts) \in Nat /\ DOMAIN body[i].stmts = 1..Len(body[i].stmts)
                /\ \A k \in 1..Len(body[i].stmts) : body[i].stmts[k] \in 1..(i - 1)
                /\ \A k, l \in 1..Len(body[i].stmts) : body[i].stmts[k] = body[i].stmts[l] => k = l
           /\ body[i].k = "if" =>
                body[i].then \in 1..(i - 1) /\ body[i].else \in 1..(i - 1) /\ body[i].then # body[i].else
           /\ body[i].k = "loop" => body[i].body \in 1..(i - 1)
  BY DEF BodyIs

LEMMA PartsAre ==
    ASSUME NEW body, BodyIs(body), NEW i \in 1..Len(body)
    PROVE  /\ PartsOf(body[i]) \subseteq 1..(i - 1)
           /\ body[i].k = "block" =>
                /\ \A k \in 1..Len(body[i].stmts) : body[i].stmts[k] \in PartsOf(body[i])
                /\ \A p \in PartsOf(body[i]) : \E k \in 1..Len(body[i].stmts) : p = body[i].stmts[k]
           /\ body[i].k = "if" => PartsOf(body[i]) = {body[i].then, body[i].else}
           /\ body[i].k = "loop" => PartsOf(body[i]) = {body[i].body}
           /\ body[i].k \in {"simple", "return"} => PartsOf(body[i]) = {}
  <1> DEFINE s == body[i]
  <1>1. /\ s.k \in {"simple", "return", "block", "if", "loop"}
        /\ s.k = "block" => Len(s.stmts) \in Nat /\ DOMAIN s.stmts = 1..Len(s.stmts)
                            /\ \A k \in 1..Len(s.stmts) : s.stmts[k] \in 1..(i - 1)
        /\ s.k = "if" => s.then \in 1..(i - 1) /\ s.else \in 1..(i - 1)
        /\ s.k = "loop" => s.body \in 1..(i - 1)
    BY StatementIs
  <1> HIDE DEF s
  <1>2. CASE s.k = "block"
    <2>1. PartsOf(s) = {s.stmts[k] : k \in 1..Len(s.stmts)}
      BY <1>1, <1>2 DEF PartsOf, Range
    <2> QED  BY <1>1, <1>2, <2>1 DEF s
  <1>3. CASE s.k = "if"
    BY <1>1, <1>3 DEF PartsOf, s
  <1>4. CASE s.k = "loop"
    BY <1>1, <1>4 DEF PartsOf, s
  <1>5. CASE s.k \in {"simple", "return"}
    BY <1>5 DEF PartsOf, s
  <1> QED  BY <1>1, <1>2, <1>3, <1>4, <1>5 DEF s

\* The points one step from those of r, and r.
OneMore(edges, r) == r \cup {e[2] : e \in {d \in edges : d[1] \in r}}

LEMMA ReachedExist ==
    ASSUME NEW body, Len(body) \in Nat, NEW edges
    PROVE  /\ ReachedIn(body, edges)[0] = {Start(Len(body))}
           /\ \A n \in 1..Longest(body) :
                 ReachedIn(body, edges)[n] = OneMore(edges, ReachedIn(body, edges)[n - 1])
  <1> DEFINE Rule(f, n) == IF n = 0 THEN {Start(Len(body))} ELSE OneMore(edges, f[n - 1])
             Good == {m \in Nat : \E f : f = [n \in 0..m |-> Rule(f, n)]}
  <1>1. 0 \in Good
    <2> DEFINE f == [n \in 0..0 |-> {Start(Len(body))}]
    <2>1. f = [n \in 0..0 |-> Rule(f, n)]
      OBVIOUS
    <2> HIDE DEF f
    <2> QED  BY <2>1
  <1>2. ASSUME NEW m \in Nat, m \in Good PROVE m + 1 \in Good
    <2>1. PICK f : f = [n \in 0..m |-> Rule(f, n)]
      BY <1>2
    <2> HIDE DEF Rule
    <2> DEFINE g == [n \in 0..(m + 1) |-> Rule(f, n)]
    <2>2. ASSUME NEW n \in 0..(m + 1) PROVE g[n] = Rule(g, n)
      <3>1. n # 0 => n - 1 \in 0..m /\ n - 1 \in 0..(m + 1)
        OBVIOUS
      <3>2. \A k \in 0..m : f[k] = Rule(f, k)
        BY <2>1
      <3>3. n # 0 => f[n - 1] = g[n - 1]
        BY <3>1, <3>2
      <3>4. g[n] = Rule(f, n)
        OBVIOUS
      <3> HIDE DEF g
      <3> QED  BY <3>3, <3>4 DEF Rule
    <2>3. g = [n \in 0..(m + 1) |-> g[n]]
      OBVIOUS
    <2> HIDE DEF g
    <2>4. g = [n \in 0..(m + 1) |-> Rule(g, n)]
      BY <2>2, <2>3
    <2> QED  BY <2>4
  <1> HIDE DEF Good
  <1>3. Nat \subseteq Good
    BY <1>1, <1>2, SetInduction
  <1>4. Longest(body) \in Nat
    BY DEF Longest
  <1>5. \E f : f = [n \in 0..Longest(body) |-> Rule(f, n)]
    BY <1>3, <1>4 DEF Good
  <1> DEFINE h == ReachedIn(body, edges)
  <1>6. h = [n \in 0..Longest(body) |-> Rule(h, n)]
    BY <1>5 DEF ReachedIn, OneMore
  <1> HIDE DEF h
  <1>7. \A n \in 0..Longest(body) : h[n] = Rule(h, n)
    BY <1>6
  <1>8. h[0] = {Start(Len(body))} /\ \A n \in 1..Longest(body) : h[n] = OneMore(edges, h[n - 1])
    BY <1>4, <1>7
  <1> QED  BY <1>8 DEF h

\* What is closed under the edges has the points of every run.
LEMMA RunsAreLeast ==
    ASSUME NEW body, Len(body) \in Nat, NEW edges, NEW J, Start(Len(body)) \in J,
           \A e \in edges : e[1] \in J => e[2] \in J
    PROVE  \A n \in 0..Longest(body) : ReachedIn(body, edges)[n] \subseteq J
  <1> DEFINE h == ReachedIn(body, edges)
             Good == {n \in Nat : n <= Longest(body) => h[n] \subseteq J}
  <1>1. /\ h[0] = {Start(Len(body))}
        /\ \A n \in 1..Longest(body) : h[n] = OneMore(edges, h[n - 1])
    BY ReachedExist
  <1>2. Longest(body) \in Nat
    BY DEF Longest
  <1> HIDE DEF h
  <1>3. 0 \in Good
    BY <1>1
  <1>4. ASSUME NEW n \in Nat, n \in Good PROVE n + 1 \in Good
    <2> SUFFICES ASSUME n + 1 <= Longest(body) PROVE h[n + 1] \subseteq J
      OBVIOUS
    <2>1. h[n + 1] = OneMore(edges, h[n]) /\ h[n] \subseteq J
      BY <1>1, <1>2, <1>4
    <2> QED  BY <2>1 DEF OneMore
  <1> HIDE DEF Good
  <1>5. Nat \subseteq Good
    BY <1>3, <1>4, SetInduction
  <1> QED  BY <1>2, <1>5 DEF Good, h

\* Runs of so many steps reach every point there is.
LEMMA RunsAreClosed ==
    ASSUME NEW body, Len(body) \in Nat, NEW edges, NEW P, IsFiniteSet(P), Cardinality(P) <= Longest(body),
           Start(Len(body)) \in P, \A e \in edges : e[2] \in P
    PROVE  LET R == ReachedIn(body, edges)[Longest(body)]
           IN  Start(Len(body)) \in R /\ \A e \in edges : e[1] \in R => e[2] \in R
  <1> DEFINE h == ReachedIn(body, edges)
             N == Longest(body)
             Closed(r) == \A e \in edges : e[1] \in r => e[2] \in r
             Good == {n \in Nat : n <= N => /\ Start(Len(body)) \in h[n] /\ h[n] \subseteq P
                                            /\ Closed(h[n]) \/ Cardinality(h[n]) >= n + 1}
  <1>1. /\ h[0] = {Start(Len(body))}
        /\ \A n \in 1..N : h[n] = OneMore(edges, h[n - 1])
    BY ReachedExist
  <1>2. N \in Nat /\ Cardinality(P) \in Nat
    BY FS_CardinalityType DEF Longest
  <1> HIDE DEF h, N
  <1>3. 0 \in Good
    <2>1. Cardinality(h[0]) >= 0 + 1
      <3>1. Cardinality({Start(Len(body))}) = 1
        BY FS_Singleton
      <3>2. Cardinality(h[0]) = 1
        BY <1>1, <3>1
      <3> QED  BY <3>2
    <2>2. Start(Len(body)) \in h[0] /\ h[0] \subseteq P
      BY <1>1
    <2> QED  BY <2>1, <2>2
  <1>4. ASSUME NEW n \in Nat, n \in Good PROVE n + 1 \in Good
    <2> SUFFICES ASSUME n + 1 <= N
                 PROVE  /\ Start(Len(body)) \in h[n + 1] /\ h[n + 1] \subseteq P
                        /\ Closed(h[n + 1]) \/ Cardinality(h[n + 1]) >= n + 2
      OBVIOUS
    <2>1. /\ Start(Len(body)) \in h[n] /\ h[n] \subseteq P
          /\ Closed(h[n]) \/ Cardinality(h[n]) >= n + 1
      BY <1>2, <1>4
    <2>2. h[n + 1] = OneMore(edges, h[n])
      <3>1. n + 1 \in 1..N /\ (n + 1) - 1 = n
        BY <1>2
      <3> QED  BY <1>1, <3>1
    <2>3. h[n] \subseteq h[n + 1] /\ h[n + 1] \subseteq P
      BY <2>1, <2>2 DEF OneMore
    <2>4. CASE Closed(h[n])
      <3>1. h[n + 1] \subseteq h[n]
        BY <2>2, <2>4 DEF OneMore
      <3>2. h[n + 1] = h[n]
        BY <2>3, <3>1
      <3> QED  BY <2>1, <2>4, <3>2
    <2>5. CASE ~Closed(h[n])
      <3>1. PICK e \in edges : e[1] \in h[n] /\ e[2] \notin h[n]
        BY <2>5
      <3>2. e[2] \in h[n + 1]
        BY <2>2, <3>1 DEF OneMore
      <3>3. IsFiniteSet(h[n]) /\ IsFiniteSet(h[n + 1])
        BY <2>1, <2>3, FS_Subset
      <3>4. IsFiniteSet(h[n] \cup {e[2]}) /\ Cardinality(h[n] \cup {e[2]}) = Cardinality(h[n]) + 1
        BY <3>1, <3>3, FS_AddElement
      <3>5. h[n] \cup {e[2]} \in SUBSET h[n + 1]
        BY <2>3, <3>2
      <3>6. Cardinality(h[n] \cup {e[2]}) <= Cardinality(h[n + 1])
        BY <3>3, <3>5, FS_Subset
      <3>7. Cardinality(h[n]) \in Nat /\ Cardinality(h[n + 1]) \in Nat
        BY <3>3, FS_CardinalityType
      <3>8. Cardinality(h[n + 1]) >= n + 2
        BY <2>1, <2>5, <3>4, <3>6, <3>7
      <3> QED  BY <2>1, <2>3, <3>8
    <2> QED  BY <2>4, <2>5
  <1> HIDE DEF Good
  <1>5. Nat \subseteq Good
    BY <1>3, <1>4, SetInduction
  <1>6. /\ Start(Len(body)) \in h[N] /\ h[N] \subseteq P
        /\ Closed(h[N]) \/ Cardinality(h[N]) >= N + 1
    BY <1>2, <1>5 DEF Good
  <1>7. Cardinality(h[N]) <= Cardinality(P) /\ Cardinality(h[N]) \in Nat
    <2>1. h[N] \in SUBSET P
      BY <1>6
    <2> QED  BY <2>1, FS_Subset, FS_CardinalityType
  <1>8. Cardinality(P) <= N
    BY DEF N
  <1>9. Closed(h[N])
    BY <1>2, <1>6, <1>7, <1>8
  <1> QED  BY <1>6, <1>9 DEF h, N

\* The points of a body.
Points(n) == {Start(i) : i \in 1..n} \cup {End(i) : i \in 1..n} \cup {Returned}

LEMMA PointsAreFew ==
    ASSUME NEW n \in Nat
    PROVE  IsFiniteSet(Points(n)) /\ Cardinality(Points(n)) <= 2 * n + 1
  <1> DEFINE f == [k \in 1..(2 * n + 1) |-> IF k <= n THEN Start(k) ELSE IF k <= 2 * n THEN End(k - n) ELSE Returned]
  <1>1. f \in Surjection(1..(2 * n + 1), Points(n))
    <2>1. ASSUME NEW k \in 1..(2 * n + 1) PROVE f[k] \in Points(n)
      <3>1. CASE k <= n
        <4>1. k \in 1..n
          BY <3>1
        <4> QED  BY <3>1, <4>1 DEF Points
      <3>2. CASE ~(k <= n) /\ k <= 2 * n
        <4>1. k - n \in 1..n
          BY <3>2
        <4> QED  BY <3>2, <4>1 DEF Points
      <3>3. CASE ~(k <= n) /\ ~(k <= 2 * n)
        BY <3>3 DEF Points
      <3> QED  BY <3>1, <3>2, <3>3
    <2>2. ASSUME NEW p \in Points(n) PROVE \E k \in 1..(2 * n + 1) : f[k] = p
      <3>1. ASSUME NEW i \in 1..n, p = Start(i) PROVE \E k \in 1..(2 * n + 1) : f[k] = p
        <4>1. i \in 1..(2 * n + 1) /\ i <= n
          OBVIOUS
        <4> QED  BY <3>1, <4>1
      <3>2. ASSUME NEW i \in 1..n, p = End(i) PROVE \E k \in 1..(2 * n + 1) : f[k] = p
        <4>1. n + i \in 1..(2 * n + 1) /\ ~(n + i <= n) /\ n + i <= 2 * n /\ (n + i) - n = i
          OBVIOUS
        <4>2. f[n + i] = End(i)
          BY <4>1
        <4> QED  BY <3>2, <4>1, <4>2
      <3>3. ASSUME p = Returned PROVE \E k \in 1..(2 * n + 1) : f[k] = p
        <4>1. 2 * n + 1 \in 1..(2 * n + 1) /\ ~(2 * n + 1 <= n) /\ ~(2 * n + 1 <= 2 * n)
          OBVIOUS
        <4>2. f[2 * n + 1] = Returned
          BY <4>1
        <4> QED  BY <3>3, <4>1, <4>2
      <3> QED  BY <3>1, <3>2, <3>3 DEF Points
    <2>3. f \in [1..(2 * n + 1) -> Points(n)]
      BY <2>1
    <2> QED  BY <2>2, <2>3 DEF Surjection
  <1> HIDE DEF f
  <1>2. IsFiniteSet(1..(2 * n + 1)) /\ Cardinality(1..(2 * n + 1)) = 2 * n + 1
    <2>1. 1 \in Int /\ 2 * n + 1 \in Int /\ ~(1 > 2 * n + 1) /\ (2 * n + 1) - 1 + 1 = 2 * n + 1
      OBVIOUS
    <2> QED  BY <2>1, FS_Interval
  <1> QED  BY <1>1, <1>2, FS_Surjection

\* What the statement at place i leads from and to.
LEMMA EdgesJoin ==
    ASSUME NEW body, BodyIs(body), NEW i \in 1..Len(body), NEW o, NEW e \in EdgesOf(i, body[i], o)
    PROVE  /\ e[1] = Start(i) \/ \E p \in PartsOf(body[i]) : e[1] = End(p)
           /\ e[2] \in {Start(i), End(i), Returned} \/ \E p \in PartsOf(body[i]) : e[2] = Start(p)
  <1> DEFINE s == body[i]
             From(a) == a = Start(i) \/ \E p \in PartsOf(s) : a = End(p)
             To(b) == b \in {Start(i), End(i), Returned} \/ \E p \in PartsOf(s) : b = Start(p)
             Goal == From(e[1]) /\ To(e[2])
  <1>1. /\ s.k \in {"simple", "return", "block", "if", "loop"}
        /\ s.k = "block" => Len(s.stmts) \in Nat
    BY StatementIs
  <1>2. /\ s.k = "block" => \A k \in 1..Len(s.stmts) : s.stmts[k] \in PartsOf(s)
        /\ s.k = "if" => PartsOf(s) = {s.then, s.else}
        /\ s.k = "loop" => PartsOf(s) = {s.body}
    BY PartsAre
  <1> SUFFICES Goal
    OBVIOUS
  <1>3. \A a, b : e = <<a, b>> /\ From(a) /\ To(b) => Goal
    OBVIOUS
  <1> HIDE DEF Goal, s
  <1>4. CASE s.k = "simple"
    <2>1. e = <<Start(i), End(i)>>
      BY <1>4 DEF EdgesOf, s
    <2> QED  BY <1>3, <2>1
  <1>5. CASE s.k = "return"
    <2>1. e = <<Start(i), Returned>>
      BY <1>5 DEF EdgesOf, s
    <2> QED  BY <1>3, <2>1
  <1>6. CASE s.k = "block"
    <2>1. e \in BlockEdges(i, s.stmts)
      BY <1>6 DEF EdgesOf, s
    <2>2. PICK k \in 0..Len(s.stmts) :
             e = <<IF k = 0 THEN Start(i) ELSE End(s.stmts[k]),
                   IF k = Len(s.stmts) THEN End(i) ELSE Start(s.stmts[k + 1])>>
      BY <2>1 DEF BlockEdges
    <2> DEFINE a == IF k = 0 THEN Start(i) ELSE End(s.stmts[k])
               b == IF k = Len(s.stmts) THEN End(i) ELSE Start(s.stmts[k + 1])
    <2>3. From(a)
      <3>1. k # 0 => k \in 1..Len(s.stmts)
        BY <1>1, <1>6
      <3> QED  BY <1>2, <1>6, <3>1
    <2>4. To(b)
      <3>1. k # Len(s.stmts) => k + 1 \in 1..Len(s.stmts)
        BY <1>1, <1>6
      <3> QED  BY <1>2, <1>6, <3>1
    <2>5. e = <<a, b>>
      BY <2>2
    <2> HIDE DEF a, b
    <2> QED  BY <1>3, <2>3, <2>4, <2>5
  <1>7. CASE s.k = "if"
    <2>1. e \in IfEdges(i, s)
      BY <1>7 DEF EdgesOf, s
    <2>2. s.then \in PartsOf(s) /\ s.else \in PartsOf(s)
      BY <1>2, <1>7
    <2>3. \/ e = <<Start(i), Start(s.then)>> \/ e = <<End(s.then), End(i)>>
          \/ e = <<Start(i), Start(s.else)>> \/ e = <<End(s.else), End(i)>>
      BY <2>1 DEF IfEdges
    <2> QED  BY <1>3, <2>2, <2>3
  <1>8. CASE s.k = "loop"
    <2>1. e \in LoopEdges(i, s, o)
      BY <1>8 DEF EdgesOf, s
    <2>2. s.body \in PartsOf(s)
      BY <1>2, <1>8
    <2>3. e = <<End(s.body), Start(i)>> \/ e = <<Start(i), Start(s.body)>> \/ e = <<Start(i), End(i)>>
      BY <2>1 DEF LoopEdges
    <2> QED  BY <1>3, <2>2, <2>3
  <1> QED  BY <1>1, <1>4, <1>5, <1>6, <1>7, <1>8

\* The points of the runs are the least set that has the start of the body and is
\* closed under the edges.
LEMMA RunsAre ==
    ASSUME NEW body, BodyIs(body), NEW o
    PROVE  /\ Start(Len(body)) \in Runs(body, o)
           /\ \A i \in 1..Len(body) : \A e \in EdgesOf(i, body[i], o[i]) :
                 e[1] \in Runs(body, o) => e[2] \in Runs(body, o)
           /\ \A J : /\ Start(Len(body)) \in J
                     /\ \A i \in 1..Len(body) : \A e \in EdgesOf(i, body[i], o[i]) : e[1] \in J => e[2] \in J
                     => Runs(body, o) \subseteq J
  <1> DEFINE n == Len(body)
             edges == Edges(body, o)
  <1>1. n \in Nat /\ n > 0 /\ DOMAIN body = 1..n
    BY DEF BodyIs
  <1>2. /\ \A e \in edges : \E i \in 1..n : e \in EdgesOf(i, body[i], o[i])
        /\ \A i \in 1..n : \A e \in EdgesOf(i, body[i], o[i]) : e \in edges
    BY <1>1 DEF Edges
  <1>3. ASSUME NEW e \in edges PROVE e[2] \in Points(n)
    <2>1. PICK i \in 1..n : e \in EdgesOf(i, body[i], o[i])
      BY <1>2
    <2>2. e[2] \in {Start(i), End(i), Returned} \/ \E p \in PartsOf(body[i]) : e[2] = Start(p)
      BY <2>1, EdgesJoin
    <2>3. PartsOf(body[i]) \subseteq 1..n
      BY <1>1, PartsAre
    <2> QED  BY <2>2, <2>3 DEF Points
  <1>4. Start(n) \in Points(n)
    <2>1. n \in 1..n
      BY <1>1
    <2> QED  BY <2>1 DEF Points
  <1>5. IsFiniteSet(Points(n)) /\ Cardinality(Points(n)) <= Longest(body)
    BY <1>1, PointsAreFew DEF Longest
  <1>6. Runs(body, o) = ReachedIn(body, edges)[Longest(body)]
    BY DEF Runs
  <1> HIDE DEF edges
  <1>7. Start(n) \in Runs(body, o) /\ \A e \in edges : e[1] \in Runs(body, o) => e[2] \in Runs(body, o)
    BY <1>1, <1>3, <1>4, <1>5, <1>6, RunsAreClosed
  <1>8. ASSUME NEW J, Start(n) \in J,
               \A i \in 1..n : \A e \in EdgesOf(i, body[i], o[i]) : e[1] \in J => e[2] \in J
        PROVE  Runs(body, o) \subseteq J
    <2>1. \A e \in edges : e[1] \in J => e[2] \in J
      BY <1>2, <1>8
    <2>2. Longest(body) \in 0..Longest(body)
      BY <1>1 DEF Longest
    <2> QED  BY <1>1, <1>6, <1>8, <2>1, <2>2, RunsAreLeast
  <1> QED  BY <1>2, <1>7, <1>8

\* A set of places that has the parts of each of its statements; what is within the
\* statement at place i.
HasParts(body, T) == T \in SUBSET (1..Len(body)) /\ \A p \in T : PartsOf(body[p]) \subseteq T
Within(body, i) == {j \in 1..Len(body) : \A T : HasParts(body, T) /\ i \in T => j \in T}

LEMMA WithinIs ==
    ASSUME NEW body, BodyIs(body), NEW i \in 1..Len(body)
    PROVE  /\ i \in Within(body, i) /\ HasParts(body, Within(body, i))
           /\ Within(body, i) \subseteq 1..i
           /\ \A p \in Within(body, i) : Within(body, p) \subseteq Within(body, i)
           /\ \A j \in Within(body, i) : j = i \/ \E p \in PartsOf(body[i]) : j \in Within(body, p)
           /\ \A q \in 1..Len(body) : \A j \in PartsOf(body[q]) :
                 j \in Within(body, i) => j = i \/ q \in Within(body, i)
  <1> DEFINE n == Len(body)
             W(j) == Within(body, j)
  <1>1. n \in Nat
    BY DEF BodyIs
  <1>2. \A p \in 1..n : PartsOf(body[p]) \subseteq 1..(p - 1) /\ PartsOf(body[p]) \subseteq 1..n
    <2> SUFFICES ASSUME NEW p \in 1..n
                 PROVE  PartsOf(body[p]) \subseteq 1..(p - 1) /\ PartsOf(body[p]) \subseteq 1..n
      OBVIOUS
    <2>1. PartsOf(body[p]) \subseteq 1..(p - 1)
      BY PartsAre
    <2>2. 1..(p - 1) \subseteq 1..n
      BY <1>1
    <2> QED  BY <2>1, <2>2
  <1>3. \A j \in 1..n : j \in W(j)
    BY DEF Within
  <1>4. \A j \in 1..n : HasParts(body, W(j))
    BY <1>2 DEF Within, HasParts
  <1>5. \A T : \A j \in 1..n : HasParts(body, T) /\ j \in T => W(j) \subseteq T
    BY DEF Within
  <1>6. W(i) \subseteq 1..i
    <2>1. HasParts(body, 1..i) /\ i \in 1..i
      BY <1>1, <1>2 DEF HasParts
    <2> QED  BY <1>5, <2>1
  <1>7. \A p \in W(i) : W(p) \subseteq W(i)
    <2>1. W(i) \subseteq 1..n
      BY DEF Within
    <2> QED  BY <1>4, <1>5, <2>1
  <1>8. ASSUME NEW j \in W(i) PROVE j = i \/ \E p \in PartsOf(body[i]) : j \in W(p)
    <2> DEFINE T == {i} \cup UNION {W(p) : p \in PartsOf(body[i])}
    <2>1. T \in SUBSET (1..n)
      BY DEF Within
    <2>2. ASSUME NEW q \in T PROVE PartsOf(body[q]) \subseteq T
      <3>1. CASE q = i
        <4>1. \A p \in PartsOf(body[i]) : p \in W(p)
          BY <1>2, <1>3
        <4> QED  BY <3>1, <4>1
      <3>2. ASSUME NEW p \in PartsOf(body[i]), q \in W(p) PROVE PartsOf(body[q]) \subseteq T
        <4>1. PartsOf(body[q]) \subseteq W(p)
          BY <1>2, <1>4, <3>2 DEF HasParts
        <4> QED  BY <4>1
      <3> QED  BY <3>1, <3>2
    <2>3. HasParts(body, T) /\ i \in T
      BY <2>1, <2>2 DEF HasParts
    <2> HIDE DEF T
    <2>4. j \in T
      BY <1>5, <2>3
    <2> QED  BY <2>4 DEF T
  <1>9. ASSUME NEW q \in 1..n, NEW j \in PartsOf(body[q]), j \in W(i), j # i PROVE q \in W(i)
    <2> SUFFICES ASSUME q \notin W(i) PROVE FALSE
      OBVIOUS
    <2> DEFINE T == W(i) \ {j}
    <2>1. \A p \in 1..n : j \in PartsOf(body[p]) => p = q
      BY DEF BodyIs
    <2>2. HasParts(body, T)
      <3>1. HasParts(body, W(i))
        BY <1>4
      <3> QED  BY <2>1, <3>1 DEF HasParts
    <2>3. i \in T
      BY <1>3, <1>9
    <2>4. W(i) \subseteq T
      BY <1>5, <2>2, <2>3
    <2> QED  BY <1>9, <2>4
  <1> QED  BY <1>3, <1>4, <1>6, <1>7, <1>8, <1>9

\* The whole body has every statement.
LEMMA AllWithin ==
    ASSUME NEW body, BodyIs(body)
    PROVE  Within(body, Len(body)) = 1..Len(body)
  <1> DEFINE n == Len(body)
             T == (1..n) \ Within(body, n)
  <1>1. n \in Nat /\ n \in 1..n
    BY DEF BodyIs
  <1>2. n \in Within(body, n) /\ HasParts(body, Within(body, n))
    BY <1>1, WithinIs
  <1> SUFFICES ASSUME T # {} PROVE FALSE
    BY <1>2 DEF HasParts
  <1>3. PICK m \in T : \A k \in T : m >= k
    <2> HIDE DEF n
    <2>1. T \in SUBSET (1..n)
      OBVIOUS
    <2> HIDE DEF T
    <2> QED  BY <1>1, <2>1, GreatestNumber
  <1>4. m \in 1..(n - 1)
    BY <1>1, <1>2
  <1>5. PICK q \in 1..n : m \in PartsOf(body[q])
    BY <1>4 DEF BodyIs
  <1>6. m < q
    <2>1. m \in 1..(q - 1)
      BY <1>5, PartsAre
    <2> QED  BY <1>1, <2>1
  <1>7. q \notin T
    BY <1>1, <1>3, <1>6
  <1>8. PartsOf(body[q]) \subseteq Within(body, n)
    BY <1>2, <1>7 DEF HasParts
  <1> QED  BY <1>3, <1>5, <1>8

\* A run that is at the start of a part came in from the statement it is a part of.
LEMMA RunEnters ==
    ASSUME NEW body, BodyIs(body), NEW o, NEW p \in 1..Len(body), NEW i \in PartsOf(body[p]),
           Start(i) \in Runs(body, o)
    PROVE  \E e \in EdgesOf(p, body[p], o[p]) : e[1] \in Runs(body, o) /\ e[2] = Start(i)
  <1> DEFINE n == Len(body)
             W == Within(body, i)
             inside == {Start(j) : j \in W} \cup {End(j) : j \in W}
             J == Runs(body, o) \ inside
  <1>1. n \in Nat /\ PartsOf(body[p]) \subseteq 1..(p - 1) /\ i \in 1..n /\ i < p
    <2>1. n \in Nat /\ PartsOf(body[p]) \subseteq 1..(p - 1)
      BY PartsAre DEF BodyIs
    <2> QED  BY <2>1
  <1>2. /\ i \in W /\ W \subseteq 1..i
        /\ \A q \in W : PartsOf(body[q]) \subseteq W
        /\ \A q \in 1..n : \A j \in PartsOf(body[q]) : j \in W => j = i \/ q \in W
    BY <1>1, WithinIs DEF HasParts
  <1>3. Start(n) \in J
    <2>1. n \notin W
      BY <1>1, <1>2
    <2>2. Start(n) \notin inside
      BY <2>1, PointsDiffer
    <2> QED  BY <2>2, RunsAre
  <1>4. ~(Runs(body, o) \subseteq J)
    BY <1>2
  <1>5. ~\A q \in 1..n : \A e \in EdgesOf(q, body[q], o[q]) : e[1] \in J => e[2] \in J
    <2> HIDE DEF J
    <2> QED  BY <1>3, <1>4, RunsAre
  <1>6. PICK q \in 1..n : \E e \in EdgesOf(q, body[q], o[q]) : e[1] \in J /\ e[2] \notin J
    BY <1>5
  <1>60. PICK e \in EdgesOf(q, body[q], o[q]) : e[1] \in J /\ e[2] \notin J
    BY <1>6
  <1>7. e[1] \in Runs(body, o) /\ e[1] \notin inside
    BY <1>60
  <1>8. e[2] \in inside
    <2>1. e[2] \in Runs(body, o)
      BY <1>60, <1>7, RunsAre
    <2> QED  BY <1>60, <2>1
  <1>9. /\ e[1] = Start(q) \/ \E j \in PartsOf(body[q]) : e[1] = End(j)
        /\ e[2] \in {Start(q), End(q), Returned} \/ \E j \in PartsOf(body[q]) : e[2] = Start(j)
    BY <1>60, EdgesJoin
  <1> HIDE DEF W
  <1>10. q \notin W
    BY <1>2, <1>7, <1>9
  <1>11. PICK j \in PartsOf(body[q]) : e[2] = Start(j)
    BY <1>8, <1>9, <1>10, PointsDiffer
  <1>12. j \in W
    BY <1>8, <1>11, PointsDiffer
  <1>13. j = i
    BY <1>2, <1>10, <1>12
  <1>14. q = p
    BY <1>13 DEF BodyIs
  <1> QED  BY <1>60, <1>7, <1>11, <1>13, <1>14

\* A run that is at the end of a statement came there from within it.
LEMMA RunEnds ==
    ASSUME NEW body, BodyIs(body), NEW o, NEW i \in 1..Len(body), End(i) \in Runs(body, o)
    PROVE  \E e \in EdgesOf(i, body[i], o[i]) : e[1] \in Runs(body, o) /\ e[2] = End(i)
  <1> DEFINE n == Len(body)
             J == Runs(body, o) \ {End(i)}
  <1>1. Start(n) \in J /\ ~(Runs(body, o) \subseteq J)
    BY RunsAre, PointsDiffer
  <1>2. ~\A q \in 1..n : \A e \in EdgesOf(q, body[q], o[q]) : e[1] \in J => e[2] \in J
    <2> HIDE DEF J
    <2> QED  BY <1>1, RunsAre
  <1>3. PICK q \in 1..n : \E e \in EdgesOf(q, body[q], o[q]) : e[1] \in J /\ e[2] \notin J
    BY <1>2
  <1>30. PICK e \in EdgesOf(q, body[q], o[q]) : e[1] \in J /\ e[2] \notin J
    BY <1>3
  <1>4. e[1] \in Runs(body, o) /\ e[2] = End(i)
    <2>1. e[2] \in Runs(body, o)
      BY <1>30, RunsAre
    <2> QED  BY <1>30, <2>1
  <1>5. /\ e[1] = Start(q) \/ \E j \in PartsOf(body[q]) : e[1] = End(j)
        /\ e[2] \in {Start(q), End(q), Returned} \/ \E j \in PartsOf(body[q]) : e[2] = Start(j)
    BY EdgesJoin
  <1>6. q = i
    BY <1>4, <1>5, PointsDiffer
  <1> QED  BY <1>30, <1>4, <1>6

\* From point to point through each kind of statement.
BlockFrom(i, stmts, k) == IF k = 0 THEN Start(i) ELSE End(stmts[k])
BlockTo(i, stmts, k) == IF k = Len(stmts) THEN End(i) ELSE Start(stmts[k + 1])

LEMMA SimpleFlow ==
    ASSUME NEW body, BodyIs(body), NEW o, NEW i \in 1..Len(body)
    PROVE  /\ body[i].k = "simple" => (End(i) \in Runs(body, o) <=> Start(i) \in Runs(body, o))
           /\ body[i].k = "return" => End(i) \notin Runs(body, o)
  <1> DEFINE s == body[i]
             R == Runs(body, o)
  <1>1. CASE s.k = "simple"
    <2>1. EdgesOf(i, s, o[i]) = {<<Start(i), End(i)>>}
      BY <1>1 DEF EdgesOf
    <2>2. <<Start(i), End(i)>>[1] \in R => <<Start(i), End(i)>>[2] \in R
      BY <2>1, RunsAre
    <2>3. End(i) \in R => \E e \in EdgesOf(i, s, o[i]) : e[1] \in R
      BY RunEnds
    <2> QED  BY <1>1, <2>1, <2>2, <2>3
  <1>2. CASE s.k = "return"
    <2>1. EdgesOf(i, s, o[i]) = {<<Start(i), Returned>>}
      BY <1>2 DEF EdgesOf
    <2>2. End(i) \in R => \E e \in EdgesOf(i, s, o[i]) : e[2] = End(i)
      BY RunEnds
    <2> QED  BY <1>2, <2>1, <2>2, PointsDiffer
  <1> QED  BY <1>1, <1>2

LEMMA BlockFlow ==
    ASSUME NEW body, BodyIs(body), NEW o, NEW i \in 1..Len(body), body[i].k = "block",
           NEW k \in 0..Len(body[i].stmts)
    PROVE  BlockTo(i, body[i].stmts, k) \in Runs(body, o) <=> BlockFrom(i, body[i].stmts, k) \in Runs(body, o)
  <1> DEFINE t == body[i].stmts
             R == Runs(body, o)
             E == EdgesOf(i, body[i], o[i])
             from(l) == BlockFrom(i, t, l)
             to(l) == BlockTo(i, t, l)
  <1>1. /\ Len(t) \in Nat
        /\ \A l \in 1..Len(t) : t[l] \in PartsOf(body[i])
        /\ \A l, m \in 1..Len(t) : t[l] = t[m] => l = m
    BY StatementIs, PartsAre
  <1>2. E = {<<from(l), to(l)>> : l \in 0..Len(t)}
    BY DEF EdgesOf, BlockEdges, BlockFrom, BlockTo
  <1>3. ASSUME from(k) \in R PROVE to(k) \in R
    <2>1. <<from(k), to(k)>> \in E
      BY <1>2
    <2>2. <<from(k), to(k)>>[1] \in R => <<from(k), to(k)>>[2] \in R
      <3> HIDE DEF from, to, E
      <3> QED  BY <2>1, RunsAre DEF E
    <2> QED  BY <1>3, <2>2
  <1>4. ASSUME to(k) \in R PROVE \E e \in E : e[1] \in R /\ e[2] = to(k)
    <2>1. CASE k = Len(t)
      <3>1. to(k) = End(i)
        BY <2>1 DEF BlockTo
      <3> QED  BY <1>4, <3>1, RunEnds
    <2>2. CASE k # Len(t)
      <3>1. to(k) = Start(t[k + 1]) /\ t[k + 1] \in PartsOf(body[i])
        <4>1. k + 1 \in 1..Len(t)
          BY <1>1, <2>2
        <4> QED  BY <1>1, <2>2, <4>1 DEF BlockTo
      <3> QED  BY <1>4, <3>1, RunEnters
    <2> QED  BY <2>1, <2>2
  <1>5. ASSUME NEW l \in 0..Len(t), to(l) = to(k) PROVE l = k
    <2>1. CASE k = Len(t) \/ l = Len(t)
      BY <1>5, <2>1, PointsDiffer DEF BlockTo
    <2>2. CASE k # Len(t) /\ l # Len(t)
      <3>1. t[l + 1] = t[k + 1]
        BY <1>5, <2>2, PointsDiffer DEF BlockTo
      <3>2. k + 1 \in 1..Len(t) /\ l + 1 \in 1..Len(t)
        BY <1>1, <2>2
      <3>3. l + 1 = k + 1
        BY <1>1, <3>1, <3>2
      <3> QED  BY <3>3
    <2> QED  BY <2>1, <2>2
  <1>6. ASSUME to(k) \in R PROVE from(k) \in R
    <2>1. PICK e \in E : e[1] \in R /\ e[2] = to(k)
      BY <1>4, <1>6
    <2>2. PICK l \in 0..Len(t) : e = <<from(l), to(l)>>
      BY <1>2
    <2> HIDE DEF from, to
    <2>3. e[1] = from(l) /\ e[2] = to(l)
      BY <2>2
    <2>4. l = k
      BY <1>5, <2>1, <2>3
    <2> QED  BY <2>1, <2>3, <2>4
  <1> QED  BY <1>3, <1>6

LEMMA IfFlow ==
    ASSUME NEW body, BodyIs(body), NEW o, NEW i \in 1..Len(body), body[i].k = "if"
    PROVE  /\ Start(body[i].then) \in Runs(body, o) <=> Start(i) \in Runs(body, o)
           /\ Start(body[i].else) \in Runs(body, o) <=> Start(i) \in Runs(body, o)
           /\ End(i) \in Runs(body, o)
                <=> End(body[i].then) \in Runs(body, o) \/ End(body[i].else) \in Runs(body, o)
  <1> DEFINE s == body[i]
             R == Runs(body, o)
             E == EdgesOf(i, s, o[i])
  <1>1. E = {<<Start(i), Start(s.then)>>, <<End(s.then), End(i)>>,
             <<Start(i), Start(s.else)>>, <<End(s.else), End(i)>>}
    BY DEF EdgesOf, IfEdges
  <1>2. \A a, b : <<a, b>> \in E => (a \in R => b \in R)
    <2> SUFFICES ASSUME NEW a, NEW b, <<a, b>> \in E, a \in R PROVE b \in R
      OBVIOUS
    <2>1. <<a, b>>[1] \in R => <<a, b>>[2] \in R
      BY RunsAre
    <2> QED  BY <2>1
  <1>3. \A p \in PartsOf(s) : Start(p) \in R => \E e \in E : e[1] \in R /\ e[2] = Start(p)
    BY RunEnters
  <1>4. End(i) \in R => \E e \in E : e[1] \in R /\ e[2] = End(i)
    BY RunEnds
  <1>5. PartsOf(s) = {s.then, s.else} /\ s.then \in 1..(i - 1) /\ s.else \in 1..(i - 1)
    BY PartsAre, StatementIs
  <1> HIDE DEF s, R, E
  <1>6. Start(s.then) \in R <=> Start(i) \in R
    BY <1>1, <1>2, <1>3, <1>5, PointsDiffer
  <1>7. Start(s.else) \in R <=> Start(i) \in R
    BY <1>1, <1>2, <1>3, <1>5, PointsDiffer
  <1>8. End(i) \in R <=> End(s.then) \in R \/ End(s.else) \in R
    BY <1>1, <1>2, <1>4, PointsDiffer
  <1> QED  BY <1>6, <1>7, <1>8 DEF s, R

LEMMA LoopFlow ==
    ASSUME NEW body, BodyIs(body), NEW o, NEW i \in 1..Len(body), body[i].k = "loop"
    PROVE  /\ Start(body[i].body) \in Runs(body, o) <=> Start(i) \in Runs(body, o) /\ TRUE \in o[i]
           /\ End(i) \in Runs(body, o) <=> Start(i) \in Runs(body, o) /\ FALSE \in o[i]
  <1> DEFINE s == body[i]
             R == Runs(body, o)
             E == EdgesOf(i, s, o[i])
  <1>1. E = {<<End(s.body), Start(i)>>}
            \cup (IF TRUE \in o[i] THEN {<<Start(i), Start(s.body)>>} ELSE {})
            \cup (IF FALSE \in o[i] THEN {<<Start(i), End(i)>>} ELSE {})
    BY DEF EdgesOf, LoopEdges
  <1>2. \A a, b : <<a, b>> \in E => (a \in R => b \in R)
    <2> SUFFICES ASSUME NEW a, NEW b, <<a, b>> \in E, a \in R PROVE b \in R
      OBVIOUS
    <2>1. <<a, b>>[1] \in R => <<a, b>>[2] \in R
      BY RunsAre
    <2> QED  BY <2>1
  <1>3. \A p \in PartsOf(s) : Start(p) \in R => \E e \in E : e[1] \in R /\ e[2] = Start(p)
    BY RunEnters
  <1>4. End(i) \in R => \E e \in E : e[1] \in R /\ e[2] = End(i)
    BY RunEnds
  <1>5. PartsOf(s) = {s.body} /\ s.body # i
    <2>1. PartsOf(s) = {s.body} /\ s.body \in 1..(i - 1)
      BY PartsAre, StatementIs
    <2> QED  BY <2>1
  <1> HIDE DEF s, R, E
  <1>6. \A e \in E : \/ e = <<End(s.body), Start(i)>>
                     \/ e = <<Start(i), Start(s.body)>> /\ TRUE \in o[i]
                     \/ e = <<Start(i), End(i)>> /\ FALSE \in o[i]
    BY <1>1
  <1>7. Start(s.body) \in R => Start(i) \in R /\ TRUE \in o[i]
    <2> SUFFICES ASSUME Start(s.body) \in R PROVE Start(i) \in R /\ TRUE \in o[i]
      OBVIOUS
    <2>1. PICK e \in E : e[1] \in R /\ e[2] = Start(s.body)
      BY <1>3, <1>5
    <2>2. e = <<Start(i), Start(s.body)>> /\ TRUE \in o[i]
      <3>1. \A a, b : e = <<a, b>> => b = Start(s.body)
        BY <2>1
      <3>2. Start(i) # Start(s.body) /\ End(i) # Start(s.body)
        BY <1>5, PointsDiffer
      <3> QED  BY <1>6, <3>1, <3>2
    <2>3. e[1] = Start(i)
      BY <2>2
    <2> QED  BY <2>1, <2>2, <2>3
  <1>8. End(i) \in R => Start(i) \in R /\ FALSE \in o[i]
    <2> SUFFICES ASSUME End(i) \in R PROVE Start(i) \in R /\ FALSE \in o[i]
      OBVIOUS
    <2>1. PICK e \in E : e[1] \in R /\ e[2] = End(i)
      BY <1>4
    <2>2. e = <<Start(i), End(i)>> /\ FALSE \in o[i]
      <3>1. \A a, b : e = <<a, b>> => b = End(i)
        BY <2>1
      <3>2. Start(i) # End(i) /\ Start(s.body) # End(i)
        BY PointsDiffer
      <3> QED  BY <1>6, <3>1, <3>2
    <2>3. e[1] = Start(i)
      BY <2>2
    <2> QED  BY <2>1, <2>2, <2>3
  <1>9. TRUE \in o[i] => <<Start(i), Start(s.body)>> \in E
    BY <1>1
  <1>10. FALSE \in o[i] => <<Start(i), End(i)>> \in E
    BY <1>1
  <1> QED  BY <1>2, <1>7, <1>8, <1>9, <1>10 DEF s, R

\* Where no run starts, none ends.
LEMMA NoEndWithoutStart ==
    ASSUME NEW body, BodyIs(body), NEW o
    PROVE  \A i \in 1..Len(body) : End(i) \in Runs(body, o) => Start(i) \in Runs(body, o)
  <1> DEFINE R == Runs(body, o)
             n == Len(body)
             S == {i \in 1..n : End(i) \in R => Start(i) \in R}
  <1>1. ASSUME NEW i \in 1..n, 1..(i - 1) \subseteq S, End(i) \in R PROVE Start(i) \in R
    <2> DEFINE s == body[i]
    <2>1. s.k \in {"simple", "return", "block", "if", "loop"}
      BY StatementIs
    <2>2. CASE s.k \in {"simple", "return"}
      BY <1>1, <2>2, SimpleFlow
    <2>3. CASE s.k = "block"
      <3> DEFINE t == s.stmts
                 T == {k \in Nat : k <= Len(t) => (BlockFrom(i, t, k) \in R => Start(i) \in R)}
      <3>1. Len(t) \in Nat /\ \A k \in 1..Len(t) : t[k] \in 1..(i - 1)
        BY <2>3, StatementIs
      <3>2. \A k \in 0..Len(t) : BlockTo(i, t, k) \in R <=> BlockFrom(i, t, k) \in R
        BY <2>3, BlockFlow
      <3> HIDE DEF t, R
      <3>3. 0 \in T
        BY DEF BlockFrom
      <3>4. ASSUME NEW k \in Nat, k \in T PROVE k + 1 \in T
        <4> SUFFICES ASSUME k + 1 <= Len(t), BlockFrom(i, t, k + 1) \in R PROVE Start(i) \in R
          OBVIOUS
        <4>1. /\ k + 1 # 0 /\ k # Len(t) /\ k <= Len(t) /\ k \in 0..Len(t) /\ k + 1 \in 1..Len(t)
          BY <3>1
        <4>2. End(t[k + 1]) \in R /\ t[k + 1] \in 1..(i - 1)
          BY <3>1, <4>1 DEF BlockFrom
        <4>3. Start(t[k + 1]) \in R
          BY <1>1, <4>2
        <4>4. BlockTo(i, t, k) \in R
          BY <4>1, <4>3 DEF BlockTo
        <4> QED  BY <3>2, <3>4, <4>1, <4>4
      <3> HIDE DEF T
      <3>5. Nat \subseteq T
        BY <3>3, <3>4, SetInduction
      <3>6. Len(t) \in 0..Len(t) /\ BlockTo(i, t, Len(t)) = End(i)
        BY <3>1 DEF BlockTo
      <3> QED  BY <1>1, <3>1, <3>2, <3>5, <3>6 DEF T
    <2>4. CASE s.k = "if"
      <3>1. s.then \in 1..(i - 1) /\ s.else \in 1..(i - 1)
        BY <2>4, StatementIs
      <3>2. End(s.then) \in R \/ End(s.else) \in R
        BY <1>1, <2>4, IfFlow
      <3>3. Start(s.then) \in R \/ Start(s.else) \in R
        BY <1>1, <3>1, <3>2
      <3> QED  BY <2>4, <3>3, IfFlow
    <2>5. CASE s.k = "loop"
      BY <1>1, <2>5, LoopFlow
    <2> QED  BY <2>1, <2>2, <2>3, <2>4, <2>5
  <1>2. n \in Nat
    BY DEF BodyIs
  <1>3. \A i \in 1..n : 1..(i - 1) \subseteq S => i \in S
    BY <1>1
  <1> HIDE DEF S
  <1>4. 1..n \subseteq S
    <2> HIDE DEF n
    <2> QED  BY <1>2, <1>3, PlaceInduction
  <1> QED  BY <1>4 DEF S

-----------------------------------------------------------------------------
(***************************************************************************)
(* Visits.                                                                 *)
(***************************************************************************)
LEMMA AfterStmtsExist ==
    ASSUME NEW visit, NEW v, NEW stmts, Len(stmts) \in Nat
    PROVE  /\ AfterStmts(visit, v, stmts)[0] = v
           /\ \A k \in 1..Len(stmts) :
                 AfterStmts(visit, v, stmts)[k] =
                   visit[stmts[k]][CheckReachable(AfterStmts(visit, v, stmts)[k - 1], stmts[k])]
  <1> DEFINE Rule(f, k) == IF k = 0 THEN v ELSE visit[stmts[k]][CheckReachable(f[k - 1], stmts[k])]
             Good == {m \in Nat : \E f : f = [k \in 0..m |-> Rule(f, k)]}
  <1>1. 0 \in Good
    <2> DEFINE f == [k \in 0..0 |-> v]
    <2>1. f = [k \in 0..0 |-> Rule(f, k)]
      OBVIOUS
    <2> HIDE DEF f
    <2> QED  BY <2>1
  <1>2. ASSUME NEW m \in Nat, m \in Good PROVE m + 1 \in Good
    <2>1. PICK f : f = [k \in 0..m |-> Rule(f, k)]
      BY <1>2
    <2> HIDE DEF Rule
    <2> DEFINE g == [k \in 0..(m + 1) |-> Rule(f, k)]
    <2>2. ASSUME NEW k \in 0..(m + 1) PROVE g[k] = Rule(g, k)
      <3>1. k # 0 => k - 1 \in 0..m /\ k - 1 \in 0..(m + 1)
        OBVIOUS
      <3>2. \A l \in 0..m : f[l] = Rule(f, l)
        BY <2>1
      <3>3. k # 0 => f[k - 1] = g[k - 1]
        BY <3>1, <3>2
      <3>4. g[k] = Rule(f, k)
        OBVIOUS
      <3> HIDE DEF g
      <3> QED  BY <3>3, <3>4 DEF Rule
    <2>3. g = [k \in 0..(m + 1) |-> g[k]]
      OBVIOUS
    <2> HIDE DEF g
    <2>4. g = [k \in 0..(m + 1) |-> Rule(g, k)]
      BY <2>2, <2>3
    <2> QED  BY <2>4
  <1> HIDE DEF Good
  <1>3. Nat \subseteq Good
    BY <1>1, <1>2, SetInduction
  <1>4. \E f : f = [k \in 0..Len(stmts) |-> Rule(f, k)]
    BY <1>3 DEF Good
  <1> DEFINE h == AfterStmts(visit, v, stmts)
  <1>5. h = [k \in 0..Len(stmts) |-> Rule(h, k)]
    BY <1>4 DEF AfterStmts
  <1> HIDE DEF h
  <1>6. \A k \in 0..Len(stmts) : h[k] = Rule(h, k)
    BY <1>5
  <1>7. h[0] = v /\ \A k \in 1..Len(stmts) : h[k] = visit[stmts[k]][CheckReachable(h[k - 1], stmts[k])]
    BY <1>6
  <1> QED  BY <1>7 DEF h

LEMMA AfterStmtsIsLocal ==
    ASSUME NEW f, NEW g, NEW v, NEW stmts, Len(stmts) \in Nat, \A k \in 1..Len(stmts) : f[stmts[k]] = g[stmts[k]]
    PROVE  AfterStmts(f, v, stmts)[Len(stmts)] = AfterStmts(g, v, stmts)[Len(stmts)]
  <1> DEFINE a == AfterStmts(f, v, stmts)
             b == AfterStmts(g, v, stmts)
             Good == {k \in Nat : k <= Len(stmts) => a[k] = b[k]}
  <1>1. /\ a[0] = v /\ \A k \in 1..Len(stmts) : a[k] = f[stmts[k]][CheckReachable(a[k - 1], stmts[k])]
        /\ b[0] = v /\ \A k \in 1..Len(stmts) : b[k] = g[stmts[k]][CheckReachable(b[k - 1], stmts[k])]
    BY AfterStmtsExist
  <1> HIDE DEF a, b
  <1>2. 0 \in Good
    BY <1>1
  <1>3. ASSUME NEW k \in Nat, k \in Good PROVE k + 1 \in Good
    <2> SUFFICES ASSUME k + 1 <= Len(stmts) PROVE a[k + 1] = b[k + 1]
      OBVIOUS
    <2>1. k + 1 \in 1..Len(stmts) /\ (k + 1) - 1 = k /\ a[k] = b[k]
      BY <1>3
    <2>2. /\ a[k + 1] = f[stmts[k + 1]][CheckReachable(a[k], stmts[k + 1])]
          /\ b[k + 1] = g[stmts[k + 1]][CheckReachable(b[k], stmts[k + 1])]
      BY <1>1, <2>1
    <2> QED  BY <2>1, <2>2
  <1> HIDE DEF Good
  <1>4. Nat \subseteq Good
    BY <1>2, <1>3, SetInduction
  <1> QED  BY <1>4 DEF Good, a, b

LEMMA VisitIsLocal ==
    ASSUME NEW body, BodyIs(body), NEW i \in 1..Len(body), NEW f, NEW g, \A j \in 1..(i - 1) : f[j] = g[j], NEW v
    PROVE  Visit(f, v, body[i]) = Visit(g, v, body[i])
  <1> DEFINE s == body[i]
  <1>1. s.k \in {"simple", "return", "block", "if", "loop"}
    BY StatementIs
  <1>2. CASE s.k \in {"simple", "return"}
    BY <1>2 DEF Visit
  <1>3. CASE s.k = "block"
    <2>1. Len(s.stmts) \in Nat /\ \A k \in 1..Len(s.stmts) : s.stmts[k] \in 1..(i - 1)
      BY <1>3, StatementIs
    <2>2. AfterStmts(f, v, s.stmts)[Len(s.stmts)] = AfterStmts(g, v, s.stmts)[Len(s.stmts)]
      BY <2>1, AfterStmtsIsLocal
    <2> QED  BY <1>3, <2>2 DEF Visit, VisitBlock
  <1>4. CASE s.k = "if"
    <2>1. f[s.then] = g[s.then] /\ f[s.else] = g[s.else]
      BY <1>4, StatementIs
    <2> QED  BY <1>4, <2>1 DEF Visit, VisitIf
  <1>5. CASE s.k = "loop"
    <2>1. f[s.body] = g[s.body]
      BY <1>5, StatementIs
    <2> QED  BY <1>5, <2>1 DEF Visit, VisitLoop
  <1> QED  BY <1>1, <1>2, <1>3, <1>4, <1>5

LEMMA VisitsExist ==
    ASSUME NEW body, BodyIs(body)
    PROVE  \A i \in 1..Len(body) : \A v \in Visitors(body) :
              Visits(body)[i][v] = Visit(Visits(body), v, body[i])
  <1> DEFINE At(f, i) == [v \in Visitors(body) |-> Visit(f, v, body[i])]
             Good == {m \in Nat : m <= Len(body) => \E f : f = [i \in 1..m |-> At(f, i)]}
  <1>1. Len(body) \in Nat /\ DOMAIN body = 1..Len(body)
    BY DEF BodyIs
  <1>2. 0 \in Good
    <2> DEFINE f == [i \in 1..0 |-> 0]
    <2>1. f = [i \in 1..0 |-> At(f, i)]
      OBVIOUS
    <2> HIDE DEF f
    <2> QED  BY <2>1
  <1>3. ASSUME NEW m \in Nat, m \in Good PROVE m + 1 \in Good
    <2> SUFFICES ASSUME m + 1 <= Len(body) PROVE \E f : f = [i \in 1..(m + 1) |-> At(f, i)]
      OBVIOUS
    <2>1. PICK f : f = [i \in 1..m |-> At(f, i)]
      BY <1>1, <1>3
    <2> HIDE DEF At
    <2> DEFINE g == [i \in 1..(m + 1) |-> At(f, i)]
    <2>2. ASSUME NEW i \in 1..(m + 1) PROVE g[i] = At(g, i)
      <3>1. \A j \in 1..(i - 1) : f[j] = g[j]
        <4> SUFFICES ASSUME NEW j \in 1..(i - 1) PROVE f[j] = g[j]
          OBVIOUS
        <4>1. j \in 1..m /\ j \in 1..(m + 1)
          OBVIOUS
        <4> QED  BY <2>1, <4>1
      <3>2. g[i] = At(f, i) /\ i \in 1..Len(body)
        BY <1>1
      <3> HIDE DEF g
      <3>3. \A v : Visit(f, v, body[i]) = Visit(g, v, body[i])
        BY <3>1, <3>2, VisitIsLocal
      <3> QED  BY <3>2, <3>3 DEF At
    <2>3. g = [i \in 1..(m + 1) |-> g[i]]
      OBVIOUS
    <2> HIDE DEF g
    <2>4. g = [i \in 1..(m + 1) |-> At(g, i)]
      BY <2>2, <2>3
    <2> QED  BY <2>4
  <1> HIDE DEF Good
  <1>4. Nat \subseteq Good
    BY <1>2, <1>3, SetInduction
  <1>5. \E f : f = [i \in DOMAIN body |-> At(f, i)]
    BY <1>1, <1>4 DEF Good
  <1> DEFINE h == Visits(body)
  <1>6. h = [i \in DOMAIN body |-> At(h, i)]
    BY <1>5 DEF Visits
  <1> HIDE DEF h
  <1>7. \A i \in 1..Len(body) : h[i] = At(h, i)
    BY <1>1, <1>6
  <1> QED  BY <1>7 DEF h

LEMMA CheckReachableIs ==
    ASSUME NEW body, NEW v \in Visitors(body), NEW i \in DOMAIN body
    PROVE  /\ CheckReachable(v, i) \in Visitors(body)
           /\ CheckReachable(v, i).reachable = v.reachable
           /\ v.unreachable \subseteq CheckReachable(v, i).unreachable
           /\ CheckReachable(v, i).unreachable \subseteq v.unreachable \cup {i}
           /\ v.reachable => CheckReachable(v, i) = v
           /\ ~v.reachable /\ v.mayEmit => i \in CheckReachable(v, i).unreachable
  BY DEF CheckReachable, Visitors

\* No visit takes back an error.
Grown(body, v, w) == w \in Visitors(body) /\ v.unreachable \subseteq w.unreachable

\* Through a block.
LEMMA BlockGrows ==
    ASSUME NEW body, BodyIs(body), NEW visit, NEW v \in Visitors(body),
           NEW stmts, Len(stmts) \in Nat, \A k \in 1..Len(stmts) : stmts[k] \in DOMAIN body,
           \A k \in 1..Len(stmts) : \A u \in Visitors(body) : Grown(body, u, visit[stmts[k]][u])
    PROVE  /\ \A k \in 0..Len(stmts) : Grown(body, v, AfterStmts(visit, v, stmts)[k])
           /\ \A k \in 0..(Len(stmts) - 1) :
                 AfterStmts(visit, v, stmts)[k].unreachable \subseteq AfterStmts(visit, v, stmts)[k + 1].unreachable
  <1> DEFINE a == AfterStmts(visit, v, stmts)
             Good == {k \in Nat : k <= Len(stmts) => Grown(body, v, a[k])}
  <1>1. a[0] = v /\ \A k \in 1..Len(stmts) : a[k] = visit[stmts[k]][CheckReachable(a[k - 1], stmts[k])]
    BY AfterStmtsExist
  <1> HIDE DEF a
  <1>2. ASSUME NEW k \in Nat, k + 1 <= Len(stmts), a[k] \in Visitors(body)
        PROVE  a[k + 1] \in Visitors(body) /\ a[k].unreachable \subseteq a[k + 1].unreachable
    <2> DEFINE u == CheckReachable(a[k], stmts[k + 1])
    <2>1. k + 1 \in 1..Len(stmts) /\ (k + 1) - 1 = k
      BY <1>2
    <2>2. stmts[k + 1] \in DOMAIN body
      BY <2>1
    <2>3. u \in Visitors(body) /\ a[k].unreachable \subseteq u.unreachable
      BY <1>2, <2>2, CheckReachableIs
    <2>4. a[k + 1] = visit[stmts[k + 1]][u]
      BY <1>1, <2>1
    <2> HIDE DEF u
    <2>5. Grown(body, u, a[k + 1])
      BY <2>1, <2>3, <2>4
    <2> QED  BY <2>3, <2>5 DEF Grown
  <1>3. 0 \in Good
    BY <1>1 DEF Grown
  <1>4. ASSUME NEW k \in Nat, k \in Good PROVE k + 1 \in Good
    <2> SUFFICES ASSUME k + 1 <= Len(stmts) PROVE Grown(body, v, a[k + 1])
      OBVIOUS
    <2>1. Grown(body, v, a[k])
      BY <1>4
    <2> QED  BY <1>2, <2>1 DEF Grown
  <1> HIDE DEF Good
  <1>5. Nat \subseteq Good
    BY <1>3, <1>4, SetInduction
  <1>6. \A k \in 0..Len(stmts) : Grown(body, v, a[k])
    BY <1>5 DEF Good
  <1>7. ASSUME NEW k \in 0..(Len(stmts) - 1) PROVE a[k].unreachable \subseteq a[k + 1].unreachable
    <2>1. k \in Nat /\ k + 1 <= Len(stmts) /\ k \in 0..Len(stmts)
      OBVIOUS
    <2>2. a[k] \in Visitors(body)
      BY <1>6, <2>1 DEF Grown
    <2> QED  BY <1>2, <2>1, <2>2
  <1> QED  BY <1>6, <1>7 DEF a

\* A visit only adds to the statements reported.
LEMMA VisitsGrow ==
    ASSUME NEW body, BodyIs(body)
    PROVE  \A i \in 1..Len(body) : \A v \in Visitors(body) : Grown(body, v, Visits(body)[i][v])
  <1> DEFINE n == Len(body)
             visit == Visits(body)
             S == {i \in 1..n : \A v \in Visitors(body) : Grown(body, v, visit[i][v])}
  <1>1. n \in Nat /\ DOMAIN body = 1..n
    BY DEF BodyIs
  <1>2. \A i \in 1..n : \A v \in Visitors(body) : visit[i][v] = Visit(visit, v, body[i])
    BY VisitsExist
  <1> HIDE DEF visit, n
  <1>3. ASSUME NEW i \in 1..n, 1..(i - 1) \subseteq S, NEW v \in Visitors(body) PROVE Grown(body, v, visit[i][v])
    <2> DEFINE s == body[i]
               w == Visit(visit, v, s)
    <2>0. i \in 1..Len(body) /\ 1..(i - 1) \subseteq 1..n
      BY <1>1 DEF n
    <2>1. s.k \in {"simple", "return", "block", "if", "loop"}
      BY <2>0, StatementIs
    <2>2. \A j \in 1..(i - 1) : \A u \in Visitors(body) : Grown(body, u, visit[j][u])
      BY <1>3
    <2> SUFFICES Grown(body, v, w)
      BY <1>2
    <2>3. CASE s.k = "simple"
      BY <2>3 DEF Visit, Grown
    <2>4. CASE s.k = "return"
      <3>1. w = [v EXCEPT !.reachable = FALSE]
        BY <2>4 DEF Visit
      <3> HIDE DEF w
      <3> QED  BY <3>1 DEF Grown, Visitors
    <2>5. CASE s.k = "block"
      <3> DEFINE last == AfterStmts(visit, v, s.stmts)[Len(s.stmts)]
      <3>1. Len(s.stmts) \in Nat /\ \A k \in 1..Len(s.stmts) : s.stmts[k] \in 1..(i - 1)
        BY <2>0, <2>5, StatementIs
      <3>2. /\ \A k \in 1..Len(s.stmts) : s.stmts[k] \in DOMAIN body
            /\ \A k \in 1..Len(s.stmts) : \A u \in Visitors(body) : Grown(body, u, visit[s.stmts[k]][u])
        BY <1>1, <2>0, <2>2, <3>1
      <3>3. \A k \in 0..Len(s.stmts) : Grown(body, v, AfterStmts(visit, v, s.stmts)[k])
        BY <3>1, <3>2, BlockGrows
      <3>4. Grown(body, v, last)
        BY <3>1, <3>3
      <3>5. w = [last EXCEPT !.mayEmit = TRUE]
        BY <2>5 DEF Visit, VisitBlock
      <3> HIDE DEF w, last
      <3> QED  BY <3>4, <3>5 DEF Grown, Visitors
    <2>6. CASE s.k = "if"
      <3> DEFINE then == visit[s.then][v]
                 u == [v EXCEPT !.unreachable = then.unreachable]
                 else == visit[s.else][u]
      <3>1. s.then \in 1..(i - 1) /\ s.else \in 1..(i - 1)
        BY <2>0, <2>6, StatementIs
      <3>2. Grown(body, v, then)
        BY <2>2, <3>1
      <3>3. w = [v EXCEPT !.reachable = then.reachable \/ else.reachable, !.unreachable = else.unreachable]
        BY <2>6 DEF Visit, VisitIf
      <3> HIDE DEF w, then
      <3>4. u \in Visitors(body) /\ u.unreachable = then.unreachable
        BY <3>2 DEF Grown, Visitors
      <3> HIDE DEF u
      <3>5. Grown(body, u, else)
        BY <2>2, <3>1, <3>4
      <3> HIDE DEF else
      <3> QED  BY <3>2, <3>3, <3>4, <3>5 DEF Grown, Visitors
    <2>7. CASE s.k = "loop" /\ CannotEnter(s)
      <3> DEFINE u == [v EXCEPT !.reachable = FALSE]
                 c == CheckReachable(u, s.body)
      <3>1. s.body \in DOMAIN body
        BY <1>1, <2>0, <2>7, StatementIs
      <3>2. u \in Visitors(body) /\ u.unreachable = v.unreachable
        BY DEF Visitors
      <3>3. w = [v EXCEPT !.reachable = TRUE, !.unreachable = c.unreachable]
        BY <2>7 DEF Visit, VisitLoop
      <3> HIDE DEF w, u
      <3>4. c \in Visitors(body) /\ u.unreachable \subseteq c.unreachable
        BY <3>1, <3>2, CheckReachableIs
      <3> HIDE DEF c
      <3> QED  BY <3>2, <3>3, <3>4 DEF Grown, Visitors
    <2>8. CASE s.k = "loop" /\ ~CannotEnter(s)
      <3> DEFINE nested == visit[s.body][v]
      <3>1. s.body \in 1..(i - 1)
        BY <2>0, <2>8, StatementIs
      <3>2. Grown(body, v, nested)
        BY <2>2, <3>1
      <3>3. w = [v EXCEPT !.reachable = v.reachable /\ ~Infinite(s), !.unreachable = nested.unreachable]
        BY <2>8 DEF Visit, VisitLoop, Visitors
      <3> HIDE DEF w, nested
      <3> QED  BY <3>2, <3>3 DEF Grown, Visitors
    <2> QED  BY <2>1, <2>3, <2>4, <2>5, <2>6, <2>7, <2>8
  <1>4. \A i \in 1..n : 1..(i - 1) \subseteq S => i \in S
    BY <1>3
  <1> HIDE DEF S
  <1>5. 1..n \subseteq S
    BY <1>1, <1>4, PlaceInduction
  <1> QED  BY <1>5 DEF S, visit, n

\* The analysis knows whether a loop's body is entered and whether the loop is left.
Decides(body, o) ==
  \A i \in 1..Len(body) : body[i].k = "loop" =>
    (TRUE \in o[i] <=> ~CannotEnter(body[i])) /\ (FALSE \in o[i] <=> ~Infinite(body[i]))

\* What visitor v says is right where the runs are at a point: no run starts a
\* statement that is reported, and none is at the point if it is unreachable.
Justified(runs, v, point) == (\A j \in v.unreachable : Start(j) \notin runs) /\ (~v.reachable => point \notin runs)

LEMMA BlockJustified ==
    ASSUME NEW body, BodyIs(body), NEW o, NEW i \in 1..Len(body), body[i].k = "block", NEW v \in Visitors(body),
           Justified(Runs(body, o), v, Start(i)),
           \A j \in 1..(i - 1) : \A u \in Visitors(body) :
              Justified(Runs(body, o), u, Start(j)) => Justified(Runs(body, o), Visits(body)[j][u], End(j))
    PROVE  Justified(Runs(body, o), AfterStmts(Visits(body), v, body[i].stmts)[Len(body[i].stmts)], End(i))
  <1> DEFINE t == body[i].stmts
             n == Len(t)
             R == Runs(body, o)
             visit == Visits(body)
             a == AfterStmts(visit, v, t)
             T == {k \in Nat : k <= n => Justified(R, a[k], BlockFrom(i, t, k))}
  <1>1. n \in Nat /\ \A k \in 1..n : t[k] \in 1..(i - 1) /\ t[k] \in 1..Len(body)
    <2>1. n \in Nat /\ \A k \in 1..n : t[k] \in 1..(i - 1)
      BY StatementIs
    <2>2. 1..(i - 1) \subseteq 1..Len(body)
      BY DEF BodyIs
    <2> QED  BY <2>1, <2>2
  <1>2. DOMAIN body = 1..Len(body)
    BY DEF BodyIs
  <1>3. \A k \in 0..n : BlockTo(i, t, k) \in R <=> BlockFrom(i, t, k) \in R
    BY BlockFlow
  <1>4. \A j \in 1..Len(body) : \A u \in Visitors(body) : Grown(body, u, visit[j][u])
    BY VisitsGrow
  <1> HIDE DEF t, visit, R
  <1>5. a[0] = v /\ \A k \in 1..n : a[k] = visit[t[k]][CheckReachable(a[k - 1], t[k])]
    BY <1>1, AfterStmtsExist
  <1>6. \A k \in 0..n : a[k] \in Visitors(body)
    <2>1. /\ \A k \in 1..n : t[k] \in DOMAIN body
          /\ \A k \in 1..n : \A u \in Visitors(body) : Grown(body, u, visit[t[k]][u])
      BY <1>1, <1>2, <1>4
    <2>2. \A k \in 0..n : Grown(body, v, a[k])
      BY <1>1, <2>1, BlockGrows
    <2> QED  BY <2>2 DEF Grown
  <1>7. \A j \in 1..(i - 1) : \A u \in Visitors(body) : Justified(R, u, Start(j)) => Justified(R, visit[j][u], End(j))
    BY DEF R, visit
  <1>8. Justified(R, v, Start(i))
    BY DEF R
  <1> HIDE DEF a, n
  <1>9. 0 \in T
    BY <1>5, <1>8 DEF BlockFrom
  <1>10. ASSUME NEW k \in Nat, k \in T PROVE k + 1 \in T
    <2> SUFFICES ASSUME k + 1 <= n PROVE Justified(R, a[k + 1], BlockFrom(i, t, k + 1))
      OBVIOUS
    <2> DEFINE c == CheckReachable(a[k], t[k + 1])
    <2>1. k \in 0..n /\ k + 1 \in 1..n /\ (k + 1) - 1 = k /\ k # n /\ k + 1 # 0
      BY <1>1
    <2>2. Justified(R, a[k], BlockFrom(i, t, k))
      BY <1>10, <2>1
    <2>3. BlockTo(i, t, k) = Start(t[k + 1]) /\ BlockFrom(i, t, k + 1) = End(t[k + 1])
      BY <2>1 DEF BlockTo, BlockFrom, n
    <2>4. ~a[k].reachable => Start(t[k + 1]) \notin R
      BY <1>3, <2>1, <2>2, <2>3 DEF Justified
    <2>5. a[k] \in Visitors(body) /\ t[k + 1] \in DOMAIN body
      BY <1>1, <1>2, <1>6, <2>1
    <2>6. /\ c \in Visitors(body) /\ c.reachable = a[k].reachable
          /\ c.unreachable \subseteq a[k].unreachable \cup {t[k + 1]}
          /\ a[k].reachable => c = a[k]
      BY <2>5, CheckReachableIs
    <2>7. a[k + 1] = visit[t[k + 1]][c]
      BY <1>5, <2>1
    <2> HIDE DEF c
    <2>8. Justified(R, c, Start(t[k + 1]))
      BY <2>2, <2>4, <2>6 DEF Justified
    <2>9. Justified(R, visit[t[k + 1]][c], End(t[k + 1]))
      BY <1>1, <1>7, <2>1, <2>6, <2>8
    <2> QED  BY <2>3, <2>7, <2>9
  <1> HIDE DEF T
  <1>11. Nat \subseteq T
    BY <1>9, <1>10, SetInduction
  <1>12. Justified(R, a[n], BlockFrom(i, t, n))
    BY <1>1, <1>11 DEF T
  <1>13. BlockTo(i, t, n) = End(i) /\ n \in 0..n
    BY <1>1 DEF BlockTo, n
  <1>14. Justified(R, a[n], End(i))
    BY <1>3, <1>12, <1>13 DEF Justified
  <1> QED  BY <1>14 DEF R, a, n, t, visit

LEMMA VisitsJustified ==
    ASSUME NEW body, BodyIs(body), NEW o, Decides(body, o)
    PROVE  \A i \in 1..Len(body) : \A v \in Visitors(body) :
              Justified(Runs(body, o), v, Start(i)) => Justified(Runs(body, o), Visits(body)[i][v], End(i))
  <1> DEFINE n == Len(body)
             visit == Visits(body)
             R == Runs(body, o)
             S == {i \in 1..n : \A v \in Visitors(body) :
                      Justified(R, v, Start(i)) => Justified(R, visit[i][v], End(i))}
  <1>1. n \in Nat /\ DOMAIN body = 1..n
    BY DEF BodyIs
  <1>2. \A i \in 1..n : \A v \in Visitors(body) :
           visit[i][v] = Visit(visit, v, body[i]) /\ Grown(body, v, visit[i][v])
    BY VisitsExist, VisitsGrow
  <1>3. \A i \in 1..n : End(i) \in R => Start(i) \in R
    BY NoEndWithoutStart
  <1> HIDE DEF visit, n, R
  <1>4. ASSUME NEW i \in 1..n, 1..(i - 1) \subseteq S, NEW v \in Visitors(body), Justified(R, v, Start(i))
        PROVE  Justified(R, visit[i][v], End(i))
    <2> DEFINE s == body[i]
               w == Visit(visit, v, s)
    <2>0. i \in 1..Len(body) /\ 1..(i - 1) \subseteq 1..n
      BY <1>1 DEF n
    <2>1. s.k \in {"simple", "return", "block", "if", "loop"}
      BY <2>0, StatementIs
    <2>2. \A j \in 1..(i - 1) : \A u \in Visitors(body) :
             /\ Justified(R, u, Start(j)) => Justified(R, visit[j][u], End(j))
             /\ Grown(body, u, visit[j][u])
      BY <1>2, <1>4, <2>0
    <2> SUFFICES Justified(R, w, End(i))
      BY <1>2
    <2>3. CASE s.k = "simple"
      <3>1. w = v
        BY <2>3 DEF Visit
      <3>2. End(i) \in R <=> Start(i) \in R
        BY <2>0, <2>3, SimpleFlow DEF R
      <3> QED  BY <1>4, <3>1, <3>2 DEF Justified
    <2>4. CASE s.k = "return"
      <3>1. w = [v EXCEPT !.reachable = FALSE]
        BY <2>4 DEF Visit
      <3>2. w.unreachable = v.unreachable
        BY <3>1 DEF Visitors
      <3>3. End(i) \notin R
        BY <2>0, <2>4, SimpleFlow DEF R
      <3> QED  BY <1>4, <3>2, <3>3 DEF Justified
    <2>5. CASE s.k = "block"
      <3> DEFINE last == AfterStmts(visit, v, s.stmts)[Len(s.stmts)]
      <3>1. Justified(R, last, End(i))
        BY <1>4, <2>0, <2>2, <2>5, BlockJustified DEF R, visit
      <3>2. w = [last EXCEPT !.mayEmit = TRUE]
        BY <2>5 DEF Visit, VisitBlock
      <3>3. last \in Visitors(body)
        <4>1. Len(s.stmts) \in Nat /\ \A k \in 1..Len(s.stmts) : s.stmts[k] \in 1..(i - 1)
          BY <2>0, <2>5, StatementIs
        <4>2. /\ \A k \in 1..Len(s.stmts) : s.stmts[k] \in DOMAIN body
              /\ \A k \in 1..Len(s.stmts) : \A u \in Visitors(body) : Grown(body, u, visit[s.stmts[k]][u])
          BY <1>1, <2>0, <2>2, <4>1
        <4>3. \A k \in 0..Len(s.stmts) : Grown(body, v, AfterStmts(visit, v, s.stmts)[k])
          BY <4>1, <4>2, BlockGrows
        <4> QED  BY <4>1, <4>3 DEF Grown
      <3> HIDE DEF w, last
      <3>4. w.unreachable = last.unreachable /\ w.reachable = last.reachable
        BY <3>2, <3>3 DEF Visitors
      <3> QED  BY <3>1, <3>4 DEF Justified
    <2>6. CASE s.k = "if"
      <3> DEFINE then == visit[s.then][v]
                 u == [v EXCEPT !.unreachable = then.unreachable]
                 else == visit[s.else][u]
      <3>1. s.then \in 1..(i - 1) /\ s.else \in 1..(i - 1)
        BY <2>0, <2>6, StatementIs
      <3>2. /\ Start(s.then) \in R <=> Start(i) \in R
            /\ Start(s.else) \in R <=> Start(i) \in R
            /\ End(i) \in R <=> End(s.then) \in R \/ End(s.else) \in R
        BY <2>0, <2>6, IfFlow DEF R
      <3>3. Justified(R, v, Start(s.then))
        BY <1>4, <3>2 DEF Justified
      <3>4. Justified(R, then, End(s.then)) /\ Grown(body, v, then)
        BY <2>2, <3>1, <3>3
      <3>5. w = [v EXCEPT !.reachable = then.reachable \/ else.reachable, !.unreachable = else.unreachable]
        BY <2>6 DEF Visit, VisitIf
      <3> HIDE DEF w, then
      <3>6. u \in Visitors(body) /\ u.unreachable = then.unreachable /\ u.reachable = v.reachable
        BY <3>4 DEF Grown, Visitors
      <3> HIDE DEF u
      <3>7. Justified(R, u, Start(s.else))
        BY <1>4, <3>2, <3>4, <3>6 DEF Justified
      <3>8. Justified(R, else, End(s.else))
        BY <2>2, <3>1, <3>6, <3>7
      <3> HIDE DEF else
      <3>9. w.unreachable = else.unreachable /\ (w.reachable <=> then.reachable \/ else.reachable)
        BY <3>5 DEF Visitors
      <3> QED  BY <3>2, <3>4, <3>8, <3>9 DEF Justified
    <2>7. CASE s.k = "loop"
      <3>1. s.body \in 1..(i - 1)
        BY <2>0, <2>7, StatementIs
      <3>2. /\ Start(s.body) \in R <=> Start(i) \in R /\ TRUE \in o[i]
            /\ End(i) \in R <=> Start(i) \in R /\ FALSE \in o[i]
        BY <2>0, <2>7, LoopFlow DEF R
      <3>3. (TRUE \in o[i] <=> ~CannotEnter(s)) /\ (FALSE \in o[i] <=> ~Infinite(s))
        BY <2>0, <2>7 DEF Decides
      <3>4. CASE CannotEnter(s)
        <4> DEFINE u == [v EXCEPT !.reachable = FALSE]
                   c == CheckReachable(u, s.body)
        <4>1. s.body \in DOMAIN body
          BY <1>1, <2>0, <3>1
        <4>2. u \in Visitors(body) /\ u.unreachable = v.unreachable
          BY DEF Visitors
        <4>3. w = [v EXCEPT !.reachable = TRUE, !.unreachable = c.unreachable]
          BY <2>7, <3>4 DEF Visit, VisitLoop
        <4> HIDE DEF w, u
        <4>4. c.unreachable \subseteq v.unreachable \cup {s.body}
          BY <4>1, <4>2, CheckReachableIs
        <4>5. Start(s.body) \notin R
          BY <3>2, <3>3, <3>4
        <4> HIDE DEF c
        <4>6. w.unreachable = c.unreachable /\ w.reachable
          BY <4>3 DEF Visitors
        <4> QED  BY <1>4, <4>4, <4>5, <4>6 DEF Justified
      <3>5. CASE ~CannotEnter(s)
        <4> DEFINE nested == visit[s.body][v]
        <4>1. Justified(R, v, Start(s.body))
          BY <1>4, <3>2 DEF Justified
        <4>2. Justified(R, nested, End(s.body))
          BY <2>2, <3>1, <4>1
        <4>3. w = [v EXCEPT !.reachable = v.reachable /\ ~Infinite(s), !.unreachable = nested.unreachable]
          BY <2>7, <3>5 DEF Visit, VisitLoop, Visitors
        <4> HIDE DEF w, nested
        <4>4. w.unreachable = nested.unreachable /\ (w.reachable <=> v.reachable /\ ~Infinite(s))
          BY <4>3 DEF Visitors
        <4> QED  BY <1>4, <3>2, <3>3, <4>2, <4>4 DEF Justified
      <3> QED  BY <3>4, <3>5
    <2> QED  BY <2>1, <2>3, <2>4, <2>5, <2>6, <2>7
  <1>5. \A i \in 1..n : 1..(i - 1) \subseteq S => i \in S
    BY <1>4
  <1> HIDE DEF S
  <1>6. 1..n \subseteq S
    BY <1>1, <1>5, PlaceInduction
  <1> QED  BY <1>6 DEF S, visit, n, R

\* What it means that nothing is reported in the statement at place i: its visitor
\* is w, and every statement of it is started by a run.
Accepted(body, runs, i, w) ==
  /\ w.mayEmit
  /\ \A j \in Within(body, i) : Start(j) \in runs
  /\ w.reachable => End(i) \in runs

LEMMA BlockAccepted ==
    ASSUME NEW body, BodyIs(body), NEW o, NEW i \in 1..Len(body), body[i].k = "block", NEW v \in Visitors(body),
           v.reachable, v.mayEmit, Start(i) \in Runs(body, o),
           AfterStmts(Visits(body), v, body[i].stmts)[Len(body[i].stmts)].unreachable = {},
           \A j \in 1..(i - 1) : \A u \in Visitors(body) :
              /\ u.reachable /\ u.mayEmit /\ Start(j) \in Runs(body, o)
              /\ Visits(body)[j][u].unreachable = {}
              => Accepted(body, Runs(body, o), j, Visits(body)[j][u])
    PROVE  /\ \A l \in 1..Len(body[i].stmts) : \A j \in Within(body, body[i].stmts[l]) : Start(j) \in Runs(body, o)
           /\ AfterStmts(Visits(body), v, body[i].stmts)[Len(body[i].stmts)].reachable => End(i) \in Runs(body, o)
  <1> DEFINE t == body[i].stmts
             n == Len(t)
             R == Runs(body, o)
             visit == Visits(body)
             a == AfterStmts(visit, v, t)
             Started(k) == \A l \in 1..k : \A j \in Within(body, t[l]) : Start(j) \in R
             D == {m \in Nat : m <= n => a[n - m].unreachable = {}}
             T == {k \in Nat : k <= n => /\ a[k].mayEmit /\ Started(k)
                                         /\ a[k].reachable => BlockFrom(i, t, k) \in R}
  <1>1. n \in Nat /\ \A k \in 1..n : t[k] \in 1..(i - 1) /\ t[k] \in 1..Len(body)
    <2>1. n \in Nat /\ \A k \in 1..n : t[k] \in 1..(i - 1)
      BY StatementIs
    <2>2. 1..(i - 1) \subseteq 1..Len(body)
      BY DEF BodyIs
    <2> QED  BY <2>1, <2>2
  <1>2. DOMAIN body = 1..Len(body)
    BY DEF BodyIs
  <1>3. \A k \in 0..n : BlockTo(i, t, k) \in R <=> BlockFrom(i, t, k) \in R
    BY BlockFlow
  <1>4. \A j \in 1..Len(body) : \A u \in Visitors(body) : Grown(body, u, visit[j][u])
    BY VisitsGrow
  <1> HIDE DEF t, visit, R
  <1>5. a[0] = v /\ \A k \in 1..n : a[k] = visit[t[k]][CheckReachable(a[k - 1], t[k])]
    BY <1>1, AfterStmtsExist
  <1>6. /\ \A k \in 0..n : a[k] \in Visitors(body)
        /\ \A k \in 0..(n - 1) : a[k].unreachable \subseteq a[k + 1].unreachable
    <2>1. /\ \A k \in 1..n : t[k] \in DOMAIN body
          /\ \A k \in 1..n : \A u \in Visitors(body) : Grown(body, u, visit[t[k]][u])
      BY <1>1, <1>2, <1>4
    <2>2. /\ \A k \in 0..n : Grown(body, v, a[k])
          /\ \A k \in 0..(n - 1) : a[k].unreachable \subseteq a[k + 1].unreachable
      BY <1>1, <2>1, BlockGrows
    <2> QED  BY <2>2 DEF Grown
  <1>7. \A j \in 1..(i - 1) : \A u \in Visitors(body) :
           u.reachable /\ u.mayEmit /\ Start(j) \in R /\ visit[j][u].unreachable = {}
             => Accepted(body, R, j, visit[j][u])
    BY DEF R, visit
  <1>8. a[n].unreachable = {} /\ Start(i) \in R
    BY DEF R, a, n, t, visit
  <1> HIDE DEF a, n
  <1>9. \A k \in 0..n : a[k].unreachable = {}
    <2>1. 0 \in D
      BY <1>1, <1>8
    <2>2. ASSUME NEW m \in Nat, m \in D PROVE m + 1 \in D
      <3> SUFFICES ASSUME m + 1 <= n PROVE a[n - (m + 1)].unreachable = {}
        OBVIOUS
      <3>1. n - (m + 1) \in 0..(n - 1) /\ n - (m + 1) + 1 = n - m /\ m <= n
        BY <1>1
      <3>2. a[n - m].unreachable = {}
        BY <2>2, <3>1
      <3> QED  BY <1>6, <3>1, <3>2
    <2> HIDE DEF D
    <2>3. Nat \subseteq D
      BY <2>1, <2>2, SetInduction
    <2>4. ASSUME NEW k \in 0..n PROVE a[k].unreachable = {}
      <3>1. n - k \in Nat /\ n - k <= n /\ n - (n - k) = k
        BY <1>1
      <3>2. n - k \in D
        BY <2>3, <3>1
      <3> QED  BY <3>1, <3>2 DEF D
    <2> QED  BY <2>4
  <1>10. 0 \in T
    BY <1>5, <1>8 DEF BlockFrom
  <1>11. ASSUME NEW k \in Nat, k \in T PROVE k + 1 \in T
    <2> SUFFICES ASSUME k + 1 <= n
                 PROVE  /\ a[k + 1].mayEmit /\ Started(k + 1)
                        /\ a[k + 1].reachable => BlockFrom(i, t, k + 1) \in R
      OBVIOUS
    <2> DEFINE c == CheckReachable(a[k], t[k + 1])
    <2>1. /\ k \in 0..n /\ k + 1 \in 0..n /\ k + 1 \in 1..n /\ (k + 1) - 1 = k /\ k # n /\ k + 1 # 0 /\ k <= n
          /\ 1..(k + 1) = 1..k \cup {k + 1}
      BY <1>1
    <2>2. a[k].mayEmit /\ Started(k) /\ (a[k].reachable => BlockFrom(i, t, k) \in R)
      BY <1>11, <2>1
    <2>3. BlockTo(i, t, k) = Start(t[k + 1]) /\ BlockFrom(i, t, k + 1) = End(t[k + 1])
      BY <2>1 DEF BlockTo, BlockFrom, n
    <2>4. a[k] \in Visitors(body) /\ t[k + 1] \in DOMAIN body /\ t[k + 1] \in 1..Len(body)
      BY <1>1, <1>2, <1>6, <2>1
    <2>5. /\ c \in Visitors(body)
          /\ a[k].reachable => c = a[k]
          /\ ~a[k].reachable /\ a[k].mayEmit => t[k + 1] \in c.unreachable
      BY <2>4, CheckReachableIs
    <2>6. a[k + 1] = visit[t[k + 1]][c]
      BY <1>5, <2>1
    <2> HIDE DEF c, Started
    <2>7. c.unreachable \subseteq a[k + 1].unreachable
      BY <1>4, <2>4, <2>5, <2>6 DEF Grown
    <2>8. a[k + 1].unreachable = {}
      BY <1>9, <2>1
    <2>9. a[k].reachable /\ c = a[k]
      BY <2>2, <2>5, <2>7, <2>8
    <2>10. Start(t[k + 1]) \in R
      BY <1>3, <2>1, <2>2, <2>3, <2>9
    <2>11. Accepted(body, R, t[k + 1], a[k + 1])
      BY <1>1, <1>7, <2>1, <2>2, <2>5, <2>6, <2>8, <2>9, <2>10
    <2>12. Started(k + 1)
      BY <2>1, <2>2, <2>11 DEF Started, Accepted
    <2> QED  BY <2>3, <2>11, <2>12 DEF Accepted
  <1> HIDE DEF T
  <1>12. Nat \subseteq T
    BY <1>10, <1>11, SetInduction
  <1>13. Started(n) /\ (a[n].reachable => BlockFrom(i, t, n) \in R)
    BY <1>1, <1>12 DEF T
  <1>14. BlockTo(i, t, n) = End(i) /\ n \in 0..n
    BY <1>1 DEF BlockTo, n
  <1>15. a[n].reachable => End(i) \in R
    BY <1>3, <1>13, <1>14
  <1> QED  BY <1>13, <1>15 DEF R, a, n, t, visit

LEMMA VisitsAccept ==
    ASSUME NEW body, BodyIs(body), NEW o, Decides(body, o)
    PROVE  \A i \in 1..Len(body) : \A v \in Visitors(body) :
              /\ v.reachable /\ v.mayEmit /\ Start(i) \in Runs(body, o)
              /\ Visits(body)[i][v].unreachable = {}
              => Accepted(body, Runs(body, o), i, Visits(body)[i][v])
  <1> DEFINE n == Len(body)
             visit == Visits(body)
             R == Runs(body, o)
             Right(i, v) == v.reachable /\ v.mayEmit /\ Start(i) \in R /\ visit[i][v].unreachable = {}
                              => Accepted(body, R, i, visit[i][v])
             S == {i \in 1..n : \A v \in Visitors(body) : Right(i, v)}
  <1>1. n \in Nat /\ DOMAIN body = 1..n
    BY DEF BodyIs
  <1>2. \A i \in 1..n : \A v \in Visitors(body) :
           visit[i][v] = Visit(visit, v, body[i]) /\ Grown(body, v, visit[i][v])
    BY VisitsExist, VisitsGrow
  <1> HIDE DEF visit, n, R
  <1>3. ASSUME NEW i \in 1..n, 1..(i - 1) \subseteq S, NEW v \in Visitors(body),
               v.reachable, v.mayEmit, Start(i) \in R, visit[i][v].unreachable = {}
        PROVE  Accepted(body, R, i, visit[i][v])
    <2> DEFINE s == body[i]
               w == Visit(visit, v, s)
    <2>0. i \in 1..Len(body) /\ 1..(i - 1) \subseteq 1..n
      BY <1>1 DEF n
    <2>1. s.k \in {"simple", "return", "block", "if", "loop"}
      BY <2>0, StatementIs
    <2>2. \A j \in 1..(i - 1) : \A u \in Visitors(body) : Right(j, u) /\ Grown(body, u, visit[j][u])
      BY <1>2, <1>3, <2>0
    <2>3. w.unreachable = {}
      BY <1>2, <1>3
    <2>4. \A j \in Within(body, i) : j = i \/ \E p \in PartsOf(s) : j \in Within(body, p)
      BY <2>0, WithinIs
    <2>5. ASSUME w.mayEmit, \A p \in PartsOf(s) : \A j \in Within(body, p) : Start(j) \in R,
                 w.reachable => End(i) \in R
          PROVE  Accepted(body, R, i, visit[i][v])
      <3>1. Accepted(body, R, i, w)
        BY <1>3, <2>4, <2>5 DEF Accepted
      <3> QED  BY <1>2, <3>1
    <2> SUFFICES /\ w.mayEmit /\ \A p \in PartsOf(s) : \A j \in Within(body, p) : Start(j) \in R
                 /\ w.reachable => End(i) \in R
      BY <2>5
    <2>6. CASE s.k = "simple"
      <3>1. w = v
        BY <2>6 DEF Visit
      <3>2. End(i) \in R <=> Start(i) \in R
        BY <2>0, <2>6, SimpleFlow DEF R
      <3>3. PartsOf(s) = {}
        BY <2>0, <2>6, PartsAre
      <3> QED  BY <1>3, <3>1, <3>2, <3>3
    <2>7. CASE s.k = "return"
      <3>1. w = [v EXCEPT !.reachable = FALSE]
        BY <2>7 DEF Visit
      <3>2. w.mayEmit = v.mayEmit /\ ~w.reachable
        BY <3>1 DEF Visitors
      <3>3. PartsOf(s) = {}
        BY <2>0, <2>7, PartsAre
      <3> QED  BY <1>3, <3>2, <3>3
    <2>8. CASE s.k = "block"
      <3> DEFINE last == AfterStmts(visit, v, s.stmts)[Len(s.stmts)]
      <3>1. w = [last EXCEPT !.mayEmit = TRUE]
        BY <2>8 DEF Visit, VisitBlock
      <3>2. last \in Visitors(body)
        <4>1. Len(s.stmts) \in Nat /\ \A k \in 1..Len(s.stmts) : s.stmts[k] \in 1..(i - 1)
          BY <2>0, <2>8, StatementIs
        <4>2. /\ \A k \in 1..Len(s.stmts) : s.stmts[k] \in DOMAIN body
              /\ \A k \in 1..Len(s.stmts) : \A u \in Visitors(body) : Grown(body, u, visit[s.stmts[k]][u])
          BY <1>1, <2>0, <2>2, <4>1
        <4>3. \A k \in 0..Len(s.stmts) : Grown(body, v, AfterStmts(visit, v, s.stmts)[k])
          BY <4>1, <4>2, BlockGrows
        <4> QED  BY <4>1, <4>3 DEF Grown
      <3> HIDE DEF w, last
      <3>3. w.mayEmit /\ w.unreachable = last.unreachable /\ w.reachable = last.reachable
        BY <3>1, <3>2 DEF Visitors
      <3>4. last.unreachable = {}
        BY <2>3, <3>3
      <3>5. \A j \in 1..(i - 1) : \A u \in Visitors(body) : Right(j, u)
        BY <2>2
      <3>6. /\ \A l \in 1..Len(s.stmts) : \A j \in Within(body, s.stmts[l]) : Start(j) \in R
            /\ last.reachable => End(i) \in R
        BY <1>3, <2>0, <2>8, <3>4, <3>5, BlockAccepted DEF R, visit, last
      <3>7. \A p \in PartsOf(s) : \E l \in 1..Len(s.stmts) : p = s.stmts[l]
        BY <2>0, <2>8, PartsAre
      <3> QED  BY <3>3, <3>6, <3>7
    <2>9. CASE s.k = "if"
      <3> DEFINE then == visit[s.then][v]
                 u == [v EXCEPT !.unreachable = then.unreachable]
                 else == visit[s.else][u]
      <3>1. /\ s.then \in 1..(i - 1) /\ s.else \in 1..(i - 1)
            /\ PartsOf(s) = {s.then, s.else}
        BY <2>0, <2>9, StatementIs, PartsAre
      <3>2. /\ Start(s.then) \in R <=> Start(i) \in R
            /\ Start(s.else) \in R <=> Start(i) \in R
            /\ End(i) \in R <=> End(s.then) \in R \/ End(s.else) \in R
        BY <2>0, <2>9, IfFlow DEF R
      <3>3. Grown(body, v, then) /\ Right(s.then, v)
        BY <2>2, <3>1
      <3>4. w = [v EXCEPT !.reachable = then.reachable \/ else.reachable, !.unreachable = else.unreachable]
        BY <2>9 DEF Visit, VisitIf
      <3> HIDE DEF w, Right
      <3>5. /\ u \in Visitors(body) /\ u.unreachable = then.unreachable
            /\ u.reachable = v.reachable /\ u.mayEmit = v.mayEmit
        <4> HIDE DEF then
        <4> QED  BY <3>3 DEF Grown, Visitors
      <3> HIDE DEF u
      <3>6. Grown(body, u, else) /\ Right(s.else, u)
        BY <2>2, <3>1, <3>5
      <3>7. /\ w.unreachable = else.unreachable /\ w.mayEmit = v.mayEmit
            /\ w.reachable <=> then.reachable \/ else.reachable
        <4> HIDE DEF then, else
        <4> QED  BY <3>4 DEF Visitors
      <3>8. else.unreachable = {} /\ then.unreachable = {}
        BY <2>3, <3>5, <3>6, <3>7 DEF Grown
      <3>9. Accepted(body, R, s.then, then) /\ Accepted(body, R, s.else, else)
        BY <1>3, <3>2, <3>3, <3>5, <3>6, <3>8 DEF Right
      <3> QED  BY <1>3, <3>1, <3>2, <3>7, <3>9 DEF Accepted
    <2>10. CASE s.k = "loop"
      <3>1. s.body \in 1..(i - 1) /\ PartsOf(s) = {s.body}
        BY <2>0, <2>10, StatementIs, PartsAre
      <3>2. /\ Start(s.body) \in R <=> Start(i) \in R /\ TRUE \in o[i]
            /\ End(i) \in R <=> Start(i) \in R /\ FALSE \in o[i]
        BY <2>0, <2>10, LoopFlow DEF R
      <3>3. (TRUE \in o[i] <=> ~CannotEnter(s)) /\ (FALSE \in o[i] <=> ~Infinite(s))
        BY <2>0, <2>10 DEF Decides
      <3>4. CASE CannotEnter(s)
        <4> DEFINE u == [v EXCEPT !.reachable = FALSE]
                   c == CheckReachable(u, s.body)
        <4>1. s.body \in DOMAIN body
          BY <1>1, <2>0, <3>1
        <4>2. u \in Visitors(body) /\ ~u.reachable /\ u.mayEmit
          BY <1>3 DEF Visitors
        <4>3. w = [v EXCEPT !.reachable = TRUE, !.unreachable = c.unreachable]
          BY <2>10, <3>4 DEF Visit, VisitLoop
        <4> HIDE DEF w, u
        <4>4. s.body \in c.unreachable
          BY <4>1, <4>2, CheckReachableIs
        <4> HIDE DEF c
        <4>5. w.unreachable = c.unreachable
          BY <4>3 DEF Visitors
        <4> QED  BY <2>3, <4>4, <4>5
      <3>5. CASE ~CannotEnter(s)
        <4> DEFINE nested == visit[s.body][v]
        <4>1. Right(s.body, v)
          BY <2>2, <3>1
        <4>2. w = [v EXCEPT !.reachable = v.reachable /\ ~Infinite(s), !.unreachable = nested.unreachable]
          BY <2>10, <3>5 DEF Visit, VisitLoop, Visitors
        <4> HIDE DEF w
        <4>3. /\ w.unreachable = nested.unreachable /\ w.mayEmit = v.mayEmit
              /\ w.reachable <=> v.reachable /\ ~Infinite(s)
          <5> HIDE DEF nested
          <5> QED  BY <4>2 DEF Visitors
        <4>4. Accepted(body, R, s.body, nested)
          BY <1>3, <2>3, <3>2, <3>3, <3>5, <4>1, <4>3
        <4> QED  BY <1>3, <3>1, <3>2, <3>3, <4>3, <4>4 DEF Accepted
      <3> QED  BY <3>4, <3>5
    <2> QED  BY <2>1, <2>6, <2>7, <2>8, <2>9, <2>10
  <1>4. \A i \in 1..n : 1..(i - 1) \subseteq S => i \in S
    BY <1>3
  <1> HIDE DEF S
  <1>5. 1..n \subseteq S
    BY <1>1, <1>4, PlaceInduction
  <1> QED  BY <1>5 DEF S, visit, n, R

\* The places of the errors of a kind.
PlacesOf(errors, kind) == {e.pos : e \in {x \in errors : x.kind = kind}}

LEMMA PlacesOfErrors ==
    ASSUME NEW S, NEW kind
    PROVE  PlacesOf({Error(kind, i) : i \in S}, kind) = S
  <1> DEFINE E == {Error(kind, i) : i \in S}
  <1>1. ASSUME NEW i \in S PROVE i \in PlacesOf(E, kind)
    <2>1. Error(kind, i) \in E /\ Error(kind, i).kind = kind /\ Error(kind, i).pos = i
      BY DEF Error
    <2> HIDE DEF E
    <2> QED  BY <2>1 DEF PlacesOf
  <1>2. ASSUME NEW p \in PlacesOf(E, kind) PROVE p \in S
    <2>1. PICK e \in E : p = e.pos
      BY DEF PlacesOf
    <2>2. PICK i \in S : e = Error(kind, i)
      BY <2>1
    <2> QED  BY <2>1, <2>2 DEF Error
  <1> QED  BY <1>1, <1>2

\* The errors of a method with a body.
MethodIsRight(body, o, isVoid, errors) ==
  /\ errors = {} <=> NeverExecuted(body, o) = {} /\ (isVoid \/ ~FallsOffEnd(body, o))
  /\ PlacesOf(errors, "UnreachableCode") \subseteq NeverExecuted(body, o)
  /\ PlacesOf(errors, "MethodNeedsReturn") # {}
       => FallsOffEnd(body, o) \/ PlacesOf(errors, "UnreachableCode") # {}

LEMMA MethodErrorsAre ==
    ASSUME NEW m, BodyIs(m.body), m.body[Len(m.body)].k = "block", NEW o, Decides(m.body, o)
    PROVE  MethodIsRight(m.body, o, m.isVoid, MethodErrors(m))
  <1> DEFINE body == m.body
             n == Len(body)
             R == Runs(body, o)
             v0 == [reachable |-> TRUE, mayEmit |-> TRUE, unreachable |-> {}]
             w == AtEnd(body)
             errors == MethodErrors(m)
             never == NeverExecuted(body, o)
  <1>1. n \in 1..n /\ DOMAIN body = 1..n
    BY DEF BodyIs
  <1>2. v0 \in Visitors(body) /\ w = Visits(body)[n][v0]
    BY DEF Visitors, AtEnd
  <1>3. v0.reachable /\ v0.mayEmit /\ v0.unreachable = {}
    OBVIOUS
  <1> HIDE DEF v0, body
  <1>4. Start(n) \in R
    BY RunsAre DEF body
  <1>5. Grown(body, v0, w)
    BY <1>1, <1>2, VisitsGrow DEF body
  <1>6. Justified(R, w, End(n))
    <2>1. Justified(R, v0, Start(n))
      BY <1>3 DEF Justified
    <2>2. Justified(R, Visits(body)[n][v0], End(n))
      BY <1>1, <1>2, <2>1, VisitsJustified DEF body
    <2> QED  BY <1>2, <2>2
  <1>7. w.unreachable = {} => Accepted(body, R, n, w)
    <2>1. Visits(body)[n][v0].unreachable = {} => Accepted(body, R, n, Visits(body)[n][v0])
      BY <1>1, <1>2, <1>3, <1>4, VisitsAccept DEF body
    <2> QED  BY <1>2, <2>1
  <1>8. Within(body, n) = 1..n
    BY AllWithin DEF body
  <1>9. /\ \A i : i \in never <=> i \in 1..n /\ Start(i) \notin R
        /\ FallsOffEnd(body, o) <=> End(n) \in R
    BY <1>1 DEF NeverExecuted, FallsOffEnd
  <1>10. errors = {Error("UnreachableCode", i) : i \in w.unreachable}
                    \cup (IF w.reachable /\ ~m.isVoid THEN {Error("MethodNeedsReturn", 0)} ELSE {})
    BY DEF MethodErrors, body
  <1> HIDE DEF w, errors, R, never, n
  <1>11. w.unreachable \subseteq 1..n
    BY <1>1, <1>5 DEF Grown, Visitors
  <1>12. w.unreachable \subseteq never
    BY <1>6, <1>9, <1>11 DEF Justified
  <1>13. w.unreachable = {} => never = {} /\ (w.reachable => End(n) \in R)
    BY <1>7, <1>8, <1>9 DEF Accepted
  <1>14. ~w.reachable => End(n) \notin R
    BY <1>6 DEF Justified
  <1>15. errors = {} <=> w.unreachable = {} /\ ~(w.reachable /\ ~m.isVoid)
    BY <1>10
  <1>16. PlacesOf(errors, "UnreachableCode") = w.unreachable
    <2>1. \A e \in errors : e.kind = "UnreachableCode" => e.pos \in w.unreachable
      BY <1>10 DEF Error
    <2>2. ASSUME NEW i \in w.unreachable PROVE \E e \in errors : e.kind = "UnreachableCode" /\ e.pos = i
      <3>1. Error("UnreachableCode", i) \in errors
        BY <1>10
      <3> QED  BY <3>1 DEF Error
    <2> QED  BY <2>1, <2>2 DEF PlacesOf
  <1>17. PlacesOf(errors, "MethodNeedsReturn") # {} => w.reachable
    <2> SUFFICES ASSUME NEW e \in errors, e.kind = "MethodNeedsReturn" PROVE w.reachable
      BY DEF PlacesOf
    <2> QED  BY <1>10 DEF Error
  <1>18. errors = {} <=> never = {} /\ (m.isVoid \/ ~FallsOffEnd(body, o))
    BY <1>9, <1>12, <1>13, <1>14, <1>15
  <1>19. PlacesOf(errors, "MethodNeedsReturn") # {}
           => FallsOffEnd(body, o) \/ PlacesOf(errors, "UnreachableCode") # {}
    BY <1>9, <1>13, <1>16, <1>17
  <1> QED  BY <1>12, <1>16, <1>18, <1>19 DEF MethodIsRight, errors, never, body

\* The constants of folded conditions are those of the language.
LEMMA ConditionIs ==
    ASSUME FoldInv, FoldsRight(original), Len(folded) = Len(original),
           NEW c \in 1..Len(original), original[c].tid = kBool, NEW want \in BOOLEAN
    PROVE  IsConstantBool(c, want)
             <=> \A env \in Valuations : Meanings(original, env)[c] = Meaning(TRUE, Gives(Truth(want)))
  <1> DEFINE w(env) == Meanings(original, env)[c]
             wanted == Meaning(TRUE, Gives(Truth(want)))
  <1>1. ASSUME NEW env \in Valuations
        PROVE  IsConstantOf(folded[c], kBool, w(env)) \/ (~IsConst(folded[c]) /\ IsUnknown(w(env)))
    <2>1. Agrees(Meanings(Nodes, env), c)
      BY DEF FoldInv, MeaningsKept
    <2>2. Meanings(Nodes, env)[c] = w(env)
      BY MeaningsOfProgram DEF FoldInv
    <2> QED  BY <2>1, <2>2 DEF Agrees
  <1>2. \A a, b : Gives(a) = Gives(b) => a = b
    BY DEF Gives
  <1>3. \A u : IsUnknown(u) => u # wanted
    BY DEF IsUnknown, Meaning
  <1>4. \A v : Known(kBool, v) => MeaningOfLit(kBool, v) = Meaning(TRUE, Gives(v))
    <2>1. \A v : ValueOf(Lit(kBool, v)) = v
      BY Types DEF ValueOf, Lit
    <2> QED  BY <2>1 DEF MeaningOfLit
  <1>5. \A v : Meaning(TRUE, Gives(v)) = wanted <=> v = Truth(want)
    <2>1. \A u, x : Meaning(TRUE, u) = Meaning(TRUE, x) => u = x
      BY DEF Meaning
    <2> QED  BY <1>2, <2>1
  <1>6. \A v, u : Lit(kBool, v) = Lit(kBool, u) <=> v = u
    BY DEF Lit
  <1>7. ASSUME NEW env \in Valuations PROVE IsConstantBool(c, want) <=> w(env) = wanted
    <2> DEFINE x == w(env)
    <2>1. IsConstantOf(folded[c], kBool, x) \/ (~IsConst(folded[c]) /\ IsUnknown(x))
      BY <1>1
    <2> HIDE DEF x, wanted
    <2>2. CASE ~IsConst(folded[c]) /\ IsUnknown(x)
      <3>1. x # wanted
        BY <1>3, <2>2
      <3> QED  BY <2>2, <3>1 DEF IsConstantBool, x
    <2>3. CASE IsConstantOf(folded[c], kBool, x)
      <3>1. PICK v : folded[c] = Const(Lit(kBool, v)) /\ Known(kBool, v) /\ x = MeaningOfLit(kBool, v)
        BY <2>3 DEF IsConstantOf
      <3>2. IsConst(folded[c]) /\ folded[c].constant = Lit(kBool, v)
        BY <3>1, ConstIs
      <3>3. IsConstantBool(c, want) <=> v = Truth(want)
        BY <1>6, <3>2 DEF IsConstantBool
      <3>4. x = wanted <=> v = Truth(want)
        BY <1>4, <1>5, <3>1
      <3> QED  BY <3>3, <3>4 DEF x
    <2> QED  BY <2>1, <2>2, <2>3
  <1> HIDE DEF w, wanted
  <1>8. PICK env : env \in Valuations
    BY ValuationsAssumption
  <1>9. IsConstantBool(c, want) <=> \A e \in Valuations : w(e) = wanted
    BY <1>7, <1>8
  <1> QED  BY <1>9 DEF w, wanted

LEMMA ConditionsDecide ==
    ASSUME class \in DataflowClasses, original = class.exprs,
           FoldInv, FoldsRight(original), Len(folded) = Len(original),
           NEW m \in 1..Len(class.members), class.members[m].k = "method"
    PROVE  Decides(class.members[m].body, Outcomes(class.members[m].body))
  <1> DEFINE body == class.members[m].body
             o == Outcomes(body)
  <1>1. IsBody(body, original) /\ BodyIs(body)
    BY ClassIs, BodiesAre
  <1> SUFFICES ASSUME NEW i \in 1..Len(body), body[i].k = "loop"
               PROVE  (TRUE \in o[i] <=> ~CannotEnter(body[i])) /\ (FALSE \in o[i] <=> ~Infinite(body[i]))
    BY DEF Decides
  <1> DEFINE s == body[i]
  <1>2. DOMAIN body = 1..Len(body) /\ IsStatement(s, i, original)
    BY <1>1 DEF IsBody, BodyIs
  <1> HIDE DEF body
  <1>3. \A b \in BOOLEAN : b \in o[i] <=> ~AlwaysIs(s.cond, ~b)
    BY <1>2 DEF Outcomes
  <1>4. (TRUE \in o[i] <=> ~AlwaysIs(s.cond, FALSE)) /\ (FALSE \in o[i] <=> ~AlwaysIs(s.cond, TRUE))
    <2>1. (~TRUE) = FALSE /\ (~FALSE) = TRUE
      OBVIOUS
    <2> QED  BY <1>3, <2>1
  <1> HIDE DEF o, s
  <1>5. CASE s.cond = NoCond
    BY <1>4, <1>5 DEF AlwaysIs, CannotEnter, Infinite, s
  <1>6. CASE s.cond # NoCond
    <2>1. s.cond \in 1..Len(original) /\ original[s.cond].tid = kBool
      BY <1>2, <1>6 DEF IsStatement, FoldInv, FoldShape, IsSequence, s
    <2>2. \A want \in BOOLEAN : IsConstantBool(s.cond, want) <=> AlwaysIs(s.cond, want)
      BY <1>6, <2>1, ConditionIs DEF AlwaysIs
    <2>3. (CannotEnter(s) <=> AlwaysIs(s.cond, FALSE)) /\ (Infinite(s) <=> AlwaysIs(s.cond, TRUE))
      BY <1>6, <2>2 DEF CannotEnter, Infinite
    <2> QED  BY <1>4, <2>3 DEF s
  <1> QED  BY <1>5, <1>6

\* The errors of member m are right.
FieldIsRight(m, errors) ==
  class.members[m].k = "field" =>
    PlacesOf(errors, "FieldOrder") =
      {i \in Reads(class.members[m].val)[Len(class.members[m].val)] : class.members[m].val[i].name \in Unready(m)}

MethodReportRight(m, errors) ==
  LET member == class.members[m]
  IN  member.k = "method" /\ member.body[Len(member.body)].k = "block" /\ FoldsRight(original)
        => MethodIsRight(member.body, Outcomes(member.body), member.isVoid, errors)

ReportRight(m, errors) == FieldIsRight(m, errors) /\ MethodReportRight(m, errors)

LEMMA FieldErrorsAre ==
    ASSUME class \in DataflowClasses, NEW m \in 1..Len(class.members), class.members[m].k = "field"
    PROVE  FieldIsRight(m, FieldErrors(class.members[m]))
  <1> DEFINE tree == class.members[m].val
             cur == FieldIdOf(class.members[m].name)
             E == OrderErrors(tree, cur)[Len(tree)]
             R == Reads(tree)[Len(tree)]
  <1>1. /\ tree \in Seq(Range(tree)) /\ tree # << >>
        /\ \A i \in DOMAIN tree : IsOperation(tree[i], i)
    BY ClassIs DEF IsInitialiser
  <1>2. IsSequence(tree)
    BY <1>1, SeqIsSequence
  <1>3. Len(tree) > 0
    BY <1>1
  <1>4. InitialiserIs(tree)
    BY <1>1, <1>2, <1>3 DEF InitialiserIs, IsSequence
  <1>5. Len(tree) \in 1..Len(tree)
    BY <1>4 DEF InitialiserIs
  <1>6. /\ E = {j \in R : ~InOrder(tree[j], tree, cur)}
        /\ R \subseteq {j \in 1..Len(tree) : tree[j].k = "field" /\ tree[tree[j].base] = ImplicitThis}
    <2> HIDE DEF tree, cur
    <2>1. \A i \in 1..Len(tree) :
             /\ OrderErrors(tree, cur)[i] = {j \in Reads(tree)[i] : ~InOrder(tree[j], tree, cur)}
             /\ Reads(tree)[i] \subseteq
                  {j \in 1..Len(tree) : tree[j].k = "field" /\ tree[tree[j].base] = ImplicitThis}
      BY <1>4, ReportedReads
    <2> QED  BY <1>5, <2>1
  <1>7. ASSUME NEW j \in R PROVE ~InOrder(tree[j], tree, cur) <=> tree[j].name \in Unready(m)
    <2>1. tree[j] \in Range(tree) /\ tree[j].k = "field" /\ tree[tree[j].base] = ImplicitThis
      BY <1>4, <1>6 DEF Range, InitialiserIs
    <2> QED  BY <2>1, InOrderIs
  <1>8. E = {j \in R : tree[j].name \in Unready(m)}
    BY <1>6, <1>7
  <1>9. FieldErrors(class.members[m]) = {Error("FieldOrder", i) : i \in E}
    BY DEF FieldErrors
  <1> HIDE DEF E
  <1>10. PlacesOf(FieldErrors(class.members[m]), "FieldOrder") = E
    BY <1>9, PlacesOfErrors
  <1> QED  BY <1>8, <1>10 DEF FieldIsRight

LEMMA MemberErrorsAre ==
    ASSUME class \in DataflowClasses, original = class.exprs, FoldInv, Len(folded) = Len(original),
           NEW m \in 1..Len(class.members), class.members[m].k = "method"
    PROVE  MethodReportRight(m, MethodErrors(class.members[m]))
  <1> DEFINE member == class.members[m]
             o == Outcomes(member.body)
  <1> SUFFICES ASSUME member.body[Len(member.body)].k = "block", FoldsRight(original)
               PROVE  MethodIsRight(member.body, o, member.isVoid, MethodErrors(member))
    BY DEF MethodReportRight
  <1>1. BodyIs(member.body)
    BY ClassIs, BodiesAre
  <1>2. Decides(member.body, o)
    BY ConditionsDecide
  <1> HIDE DEF member, o
  <1> QED  BY <1>1, <1>2, MethodErrorsAre

\* The inductive invariant of the pass.
DataflowInv ==
  /\ class \in DataflowClasses
  /\ original = class.exprs
  /\ FoldInv
  /\ IsSequence(reports) /\ Len(reports) <= Len(class.members)
  /\ \A m \in 1..Len(reports) : ReportRight(m, reports[m])

LEMMA DataflowInvStarts ==
    ASSUME DataflowInit
    PROVE  DataflowInv
  <1>1. /\ class \in DataflowClasses /\ original = class.exprs
        /\ folded = << >> /\ strings = << >> /\ reports = << >>
    BY DEF DataflowInit
  <1>2. IsSequence(original) /\ WellTypedProgram(original) /\ Len(class.members) \in Nat
    BY <1>1, ClassIs
  <1>3. FoldInv
    BY <1>1, <1>2, FoldInvStarts
  <1>4. IsSequence(reports) /\ Len(reports) = 0
    BY <1>1, EmptyIsSequence
  <1> QED  BY <1>1, <1>2, <1>3, <1>4 DEF DataflowInv

\* A step of the pass either folds or adds the report of one member.
LEMMA DataflowStep ==
    ASSUME DataflowInv, [DataflowNext]_dataflowVars
    PROVE  /\ class' = class /\ original' = original /\ [ConstantFold]_vars
           /\ \/ reports' = reports
              \/ /\ UNCHANGED vars /\ Len(folded) = Len(original) /\ Len(reports) < Len(class.members)
                 /\ LET member == class.members[Len(reports) + 1]
                    IN  \/ member.k = "field" /\ reports' = Append(reports, FieldErrors(member))
                        \/ member.k = "method" /\ reports' = Append(reports, MethodErrors(member))
  <1>1. CASE Fold
    <2>1. original' = original
      BY <1>1, FoldStep DEF Fold, DataflowInv, FoldInv
    <2> QED  BY <1>1, <2>1 DEF Fold
  <1>2. CASE VisitField
    BY <1>2 DEF VisitField, Visiting, vars
  <1>3. CASE VisitMethod
    BY <1>3 DEF VisitMethod, Visiting, vars
  <1>4. CASE UNCHANGED dataflowVars
    BY <1>4 DEF dataflowVars, vars
  <1> QED  BY <1>1, <1>2, <1>3, <1>4 DEF DataflowNext

LEMMA DataflowInvKept ==
    ASSUME DataflowInv, [DataflowNext]_dataflowVars
    PROVE  DataflowInv'
  <1>1. /\ class' = class /\ original' = original /\ [ConstantFold]_vars
        /\ \/ reports' = reports
           \/ /\ Len(folded) = Len(original) /\ Len(reports) < Len(class.members)
              /\ \/ /\ class.members[Len(reports) + 1].k = "field"
                    /\ reports' = Append(reports, FieldErrors(class.members[Len(reports) + 1]))
                 \/ /\ class.members[Len(reports) + 1].k = "method"
                    /\ reports' = Append(reports, MethodErrors(class.members[Len(reports) + 1]))
    BY DataflowStep
  <1>2. FoldInv'
    BY <1>1, FoldInvKept DEF DataflowInv
  <1>3. /\ class \in DataflowClasses /\ original = class.exprs
        /\ IsSequence(reports) /\ Len(reports) <= Len(class.members)
        /\ \A m \in 1..Len(reports) : ReportRight(m, reports[m])
    BY DEF DataflowInv
  <1>4. class' \in DataflowClasses /\ original' = class'.exprs
    BY <1>1, <1>3
  <1>5. ASSUME NEW m, ReportRight(m, reports'[m]) PROVE ReportRight(m, reports[m])'
    <2>1. FieldIsRight(m, reports[m])'
      BY <1>1, <1>5 DEF ReportRight, FieldIsRight, Unready
    <2>2. MethodReportRight(m, reports[m])'
      <3> DEFINE body == class.members[m].body
      <3>1. FoldsRight(original)' <=> FoldsRight(original)
        BY <1>1 DEF FoldsRight
      <3>2. class'.members[m] = class.members[m]
        BY <1>1
      <3>3. \A x : Outcomes(x)' = Outcomes(x)
        BY <1>1 DEF Outcomes, AlwaysIs
      <3>4. MethodReportRight(m, reports'[m])
        BY <1>5 DEF ReportRight
      <3> QED  BY <3>1, <3>2, <3>3, <3>4 DEF MethodReportRight
    <2> QED  BY <2>1, <2>2 DEF ReportRight
  <1>6. CASE reports' = reports
    BY <1>1, <1>2, <1>3, <1>4, <1>5, <1>6 DEF DataflowInv
  <1>7. ASSUME NEW errors, reports' = Append(reports, errors), Len(reports) < Len(class.members),
               ReportRight(Len(reports) + 1, errors)
        PROVE  DataflowInv'
    <2>0. PICK n : n = Len(reports)
      OBVIOUS
    <2>1. /\ IsSequence(reports') /\ Len(reports') = n + 1 /\ reports'[n + 1] = errors
          /\ \A m \in 1..n : reports'[m] = reports[m]
      BY <1>3, <1>7, <2>0, AppendIsSequence
    <2>2. n \in Nat /\ Len(class.members) \in Nat
      BY <1>3, <2>0, ClassIs DEF IsSequence
    <2>3. \A m \in 1..n : ReportRight(m, reports[m])'
      BY <1>3, <1>5, <2>0, <2>1
    <2>4. ReportRight(n + 1, reports[n + 1])'
      <3>1. ReportRight(n + 1, errors)
        BY <1>7, <2>0
      <3> QED  BY <1>5, <2>1, <3>1
    <2>5. IsSequence(reports)' /\ Len(reports') <= Len(class'.members)
      BY <1>1, <1>7, <2>0, <2>1, <2>2 DEF IsSequence
    <2>6. (\A m \in 1..Len(reports) : ReportRight(m, reports[m]))'
      <3>1. 1..Len(reports') = 1..n \cup {n + 1}
        BY <2>1, <2>2
      <3> QED  BY <2>3, <2>4, <3>1
    <2> QED  BY <1>2, <1>4, <2>5, <2>6 DEF DataflowInv
  <1>8. ASSUME Len(reports) < Len(class.members) PROVE Len(reports) + 1 \in 1..Len(class.members)
    BY <1>3, <1>8, ClassIs DEF IsSequence
  <1>9. ASSUME Len(reports) < Len(class.members), class.members[Len(reports) + 1].k = "field"
        PROVE  ReportRight(Len(reports) + 1, FieldErrors(class.members[Len(reports) + 1]))
    BY <1>3, <1>8, <1>9, FieldErrorsAre DEF ReportRight, MethodReportRight
  <1>10. ASSUME Len(reports) < Len(class.members), class.members[Len(reports) + 1].k = "method",
                Len(folded) = Len(original)
         PROVE  ReportRight(Len(reports) + 1, MethodErrors(class.members[Len(reports) + 1]))
    BY <1>3, <1>8, <1>10, MemberErrorsAre DEF ReportRight, FieldIsRight, DataflowInv
  <1> QED  BY <1>1, <1>6, <1>7, <1>9, <1>10

LEMMA DataflowInvHolds == DataflowSpec => []DataflowInv
  <1>1. DataflowInit => DataflowInv
    BY DataflowInvStarts
  <1>2. DataflowInv /\ [DataflowNext]_dataflowVars => DataflowInv'
    BY DataflowInvKept
  <1> QED  BY <1>1, <1>2, PTL DEF DataflowSpec

\* An initialiser is rejected exactly where it reads a field of the new object
\* that has no value yet: for every class.
THEOREM FieldOrderIsExact == DataflowSpec => []FieldOrderExact
  <1>1. DataflowInv => FieldOrderExact
    <2> SUFFICES ASSUME DataflowInv PROVE FieldOrderExact
      OBVIOUS
    <2>1. DOMAIN reports = 1..Len(reports)
      BY DEF DataflowInv, IsSequence
    <2> QED  BY <2>1 DEF DataflowInv, ReportRight, FieldIsRight, PlacesOf, Reported, FieldOrderExact
  <1> QED  BY <1>1, DataflowInvHolds, PTL

LEMMA BodiesReported ==
    ASSUME DataflowInv, FoldsRight(original), NEW m \in Bodies
    PROVE  MethodIsRight(class.members[m].body, Outcomes(class.members[m].body), class.members[m].isVoid, reports[m])
  <1>1. DOMAIN reports = 1..Len(reports)
    BY DEF DataflowInv, IsSequence
  <1>2. m \in 1..Len(reports) /\ class.members[m].k = "method"
        /\ class.members[m].body[Len(class.members[m].body)].k = "block"
    BY <1>1 DEF Bodies
  <1>3. MethodReportRight(m, reports[m])
    BY <1>2 DEF DataflowInv, ReportRight
  <1> QED  BY <1>2, <1>3 DEF MethodReportRight

\* A method is rejected exactly when some run of it falls off its end without the
\* value it owes or it has a statement that no run executes: for every body of
\* every class whose conditions are folded rightly.
THEOREM RejectionIsExact == DataflowSpec => [](FoldsRight(original) => RejectsExactly)
  <1>1. DataflowInv => (FoldsRight(original) => RejectsExactly)
    BY BodiesReported DEF RejectsExactly, MethodIsRight
  <1> QED  BY <1>1, DataflowInvHolds, PTL

\* In such a class each error reported of a method is right.
THEOREM EveryErrorIsRight == DataflowSpec => [](FoldsRight(original) => ErrorsRight)
  <1>1. DataflowInv => (FoldsRight(original) => ErrorsRight)
    BY BodiesReported DEF ErrorsRight, MethodIsRight, PlacesOf, Reported
  <1> QED  BY <1>1, DataflowInvHolds, PTL

\* What folding guarantees it also guarantees of the expressions of a class.
THEOREM ClassesAreFoldedRight ==
    DataflowSpec => [](StringsHaveIds /\ (FoldsRight(original) => MeaningPreserved /\ ConstantsFold))
  <1>1. DataflowInv => StringsHaveIds
    BY DEF DataflowInv, FoldInv
  <1>2. DataflowInv => (FoldsRight(original) => MeaningPreserved /\ ConstantsFold)
    BY FoldInvPreservesMeaning, FoldInvFoldsConstants DEF DataflowInv
  <1> QED  BY <1>1, <1>2, DataflowInvHolds, PTL
=============================================================================
