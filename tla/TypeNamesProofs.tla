--------------------------- MODULE TypeNamesProofs ---------------------------
(***************************************************************************)
(* Type names: what TypeSetBuilder reports and what TypeSet::Get answers   *)
(* is right for every program and every BuiltinIds, and no lookup fails    *)
(* without an error.                                                       *)
(*                                                                         *)
(* IndexInv says what each index of the type set holds once its phase is   *)
(* over, in terms of the declarations; NamesInv says that what the cache   *)
(* remembers is what a search of the wildcard imports would find now, and  *)
(* that the work left is lookups of the program's names; ExplainedInv says *)
(* that what the cache remembers as an error was explained.                *)
(*                                                                         *)
(* The sections: sequences of sequences, types and their names, the        *)
(* declarations, the lists of types, the indices, the scopes of files and  *)
(* packages, the build, the lookups, the passes, the failures.             *)
(***************************************************************************)
EXTENDS TypeNames, ProofLemmas, FiniteSetTheorems

\* The places of the elements of the first n sequences.
Places(ss, n) == UNION {{f} \X DOMAIN ss[f] : f \in 1..n}

\* flat holds the elements of the first n sequences, once each.
Flattens(ss, n, flat) ==
    \E at \in [Places(ss, n) -> DOMAIN flat] :
       /\ \A p, q \in Places(ss, n) : at[p] = at[q] => p = q
       /\ \A i \in DOMAIN flat : \E p \in Places(ss, n) : at[p] = i
       /\ \A p \in Places(ss, n) : flat[at[p]] = ss[p[1]][p[2]]

LEMMA FlattenStep ==
    ASSUME NEW E, NEW ss \in Seq(Seq(E)), NEW n \in Nat, n + 1 <= Len(ss),
           NEW flat \in Seq(E), Flattens(ss, n, flat)
    PROVE  Flattens(ss, n + 1, flat \o ss[n + 1])
  <1> DEFINE P == Places(ss, n)
             Q == Places(ss, n + 1)
             new == ss[n + 1]
             both == flat \o new
  <1>1. PICK at \in [P -> DOMAIN flat] :
           /\ \A p, q \in P : at[p] = at[q] => p = q
           /\ \A i \in DOMAIN flat : \E p \in P : at[p] = i
           /\ \A p \in P : flat[at[p]] = ss[p[1]][p[2]]
    BY DEF Flattens
  <1>2. new \in Seq(E)
    OBVIOUS
  <1>3. /\ both \in Seq(E) /\ Len(both) = Len(flat) + Len(new)
        /\ Len(flat) \in Nat /\ Len(new) \in Nat
        /\ \A i \in 1..Len(flat) : both[i] = flat[i]
        /\ \A i \in 1..Len(new) : both[Len(flat) + i] = new[i]
    BY <1>2
  <1>4. /\ DOMAIN flat = 1..Len(flat) /\ DOMAIN new = 1..Len(new)
        /\ DOMAIN both = 1..(Len(flat) + Len(new))
    BY <1>2, <1>3
  <1>5. Q = P \union ({n + 1} \X DOMAIN new)
    BY DEF Places
  <1>6. \A p \in P : p[1] \in 1..n
    BY DEF Places
  <1> DEFINE both_at == [p \in Q |-> IF p[1] <= n THEN at[p] ELSE Len(flat) + p[2]]
  <1> HIDE DEF P, Q, new, both
  <1>7. ASSUME NEW p \in Q
        PROVE  \/ p \in P /\ both_at[p] = at[p] /\ at[p] \in 1..Len(flat)
               \/ /\ p[1] = n + 1 /\ p[2] \in 1..Len(new) /\ p = <<n + 1, p[2]>>
                  /\ both_at[p] = Len(flat) + p[2]
    BY <1>1, <1>4, <1>5, <1>6
  <1>8. both_at \in [Q -> DOMAIN both]
    <2>1. ASSUME NEW p \in Q PROVE both_at[p] \in DOMAIN both
      BY <1>3, <1>4, <1>7
    <2> QED  BY <2>1
  <1>9. ASSUME NEW p \in Q, NEW q \in Q, both_at[p] = both_at[q]
        PROVE  p = q
    <2>1. CASE p \in P /\ q \in P /\ both_at[p] = at[p] /\ both_at[q] = at[q]
      BY <1>1, <1>9, <2>1
    <2>2. CASE p = <<n + 1, p[2]>> /\ q = <<n + 1, q[2]>> /\ p[2] \in Nat /\ q[2] \in Nat
               /\ both_at[p] = Len(flat) + p[2] /\ both_at[q] = Len(flat) + q[2]
      <3>1. p[2] = q[2]
        <4> HIDE DEF both_at
        <4>1. Len(flat) + p[2] = Len(flat) + q[2]
          BY <1>9, <2>2
        <4> QED  BY <1>3, <2>2, <4>1
      <3> QED  BY <2>2, <3>1
    <2> HIDE DEF both_at
    <2> QED  BY <1>3, <1>7, <1>9, <2>1, <2>2
  <1>10. ASSUME NEW i \in DOMAIN both PROVE \E p \in Q : both_at[p] = i
    <2>1. CASE i <= Len(flat)
      <3>1. i \in DOMAIN flat
        BY <1>3, <1>4, <2>1
      <3>2. PICK p \in P : at[p] = i
        BY <1>1, <3>1
      <3>3. p \in Q /\ p[1] <= n
        BY <1>5, <1>6, <3>2
      <3> QED  BY <3>2, <3>3
    <2>2. CASE i > Len(flat)
      <3>1. PICK k \in 1..Len(new) : i = Len(flat) + k
        <4>1. i - Len(flat) \in 1..Len(new)
          BY <1>3, <1>4, <2>2
        <4> QED  BY <1>3, <1>4, <4>1
      <3>2. <<n + 1, k>> \in Q
        BY <1>4, <1>5, <3>1
      <3>3. both_at[<<n + 1, k>>] = i
        BY <3>1, <3>2
      <3> QED  BY <3>2, <3>3
    <2> QED  BY <1>3, <1>4, <2>1, <2>2
  <1>11. ASSUME NEW p \in Q PROVE both[both_at[p]] = ss[p[1]][p[2]]
    <2>1. CASE p \in P /\ both_at[p] = at[p] /\ at[p] \in 1..Len(flat)
      BY <1>1, <1>3, <2>1
    <2>2. CASE p[1] = n + 1 /\ p[2] \in 1..Len(new) /\ both_at[p] = Len(flat) + p[2]
      BY <1>3, <2>2 DEF new
    <2> HIDE DEF both_at
    <2> QED  BY <1>7, <2>1, <2>2
  <1> QED
    <2> HIDE DEF both_at
    <2> QED  BY <1>8, <1>9, <1>10, <1>11 DEF Flattens, Q, both, new

LEMMA FlattenIs ==
    ASSUME NEW E, NEW ss \in Seq(Seq(E))
    PROVE  FlattenSeq(ss) \in Seq(E) /\ Flattens(ss, Len(ss), FlattenSeq(ss))
  <1> DEFINE N == Len(ss)
             step(f, i) == IF i = 1 THEN ss[i] ELSE f[i - 1] \o ss[i]
             Begins(n, f) == f \in [1..n -> Seq(E)] /\ \A i \in 1..n : f[i] = step(f, i)
             Can(n) == n <= N => \E f : Begins(n, f)
             Good == {n \in Nat : Can(n)}
  <1>1. N \in Nat /\ \A i \in 1..N : ss[i] \in Seq(E)
    OBVIOUS
  <1>2. Can(0)
    <2>1. Begins(0, [i \in 1..0 |-> <<>>])
      OBVIOUS
    <2> QED  BY <2>1
  <1>3. ASSUME NEW n \in Nat, Can(n) PROVE Can(n + 1)
    <2> SUFFICES ASSUME n + 1 <= N
                 PROVE  \E f : Begins(n + 1, f)
      OBVIOUS
    <2>1. PICK f : Begins(n, f)
      <3>1. n <= N
        BY <1>1
      <3> HIDE DEF Begins
      <3> QED  BY <1>3, <3>1
    <2> DEFINE v == IF n = 0 THEN ss[1] ELSE f[n] \o ss[n + 1]
               g == [i \in 1..(n + 1) |-> IF i <= n THEN f[i] ELSE v]
    <2>2. v \in Seq(E)
      <3>1. CASE n = 0
        BY <1>1, <3>1
      <3>2. CASE n # 0
        <4>1. f[n] \in Seq(E) /\ ss[n + 1] \in Seq(E)
          BY <1>1, <2>1, <3>2
        <4> QED  BY <3>2, <4>1
      <3> QED  BY <3>1, <3>2
    <2> HIDE DEF v
    <2>3. g \in [1..(n + 1) -> Seq(E)]
      BY <2>1, <2>2
    <2>4. ASSUME NEW i \in 1..(n + 1) PROVE g[i] = step(g, i)
      <3>1. CASE i = n + 1
        <4>1. g[i] = v
          BY <3>1
        <4>2. CASE n = 0
          BY <3>1, <4>1, <4>2 DEF v
        <4>3. CASE n # 0
          <5>1. g[i - 1] = f[n]
            BY <3>1, <4>3
          <5> QED  BY <3>1, <4>1, <4>3, <5>1 DEF v
        <4> QED  BY <4>2, <4>3
      <3>2. CASE i <= n
        <4>1. i \in 1..n /\ g[i] = f[i]
          BY <3>2
        <4>2. f[i] = step(f, i)
          BY <2>1, <4>1
        <4>3. i # 1 => g[i - 1] = f[i - 1]
          BY <3>2
        <4> QED  BY <4>1, <4>2, <4>3
      <3> QED  BY <3>1, <3>2
    <2> QED  BY <2>3, <2>4
  <1>4. PICK h : Begins(N, h)
    <2> HIDE DEF Can
    <2>1. 0 \in Good /\ \A n \in Nat : n \in Good => n + 1 \in Good
      BY <1>2, <1>3
    <2>2. N \in Good
      <3> HIDE DEF Good
      <3> QED  BY <1>1, <2>1, SetInduction
    <2> QED  BY <1>1, <2>2 DEF Can
  <1>5. PICK flat :
           /\ \A i \in 1..N : flat[i] = IF i = 1 THEN ss[i] ELSE flat[i - 1] \o ss[i]
           /\ FlattenSeq(ss) = IF N = 0 THEN ss ELSE flat[N]
    <2> DEFINE flatten[i \in 1..N] == IF i = 1 THEN ss[i] ELSE flatten[i - 1] \o ss[i]
    <2>1. flatten = [i \in 1..N |-> IF i = 1 THEN ss[i] ELSE flatten[i - 1] \o ss[i]]
      <3>1. h = [i \in 1..N |-> IF i = 1 THEN ss[i] ELSE h[i - 1] \o ss[i]]
        BY <1>4
      <3> QED  BY <3>1 DEF flatten
    <2>2. FlattenSeq(ss) = IF N = 0 THEN ss ELSE flatten[N]
      BY DEF FlattenSeq
    <2> HIDE DEF flatten, N
    <2>3. \A i \in 1..N : flatten[i] = IF i = 1 THEN ss[i] ELSE flatten[i - 1] \o ss[i]
      BY <2>1
    <2> QED  BY <2>2, <2>3
  <1> DEFINE Flat == {n \in Nat : n \in 1..N =>
                         flat[n] \in Seq(E) /\ Flattens(ss, n, flat[n])}
  <1>7. Flattens(ss, 0, <<>>)
    <2>1. Places(ss, 0) = {}
      BY DEF Places
    <2>2. DOMAIN <<>> = {} /\ [p \in {} |-> 0] \in [{} -> {}]
      OBVIOUS
    <2> QED  BY <2>1, <2>2 DEF Flattens
  <1>8. 0 \in Flat
    OBVIOUS
  <1>9. ASSUME NEW n \in Nat, n \in Flat PROVE n + 1 \in Flat
    <2> SUFFICES ASSUME n + 1 <= N
                 PROVE  flat[n + 1] \in Seq(E) /\ Flattens(ss, n + 1, flat[n + 1])
      OBVIOUS
    <2>1. CASE n = 0
      <3>1. flat[1] = ss[1] /\ ss[1] \in Seq(E) /\ <<>> \o ss[1] = ss[1] /\ <<>> \in Seq(E)
        BY <1>1, <1>5, <2>1
      <3>2. Flattens(ss, 0 + 1, <<>> \o ss[0 + 1])
        BY <1>1, <1>7, <2>1, <3>1, FlattenStep
      <3> QED  BY <2>1, <3>1, <3>2
    <2>2. CASE n # 0
      <3>1. flat[n + 1] = flat[n] \o ss[n + 1]
        <4>1. n + 1 \in 1..N /\ n + 1 # 1 /\ n + 1 - 1 = n
          BY <1>1, <2>2
        <4>2. N \in Nat /\ \A i \in 1..N : i # 1 => flat[i] = flat[i - 1] \o ss[i]
          BY <1>1, <1>5
        <4> HIDE DEF N
        <4>3. PICK k \in 1..N : k = n + 1 /\ k # 1 /\ k - 1 = n
          BY <4>1
        <4>4. flat[k] = flat[k - 1] \o ss[k]
          BY <4>2, <4>3
        <4> QED  BY <4>3, <4>4
      <3>2. flat[n] \in Seq(E) /\ Flattens(ss, n, flat[n])
        BY <1>9, <2>2
      <3> QED  BY <1>1, <3>1, <3>2, FlattenStep
    <2> QED  BY <2>1, <2>2
  <1>10. Nat \subseteq Flat
    <2> HIDE DEF Flat
    <2> QED  BY <1>8, <1>9, SetInduction
  <1>11. CASE N = 0
    <2>1. ss = <<>>
      BY <1>11
    <2> QED  BY <1>5, <1>7, <1>11, <2>1
  <1>12. CASE N # 0
    <2>1. N \in 1..N /\ N \in Flat
      BY <1>1, <1>10, <1>12
    <2> QED  BY <1>5, <1>12, <2>1
  <1> QED  BY <1>11, <1>12

-----------------------------------------------------------------------------
(* Counting.                                                               *)

\* Finite sets of at most one, of exactly one and of several elements.
LEMMA Counting ==
    ASSUME NEW A, IsFiniteSet(A)
    PROVE  /\ Cardinality(A) \in Nat /\ S!Cardinality(A) = Cardinality(A)
           /\ Cardinality(A) = 1 <=> \E x : A = {x}
           /\ Cardinality(A) > 1 <=> \E x, y \in A : x # y
           /\ Cardinality(A) < 2 <=> \A x, y \in A : x = y
  <1>1. Cardinality(A) \in Nat /\ (Cardinality(A) = 0 <=> A = {})
    BY FS_CardinalityType, FS_EmptySet
  <1>2. Cardinality(A) = 1 <=> \E x : A = {x}
    BY FS_Singleton
  <1>3. S!Cardinality(A) = Cardinality(A)
    BY DEF Cardinality, S!Cardinality
  <1> QED  BY <1>1, <1>2, <1>3

\* What an injection maps to a finite set is finite.
LEMMA InjectionFinite ==
    ASSUME NEW A, NEW B, NEW f \in [A -> B], \A x, y \in A : f[x] = f[y] => x = y,
           IsFiniteSet(B)
    PROVE  IsFiniteSet(A)
  <1>1. f \in Injection(A, B)
    BY DEF Injection, IsInjective
  <1> QED  BY <1>1, FS_Injection

\* A function's values on a finite set are finitely many.
LEMMA ImageFinite ==
    ASSUME NEW A, IsFiniteSet(A), NEW f, NEW B, \A b \in B : \E a \in A : b = f[a]
    PROVE  IsFiniteSet(B)
  <1>1. PICK g : g = [b \in B |-> CHOOSE a \in A : b = f[a]]
    OBVIOUS
  <1>2. \A b \in B : g[b] \in A /\ f[g[b]] = b
    BY <1>1
  <1>3. g \in [B -> A]
    BY <1>1, <1>2
  <1>4. \A x, y \in B : g[x] = g[y] => x = y
    BY <1>2
  <1> QED  BY <1>3, <1>4, InjectionFinite

-----------------------------------------------------------------------------
(* Names.                                                                  *)

\* The types of the program; their packages and names.
Types == S!Types(program)
Pkg(t) == S!Package(program, t)
Name(t) == S!SimpleName(program, t)
Long(t) == LongName(Pkg(t), Name(t))

LEMMA LongNamesDiffer ==
    ASSUME NEW p \in Seq(Identifier), NEW q \in Seq(Identifier),
           NEW m \in Identifier, NEW n \in Identifier, LongName(p, m) = LongName(q, n)
    PROVE  p = q /\ m = n
  <1>1. CASE p = <<>> /\ q = <<>>
    BY <1>1 DEF LongName
  <1>2. CASE p # <<>> /\ q # <<>>
    <2>1. Append(p, m) = Append(q, n)
      BY <1>2 DEF LongName
    <2> QED  BY <2>1
  <1>3. ASSUME NEW a \in Seq(Identifier), a # <<>>, NEW x \in Identifier, NEW y,
               Append(a, x) = <<"", y>>
        PROVE  FALSE
    <2>1. 1 \in 1..Len(a)
      <3>1. Len(a) \in Nat /\ Len(a) # 0
        BY <1>3, EmptySeq
      <3> QED  BY <3>1
    <2>2. Append(a, x)[1] = a[1] /\ a[1] \in Identifier
      <3>1. a[1] \in Identifier
        BY <1>3, <2>1, ElementOfSeq
      <3>2. Append(a, x)[1] = a[1]
        BY <2>1, AppendProperties
      <3> QED  BY <3>1, <3>2
    <2>3. <<"", y>>[1] = ""
      OBVIOUS
    <2> QED  BY <1>3, <2>2, <2>3 DEF Identifier
  <1>4. CASE p = <<>> /\ q # <<>>
    BY <1>3, <1>4 DEF LongName
  <1>5. CASE p # <<>> /\ q = <<>>
    BY <1>3, <1>5 DEF LongName
  <1> QED  BY <1>1, <1>2, <1>4, <1>5

\* A name without empty parts is a type's only if the type is in a package.
LEMMA LongNameIs ==
    ASSUME NEW p \in Seq(Identifier), NEW m \in Identifier
    PROVE  /\ p # <<>> => /\ LongName(p, m) = Append(p, m) /\ LongName(p, m) \in QualifiedName
                          /\ Last(Append(p, m)) = m /\ Len(Append(p, m)) > 1
           /\ p = <<>> => LongName(p, m) \notin Seq(Identifier)
  <1>1. CASE p # <<>>
    <2>1. /\ LongName(p, m) = Append(p, m) /\ Append(p, m) \in Seq(Identifier)
          /\ Len(Append(p, m)) = Len(p) + 1 /\ Append(p, m)[Len(p) + 1] = m
          /\ Len(p) \in Nat /\ Len(p) # 0
      BY <1>1, AppendProperties DEF LongName
    <2> QED  BY <1>1, <2>1 DEF QualifiedName, Last
  <1>2. CASE p = <<>>
    <2>1. ASSUME NEW a \in Seq(Identifier), a = <<"", m>> PROVE FALSE
      <3>1. Len(a) = 2
        BY <2>1
      <3>2. 1 \in 1..Len(a)
        BY <3>1
      <3>3. a[1] \in Identifier
        BY <3>2, ElementOfSeq
      <3>4. a[1] = ""
        BY <2>1
      <3> QED  BY <3>3, <3>4 DEF Identifier
    <2> QED  BY <1>2, <2>1 DEF LongName
  <1> QED  BY <1>1, <1>2

LEMMA UnitsAre ==
    ASSUME program \in Programs
    PROVE  /\ DOMAIN program = 1..Len(program) /\ Len(program) \in Nat
           /\ \A f \in DOMAIN program :
                 /\ program[f] \in CompUnit
                 /\ program[f].package \in Seq(Identifier)
                 /\ \A i \in DOMAIN program[f].imports :
                       program[f].imports[i].onDemand \in BOOLEAN
                       /\ program[f].imports[i].name \in QualifiedName
                 /\ \A i \in DOMAIN program[f].types : program[f].types[i] \in TypeDecl
  <1>1. program \in Seq(CompUnit)
    BY ProgramsAssumption
  <1>2. ASSUME NEW f \in DOMAIN program
        PROVE  /\ program[f] \in CompUnit
               /\ program[f].package \in Seq(Identifier)
               /\ \A i \in DOMAIN program[f].imports :
                     program[f].imports[i].onDemand \in BOOLEAN
                     /\ program[f].imports[i].name \in QualifiedName
               /\ \A i \in DOMAIN program[f].types : program[f].types[i] \in TypeDecl
    <2>1. program[f] \in CompUnit
      BY <1>1
    <2>2. program[f].package \in Seq(Identifier)
      <3>1. program[f].package \in QualifiedName \cup {<<>>}
        BY <2>1 DEF CompUnit
      <3>2. <<>> \in Seq(Identifier)
        OBVIOUS
      <3> QED  BY <3>1, <3>2 DEF QualifiedName
    <2>3. /\ program[f].imports \in Seq([onDemand : BOOLEAN, name : QualifiedName])
          /\ program[f].types \in Seq(TypeDecl)
      BY <2>1 DEF CompUnit
    <2>4. ASSUME NEW i \in DOMAIN program[f].imports
          PROVE  program[f].imports[i].onDemand \in BOOLEAN
                 /\ program[f].imports[i].name \in QualifiedName
      <3> DEFINE imports == program[f].imports
                 Import == [onDemand : BOOLEAN, name : QualifiedName]
      <3>1. imports \in Seq(Import) /\ i \in DOMAIN imports
        BY <2>3
      <3>2. imports[i] \in Import
        <4> HIDE DEF imports, Import
        <4> QED  BY <3>1
      <3> HIDE DEF imports
      <3>3. imports[i].onDemand \in BOOLEAN /\ imports[i].name \in QualifiedName
        BY <3>2
      <3> QED  BY <3>3 DEF imports
    <2>5. \A i \in DOMAIN program[f].types : program[f].types[i] \in TypeDecl
      BY <2>3
    <2> QED  BY <2>1, <2>2, <2>4, <2>5
  <1> QED  BY <1>1, <1>2

LEMMA TypesAre ==
    ASSUME program \in Programs, NEW t \in Types
    PROVE  /\ t = <<t[1], t[2]>> /\ t[1] \in DOMAIN program
           /\ t[2] \in DOMAIN program[t[1]].types
           /\ Pkg(t) = program[t[1]].package /\ Name(t) = program[t[1]].types[t[2]].name
           /\ Pkg(t) \in Seq(Identifier) /\ Name(t) \in Identifier
  <1>1. t = <<t[1], t[2]>> /\ t[1] \in DOMAIN program /\ t[2] \in DOMAIN program[t[1]].types
    BY DEF Types, S!Types
  <1>2. program[t[1]].types[t[2]] \in TypeDecl /\ program[t[1]].package \in Seq(Identifier)
    BY <1>1, UnitsAre
  <1>3. program[t[1]].types[t[2]].name \in Identifier
    BY <1>2 DEF TypeDecl
  <1> QED  BY <1>1, <1>2, <1>3 DEF Pkg, Name, S!Package, S!SimpleName

LEMMA TypesIn ==
    ASSUME NEW f \in DOMAIN program, NEW i \in DOMAIN program[f].types
    PROVE  <<f, i>> \in Types
  BY DEF Types, S!Types

LEMMA LongDiffers ==
    ASSUME program \in Programs, NEW t \in Types, NEW u \in Types, Long(t) = Long(u)
    PROVE  Pkg(t) = Pkg(u) /\ Name(t) = Name(u)
  BY TypesAre, LongNamesDiffer DEF Long

LEMMA SameLong ==
    ASSUME NEW t, NEW u, Pkg(t) = Pkg(u), Name(t) = Name(u)
    PROVE  Long(t) = Long(u)
  BY DEF Long

-----------------------------------------------------------------------------
(* The declarations of a program, and the rules of Scoping in terms of     *)
(* their long names.                                                       *)

Decl(t) == [file |-> t[1], pkg |-> Pkg(t), name |-> Name(t)]

LEMMA DeclarationsAre ==
    ASSUME program \in Programs
    PROVE  /\ Declarations \in Seq({Decl(t) : t \in Types})
           /\ \E pos \in [Types -> DOMAIN Declarations] :
                 /\ \A t, u \in Types : pos[t] = pos[u] => t = u
                 /\ \A i \in DOMAIN Declarations : \E t \in Types : pos[t] = i
                 /\ \A t \in Types : Declarations[pos[t]] = Decl(t)
  <1> DEFINE D == {Decl(t) : t \in Types}
             row(f) == [i \in DOMAIN program[f].types |->
                          [file |-> f, pkg |-> program[f].package,
                           name |-> program[f].types[i].name]]
             ss == [f \in DOMAIN program |-> row(f)]
             N == Len(program)
  <1>1. DOMAIN program = 1..N /\ N \in Nat
    BY UnitsAre
  <1>2. ASSUME NEW f \in DOMAIN program
        PROVE  /\ row(f) \in Seq(D) /\ DOMAIN row(f) = DOMAIN program[f].types
               /\ \A i \in DOMAIN program[f].types : row(f)[i] = Decl(<<f, i>>)
    <2>1. PICK n \in Nat : DOMAIN program[f].types = 1..n
      <3>1. program[f] \in CompUnit
        BY UnitsAre
      <3>2. program[f].types \in Seq(TypeDecl)
        BY <3>1 DEF CompUnit
      <3> QED  BY <3>2
    <2>2. ASSUME NEW i \in DOMAIN program[f].types
          PROVE  row(f)[i] = Decl(<<f, i>>) /\ <<f, i>> \in Types
      BY TypesIn, TypesAre DEF Decl
    <2> HIDE DEF D
    <2>3. row(f) \in [1..n -> D]
      BY <2>1, <2>2 DEF D
    <2>4. row(f) \in Seq(D)
      <3> HIDE DEF row
      <3> QED  BY <2>3, SegmentInSeq
    <2> QED  BY <2>2, <2>4
  <1> HIDE DEF D, row
  <1>3. ss \in Seq(Seq(D)) /\ Len(ss) = N
    <2>1. ss \in [1..N -> Seq(D)]
      BY <1>1, <1>2
    <2> HIDE DEF ss, N
    <2> QED  BY <1>1, <2>1, SegmentInSeq
  <1>4. Declarations = FlattenSeq(ss)
    BY DEF Declarations, row
  <1>5. Places(ss, Len(ss)) = Types
    <2>1. \A f \in 1..N : DOMAIN ss[f] = DOMAIN program[f].types
      BY <1>1, <1>2
    <2> QED  BY <1>1, <1>3, <2>1 DEF Places, Types, S!Types
  <1>6. \A t \in Types : ss[t[1]][t[2]] = Decl(t)
    BY <1>2, TypesAre
  <1> HIDE DEF ss
  <1>7. Declarations \in Seq(D) /\ Flattens(ss, Len(ss), Declarations)
    BY <1>3, <1>4, FlattenIs
  <1>8. PICK pos \in [Types -> DOMAIN Declarations] :
           /\ \A t, u \in Types : pos[t] = pos[u] => t = u
           /\ \A i \in DOMAIN Declarations : \E t \in Types : pos[t] = i
           /\ \A t \in Types : Declarations[pos[t]] = ss[t[1]][t[2]]
    BY <1>5, <1>7, Zenon DEF Flattens
  <1>9. \A t \in Types : Declarations[pos[t]] = Decl(t)
    BY <1>6, <1>8
  <1>10. Declarations \in Seq({Decl(t) : t \in Types})
    BY <1>7 DEF D
  <1> QED  BY <1>8, <1>9, <1>10

LEMMA TypesFinite ==
    ASSUME program \in Programs
    PROVE  IsFiniteSet(Types)
  <1>1. IsFiniteSet(DOMAIN Declarations)
    <2>1. PICK n \in Nat : DOMAIN Declarations = 1..n
      BY DeclarationsAre
    <2> QED  BY <2>1, FS_Interval
  <1> QED  BY <1>1, DeclarationsAre, InjectionFinite

LEMMA PackagesAre ==
    ASSUME program \in Programs
    PROVE  /\ UNION {Dotted(program[f].package) : f \in DOMAIN program} = S!Packages(program)
           /\ S!Packages(program) \subseteq Seq(Identifier)
  <1>1. ASSUME NEW f \in DOMAIN program
        PROVE  /\ Dotted(program[f].package) =
                     {SubSeq(program[f].package, 1, n) : n \in 1..Len(program[f].package)}
               /\ Dotted(program[f].package) \subseteq Seq(Identifier)
    <2>1. PICK p \in Seq(Identifier) : p = program[f].package
      BY UnitsAre
    <2>2. SubSeq(p, 1, 0) = <<>> /\ Len(p) \in Nat
      OBVIOUS
    <2>3. ASSUME NEW n \in 1..Len(p)
          PROVE  SubSeq(p, 1, n) # <<>> /\ SubSeq(p, 1, n) \in Seq(Identifier)
      <3>1. Len(SubSeq(p, 1, n)) = n /\ SubSeq(p, 1, n) \in Seq(Identifier)
        OBVIOUS
      <3> QED  BY <3>1
    <2>4. 0..Len(p) = {0} \cup 1..Len(p)
      BY <2>2
    <2>5. Prefixes(p) = {<<>>} \cup {SubSeq(p, 1, n) : n \in 1..Len(p)}
      BY <2>2, <2>4 DEF Prefixes
    <2> QED  BY <2>1, <2>3, <2>5 DEF Dotted
  <1> QED  BY <1>1 DEF S!Packages

\* The types with a package's name are those whose long name is one.
LEMMA ClashingIs ==
    ASSUME program \in Programs, NEW t \in Types
    PROVE  t \in S!Clashing(program) <=> Long(t) \in S!Packages(program)
  <1>1. Pkg(t) \in Seq(Identifier) /\ Name(t) \in Identifier
    BY TypesAre
  <1>2. Pkg(t) # <<>> => Long(t) = S!FullName(program, t)
    BY <1>1, LongNameIs DEF Long, S!FullName, Pkg, Name
  <1>3. Pkg(t) = <<>> => Long(t) \notin S!Packages(program)
    BY <1>1, LongNameIs, PackagesAre DEF Long
  <1> QED  BY <1>2, <1>3 DEF S!Clashing, Types, Pkg

\* The types declared twice are those that share their long name.
LEMMA TwiceIs ==
    ASSUME program \in Programs, NEW t \in Types
    PROVE  t \in S!Twice(program) <=> \E u \in Types : u # t /\ Long(u) = Long(t)
  <1> DEFINE same == S!InPackage(program, Pkg(t), Name(t))
  <1>1. same = {u \in Types : Long(u) = Long(t)}
    <2>1. ASSUME NEW u \in Types
          PROVE  Long(u) = Long(t) <=> Pkg(u) = Pkg(t) /\ Name(u) = Name(t)
      BY LongDiffers, SameLong
    <2> QED  BY <2>1 DEF S!InPackage, Types, Pkg, Name
  <1>2. t \in S!Twice(program) <=> S!Cardinality(same) > 1
    BY DEF S!Twice, Types, Pkg, Name
  <1>3. IsFiniteSet(same)
    BY <1>1, TypesFinite, FS_Subset
  <1> HIDE DEF same
  <1>4. S!Cardinality(same) > 1 <=> \E x, y \in same : x # y
    BY <1>3, Counting
  <1> QED  BY <1>1, <1>2, <1>4

Bad == S!Twice(program) \cup S!Clashing(program)

LEMMA BadByName ==
    ASSUME program \in Programs, NEW t \in Types, NEW u \in Types, Long(t) = Long(u)
    PROVE  (t \in Bad <=> u \in Bad) /\ (t \notin Bad => t = u)
  BY ClashingIs, TwiceIs DEF Bad

-----------------------------------------------------------------------------
(* The fold that drops duplicates.                                         *)

LEMMA MaxIs ==
    ASSUME NEW m \in Nat, NEW s \in SUBSET (1..(m + 1)), m + 1 \in s
    PROVE  Max(s) = m + 1
  <1>1. \A y \in s : m + 1 >= y
    OBVIOUS
  <1>2. \A x \in s : (\A y \in s : x >= y) => x = m + 1
    OBVIOUS
  <1> QED  BY <1>1, <1>2 DEF Max

LEMMA DropAdjacentIs ==
    ASSUME NEW E, NEW types \in Seq(E)
    PROVE  /\ ToSet(DropAdjacent(types)) \subseteq ToSet(types)
           /\ \A i \in DOMAIN types :
                 \E e \in ToSet(DropAdjacent(types)) : e.long = types[i].long
  <1> DEFINE N == Len(types)
             step(kept, t) ==
                IF kept # <<>> /\ Last(kept).long = t.long THEN kept ELSE Append(kept, t)
             next(f, s) == IF s = {} THEN <<>> ELSE step(f[s \ {Max(s)}], types[Max(s)])
             Begins(m, f) == f = [s \in SUBSET (1..m) |-> next(f, s)]
             Can == {m \in Nat : \E f : Begins(m, f)}
  <1>1. N \in Nat /\ DOMAIN types = 1..N /\ \A i \in 1..N : types[i] \in E
    OBVIOUS
  <1>2. 0 \in Can
    <2>1. SUBSET (1..0) = {{}}
      OBVIOUS
    <2>2. Begins(0, [s \in SUBSET (1..0) |-> <<>>])
      BY <2>1
    <2> HIDE DEF Begins
    <2> QED  BY <2>2
  <1>3. ASSUME NEW m \in Nat, m \in Can PROVE m + 1 \in Can
    <2>1. PICK f : Begins(m, f)
      BY <1>3
    <2> DEFINE g == [s \in SUBSET (1..(m + 1)) |->
                       IF m + 1 \in s THEN step(f[s \ {m + 1}], types[m + 1]) ELSE f[s]]
    <2> HIDE DEF step
    <2>2. ASSUME NEW s \in SUBSET (1..(m + 1)) PROVE g[s] = next(g, s)
      <3>1. CASE m + 1 \in s
        <4>1. Max(s) = m + 1
          BY <3>1, MaxIs
        <4>2. s \ {m + 1} \in SUBSET (1..(m + 1)) /\ m + 1 \notin s \ {m + 1}
          OBVIOUS
        <4>3. g[s \ {m + 1}] = f[s \ {m + 1}]
          BY <4>2
        <4> QED  BY <3>1, <4>1, <4>3
      <3>2. CASE m + 1 \notin s
        <4>1. s \in SUBSET (1..m)
          BY <3>2
        <4>2. \A r \in SUBSET s : r \in SUBSET (1..(m + 1)) /\ m + 1 \notin r
          BY <3>2
        <4>3. \A r \in SUBSET s : g[r] = f[r]
          BY <4>2
        <4>4. f[s] = next(f, s)
          BY <2>1, <4>1
        <4>5. s \ {Max(s)} \in SUBSET s /\ s \in SUBSET s
          OBVIOUS
        <4> HIDE DEF g
        <4> QED  BY <4>3, <4>4, <4>5
      <3> QED  BY <3>1, <3>2
    <2>3. Begins(m + 1, g)
      <3>1. g = [s \in SUBSET (1..(m + 1)) |-> g[s]]
        OBVIOUS
      <3> HIDE DEF g, next
      <3> QED  BY <2>2, <3>1
    <2> HIDE DEF Begins
    <2> QED  BY <2>3
  <1>4. \E h : Begins(N, h)
    <2> HIDE DEF Can
    <2>1. N \in Can
      BY <1>1, <1>2, <1>3, SetInduction
    <2> QED  BY <2>1 DEF Can
  <1>5. PICK it :
           /\ \A s \in SUBSET (1..N) : it[s] = next(it, s)
           /\ DropAdjacent(types) = it[1..N]
    <2> DEFINE iter[s \in SUBSET DOMAIN types] ==
                  IF s = {} THEN <<>>
                  ELSE LET x == Max(s)
                       IN  step(iter[s \ {x}], types[x])
    <2>1. iter = [s \in SUBSET DOMAIN types |-> next(iter, s)]
      BY <1>1, <1>4 DEF iter
    <2>2. DropAdjacent(types) = iter[DOMAIN types]
      BY DEF DropAdjacent, FoldLeft, MapThenFoldSet
    <2> HIDE DEF iter, next, N
    <2> QED  BY <1>1, <2>1, <2>2
  <1> DEFINE kept(k) == it[1..k]
             Right(k) ==
                /\ kept(k) \in Seq(E) /\ ToSet(kept(k)) \subseteq {types[i] : i \in 1..k}
                /\ \A i \in 1..k : \E e \in ToSet(kept(k)) : e.long = types[i].long
             Good == {k \in Nat : k <= N => Right(k)}
  <1>6. kept(0) = <<>>
    <2>1. 1..0 = {} /\ {} \in SUBSET (1..N)
      OBVIOUS
    <2> QED  BY <1>5, <2>1
  <1>7. ASSUME NEW k \in Nat, k + 1 <= N
        PROVE  kept(k + 1) = step(kept(k), types[k + 1])
    <2>1. 1..(k + 1) \in SUBSET (1..N) /\ 1..(k + 1) # {} /\ k + 1 \in 1..(k + 1)
          /\ (1..(k + 1)) \ {k + 1} = 1..k
      BY <1>1, <1>7
    <2>2. Max(1..(k + 1)) = k + 1
      BY MaxIs, <2>1
    <2> HIDE DEF step, N
    <2> QED  BY <1>5, <2>1, <2>2
  <1> HIDE DEF kept
  <1>8. Right(0)
    <2>1. <<>> \in Seq(E) /\ ToSet(<<>>) = {} /\ 1..0 = {}
      BY DEF ToSet
    <2> QED  BY <1>6, <2>1
  <1>9. ASSUME NEW k \in Nat, k + 1 <= N, Right(k)
        PROVE  Right(k + 1)
    <2> DEFINE t == types[k + 1]
    <2>1. t \in E /\ 1..(k + 1) = (1..k) \cup {k + 1}
      BY <1>1, <1>9
    <2>2. CASE kept(k) # <<>> /\ Last(kept(k)).long = t.long
      <3>1. kept(k + 1) = kept(k)
        BY <1>7, <1>9, <2>2
      <3>2. Last(kept(k)) \in ToSet(kept(k))
        <4>1. Len(kept(k)) \in DOMAIN kept(k)
          BY <1>9, <2>2, EmptySeq
        <4> QED  BY <4>1 DEF Last, ToSet
      <3> QED  BY <1>9, <2>1, <2>2, <3>1, <3>2
    <2>3. CASE ~ (kept(k) # <<>> /\ Last(kept(k)).long = t.long)
      <3>1. kept(k + 1) = Append(kept(k), t)
        BY <1>7, <1>9, <2>3
      <3>2. ToSet(Append(kept(k), t)) = ToSet(kept(k)) \cup {t}
        <4> DEFINE old == kept(k)
        <4>1. /\ DOMAIN old = 1..Len(old) /\ Len(old) \in Nat
              /\ DOMAIN Append(old, t) = 1..(Len(old) + 1)
              /\ \A i \in 1..Len(old) : Append(old, t)[i] = old[i]
              /\ Append(old, t)[Len(old) + 1] = t
          BY <1>9, <2>1, AppendProperties, LenProperties
        <4>2. 1..(Len(old) + 1) = (1..Len(old)) \cup {Len(old) + 1}
          BY <4>1
        <4> HIDE DEF old, t
        <4>3. ToSet(Append(old, t)) =
                {Append(old, t)[i] : i \in 1..Len(old)} \cup {Append(old, t)[Len(old) + 1]}
          BY <4>1, <4>2 DEF ToSet
        <4>4. {Append(old, t)[i] : i \in 1..Len(old)} = {old[i] : i \in 1..Len(old)}
          BY <4>1
        <4>5. ToSet(old) = {old[i] : i \in 1..Len(old)}
          BY <4>1 DEF ToSet
        <4>6. ToSet(Append(old, t)) = ToSet(old) \cup {t}
          BY <4>1, <4>3, <4>4, <4>5
        <4> QED  BY <4>6 DEF old
      <3>3. Append(kept(k), t) \in Seq(E)
        BY <1>9, <2>1, AppendProperties
      <3> HIDE DEF t
      <3>4. \A i \in 1..(k + 1) : \E e \in ToSet(kept(k)) \cup {t} : e.long = types[i].long
        BY <1>9, <2>1 DEF t
      <3>5. ToSet(kept(k)) \cup {t} \subseteq {types[i] : i \in 1..(k + 1)}
        BY <1>9, <2>1 DEF t
      <3> QED  BY <3>1, <3>2, <3>3, <3>4, <3>5
    <2> QED  BY <2>2, <2>3
  <1>10. Right(N)
    <2> HIDE DEF Right
    <2>1. 0 \in Good /\ \A k \in Nat : k \in Good => k + 1 \in Good
      BY <1>1, <1>8, <1>9
    <2>2. N \in Good
      <3> HIDE DEF Good
      <3> QED  BY <1>1, <2>1, SetInduction
    <2> QED  BY <1>1, <2>2
  <1>11. DropAdjacent(types) = kept(N)
    BY <1>5 DEF kept
  <1>12. ToSet(types) = {types[i] : i \in 1..N}
    BY <1>1 DEF ToSet
  <1> HIDE DEF N
  <1> QED  BY <1>1, <1>10, <1>11, <1>12

-----------------------------------------------------------------------------
(* The list of all types, while the indices are built.                     *)

Entry(t, tid) ==
    [file |-> t[1], pkg |-> Pkg(t), name |-> Name(t), long |-> Long(t), tid |-> tid]
Entries == {Entry(t, n) : t \in Types, n \in Nat}

\* types has one entry for each type of the program, in the places pos; those of
\* the names given are blacklisted.
Given(pos, names, t) ==
    IF Long(t) \in names THEN ErrorBase ELSE FirstRefTypeBase + pos[t] - 1
Lists(types, pos, names) ==
    /\ types \in Seq(Entries)
    /\ pos \in [Types -> DOMAIN types]
    /\ \A t, u \in Types : pos[t] = pos[u] => t = u
    /\ \A i \in DOMAIN types : \E t \in Types : pos[t] = i
    /\ \A t \in Types : types[pos[t]] = Entry(t, Given(pos, names, t))

AllLong == {Long(t) : t \in Types}
Clashes == AllLong \cap S!Packages(program)
Doubles == {Long(t) : t \in S!Twice(program)}

LEMMA EntryIs ==
    ASSUME NEW t, NEW n
    PROVE  /\ Entry(t, n).file = t[1] /\ Entry(t, n).pkg = Pkg(t) /\ Entry(t, n).name = Name(t)
           /\ Entry(t, n).long = Long(t) /\ Entry(t, n).tid = n
           /\ \A m : [Entry(t, n) EXCEPT !.tid = m] = Entry(t, m)
  BY DEF Entry

LEMMA EntryIn ==
    ASSUME NEW t \in Types, NEW n \in Nat
    PROVE  Entry(t, n) \in Entries
  BY DEF Entries

LEMMA GivenIs ==
    ASSUME NEW types, NEW pos, NEW names, Lists(types, pos, names), NEW t \in Types
    PROVE  /\ pos[t] \in DOMAIN types /\ pos[t] \in Nat \ {0}
           /\ Given(pos, names, t) \in Nat
           /\ types[pos[t]] = Entry(t, Given(pos, names, t))
  <1>1. pos[t] \in DOMAIN types /\ DOMAIN types = 1..Len(types) /\ Len(types) \in Nat
    BY DEF Lists
  <1>2. pos[t] \in Nat \ {0}
    BY <1>1
  <1> QED  BY <1>1, <1>2 DEF Given, Lists, ErrorBase, FirstRefTypeBase

LEMMA ListedNames ==
    ASSUME NEW types, NEW pos, NEW names, Lists(types, pos, names)
    PROVE  LongNames(types) = AllLong
  <1>1. \A i \in DOMAIN types : \E t \in Types : pos[t] = i /\ types[i].long = Long(t)
    BY EntryIs DEF Lists
  <1>2. \A t \in Types : pos[t] \in DOMAIN types /\ types[pos[t]].long = Long(t)
    BY EntryIs DEF Lists
  <1> QED  BY <1>1, <1>2 DEF LongNames, AllLong

LEMMA BlacklistLists ==
    ASSUME NEW types, NEW pos, NEW names, Lists(types, pos, names), NEW more
    PROVE  Lists(Blacklist(types, more), pos, names \cup more)
  <1> DEFINE new == Blacklist(types, more)
  <1>1. PICK n \in Nat : DOMAIN types = 1..n
    BY DEF Lists
  <1>2. DOMAIN new = 1..n
    BY <1>1 DEF Blacklist
  <1>3. ASSUME NEW t \in Types
        PROVE  new[pos[t]] = Entry(t, Given(pos, names \cup more, t))
    <2>1. types[pos[t]] = Entry(t, Given(pos, names, t)) /\ types[pos[t]].long = Long(t)
      BY GivenIs, EntryIs
    <2>2. pos[t] \in DOMAIN types
      BY GivenIs
    <2>3. new[pos[t]] = IF Long(t) \in more THEN Entry(t, ErrorBase)
                                           ELSE Entry(t, Given(pos, names, t))
      BY <2>1, <2>2, EntryIs DEF Blacklist
    <2> QED  BY <2>3 DEF Given
  <1>4. \A t \in Types : Given(pos, names \cup more, t) \in Nat
    BY GivenIs DEF Given, ErrorBase, FirstRefTypeBase
  <1>5. \A i \in 1..n : new[i] \in Entries
    <2>1. ASSUME NEW i \in 1..n PROVE new[i] \in Entries
      <3>1. PICK t \in Types : pos[t] = i
        BY <1>1 DEF Lists
      <3>2. new[i] = Entry(t, Given(pos, names \cup more, t))
        BY <1>3, <3>1
      <3> HIDE DEF new
      <3> QED  BY <1>4, <3>2, EntryIn
    <2> QED  BY <2>1
  <1>6. new \in Seq(Entries)
    <2>1. new = [i \in 1..n |-> new[i]]
      BY <1>1 DEF Blacklist
    <2> HIDE DEF new
    <2>2. new \in [1..n -> Entries]
      BY <1>5, <2>1
    <2> QED  BY <2>2, SegmentInSeq
  <1> HIDE DEF new
  <1>7. Lists(new, pos, names \cup more)
    BY <1>1, <1>2, <1>3, <1>6 DEF Lists
  <1> QED  BY <1>7 DEF new

LEMMA DeclarationsListed ==
    ASSUME program \in Programs
    PROVE  \E pos : Lists([i \in DOMAIN Declarations |->
                             [file |-> Declarations[i].file,
                              pkg |-> Declarations[i].pkg,
                              name |-> Declarations[i].name,
                              long |-> LongName(Declarations[i].pkg, Declarations[i].name),
                              tid |-> FirstRefTypeBase + i - 1]], pos, {})
  <1> DEFINE types == [i \in DOMAIN Declarations |->
                         [file |-> Declarations[i].file,
                          pkg |-> Declarations[i].pkg,
                          name |-> Declarations[i].name,
                          long |-> LongName(Declarations[i].pkg, Declarations[i].name),
                          tid |-> FirstRefTypeBase + i - 1]]
  <1>1. PICK n \in Nat : DOMAIN Declarations = 1..n
    BY DeclarationsAre
  <1>2. PICK pos \in [Types -> DOMAIN Declarations] :
           /\ \A t, u \in Types : pos[t] = pos[u] => t = u
           /\ \A i \in DOMAIN Declarations : \E t \in Types : pos[t] = i
           /\ \A t \in Types : Declarations[pos[t]] = Decl(t)
    BY DeclarationsAre
  <1>3. ASSUME NEW t \in Types
        PROVE  /\ types[pos[t]] = Entry(t, Given(pos, {}, t))
               /\ Given(pos, {}, t) \in Nat
    <2>1. pos[t] \in 1..n /\ Declarations[pos[t]] = Decl(t)
      BY <1>1, <1>2
    <2>2. types[pos[t]] = Entry(t, FirstRefTypeBase + pos[t] - 1)
      BY <1>1, <2>1 DEF Decl, Entry, Long
    <2> QED  BY <2>1, <2>2 DEF Given, FirstRefTypeBase
  <1>4. ASSUME NEW i \in 1..n PROVE types[i] \in Entries
    <2>1. PICK t \in Types : pos[t] = i
      BY <1>1, <1>2
    <2>2. types[i] = Entry(t, Given(pos, {}, t)) /\ Given(pos, {}, t) \in Nat
      BY <1>3, <2>1
    <2> HIDE DEF types
    <2> QED  BY <2>2, EntryIn
  <1>5. types = [i \in 1..n |-> types[i]]
    BY <1>1
  <1> HIDE DEF types
  <1>6. types \in Seq(Entries)
    <2>1. types \in [1..n -> Entries]
      BY <1>4, <1>5
    <2> QED  BY <2>1, SegmentInSeq
  <1>7. DOMAIN types = DOMAIN Declarations
    BY <1>1, <1>5
  <1>8. Lists(types, pos, {})
    BY <1>2, <1>3, <1>6, <1>7 DEF Lists
  <1> QED  BY <1>8 DEF types

LEMMA CollisionsAre ==
    ASSUME NEW pos, NEW names, Lists(allTypes, pos, names), allPkgs = S!Packages(program)
    PROVE  Collisions = Clashes
  BY ListedNames DEF Collisions, Clashes

LEMMA BadNamesAre ==
    ASSUME program \in Programs, NEW pos, NEW names, Lists(allTypes, pos, names)
    PROVE  BadNames = Doubles
  <1>1. ASSUME NEW t \in Types
        PROVE  Cardinality({i \in DOMAIN allTypes : allTypes[i].long = Long(t)}) > 1
                  <=> t \in S!Twice(program)
    <2> DEFINE same == {i \in DOMAIN allTypes : allTypes[i].long = Long(t)}
    <2>1. same = {pos[u] : u \in {v \in Types : Long(v) = Long(t)}}
      <3>1. \A u \in Types : pos[u] \in DOMAIN allTypes /\ allTypes[pos[u]].long = Long(u)
        BY GivenIs, EntryIs
      <3>2. \A i \in DOMAIN allTypes : \E u \in Types : pos[u] = i
        BY DEF Lists
      <3> QED  BY <3>1, <3>2
    <2>2. IsFiniteSet(same)
      <3>1. PICK n \in Nat : DOMAIN allTypes = 1..n
        BY DEF Lists
      <3> QED  BY <3>1, FS_Interval, FS_Subset
    <2>3. pos[t] \in same
      BY <2>1
    <2>4. \A u, v \in Types : pos[u] = pos[v] => u = v
      BY DEF Lists
    <2> HIDE DEF same
    <2>5. Cardinality(same) > 1 <=> \E x, y \in same : x # y
      BY <2>2, Counting
    <2>6. (\E x, y \in same : x # y) <=> \E u \in Types : u # t /\ Long(u) = Long(t)
      BY <2>1, <2>3, <2>4
    <2> QED  BY <2>5, <2>6, TwiceIs DEF same
  <1>2. S!Twice(program) \subseteq Types
    BY DEF S!Twice, Types
  <1> QED  BY <1>1, <1>2, ListedNames DEF BadNames, Doubles, AllLong

\* A type's entry is blacklisted at the end exactly if the type is bad.
LEMMA BlacklistedAreBad ==
    ASSUME program \in Programs, NEW t \in Types
    PROVE  Long(t) \in Clashes \cup Doubles <=> t \in Bad
  <1>1. Long(t) \in Clashes <=> t \in S!Clashing(program)
    BY ClashingIs DEF Clashes, AllLong
  <1>2. Long(t) \in Doubles <=> t \in S!Twice(program)
    <2>1. ASSUME NEW u \in S!Twice(program), Long(u) = Long(t)
          PROVE  t \in S!Twice(program)
      <3>1. u \in Types
        BY DEF S!Twice, Types
      <3> QED  BY <2>1, <3>1, TwiceIs
    <2> QED  BY <2>1 DEF Doubles
  <1> QED  BY <1>1, <1>2 DEF Bad

-----------------------------------------------------------------------------
(* The indices: each type that is not bad has an id of its own.            *)

Tid(id, t) == IF t \in Bad THEN ErrorBase ELSE id[t]

Indexed(id, types, by_name) ==
    /\ id \in [Types -> Nat] /\ \A t \in Types : IsValid(id[t])
    /\ \A t, u \in Types : id[t] = id[u] => t = u
    /\ DOMAIN by_name = AllLong
    /\ \A t \in Types : by_name[Long(t)] = Tid(id, t)
    /\ ToSet(types) \subseteq {Entry(t, Tid(id, t)) : t \in Types}
    /\ \A t \in Types : \E e \in ToSet(types) : e.long = Long(t)

IndexOf(types) ==
    [n \in LongNames(types) |-> types[CHOOSE i \in DOMAIN types : types[i].long = n].tid]

LEMMA IndexBuilt ==
    ASSUME program \in Programs, NEW types, NEW pos,
           Lists(types, pos, Clashes \cup Doubles)
    PROVE  \E id : Indexed(id, DropAdjacent(types), IndexOf(types))
  <1> DEFINE id == [t \in Types |-> FirstRefTypeBase + pos[t] - 1]
             by_name == [n \in LongNames(types) |->
                         types[CHOOSE i \in DOMAIN types : types[i].long = n].tid]
             kept == DropAdjacent(types)
  <1>1. ASSUME NEW t \in Types
        PROVE  /\ id[t] \in Nat /\ IsValid(id[t])
               /\ pos[t] \in DOMAIN types
               /\ types[pos[t]] = Entry(t, Tid(id, t))
    <2>1. pos[t] \in Nat \ {0} /\ pos[t] \in DOMAIN types
          /\ types[pos[t]] = Entry(t, Given(pos, Clashes \cup Doubles, t))
      BY GivenIs
    <2>2. Given(pos, Clashes \cup Doubles, t) = Tid(id, t)
      BY BlacklistedAreBad DEF Given, Tid
    <2>3. id[t] = FirstRefTypeBase + pos[t] - 1
      OBVIOUS
    <2> HIDE DEF id
    <2>4. id[t] \in Nat /\ IsValid(id[t])
      BY <2>1, <2>3 DEF FirstRefTypeBase, IsValid, ErrorBase
    <2> QED  BY <2>1, <2>2, <2>4
  <1>2. ASSUME NEW t \in Types, NEW u \in Types, id[t] = id[u]
        PROVE  t = u
    <2>1. pos[t] \in Nat /\ pos[u] \in Nat
      BY GivenIs
    <2>2. pos[t] = pos[u]
      BY <1>2, <2>1 DEF FirstRefTypeBase
    <2> QED  BY <2>2 DEF Lists
  <1>3. ASSUME NEW i \in DOMAIN types
        PROVE  \E t \in Types : types[i] = Entry(t, Tid(id, t))
    <2>1. PICK t \in Types : pos[t] = i
      BY DEF Lists
    <2> HIDE DEF id
    <2> QED  BY <1>1, <2>1
  <1>4. id \in [Types -> Nat]
    <2>1. id = [t \in Types |-> id[t]]
      OBVIOUS
    <2> HIDE DEF id
    <2> QED  BY <1>1, <2>1
  <1> HIDE DEF id
  <1>5. DOMAIN by_name = AllLong
    BY ListedNames
  <1>6. ASSUME NEW t \in Types
        PROVE  by_name[Long(t)] = Tid(id, t)
    <2>1. PICK i \in DOMAIN types :
             /\ types[i].long = Long(t) /\ by_name[Long(t)] = types[i].tid
      <3>1. pos[t] \in DOMAIN types /\ types[pos[t]].long = Long(t)
        BY <1>1, EntryIs
      <3>2. Long(t) \in LongNames(types)
        BY ListedNames DEF AllLong
      <3> QED  BY <3>1, <3>2
    <2>2. PICK u \in Types : types[i] = Entry(u, Tid(id, u))
      BY <1>3
    <2>3. Long(u) = Long(t) /\ by_name[Long(t)] = Tid(id, u)
      BY <2>1, <2>2, EntryIs
    <2> QED  BY <2>3, BadByName DEF Tid
  <1>7. ToSet(kept) \subseteq ToSet(types)
        /\ \A i \in DOMAIN types : \E e \in ToSet(kept) : e.long = types[i].long
    <2>1. types \in Seq(Entries)
      BY DEF Lists
    <2> QED  BY <2>1, DropAdjacentIs
  <1>8. ToSet(kept) \subseteq {Entry(t, Tid(id, t)) : t \in Types}
    BY <1>3, <1>7 DEF ToSet
  <1>9. ASSUME NEW t \in Types
        PROVE  \E e \in ToSet(kept) : e.long = Long(t)
    <2>1. pos[t] \in DOMAIN types /\ types[pos[t]].long = Long(t)
      BY <1>1, EntryIs
    <2> QED  BY <1>7, <2>1
  <1> HIDE DEF by_name, kept
  <1>10. Indexed(id, kept, by_name)
    BY <1>1, <1>2, <1>4, <1>5, <1>6, <1>8, <1>9 DEF Indexed
  <1> QED  BY <1>10 DEF by_name, kept, IndexOf

\* A type that is not bad is still in the list.
LEMMA GoodIsListed ==
    ASSUME program \in Programs, NEW id, NEW types, NEW by_name, Indexed(id, types, by_name),
           NEW t \in Types
    PROVE  /\ \E u \in Types : /\ Long(u) = Long(t) /\ Entry(u, Tid(id, t)) \in ToSet(types)
                               /\ Tid(id, u) = Tid(id, t)
           /\ t \notin Bad => Entry(t, id[t]) \in ToSet(types)
  <1>1. PICK e \in ToSet(types) : e.long = Long(t)
    BY DEF Indexed
  <1>2. PICK u \in Types : e = Entry(u, Tid(id, u))
    BY DEF Indexed
  <1>3. Long(u) = Long(t)
    BY <1>1, <1>2, EntryIs
  <1>4. (t \in Bad <=> u \in Bad) /\ (t \notin Bad => t = u)
    BY <1>3, BadByName
  <1>5. Tid(id, u) = Tid(id, t)
    BY <1>4 DEF Tid
  <1> QED  BY <1>2, <1>3, <1>4, <1>5 DEF Tid

\* The ids of good types: they are valid, and of one type.
LEMMA TidIs ==
    ASSUME NEW id, NEW types, NEW by_name, Indexed(id, types, by_name), NEW t \in Types
    PROVE  /\ Tid(id, t) \in Nat
           /\ IsValid(Tid(id, t)) <=> t \notin Bad
           /\ ~IsValid(Tid(id, t)) <=> Tid(id, t) = ErrorBase
           /\ \A u \in Types : IsValid(Tid(id, t)) /\ Tid(id, t) = Tid(id, u) => t = u
  BY DEF Indexed, Tid, IsValid, ErrorBase

\* A TypeId is that of the declaration it was given to.
LEMMA DeclaredIs ==
    ASSUME program \in Programs, NEW id, Indexed(id, allTypes, qualIndex),
           NEW t \in Types, t \notin Bad
    PROVE  Declared(id[t]) = {t}
  <1>1. ASSUME NEW u \in Types, NEW e \in ToSet(allTypes),
               e.tid = id[t], e.file = u[1], e.name = Name(u)
        PROVE  u = t
    <2>1. PICK v \in Types : e = Entry(v, Tid(id, v))
      BY DEF Indexed
    <2>2. Tid(id, v) = id[t] /\ Tid(id, t) = id[t] /\ v[1] = u[1] /\ Name(v) = Name(u)
      BY <1>1, <2>1, EntryIs DEF Tid
    <2>3. v = t
      BY <2>2, TidIs
    <2>4. Pkg(u) = Pkg(t)
      BY <2>2, <2>3, TypesAre
    <2>5. Long(u) = Long(t)
      BY <2>2, <2>3, <2>4, SameLong
    <2> QED  BY <2>5, BadByName
  <1>2. Entry(t, id[t]) \in ToSet(allTypes)
    BY GoodIsListed
  <1>3. Declared(id[t]) = {u \in Types : \E e \in ToSet(allTypes) :
                             e.tid = id[t] /\ e.file = u[1] /\ e.name = Name(u)}
    BY DEF Declared, Types, Name
  <1> QED  BY <1>1, <1>2, <1>3, EntryIs

-----------------------------------------------------------------------------
(* The scopes of files and packages.                                       *)

\* What the phases up to the imports leave.
Resolved(id) ==
    /\ program \in Programs
    /\ Indexed(id, allTypes, qualIndex)
    /\ allPkgs = S!Packages(program)

LEMMA CalledIs ==
    ASSUME program \in Programs, NEW name \in Seq(Identifier)
    PROVE  S!Called(program, name) = {t \in Types : Long(t) = name}
  <1>1. ASSUME NEW t \in Types
        PROVE  Pkg(t) # <<>> /\ S!FullName(program, t) = name <=> Long(t) = name
    <2>1. Pkg(t) \in Seq(Identifier) /\ Name(t) \in Identifier
      BY TypesAre
    <2>2. S!FullName(program, t) = Append(Pkg(t), Name(t))
      BY DEF S!FullName, Pkg, Name
    <2> QED  BY <2>1, <2>2, LongNameIs DEF Long
  <1> QED  BY <1>1 DEF S!Called, Types, Pkg

LEMMA ResolveIs ==
    ASSUME NEW id, Resolved(id), NEW name \in Seq(Identifier)
    PROVE  /\ name \in DOMAIN qualIndex <=> S!Called(program, name) # {}
           /\ \A t \in S!Called(program, name) :
                 t \in Types /\ Long(t) = name /\ qualIndex[name] = Tid(id, t)
           /\ \A t \in S!Called(program, name) :
                 t \notin Bad => S!Called(program, name) = {t}
  <1>1. S!Called(program, name) = {t \in Types : Long(t) = name}
    BY CalledIs DEF Resolved
  <1>2. DOMAIN qualIndex = AllLong /\ \A t \in Types : qualIndex[Long(t)] = Tid(id, t)
    BY DEF Resolved, Indexed
  <1>3. \A t \in S!Called(program, name) :
           t \notin Bad => S!Called(program, name) = {t}
    BY <1>1, BadByName DEF Resolved
  <1> QED  BY <1>1, <1>2, <1>3 DEF AllLong

LEMMA ImportsAre ==
    ASSUME program \in Programs, NEW f \in DOMAIN program
    PROVE  /\ ImportsOf(f, FALSE) = S!SingleImports(program, f)
           /\ ImportsOf(f, TRUE) = S!DemandImports(program, f)
           /\ \A b \in BOOLEAN : ImportsOf(f, b) \subseteq QualifiedName
  <1>1. \A i \in DOMAIN program[f].imports :
           program[f].imports[i].onDemand \in BOOLEAN
           /\ program[f].imports[i].name \in QualifiedName
    BY UnitsAre
  <1> QED  BY <1>1 DEF ImportsOf, S!SingleImports, S!DemandImports

\* The types a file gives the name n.
Here(f, n) == S!InFile(program, f, n)

LEMMA HereIs ==
    ASSUME NEW f, NEW n
    PROVE  Here(f, n) = {t \in Types :
              Name(t) = n /\ (t[1] = f \/ t \in UNION {S!Called(program, name) :
                                                 name \in S!SingleImports(program, f)})}
  BY DEF Here, S!InFile, S!Called, Types, Name, Pkg

\* Each type that f declares or imports has its pair, and each pair is of such a
\* type or blacklisted.
LEMMA PairsAre ==
    ASSUME NEW id, Resolved(id), NEW f \in DOMAIN program
    PROVE  /\ \A n : \A t \in Here(f, n) : <<n, Tid(id, t)>> \in FileTypes(f)
           /\ \A p \in FileTypes(f) :
                 /\ p = <<p[1], p[2]>>
                 /\ \/ \E t \in Here(f, p[1]) : p[2] = Tid(id, t)
                    \/ /\ p[2] = ErrorBase
                       /\ \E name \in S!SingleImports(program, f) :
                             S!Called(program, name) = {}
  <1>1. program \in Programs
    BY DEF Resolved
  <1> DEFINE imported == {<<Last(name), MustResolve(name)>> : name \in ImportsOf(f, FALSE)}
             long(i) == LongName(program[f].package, program[f].types[i].name)
             own == {<<program[f].types[i].name, MustResolve(long(i))>> :
                        i \in DOMAIN program[f].types}
  <1>2. FileTypes(f) = imported \cup own
    BY DEF FileTypes
  <1>3. ASSUME NEW name \in S!SingleImports(program, f)
        PROVE  /\ name \in Seq(Identifier) /\ name \in ImportsOf(f, FALSE)
               /\ \A t \in S!Called(program, name) :
                     /\ Last(name) = Name(t) /\ t \in Here(f, Name(t))
                     /\ MustResolve(name) = Tid(id, t)
               /\ S!Called(program, name) = {} => MustResolve(name) = ErrorBase
    <2>1. name \in Seq(Identifier) /\ name \in ImportsOf(f, FALSE)
      BY <1>1, ImportsAre DEF QualifiedName
    <2>2. ASSUME NEW t \in S!Called(program, name)
          PROVE  /\ Last(name) = Name(t) /\ t \in Here(f, Name(t))
                 /\ MustResolve(name) = Tid(id, t)
      <3>1. t \in Types /\ Long(t) = name /\ qualIndex[name] = Tid(id, t)
            /\ name \in DOMAIN qualIndex
        BY <2>1, ResolveIs
      <3>2. Last(name) = Name(t)
        BY <1>1, <2>1, <3>1, TypesAre, LongNameIs DEF Long
      <3> QED  BY <3>1, <3>2, HereIs DEF MustResolve
    <2>3. S!Called(program, name) = {} => MustResolve(name) = ErrorBase
      BY <2>1, ResolveIs DEF MustResolve
    <2> QED  BY <2>1, <2>2, <2>3
  <1>4. ASSUME NEW i \in DOMAIN program[f].types
        PROVE  /\ <<f, i>> \in Here(f, program[f].types[i].name)
               /\ MustResolve(long(i)) = Tid(id, <<f, i>>)
               /\ Name(<<f, i>>) = program[f].types[i].name
    <2> DEFINE t == <<f, i>>
    <2>1. t \in Types /\ t[1] = f
      BY TypesIn
    <2>2. Name(t) = program[f].types[i].name /\ Long(t) = long(i)
      BY <1>1, <2>1, TypesAre DEF Long
    <2>3. Long(t) \in DOMAIN qualIndex /\ qualIndex[Long(t)] = Tid(id, t)
      BY <2>1 DEF Resolved, Indexed, AllLong
    <2> QED  BY <2>1, <2>2, <2>3, HereIs DEF MustResolve
  <1>5. ASSUME NEW n, NEW t \in Here(f, n)
        PROVE  <<n, Tid(id, t)>> \in imported \cup own
    <2>1. t \in Types /\ Name(t) = n
      BY HereIs
    <2>2. CASE t[1] = f
      <3>1. t = <<f, t[2]>> /\ t[2] \in DOMAIN program[f].types
        BY <1>1, <2>1, <2>2, TypesAre
      <3> HIDE DEF long
      <3> QED  BY <1>4, <2>1, <3>1
    <2>3. CASE t[1] # f
      <3>1. PICK name \in S!SingleImports(program, f) : t \in S!Called(program, name)
        BY <2>3, HereIs
      <3> QED  BY <1>3, <2>1, <3>1
    <2> QED  BY <2>2, <2>3
  <1>6. ASSUME NEW p \in imported
        PROVE  /\ p = <<p[1], p[2]>>
               /\ \/ \E t \in Here(f, p[1]) : p[2] = Tid(id, t)
                  \/ /\ p[2] = ErrorBase
                     /\ \E name \in S!SingleImports(program, f) : S!Called(program, name) = {}
    <2>1. PICK name \in S!SingleImports(program, f) : p = <<Last(name), MustResolve(name)>>
      BY <1>1, ImportsAre
    <2>2. p[1] = Last(name) /\ p[2] = MustResolve(name)
      BY <2>1
    <2> QED  BY <1>3, <2>1, <2>2
  <1>7. ASSUME NEW p \in own
        PROVE  p = <<p[1], p[2]>> /\ \E t \in Here(f, p[1]) : p[2] = Tid(id, t)
    <2> HIDE DEF long
    <2>1. PICK i \in DOMAIN program[f].types :
             p = <<program[f].types[i].name, MustResolve(long(i))>>
      OBVIOUS
    <2> QED  BY <1>4, <2>1
  <1> HIDE DEF imported, own
  <1> QED  BY <1>2, <1>5, <1>6, <1>7

LEMMA IdsFinite ==
    ASSUME NEW id, Resolved(id), NEW f \in DOMAIN program, NEW n
    PROVE  IsFiniteSet(Ids(FileTypes(f), n))
  <1> DEFINE ids == Ids(FileTypes(f), n)
  <1>1. PICK g : g = [t \in Types |-> Tid(id, t)]
    OBVIOUS
  <1>2. \A x \in ids \ {ErrorBase} : \E t \in Types : x = g[t]
    <2>1. ASSUME NEW x \in ids \ {ErrorBase} PROVE \E t \in Types : x = g[t]
      <3>1. PICK p \in FileTypes(f) : p[1] = n /\ p[2] = x
        BY DEF Ids
      <3>2. PICK t \in Here(f, n) : x = Tid(id, t)
        BY <3>1, PairsAre
      <3>3. t \in Types
        BY HereIs
      <3> QED  BY <1>1, <3>2, <3>3
    <2> QED  BY <2>1
  <1> HIDE DEF ids
  <1>3. IsFiniteSet(ids \ {ErrorBase})
    BY <1>2, TypesFinite, ImageFinite DEF Resolved
  <1>4. IsFiniteSet((ids \ {ErrorBase}) \cup {ErrorBase})
    BY <1>3, FS_AddElement
  <1>5. ids \subseteq (ids \ {ErrorBase}) \cup {ErrorBase}
    OBVIOUS
  <1> QED  BY <1>4, <1>5, FS_Subset DEF ids

\* The ids a name has in a file are those of the types it has there, or blacklisted.
LEMMA IdsAre ==
    ASSUME NEW id, Resolved(id), NEW f \in DOMAIN program, NEW n
    PROVE  /\ \A t \in Here(f, n) : Tid(id, t) \in Ids(FileTypes(f), n)
           /\ \A x \in Ids(FileTypes(f), n) :
                 \/ \E t \in Here(f, n) : x = Tid(id, t)
                 \/ /\ x = ErrorBase
                    /\ \E name \in S!SingleImports(program, f) : S!Called(program, name) = {}
  <1>1. ASSUME NEW t \in Here(f, n) PROVE Tid(id, t) \in Ids(FileTypes(f), n)
    <2>1. <<n, Tid(id, t)>> \in FileTypes(f)
      BY PairsAre
    <2> QED  BY <2>1 DEF Ids
  <1>2. ASSUME NEW x \in Ids(FileTypes(f), n)
        PROVE  \/ \E t \in Here(f, n) : x = Tid(id, t)
               \/ /\ x = ErrorBase
                  /\ \E name \in S!SingleImports(program, f) : S!Called(program, name) = {}
    <2>1. PICK p \in FileTypes(f) : p[1] = n /\ p[2] = x
      BY DEF Ids
    <2> QED  BY <2>1, PairsAre
  <1> QED  BY <1>1, <1>2

Legal == S!LegalDeclarations(program)

\* Legal imports give no name two types.
LEMMA HereAtMostOne ==
    ASSUME program \in Programs, NEW f \in DOMAIN program
    PROVE  (\A t \in Types : S!Cardinality(S!InFile(program, f, Name(t))) < 2)
              <=> \A n : \A t, u \in Here(f, n) : t = u
  <1>1. ASSUME NEW n
        PROVE  S!Cardinality(Here(f, n)) < 2 <=> \A t, u \in Here(f, n) : t = u
    <2>1. Here(f, n) \subseteq Types
      BY HereIs
    <2>2. IsFiniteSet(Here(f, n))
      BY <2>1, TypesFinite, FS_Subset
    <2>3. /\ S!Cardinality(Here(f, n)) = Cardinality(Here(f, n))
          /\ Cardinality(Here(f, n)) < 2 <=> \A t, u \in Here(f, n) : t = u
      BY <2>2, Counting
    <2> QED  BY <2>3
  <1>2. \A n : \A t \in Here(f, n) : t \in Types /\ Name(t) = n
    BY HereIs
  <1> QED  BY <1>1, <1>2 DEF Here

LEMMA LegalIs ==
    ASSUME program \in Programs
    PROVE  /\ Legal <=> Bad = {} /\ \A f \in DOMAIN program : S!LegalImports(program, f)
           /\ \A f \in DOMAIN program :
                 S!LegalImports(program, f) <=>
                    /\ S!DemandImports(program, f) \subseteq S!Packages(program)
                    /\ \A name \in S!SingleImports(program, f) : S!Called(program, name) # {}
                    /\ \A n : \A t, u \in Here(f, n) : t = u
  <1>1. Legal <=> Bad = {} /\ \A f \in DOMAIN program : S!LegalImports(program, f)
    BY DEF Legal, S!LegalDeclarations, Bad
  <1>2. ASSUME NEW f \in DOMAIN program
        PROVE  S!LegalImports(program, f) <=>
                    /\ S!DemandImports(program, f) \subseteq S!Packages(program)
                    /\ \A name \in S!SingleImports(program, f) : S!Called(program, name) # {}
                    /\ \A n : \A t, u \in Here(f, n) : t = u
    BY HereAtMostOne DEF S!LegalImports, Types, Name
  <1> QED  BY <1>1, <1>2

\* With good declarations, exactly illegal imports report an error.
LEMMA ImportErrorsAre ==
    ASSUME NEW id, Resolved(id), NEW f \in DOMAIN program, Bad = {}
    PROVE  ImportErrors(f) = {} <=> S!LegalImports(program, f)
  <1>1. program \in Programs /\ allPkgs = S!Packages(program)
        /\ Indexed(id, allTypes, qualIndex)
    BY DEF Resolved
  <1> DEFINE pairs == FileTypes(f)
             Known == ImportsOf(f, FALSE) \subseteq DOMAIN qualIndex
             Single == \A p \in pairs : ~ (Cardinality(Ids(pairs, p[1])) > 1)
  <1>2. ImportErrors(f) = {} <=> ImportsOf(f, TRUE) \subseteq allPkgs /\ Known /\ Single
    BY Zenon DEF ImportErrors
  <1>3. ImportsOf(f, TRUE) \subseteq allPkgs
           <=> S!DemandImports(program, f) \subseteq S!Packages(program)
    BY <1>1, ImportsAre
  <1>4. Known <=> \A name \in S!SingleImports(program, f) : S!Called(program, name) # {}
    <2>1. ImportsOf(f, FALSE) = S!SingleImports(program, f)
          /\ S!SingleImports(program, f) \subseteq Seq(Identifier)
      BY <1>1, ImportsAre DEF QualifiedName
    <2>2. \A name \in S!SingleImports(program, f) :
             name \in DOMAIN qualIndex <=> S!Called(program, name) # {}
      BY <2>1, ResolveIs
    <2> QED  BY <2>1, <2>2
  <1>5. ASSUME NEW n
        PROVE  Cardinality(Ids(pairs, n)) > 1 <=> \E x, y \in Ids(pairs, n) : x # y
    BY IdsFinite, Counting
  <1>6. ASSUME NEW t \in Types, NEW u \in Types, Tid(id, t) = Tid(id, u) PROVE t = u
    BY <1>1, <1>6, TidIs
  <1>7. Single => \A n : \A t, u \in Here(f, n) : t = u
    <2> SUFFICES ASSUME Single, NEW n, NEW t \in Here(f, n), NEW u \in Here(f, n)
                 PROVE  t = u
      BY Zenon
    <2>1. /\ Tid(id, t) \in Ids(pairs, n) /\ Tid(id, u) \in Ids(pairs, n)
          /\ t \in Types /\ u \in Types
      BY IdsAre, HereIs
    <2>2. <<n, Tid(id, t)>> \in pairs /\ <<n, Tid(id, t)>>[1] = n
      BY PairsAre
    <2>3. ~ (Cardinality(Ids(pairs, n)) > 1)
      <3> HIDE DEF pairs
      <3> QED  BY <2>2
    <2> QED  BY <1>5, <1>6, <2>1, <2>3
  <1>8. Known /\ (\A n : \A t, u \in Here(f, n) : t = u) => Single
    <2> SUFFICES ASSUME Known, \A n : \A t, u \in Here(f, n) : t = u,
                        NEW p \in pairs, NEW x \in Ids(pairs, p[1]), NEW y \in Ids(pairs, p[1])
                 PROVE  x = y
      BY <1>5
    <2>1. \A name \in S!SingleImports(program, f) : S!Called(program, name) # {}
      BY <1>4
    <2> HIDE DEF pairs, Known
    <2>2. \A z \in Ids(pairs, p[1]) : \E t \in Here(f, p[1]) : z = Tid(id, t)
      BY <2>1, IdsAre DEF pairs
    <2> QED  BY <2>2
  <1> HIDE DEF Known, Single
  <1> QED  BY <1>1, <1>2, <1>3, <1>4, <1>7, <1>8, LegalIs

\* What ResolveImports and ResolvePkgScope leave.
ImportsDone == /\ fileScope = Merge(DOMAIN program, ScopeOf)
               /\ wildcards = UNION {WildcardsOf(f) : f \in DOMAIN program}
PackagesDone ==
    pkgScope = [k \in {<<t.pkg, t.name>> : t \in ToSet(allTypes)} |->
                  (CHOOSE t \in ToSet(allTypes) : <<t.pkg, t.name>> = k).tid]

LEMMA FileScopeIs ==
    ASSUME ImportsDone, NEW f \in DOMAIN program, NEW n
    PROVE  /\ <<f, n>> \in DOMAIN fileScope <=> \E p \in FileTypes(f) : p[1] = n
           /\ <<f, n>> \in DOMAIN fileScope =>
                fileScope[<<f, n>>] = IF Cardinality(Ids(FileTypes(f), n)) = 1
                                        THEN CHOOSE tid \in Ids(FileTypes(f), n) : TRUE
                                        ELSE ErrorBase
  <1>1. ASSUME NEW g \in DOMAIN program
        PROVE  <<f, n>> \in DOMAIN ScopeOf(g) <=> g = f /\ \E p \in FileTypes(f) : p[1] = n
    BY DEF ScopeOf
  <1>2. <<f, n>> \in DOMAIN ScopeOf(f) =>
           ScopeOf(f)[<<f, n>>] = IF Cardinality(Ids(FileTypes(f), n)) = 1
                                    THEN CHOOSE tid \in Ids(FileTypes(f), n) : TRUE
                                    ELSE ErrorBase
    <2> DEFINE value(m) == IF Cardinality(Ids(FileTypes(f), m)) = 1
                             THEN CHOOSE tid \in Ids(FileTypes(f), m) : TRUE
                             ELSE ErrorBase
    <2>1. \A k \in DOMAIN ScopeOf(f) : ScopeOf(f)[k] = value(k[2])
      BY DEF ScopeOf
    <2>2. <<f, n>>[2] = n
      OBVIOUS
    <2>3. ASSUME NEW k \in DOMAIN ScopeOf(f), NEW m, k[2] = m PROVE ScopeOf(f)[k] = value(m)
      <3> HIDE DEF value
      <3> QED  BY <2>1, <2>3
    <2> HIDE DEF value
    <2>4. <<f, n>> \in DOMAIN ScopeOf(f) => ScopeOf(f)[<<f, n>>] = value(n)
      BY <2>2, <2>3
    <2> QED  BY <2>4 DEF value
  <1>3. /\ DOMAIN fileScope = UNION {DOMAIN ScopeOf(g) : g \in DOMAIN program}
        /\ \A k \in DOMAIN fileScope :
              fileScope[k] = ScopeOf(CHOOSE g \in DOMAIN program : k \in DOMAIN ScopeOf(g))[k]
    BY DEF ImportsDone, Merge
  <1>4. <<f, n>> \in DOMAIN fileScope => fileScope[<<f, n>>] = ScopeOf(f)[<<f, n>>]
    <2> SUFFICES ASSUME <<f, n>> \in DOMAIN fileScope
                 PROVE  fileScope[<<f, n>>] = ScopeOf(f)[<<f, n>>]
      OBVIOUS
    <2>1. \E g \in DOMAIN program : <<f, n>> \in DOMAIN ScopeOf(g)
      BY <1>3
    <2>2. (CHOOSE g \in DOMAIN program : <<f, n>> \in DOMAIN ScopeOf(g)) = f
      BY <1>1, <2>1
    <2> QED  BY <1>3, <2>2
  <1>5. <<f, n>> \in DOMAIN fileScope <=> <<f, n>> \in DOMAIN ScopeOf(f)
    BY <1>1, <1>3
  <1> QED  BY <1>1, <1>2, <1>4, <1>5

\* A valid entry of a file's scope is the one type with that name there; in a legal
\* program every entry is.
LEMMA FileScopeRight ==
    ASSUME NEW id, Resolved(id), ImportsDone, NEW f \in DOMAIN program, NEW n
    PROVE  /\ Here(f, n) # {} => <<f, n>> \in DOMAIN fileScope
           /\ <<f, n>> \in DOMAIN fileScope /\ IsValid(fileScope[<<f, n>>]) =>
                \E t \in Types \ Bad : Here(f, n) = {t} /\ fileScope[<<f, n>>] = id[t]
           /\ Legal /\ <<f, n>> \in DOMAIN fileScope => IsValid(fileScope[<<f, n>>])
  <1> DEFINE ids == Ids(FileTypes(f), n)
             tid == fileScope[<<f, n>>]
  <1>1. program \in Programs /\ Indexed(id, allTypes, qualIndex)
    BY DEF Resolved
  <1>2. Here(f, n) \subseteq Types
    BY HereIs
  <1>3. IsFiniteSet(ids)
    BY IdsFinite
  <1>4. Here(f, n) # {} => <<f, n>> \in DOMAIN fileScope
    <2>1. ASSUME NEW t \in Here(f, n) PROVE \E p \in FileTypes(f) : p[1] = n
      <3>1. <<n, Tid(id, t)>> \in FileTypes(f) /\ <<n, Tid(id, t)>>[1] = n
        BY PairsAre
      <3> QED  BY <3>1
    <2> QED  BY <2>1, FileScopeIs
  <1>5. ASSUME <<f, n>> \in DOMAIN fileScope, IsValid(tid)
        PROVE  \E t \in Types \ Bad : Here(f, n) = {t} /\ tid = id[t]
    <2>1. Cardinality(ids) = 1 /\ tid = CHOOSE x \in ids : TRUE
      BY <1>5, FileScopeIs DEF IsValid, ErrorBase
    <2>2. ids = {tid}
      <3>1. \E x : ids = {x}
        BY <1>3, <2>1, Counting
      <3> HIDE DEF ids, tid
      <3> QED  BY <2>1, <3>1
    <2>3. PICK t \in Here(f, n) : tid = Tid(id, t)
      BY <1>5, <2>2, IdsAre DEF IsValid, ErrorBase
    <2> HIDE DEF ids, tid
    <2>4. \A u \in Here(f, n) : u = t
      <3>1. \A u \in Here(f, n) : Tid(id, u) = tid
        BY <2>2, IdsAre DEF ids
      <3> QED  BY <1>1, <1>2, <1>5, <2>3, <3>1, TidIs
    <2>5. t \in Types \ Bad /\ tid = id[t]
      BY <1>1, <1>2, <1>5, <2>3, TidIs DEF Tid
    <2> QED  BY <2>3, <2>4, <2>5
  <1>6. ASSUME Legal, <<f, n>> \in DOMAIN fileScope PROVE IsValid(tid)
    <2>1. /\ Bad = {} /\ \A t, u \in Here(f, n) : t = u
          /\ \A name \in S!SingleImports(program, f) : S!Called(program, name) # {}
      BY <1>1, <1>6, LegalIs
    <2>2. PICK p \in FileTypes(f) : p[1] = n
      BY <1>6, FileScopeIs
    <2>3. p[2] \in ids
      BY <2>2 DEF Ids
    <2>4. PICK t \in Here(f, n) : p[2] = Tid(id, t)
      BY <2>1, <2>3, IdsAre
    <2>5. ids = {p[2]}
      BY <2>1, <2>3, <2>4, IdsAre
    <2>6. Cardinality(ids) = 1
      <3> HIDE DEF ids
      <3> QED  BY <1>3, <2>5, Counting
    <2>7. tid = p[2]
      BY <1>6, <2>5, <2>6, FileScopeIs
    <2> HIDE DEF tid, ids
    <2> QED  BY <1>1, <1>2, <2>1, <2>4, <2>7, TidIs
  <1> QED  BY <1>4, <1>5, <1>6

\* The types of a package with a name.
In(pkg, n) == S!InPackage(program, pkg, n)

LEMMA InIs ==
    ASSUME program \in Programs, NEW pkg, NEW n
    PROVE  /\ In(pkg, n) = {t \in Types : Pkg(t) = pkg /\ Name(t) = n}
           /\ \A t, u \in In(pkg, n) : Long(t) = Long(u)
           /\ \A t, u \in In(pkg, n) : t \notin Bad => t = u
  <1>1. In(pkg, n) = {t \in Types : Pkg(t) = pkg /\ Name(t) = n}
    BY DEF In, S!InPackage, Types, Pkg, Name
  <1>2. \A t, u \in In(pkg, n) : Long(t) = Long(u)
    BY <1>1, SameLong
  <1> QED  BY <1>1, <1>2, BadByName

LEMMA PkgScopeRight ==
    ASSUME NEW id, Resolved(id), PackagesDone, NEW pkg, NEW n
    PROVE  /\ <<pkg, n>> \in DOMAIN pkgScope <=> In(pkg, n) # {}
           /\ <<pkg, n>> \in DOMAIN pkgScope /\ IsValid(pkgScope[<<pkg, n>>]) =>
                \E t \in Types \ Bad : In(pkg, n) = {t} /\ pkgScope[<<pkg, n>>] = id[t]
           /\ Legal /\ <<pkg, n>> \in DOMAIN pkgScope => IsValid(pkgScope[<<pkg, n>>])
  <1> DEFINE tid == pkgScope[<<pkg, n>>]
  <1>1. program \in Programs /\ Indexed(id, allTypes, qualIndex)
    BY DEF Resolved
  <1>2. ASSUME NEW e \in ToSet(allTypes), e.pkg = pkg, e.name = n
        PROVE  \E t \in In(pkg, n) : e.tid = Tid(id, t)
    <2>1. PICK t \in Types : e = Entry(t, Tid(id, t))
      BY <1>1 DEF Indexed
    <2> QED  BY <1>1, <1>2, <2>1, EntryIs, InIs
  <1>3. ASSUME NEW t \in In(pkg, n)
        PROVE  \E e \in ToSet(allTypes) : e.pkg = pkg /\ e.name = n
    <2>1. t \in Types /\ Pkg(t) = pkg /\ Name(t) = n
      BY <1>1, InIs
    <2>2. PICK u \in Types : Long(u) = Long(t) /\ Entry(u, Tid(id, t)) \in ToSet(allTypes)
      BY <1>1, <2>1, GoodIsListed
    <2>3. Pkg(u) = pkg /\ Name(u) = n
      BY <1>1, <2>1, <2>2, LongDiffers
    <2> QED  BY <2>2, <2>3, EntryIs
  <1>4. <<pkg, n>> \in DOMAIN pkgScope <=>
           \E e \in ToSet(allTypes) : e.pkg = pkg /\ e.name = n
    BY DEF PackagesDone
  <1>5. <<pkg, n>> \in DOMAIN pkgScope => \E t \in In(pkg, n) : tid = Tid(id, t)
    <2> SUFFICES ASSUME <<pkg, n>> \in DOMAIN pkgScope
                 PROVE  \E t \in In(pkg, n) : tid = Tid(id, t)
      OBVIOUS
    <2>1. PICK e \in ToSet(allTypes) : <<e.pkg, e.name>> = <<pkg, n>> /\ tid = e.tid
      <3>1. \E e \in ToSet(allTypes) : <<e.pkg, e.name>> = <<pkg, n>>
        BY <1>4
      <3>2. tid = (CHOOSE e \in ToSet(allTypes) : <<e.pkg, e.name>> = <<pkg, n>>).tid
        BY DEF PackagesDone
      <3> HIDE DEF tid
      <3> QED  BY <3>1, <3>2
    <2>2. e.pkg = pkg /\ e.name = n
      BY <2>1
    <2> QED  BY <1>2, <2>1, <2>2
  <1> HIDE DEF tid
  <1>6. ASSUME <<pkg, n>> \in DOMAIN pkgScope, IsValid(tid)
        PROVE  \E t \in Types \ Bad : In(pkg, n) = {t} /\ tid = id[t]
    <2>1. PICK t \in In(pkg, n) : tid = Tid(id, t)
      BY <1>5, <1>6
    <2>2. t \in Types
      BY <1>1, InIs
    <2>3. t \notin Bad
      BY <1>1, <1>6, <2>1, <2>2, TidIs
    <2> QED  BY <1>1, <2>1, <2>2, <2>3, InIs DEF Tid
  <1>7. ASSUME Legal, <<pkg, n>> \in DOMAIN pkgScope PROVE IsValid(tid)
    <2>1. PICK t \in In(pkg, n) : tid = Tid(id, t)
      BY <1>5, <1>7
    <2>2. t \in Types /\ Bad = {}
      BY <1>1, <1>7, InIs, LegalIs
    <2> QED  BY <1>1, <2>1, <2>2, TidIs
  <1> QED  BY <1>2, <1>3, <1>4, <1>5, <1>6, <1>7 DEF tid

\* The packages that f imports on demand.
Opens(f) == {JavaLang} \cup (S!DemandImports(program, f) \cap S!Packages(program))

WildTid(f, n) ==
    IF Cardinality(Matches(f, n)) = 1
      THEN LET w == CHOOSE w \in Matches(f, n) : TRUE IN pkgScope[<<w[2], n>>]
      ELSE ErrorBase

LEMMA MatchesAre ==
    ASSUME NEW id, Resolved(id), ImportsDone, PackagesDone, NEW f \in DOMAIN program, NEW n
    PROVE  /\ Matches(f, n) = {<<f, pkg>> : pkg \in {q \in Opens(f) : In(q, n) # {}}}
           /\ IsFiniteSet(Matches(f, n))
           /\ S!OnDemand(program, f, n) = UNION {In(pkg, n) : pkg \in Opens(f)}
  <1>1. program \in Programs /\ allPkgs = S!Packages(program)
    BY DEF Resolved
  <1>2. ASSUME NEW w
        PROVE  w \in wildcards /\ w[1] = f <=> \E pkg \in Opens(f) : w = <<f, pkg>>
    <2>1. \A g \in DOMAIN program : WildcardsOf(g) = {<<g, pkg>> : pkg \in Opens(g)}
      BY <1>1, ImportsAre DEF WildcardsOf, Opens
    <2> QED  BY <2>1 DEF ImportsDone
  <1>3. Matches(f, n) = {<<f, pkg>> : pkg \in {q \in Opens(f) : In(q, n) # {}}}
    <2>1. \A pkg : <<pkg, n>> \in DOMAIN pkgScope <=> In(pkg, n) # {}
      BY PkgScopeRight
    <2> QED  BY <1>2, <2>1 DEF Matches
  <1>4. IsFiniteSet(Matches(f, n))
    <2>1. PICK g : g = [t \in Types |-> <<f, Pkg(t)>>]
      OBVIOUS
    <2>2. ASSUME NEW w \in Matches(f, n) PROVE \E t \in Types : w = g[t]
      <3>1. PICK pkg : w = <<f, pkg>> /\ In(pkg, n) # {}
        BY <1>3
      <3> QED  BY <1>1, <2>1, <3>1, InIs
    <2> QED  BY <1>1, <2>1, <2>2, TypesFinite, ImageFinite
  <1>5. S!OnDemand(program, f, n) = UNION {In(pkg, n) : pkg \in Opens(f)}
    BY DEF S!OnDemand, In, Opens
  <1> QED  BY <1>3, <1>4, <1>5

\* Its wildcard imports give a name the type that is in one package they open; in a
\* legal program, whenever that is one type.
LEMMA WildTidRight ==
    ASSUME NEW id, Resolved(id), ImportsDone, PackagesDone, NEW f \in DOMAIN program, NEW n
    PROVE  /\ IsValid(WildTid(f, n)) =>
                \E t \in Types \ Bad : S!OnDemand(program, f, n) = {t} /\ WildTid(f, n) = id[t]
           /\ Legal /\ Cardinality(Matches(f, n)) = 1 => IsValid(WildTid(f, n))
           /\ Legal /\ (\E t : S!OnDemand(program, f, n) = {t}) => IsValid(WildTid(f, n))
  <1> DEFINE found == Matches(f, n)
             types == S!OnDemand(program, f, n)
  <1>1. program \in Programs /\ Indexed(id, allTypes, qualIndex)
    BY DEF Resolved
  <1>2. /\ found = {<<f, pkg>> : pkg \in {q \in Opens(f) : In(q, n) # {}}}
        /\ IsFiniteSet(found)
        /\ types = UNION {In(pkg, n) : pkg \in Opens(f)}
    BY MatchesAre
  <1> HIDE DEF found, types
  <1>3. ASSUME Cardinality(found) = 1
        PROVE  \E pkg \in Opens(f) :
                  /\ <<pkg, n>> \in DOMAIN pkgScope /\ WildTid(f, n) = pkgScope[<<pkg, n>>]
                  /\ types = In(pkg, n)
    <2>1. PICK w : found = {w}
      BY <1>2, <1>3, Counting
    <2>2. PICK pkg \in Opens(f) : w = <<f, pkg>> /\ In(pkg, n) # {}
      BY <1>2, <2>1
    <2>3. (CHOOSE v \in found : TRUE) = w
      BY <2>1
    <2>4. WildTid(f, n) = pkgScope[<<pkg, n>>]
      <3>1. WildTid(f, n) = pkgScope[<<(CHOOSE v \in found : TRUE)[2], n>>]
        BY <1>3 DEF WildTid, found
      <3>2. w[2] = pkg
        BY <2>2
      <3> QED  BY <2>3, <3>1, <3>2
    <2>5. <<pkg, n>> \in DOMAIN pkgScope
      BY <2>2, PkgScopeRight
    <2>6. \A q \in Opens(f) : In(q, n) # {} => q = pkg
      <3>1. ASSUME NEW q \in Opens(f), In(q, n) # {} PROVE q = pkg
        <4>1. <<f, q>> = <<f, pkg>>
          BY <1>2, <2>1, <2>2, <3>1
        <4> QED  BY <4>1
      <3> QED  BY <3>1
    <2>7. types = In(pkg, n)
      BY <1>2, <2>6
    <2> QED  BY <2>4, <2>5, <2>7
  <1>4. IsValid(WildTid(f, n)) => \E t \in Types \ Bad : types = {t} /\ WildTid(f, n) = id[t]
    <2> SUFFICES ASSUME IsValid(WildTid(f, n))
                 PROVE  \E t \in Types \ Bad : types = {t} /\ WildTid(f, n) = id[t]
      OBVIOUS
    <2>1. Cardinality(found) = 1
      BY DEF WildTid, IsValid, ErrorBase, found
    <2>2. PICK pkg \in Opens(f) :
             /\ <<pkg, n>> \in DOMAIN pkgScope /\ WildTid(f, n) = pkgScope[<<pkg, n>>]
             /\ types = In(pkg, n)
      BY <1>3, <2>1
    <2> QED  BY <2>2, PkgScopeRight
  <1>5. Legal /\ Cardinality(found) = 1 => IsValid(WildTid(f, n))
    BY <1>3, PkgScopeRight
  <1>6. ASSUME Legal, NEW t, types = {t} PROVE IsValid(WildTid(f, n))
    <2>1. PICK pkg \in Opens(f) : t \in In(pkg, n)
      BY <1>2, <1>6
    <2>2. \A q \in Opens(f) : In(q, n) # {} => q = pkg
      <3>1. ASSUME NEW q \in Opens(f), NEW u \in In(q, n) PROVE q = pkg
        <4>1. u = t
          BY <1>2, <1>6
        <4>2. Pkg(u) = q /\ Pkg(t) = pkg
          BY <1>1, <2>1, InIs
        <4> QED  BY <4>1, <4>2
      <3> QED  BY <3>1
    <2>3. found = {<<f, pkg>>}
      BY <1>2, <2>1, <2>2
    <2>4. Cardinality(found) = 1
      BY <1>2, <2>3, Counting
    <2> QED  BY <1>5, <1>6, <2>4
  <1> QED  BY <1>4, <1>5, <1>6 DEF found, types

-----------------------------------------------------------------------------
(* Building the type set.                                                  *)

Passes == {"verify", "decl", "check", "done"}
BuildKinds == {"TypeAndPackage", "DuplicateType", "UnknownPackage", "UnknownImport"}

\* The list and the errors before and after the types with names of packages are
\* blacklisted, the indices and the errors when those declared twice are too, and
\* the scopes made from them.
Extracted == /\ allPkgs = S!Packages(program) /\ errors = {}
             /\ \E pos : Lists(allTypes, pos, {})
Collided == /\ allPkgs = S!Packages(program)
            /\ \E pos : Lists(allTypes, pos, Clashes)
            /\ errors = {Err("TypeAndPackage", NoFile, n) : n \in Clashes}
Ready == \E id : Resolved(id)
DeclarationErrors == /\ errors = {} <=> Bad = {}
                     /\ \A e \in errors : e.kind \in BuildKinds
ErrorsExact == BuildErrors = {} <=> Legal

IndexInv ==
    /\ program \in Programs
    /\ phase \in {"extract", "collisions", "qualified", "imports", "packages"} \cup Passes
    /\ phase = "extract" => errors = {}
    /\ phase = "collisions" => Extracted
    /\ phase = "qualified" => Collided
    /\ phase \in {"imports", "packages"} \cup Passes => Ready
    /\ phase = "imports" => DeclarationErrors
    /\ phase \in {"packages"} \cup Passes => ImportsDone /\ ErrorsExact
    /\ phase \in Passes => PackagesDone

LEMMA ErrIs ==
    ASSUME NEW kind, NEW f, NEW name
    PROVE  /\ Err(kind, f, name).kind = kind /\ Err(kind, f, name).file = f
           /\ Err(kind, f, name).name = name
  BY DEF Err

\* What depends on the program only, or on the indices too, stays.
LEMMA ProgramStays ==
    ASSUME program' = program
    PROVE  /\ Clashes' = Clashes /\ Bad' = Bad /\ Legal' = Legal
           /\ S!Packages(program)' = S!Packages(program)
           /\ \A types, pos, names : Lists(types, pos, names)' = Lists(types, pos, names)
           /\ \A id, types, by_name : Indexed(id, types, by_name)' = Indexed(id, types, by_name)
  <1>1. /\ Types' = Types /\ Legal' = Legal /\ Bad' = Bad
        /\ S!Packages(program)' = S!Packages(program)
    BY DEF Types, Legal, Bad
  <1>2. /\ \A t : Pkg(t)' = Pkg(t) /\ Name(t)' = Name(t) /\ Long(t)' = Long(t)
    BY DEF Pkg, Name, Long, LongName
  <1>3. AllLong' = AllLong /\ Clashes' = Clashes
    BY <1>1, <1>2 DEF AllLong, Clashes
  <1>4. \A t, n : Entry(t, n)' = Entry(t, n)
    BY <1>2 DEF Entry
  <1>5. Entries' = Entries
    BY <1>1, <1>4 DEF Entries
  <1>6. \A pos, names, t : Given(pos, names, t)' = Given(pos, names, t)
    BY <1>2 DEF Given
  <1>7. \A id, t : Tid(id, t)' = Tid(id, t)
    BY <1>1 DEF Tid
  <1>8. \A types, pos, names : Lists(types, pos, names)' = Lists(types, pos, names)
    BY <1>1, <1>4, <1>5, <1>6 DEF Lists
  <1>9. \A id, types, by_name : Indexed(id, types, by_name)' = Indexed(id, types, by_name)
    BY <1>1, <1>2, <1>3, <1>4, <1>7 DEF Indexed
  <1> QED  BY <1>1, <1>3, <1>8, <1>9

\* Every lookup's errors are of kinds of its own.
LookupKinds == {"UnknownTypename", "AmbiguousType", "TypeWithTypePrefix",
                "MissingPredef", "UndefinedReference", "NoString"}

LEMMA LookupErrors ==
    ASSUME NEW f, NEW name, NEW known
    PROVE  \A e \in Get(f, name, known).errors : e.kind \in LookupKinds
  <1>1. \A n : \A e \in GetSimple(f, n, known).errors : e.kind \in LookupKinds
    BY ErrIs DEF GetSimple, WildcardLookup, Result, LookupKinds
  <1>2. \A e \in GetQualified(f, name, known).errors : e.kind \in LookupKinds
    BY ErrIs DEF GetQualified, Result, LookupKinds
  <1> QED  BY <1>1, <1>2 DEF Get

\* A step of a pass: the indices stay, and what it reports are errors of lookups.
LooksUp == /\ phase \in {"verify", "decl", "check"}
           /\ UNCHANGED <<program, phase, index>>
           /\ \E reported : /\ errors' = errors \cup reported
                            /\ \A e \in reported : e.kind \in LookupKinds

LEMMA PassStep ==
    ASSUME Verify \/ Own \/ Super \/ Member \/ LocalType \/ NameExpr \/ StringLit
    PROVE  LooksUp
  <1>1. ASSUME NEW kind, NEW res, NEW reported, NEW dropped,
               Doing(kind), Finish(res, reported, dropped),
               \A e \in reported : e.kind \in LookupKinds
        PROVE  LooksUp
    BY <1>1 DEF Doing, Finish, LooksUp
  <1>2. \A f, name : /\ Err("MissingPredef", f, name).kind \in LookupKinds
                     /\ Err("UndefinedReference", f, name).kind \in LookupKinds
                     /\ Err("NoString", f, name).kind \in LookupKinds
    BY ErrIs DEF LookupKinds
  <1>3. CASE Verify
    <2> DEFINE t == Head(work)
               res == Quiet(Get(t.file, t.name, cache))
               reported == IF IsValid(res.tid) THEN {} ELSE {Err("MissingPredef", NoFile, t.name)}
    <2>1. Doing("predef") /\ Finish(res, reported, {})
      BY <1>3 DEF Verify
    <2>2. \A e \in reported : e.kind \in LookupKinds
      BY <1>2
    <2> HIDE DEF res, reported
    <2> QED  BY <1>1, <2>1, <2>2
  <1>4. CASE Own
    <2>1. PICK res, dropped : Doing("own") /\ Finish(res, {}, dropped)
      BY <1>4, Zenon DEF Own
    <2> QED  BY <1>1, <2>1
  <1>5. CASE Super
    <2>1. PICK kind, res, reported, dropped :
             /\ Doing(kind) /\ Finish(res, reported, dropped)
             /\ \A e \in reported : e.kind \in LookupKinds
      BY <1>5, LookupErrors, Zenon DEF Super
    <2> QED  BY <1>1, <2>1
  <1>6. CASE Member
    <2>1. PICK kind, res, reported, dropped :
             /\ Doing(kind) /\ Finish(res, reported, dropped)
             /\ \A e \in reported : e.kind \in LookupKinds
      BY <1>6, LookupErrors, Zenon DEF Member
    <2> QED  BY <1>1, <2>1
  <1>7. CASE LocalType
    <2>1. PICK kind, res, reported, dropped :
             /\ Doing(kind) /\ Finish(res, reported, dropped)
             /\ \A e \in reported : e.kind \in LookupKinds
      BY <1>7, LookupErrors, Zenon DEF LocalType
    <2> QED  BY <1>1, <2>1
  <1>8. CASE NameExpr
    <2> DEFINE t == Head(work)
               res == TryPrefixes(t.file, t.name, cache)
               reported == IF IsValid(res.tid) THEN {} ELSE {Err("UndefinedReference", t.file, t.name)}
    <2>1. Doing("name") /\ Finish(res, reported, {})
      BY <1>8 DEF NameExpr
    <2>2. \A e \in reported : e.kind \in LookupKinds
      BY <1>2
    <2> HIDE DEF res, reported
    <2> QED  BY <1>1, <2>1, <2>2
  <1>9. CASE StringLit
    <2> DEFINE t == Head(work)
               res == Quiet(Get(t.file, JavaLangString, cache))
               reported == IF IsValid(res.tid) THEN {} ELSE {Err("NoString", t.file, t.name)}
    <2>1. Doing("string") /\ Finish(res, reported, {})
      BY <1>9 DEF StringLit
    <2>2. \A e \in reported : e.kind \in LookupKinds
      BY <1>2
    <2> HIDE DEF res, reported
    <2> QED  BY <1>1, <2>1, <2>2
  <1> QED  BY <1>3, <1>4, <1>5, <1>6, <1>7, <1>8, <1>9

\* While no index changes, what was built from them stays.
LEMMA IndicesStay ==
    ASSUME UNCHANGED <<program, index>>
    PROVE  /\ \A id : Resolved(id)' = Resolved(id)
           /\ Ready' = Ready /\ ImportsDone' = ImportsDone /\ PackagesDone' = PackagesDone
           /\ Legal' = Legal
  <1>1. /\ program' = program /\ allTypes' = allTypes /\ allPkgs' = allPkgs
        /\ qualIndex' = qualIndex /\ fileScope' = fileScope /\ pkgScope' = pkgScope
        /\ wildcards' = wildcards
    BY DEF index
  <1>2. \A id : Resolved(id)' = Resolved(id)
    BY <1>1, ProgramStays DEF Resolved
  <1>3. ImportsDone' = ImportsDone
    BY <1>1 DEF ImportsDone, Merge, ScopeOf, WildcardsOf, ImportsOf, FileTypes, MustResolve
  <1>4. PackagesDone' = PackagesDone
    BY <1>1 DEF PackagesDone
  <1>5. Ready' = Ready
    BY <1>2 DEF Ready
  <1> QED  BY <1>1, <1>2, <1>3, <1>4, <1>5, ProgramStays

LEMMA IndexInvInit ==
    ASSUME Init
    PROVE  IndexInv
  BY DEF Init, IndexInv, Passes

LEMMA ExtractStep ==
    ASSUME IndexInv, ExtractTypesAndPackages
    PROVE  IndexInv'
  <1>1. /\ program \in Programs /\ errors = {}
        /\ program' = program /\ errors' = errors /\ phase' = "collisions"
    BY DEF IndexInv, ExtractTypesAndPackages
  <1>2. \E pos : Lists(allTypes', pos, {})
    BY <1>1, DeclarationsListed DEF ExtractTypesAndPackages
  <1>3. allPkgs' = S!Packages(program)
    BY <1>1, PackagesAre DEF ExtractTypesAndPackages
  <1>4. Extracted'
    <2>1. PICK pos : Lists(allTypes', pos, {})
      BY <1>2
    <2>2. \A types : Lists(types, pos, {})' = Lists(types, pos, {})
      BY <1>1, ProgramStays
    <2>3. Lists(allTypes, pos, {})'
      BY <2>1, <2>2
    <2> QED  BY <1>1, <1>3, <2>3, ProgramStays DEF Extracted
  <1> QED  BY <1>1, <1>4 DEF IndexInv, Passes

LEMMA CollideStep ==
    ASSUME IndexInv, CheckTypePackageCollision
    PROVE  IndexInv'
  <1>1. /\ program \in Programs /\ Extracted
        /\ program' = program /\ allPkgs' = allPkgs /\ phase' = "qualified"
        /\ allTypes' = Blacklist(allTypes, Collisions)
        /\ errors' = errors \cup {Err("TypeAndPackage", NoFile, n) : n \in Collisions}
    BY DEF IndexInv, CheckTypePackageCollision
  <1>2. PICK pos : Lists(allTypes, pos, {})
    BY <1>1 DEF Extracted
  <1>3. Collisions = Clashes
    BY <1>1, <1>2, CollisionsAre DEF Extracted
  <1>4. Lists(allTypes', pos, Clashes)
    <2>1. Lists(Blacklist(allTypes, Clashes), pos, {} \cup Clashes)
      BY <1>2, BlacklistLists
    <2>2. {} \cup Clashes = Clashes
      OBVIOUS
    <2> QED  BY <1>1, <1>3, <2>1, <2>2
  <1>5. Collided'
    <2>1. \A types : Lists(types, pos, Clashes)' = Lists(types, pos, Clashes)
      BY <1>1, ProgramStays
    <2>2. Clashes' = Clashes /\ S!Packages(program)' = S!Packages(program)
      BY <1>1, ProgramStays
    <2>3. Lists(allTypes, pos, Clashes)'
      BY <1>1, <1>4, <2>1, <2>2, ProgramStays
    <2>4. errors' = {Err("TypeAndPackage", NoFile, n) : n \in Clashes}
      BY <1>1, <1>3 DEF Extracted
    <2>5. {Err("TypeAndPackage", NoFile, n) : n \in Clashes}'
             = {Err("TypeAndPackage", NoFile, n) : n \in Clashes}
      BY <2>2 DEF Err, NoFile
    <2>6. allPkgs' = S!Packages(program)'
      BY <1>1, <2>2 DEF Extracted
    <2> QED  BY <2>3, <2>4, <2>5, <2>6 DEF Collided
  <1> QED  BY <1>1, <1>5 DEF IndexInv, Passes

\* There is an error so far exactly if a type is bad.
LEMMA NoBadNames ==
    ASSUME program \in Programs
    PROVE  Bad = {} <=> Clashes = {} /\ Doubles = {}
  <1>1. Clashes = {} <=> S!Clashing(program) = {}
    <2>1. S!Clashing(program) \subseteq Types
      BY DEF S!Clashing, Types
    <2> QED  BY <2>1, ClashingIs DEF Clashes, AllLong
  <1> QED  BY <1>1 DEF Bad, Doubles

LEMMA QualifiedStep ==
    ASSUME IndexInv, BuildQualifiedNameIndex
    PROVE  IndexInv'
  <1> DEFINE types == Blacklist(allTypes, BadNames)
             by_name == IndexOf(types)
  <1>1. /\ program \in Programs /\ Collided
        /\ program' = program /\ allPkgs' = allPkgs /\ phase' = "imports"
        /\ qualIndex' = by_name /\ allTypes' = DropAdjacent(types)
        /\ errors' = errors \cup {Err("DuplicateType", NoFile, n) : n \in BadNames}
    BY DEF IndexInv, BuildQualifiedNameIndex, IndexOf
  <1>2. PICK pos : Lists(allTypes, pos, Clashes)
    BY <1>1 DEF Collided
  <1>3. BadNames = Doubles
    BY <1>1, <1>2, BadNamesAre
  <1>4. Lists(types, pos, Clashes \cup Doubles)
    BY <1>2, <1>3, BlacklistLists
  <1>5. PICK id : Indexed(id, DropAdjacent(types), by_name)
    <2> HIDE DEF types
    <2> QED  BY <1>1, <1>4, IndexBuilt
  <1> HIDE DEF types, by_name
  <1>6. Ready'
    <2>1. Indexed(id, allTypes', qualIndex')
      BY <1>1, <1>5
    <2>2. \A a, b : Indexed(id, a, b)' = Indexed(id, a, b)
      BY <1>1, ProgramStays
    <2>3. Indexed(id, allTypes, qualIndex)'
      BY <2>1, <2>2
    <2>4. allPkgs' = S!Packages(program)'
      BY <1>1, ProgramStays DEF Collided
    <2>5. Resolved(id)'
      BY <1>1, <2>3, <2>4 DEF Resolved
    <2> QED  BY <2>5 DEF Ready
  <1>7. DeclarationErrors'
    <2>1. errors' = {Err("TypeAndPackage", NoFile, n) : n \in Clashes}
                      \cup {Err("DuplicateType", NoFile, n) : n \in Doubles}
      BY <1>1, <1>3 DEF Collided
    <2>2. errors' = {} <=> Bad = {}
      BY <1>1, <2>1, NoBadNames
    <2>3. \A e \in errors' : e.kind \in BuildKinds
      BY <2>1, ErrIs DEF BuildKinds
    <2>4. Bad' = Bad
      BY <1>1, ProgramStays
    <2> QED  BY <2>2, <2>3, <2>4 DEF DeclarationErrors, BuildKinds
  <1> QED  BY <1>1, <1>6, <1>7 DEF IndexInv, Passes

\* The scopes of the files depend on no more than the index of names.
LEMMA ScopesStay ==
    ASSUME UNCHANGED <<program, allPkgs, qualIndex>>
    PROVE  /\ Merge(DOMAIN program, ScopeOf)' = Merge(DOMAIN program, ScopeOf)
           /\ (UNION {WildcardsOf(f) : f \in DOMAIN program})'
                 = UNION {WildcardsOf(f) : f \in DOMAIN program}
  BY DEF Merge, ScopeOf, WildcardsOf, ImportsOf, FileTypes, MustResolve

LEMMA ImportsStep ==
    ASSUME IndexInv, ResolveImports
    PROVE  IndexInv'
  <1>1. /\ program \in Programs /\ Ready /\ DeclarationErrors
        /\ UNCHANGED <<program, allTypes, allPkgs, qualIndex>> /\ phase' = "packages"
        /\ fileScope' = Merge(DOMAIN program, ScopeOf)
        /\ wildcards' = UNION {WildcardsOf(f) : f \in DOMAIN program}
        /\ errors' = errors \cup UNION {ImportErrors(f) : f \in DOMAIN program}
    BY DEF IndexInv, ResolveImports, Passes
  <1>2. PICK id : Resolved(id)
    BY <1>1 DEF Ready
  <1>3. Ready'
    <2>1. Resolved(id)'
      BY <1>1, <1>2, ProgramStays DEF Resolved
    <2> QED  BY <2>1 DEF Ready
  <1>4. ImportsDone'
    BY <1>1, ScopesStay DEF ImportsDone
  <1>5. ErrorsExact'
    <2>1. \A f \in DOMAIN program : \A e \in ImportErrors(f) : e.kind \in BuildKinds
      <3>1. ASSUME NEW f, NEW e \in ImportErrors(f) PROVE e.kind \in BuildKinds
        <4>1. \/ \E name : e = Err("UnknownPackage", f, name)
              \/ \E name : e = Err("UnknownImport", f, name)
              \/ \E name : e = Err("DuplicateType", f, name)
          BY <3>1, Zenon DEF ImportErrors
        <4> QED  BY <4>1, ErrIs DEF BuildKinds
      <3> QED  BY <3>1
    <2>2. BuildErrors' = errors'
      BY <1>1, <2>1 DEF BuildErrors, DeclarationErrors, BuildKinds
    <2>3. errors' = {} <=> Bad = {} /\ \A f \in DOMAIN program : ImportErrors(f) = {}
      BY <1>1 DEF DeclarationErrors
    <2>4. Bad = {} => \A f \in DOMAIN program : ImportErrors(f) = {} <=> S!LegalImports(program, f)
      BY <1>2, ImportErrorsAre
    <2>5. errors' = {} <=> Legal
      BY <1>1, <2>3, <2>4, LegalIs
    <2> QED  BY <1>1, <2>2, <2>5, ProgramStays DEF ErrorsExact
  <1> QED  BY <1>1, <1>3, <1>4, <1>5 DEF IndexInv, Passes

LEMMA PackagesStep ==
    ASSUME IndexInv, ResolvePkgScope
    PROVE  IndexInv'
  <1>1. /\ program \in Programs /\ Ready /\ ImportsDone /\ ErrorsExact
        /\ UNCHANGED <<program, allTypes, allPkgs, qualIndex, fileScope, wildcards, errors>>
        /\ phase' = "verify"
        /\ pkgScope' = [k \in {<<t.pkg, t.name>> : t \in ToSet(allTypes)} |->
                          (CHOOSE t \in ToSet(allTypes) : <<t.pkg, t.name>> = k).tid]
    BY DEF IndexInv, ResolvePkgScope, Passes
  <1>2. Ready'
    <2>1. PICK id : Resolved(id)
      BY <1>1 DEF Ready
    <2>2. Resolved(id)'
      BY <1>1, <2>1, ProgramStays DEF Resolved
    <2> QED  BY <2>2 DEF Ready
  <1>3. ImportsDone'
    BY <1>1, ScopesStay DEF ImportsDone
  <1>4. PackagesDone'
    BY <1>1 DEF PackagesDone
  <1>5. ErrorsExact'
    BY <1>1, ProgramStays DEF ErrorsExact, BuildErrors
  <1> QED  BY <1>1, <1>2, <1>3, <1>4, <1>5 DEF IndexInv, Passes

\* The passes change no index and add no error of the kinds of the build.
LEMMA PassesStep ==
    ASSUME IndexInv,
           LooksUp \/ Skip \/ NextPass \/ UNCHANGED vars
    PROVE  IndexInv'
  <1>1. CASE UNCHANGED vars
    <2>1. /\ UNCHANGED <<program, index>> /\ UNCHANGED <<phase, errors>>
      BY <1>1 DEF vars, index
    <2>2. /\ program' = program /\ allPkgs' = allPkgs /\ allTypes' = allTypes
      BY <2>1 DEF index
    <2>3. /\ Extracted' = Extracted /\ Collided' = Collided
          /\ DeclarationErrors' = DeclarationErrors /\ ErrorsExact' = ErrorsExact
      BY <2>1, <2>2, ProgramStays
         DEF Extracted, Collided, DeclarationErrors, ErrorsExact, BuildErrors, BuildKinds, Err, NoFile
    <2> QED  BY <2>1, <2>2, <2>3, IndicesStay DEF IndexInv, Passes
  <1>2. CASE LooksUp \/ Skip \/ NextPass
    <2>1. /\ phase \in Passes /\ phase' \in Passes
          /\ UNCHANGED <<program, index>>
      <3>1. CASE LooksUp
        BY <3>1 DEF LooksUp, Passes
      <3>2. CASE Skip
        BY <3>2 DEF Skip, Passes
      <3>3. CASE NextPass
        BY <3>3 DEF NextPass, Passes
      <3> QED  BY <1>2, <3>1, <3>2, <3>3
    <2>2. BuildErrors' = BuildErrors
      <3>1. CASE LooksUp
        <4>1. PICK reported : /\ errors' = errors \cup reported
                              /\ \A e \in reported : e.kind \in LookupKinds
          BY <3>1 DEF LooksUp
        <4>2. \A k \in LookupKinds : k \notin BuildKinds
          BY DEF LookupKinds, BuildKinds
        <4> QED  BY <4>1, <4>2 DEF BuildErrors, BuildKinds
      <3>2. CASE Skip \/ NextPass
        BY <3>2 DEF Skip, NextPass, BuildErrors
      <3> QED  BY <1>2, <3>1, <3>2
    <2>3. program' = program
      BY <2>1
    <2>4. /\ program \in Programs /\ Ready /\ ImportsDone /\ ErrorsExact /\ PackagesDone
      BY <2>1 DEF IndexInv, Passes
    <2>5. /\ Ready' /\ ImportsDone' /\ PackagesDone' /\ ErrorsExact'
      BY <2>1, <2>2, <2>4, IndicesStay DEF ErrorsExact
    <2> QED  BY <2>1, <2>3, <2>4, <2>5 DEF IndexInv, Passes
  <1> QED  BY <1>1, <1>2

LEMMA IndexInvStep ==
    ASSUME IndexInv, [Next]_vars
    PROVE  IndexInv'
  <1>1. CASE ExtractTypesAndPackages
    BY <1>1, ExtractStep
  <1>2. CASE CheckTypePackageCollision
    BY <1>2, CollideStep
  <1>3. CASE BuildQualifiedNameIndex
    BY <1>3, QualifiedStep
  <1>4. CASE ResolveImports
    BY <1>4, ImportsStep
  <1>5. CASE ResolvePkgScope
    BY <1>5, PackagesStep
  <1>6. CASE Verify \/ Own \/ Super \/ Member \/ LocalType \/ NameExpr \/ StringLit
    BY <1>6, PassStep, PassesStep
  <1>7. CASE Skip \/ NextPass \/ UNCHANGED vars
    BY <1>7, PassesStep
  <1> QED  BY <1>1, <1>2, <1>3, <1>4, <1>5, <1>6, <1>7 DEF Next

LEMMA IndexInvAlways == Spec => []IndexInv
  <1> QED  BY IndexInvInit, IndexInvStep, PTL DEF Spec

\* BuildErrorsExact (TypeNames): for every program, TypeSetBuilder reports an error
\* about a declaration or an import exactly if one breaks the rules of the
\* language, and blacklists exactly the types declared twice or with a package's
\* name (TypeSetBuilder::Build, types/typeset.cpp).
THEOREM BuildErrorsAreExact == Spec => []BuildErrorsExact
  <1>1. IndexInv => BuildErrorsExact
    <2> SUFFICES ASSUME IndexInv, Built
                 PROVE  BuildErrorsExact
      BY DEF BuildErrorsExact
    <2>1. ErrorsExact /\ Ready
      BY DEF IndexInv, Built, Passes
    <2>2. PICK id : Resolved(id)
      BY <2>1 DEF Ready
    <2>3. ASSUME NEW t \in S!Types(program)
          PROVE  qualIndex[LongName(S!Package(program, t), S!SimpleName(program, t))] = ErrorBase
                   <=> t \in S!Twice(program) \cup S!Clashing(program)
      <3>1. t \in Types /\ Long(t) = LongName(S!Package(program, t), S!SimpleName(program, t))
        BY DEF Types, Long, Pkg, Name
      <3>2. qualIndex[Long(t)] = Tid(id, t) /\ Indexed(id, allTypes, qualIndex)
        BY <2>2, <3>1 DEF Resolved, Indexed
      <3> QED  BY <3>1, <3>2, TidIs DEF Bad
    <2> QED  BY <2>1, <2>3 DEF BuildErrorsExact, ErrorsExact, Legal
  <1> QED  BY <1>1, IndexInvAlways, PTL

-----------------------------------------------------------------------------
(* The lookups.                                                            *)

Scoped(id) == Resolved(id) /\ ImportsDone /\ PackagesDone

\* What the wildcard imports gave a name once is what they give it still.
Remembers(known) ==
    \A f \in DOMAIN program : \A n :
       <<f, n>> \in DOMAIN known => known[<<f, n>>] = WildTid(f, n)

LEMMA ResultIs ==
    ASSUME NEW tid, NEW errs, NEW lost, NEW found
    PROVE  /\ Result(tid, errs, lost, found).tid = tid
           /\ Result(tid, errs, lost, found).errors = errs
           /\ Result(tid, errs, lost, found).lost = lost
           /\ Result(tid, errs, lost, found).cache = found
  BY DEF Result

LEMMA QuietIs ==
    ASSUME NEW r
    PROVE  /\ Quiet(r).tid = r.tid /\ Quiet(r).cache = r.cache
           /\ Quiet(r).errors = {} /\ Quiet(r).lost = r.lost \cup r.errors
  BY ResultIs DEF Quiet

LEMMA FilesAre ==
    ASSUME program \in Programs, NEW f \in DOMAIN program
    PROVE  f # NoFile
  BY UnitsAre DEF NoFile

\* Where GetSimple finds a name, and what it adds to the cache.
LEMMA GetSimpleIs ==
    ASSUME program \in Programs, NEW f \in DOMAIN program, NEW n, n \notin DOMAIN BuiltinIds,
           NEW known, Remembers(known)
    PROVE  LET res == GetSimple(f, n, known)
               pkg == program[f].package
           IN  /\ <<f, n>> \in DOMAIN fileScope => res.tid = fileScope[<<f, n>>]
               /\ <<f, n>> \notin DOMAIN fileScope /\ <<pkg, n>> \in DOMAIN pkgScope
                    => res.tid = pkgScope[<<pkg, n>>]
               /\ <<f, n>> \notin DOMAIN fileScope /\ <<pkg, n>> \notin DOMAIN pkgScope
                    => res.tid = WildTid(f, n)
  <1>1. f # NoFile
    BY FilesAre
  <1>2. WildcardLookup(f, n, known).tid = WildTid(f, n)
    BY ResultIs DEF WildcardLookup, WildTid
  <1>3. <<f, n>> \in DOMAIN known => known[<<f, n>>] = WildTid(f, n)
    BY DEF Remembers
  <1> QED  BY <1>1, <1>2, <1>3, ResultIs DEF GetSimple

\* A lookup of a simple name remembers no more than that name, and that rightly.
LEMMA GetSimpleRemembers ==
    ASSUME NEW f, NEW n, NEW known, f \in DOMAIN program => Remembers(known)
    PROVE  LET found == GetSimple(f, n, known).cache
           IN  /\ f \in DOMAIN program => Remembers(found)
               /\ f = NoFile => found = known
               /\ DOMAIN found \subseteq DOMAIN known \cup {<<f, n>>}
               /\ \A k \in DOMAIN known : k \in DOMAIN found /\ found[k] = known[k]
  <1> DEFINE wild == WildcardLookup(f, n, known).cache
  <1>1. wild = [x \in DOMAIN known \cup {<<f, n>>} |->
                  IF x \in DOMAIN known THEN known[x] ELSE WildTid(f, n)]
    <2>1. wild = Extend(known, [k \in {<<f, n>>} |-> WildTid(f, n)])
      BY ResultIs DEF WildcardLookup, WildTid
    <2> HIDE DEF wild
    <2> QED  BY <2>1 DEF Extend
  <1>2. GetSimple(f, n, known).cache = known
        \/ (f # NoFile /\ GetSimple(f, n, known).cache = wild)
    BY ResultIs DEF GetSimple
  <1> HIDE DEF wild
  <1>3. Remembers(known) => Remembers(wild)
    <2> SUFFICES ASSUME Remembers(known), NEW g \in DOMAIN program, NEW m,
                        <<g, m>> \in DOMAIN wild
                 PROVE  wild[<<g, m>>] = WildTid(g, m)
      BY DEF Remembers
    <2>1. CASE <<g, m>> \in DOMAIN known
      BY <1>1, <2>1 DEF Remembers
    <2>2. CASE <<g, m>> \notin DOMAIN known
      <3>1. g = f /\ m = n
        BY <1>1, <2>2
      <3> QED  BY <1>1, <2>2, <3>1
    <2> QED  BY <2>1, <2>2
  <1>4. DOMAIN wild \subseteq DOMAIN known \cup {<<f, n>>}
        /\ \A k \in DOMAIN known : k \in DOMAIN wild /\ wild[k] = known[k]
    BY <1>1
  <1> QED  BY <1>2, <1>3, <1>4

\* The type of a simple name in a file is found, and no other.
LEMMA GetSimpleRight ==
    ASSUME NEW id, Scoped(id), NEW f \in DOMAIN program, NEW n, n \notin DOMAIN BuiltinIds,
           NEW known, Remembers(known)
    PROVE  LET tid == GetSimple(f, n, known).tid
               means == S!Simple(program, f, n)
           IN  /\ IsValid(tid) => \E t \in Types \ Bad : means = {t} /\ tid = id[t]
               /\ Legal /\ (\E t : means = {t}) => IsValid(tid)
  <1> DEFINE tid == GetSimple(f, n, known).tid
             means == S!Simple(program, f, n)
             pkg == program[f].package
  <1>1. program \in Programs /\ Resolved(id) /\ ImportsDone /\ PackagesDone
    BY DEF Scoped, Resolved
  <1>2. means = IF Here(f, n) # {} THEN Here(f, n)
                ELSE IF In(pkg, n) # {} THEN In(pkg, n) ELSE S!OnDemand(program, f, n)
    BY DEF S!Simple, Here, In
  <1> HIDE DEF means
  <1>3. CASE <<f, n>> \in DOMAIN fileScope
    <2>1. tid = fileScope[<<f, n>>]
      BY <1>1, <1>3, GetSimpleIs
    <2>2. Legal => IsValid(tid)
      BY <1>1, <1>3, <2>1, FileScopeRight
    <2>3. ASSUME IsValid(tid) PROVE \E t \in Types \ Bad : Here(f, n) = {t} /\ tid = id[t]
      BY <1>1, <1>3, <2>1, <2>3, FileScopeRight
    <2> HIDE DEF tid, pkg
    <2> QED  BY <1>2, <2>2, <2>3 DEF tid, means
  <1>4. CASE <<f, n>> \notin DOMAIN fileScope /\ <<pkg, n>> \in DOMAIN pkgScope
    <2>1. tid = pkgScope[<<pkg, n>>]
      BY <1>1, <1>4, GetSimpleIs
    <2>2. Here(f, n) = {} /\ In(pkg, n) # {}
      BY <1>1, <1>4, FileScopeRight, PkgScopeRight
    <2>3. Legal => IsValid(tid)
      BY <1>1, <1>4, <2>1, PkgScopeRight
    <2>4. ASSUME IsValid(tid) PROVE \E t \in Types \ Bad : In(pkg, n) = {t} /\ tid = id[t]
      BY <1>1, <1>4, <2>1, <2>4, PkgScopeRight
    <2> HIDE DEF tid, pkg
    <2> QED  BY <1>2, <2>2, <2>3, <2>4 DEF tid, means
  <1>5. CASE <<f, n>> \notin DOMAIN fileScope /\ <<pkg, n>> \notin DOMAIN pkgScope
    <2>1. tid = WildTid(f, n)
      BY <1>1, <1>5, GetSimpleIs
    <2>2. means = S!OnDemand(program, f, n)
      BY <1>1, <1>2, <1>5, FileScopeRight, PkgScopeRight
    <2>3. /\ IsValid(WildTid(f, n)) =>
                \E t \in Types \ Bad : S!OnDemand(program, f, n) = {t} /\ WildTid(f, n) = id[t]
          /\ Legal /\ (\E t : S!OnDemand(program, f, n) = {t}) => IsValid(WildTid(f, n))
      BY <1>1, WildTidRight
    <2>4. /\ IsValid(tid) => \E t \in Types \ Bad : means = {t} /\ tid = id[t]
          /\ Legal /\ (\E t : means = {t}) => IsValid(tid)
      <3> HIDE DEF tid, pkg
      <3> QED  BY <2>1, <2>2, <2>3
    <2> QED  BY <2>4, Zenon DEF means
  <1> QED  BY <1>3, <1>4, <1>5

LEMMA GetRemembers ==
    ASSUME NEW f \in DOMAIN program \cup {NoFile}, NEW name, NEW known, Remembers(known)
    PROVE  LET found == Get(f, name, known).cache
           IN  /\ Remembers(found)
               /\ DOMAIN found \subseteq DOMAIN known \cup {<<f, name[1]>>}
               /\ \A k \in DOMAIN known : k \in DOMAIN found /\ found[k] = known[k]
               /\ f = NoFile => found = known
  <1>1. Get(f, name, known).cache \in {known, GetSimple(f, name[1], known).cache}
    BY ResultIs, QuietIs DEF Get, GetQualified
  <1> QED  BY <1>1, GetSimpleRemembers

LEMMA MeaningIs ==
    ASSUME program \in Programs, NEW f, NEW name
    PROVE  /\ MeaningAt(f, name) \subseteq Types /\ IsFiniteSet(MeaningAt(f, name))
           /\ Cardinality(MeaningAt(f, name)) = 1 <=> \E t : MeaningAt(f, name) = {t}
           /\ S!Cardinality(S!Simple(program, f, name)) = 1
                 <=> \E t : S!Simple(program, f, name) = {t}
  <1>1. \A n : /\ S!Simple(program, f, n) \subseteq Types
               /\ S!Called(program, n) \subseteq Types
    BY DEF S!Simple, S!InFile, S!InPackage, S!OnDemand, S!Called, Types
  <1>2. MeaningAt(f, name) \subseteq Types
    BY <1>1, Zenon DEF MeaningAt, S!Meaning
  <1>3. IsFiniteSet(MeaningAt(f, name)) /\ IsFiniteSet(S!Simple(program, f, name))
    BY <1>1, <1>2, TypesFinite, FS_Subset
  <1>4. Cardinality(MeaningAt(f, name)) = 1 <=> \E t : MeaningAt(f, name) = {t}
    BY <1>3, Counting
  <1>5. S!Cardinality(S!Simple(program, f, name)) = 1 <=> \E t : S!Simple(program, f, name) = {t}
    <2>1. \A A : IsFiniteSet(A) => (S!Cardinality(A) = 1 <=> \E t : A = {t})
      BY Counting
    <2> QED  BY <1>3, <2>1
  <1> QED  BY <1>2, <1>3, <1>4, <1>5

\* In a legal program a qualified name is found if and only if it is a type's.
LEMMA QualifiedRight ==
    ASSUME NEW id, Resolved(id), Legal, NEW name \in QualifiedName
    PROVE  /\ name \in DOMAIN qualIndex =>
                \E t \in Types \ Bad : /\ S!Called(program, name) = {t} /\ qualIndex[name] = id[t]
                                       /\ IsValid(id[t]) /\ id[t] # ErrorBase
           /\ name \notin DOMAIN qualIndex => S!Called(program, name) = {}
  <1>1. program \in Programs /\ Bad = {} /\ Indexed(id, allTypes, qualIndex)
    BY LegalIs DEF Resolved
  <1>2. name \in Seq(Identifier)
    BY DEF QualifiedName
  <1>3. ASSUME name \in DOMAIN qualIndex
        PROVE  \E t \in Types \ Bad : /\ S!Called(program, name) = {t} /\ qualIndex[name] = id[t]
                                      /\ IsValid(id[t]) /\ id[t] # ErrorBase
    <2>1. PICK t \in S!Called(program, name) : TRUE
      BY <1>2, <1>3, ResolveIs
    <2>2. t \in Types \ Bad /\ qualIndex[name] = Tid(id, t) /\ S!Called(program, name) = {t}
      BY <1>1, <1>2, <2>1, ResolveIs
    <2>3. IsValid(id[t]) /\ id[t] # ErrorBase
      BY <1>1, <2>2, TidIs DEF Tid
    <2> QED  BY <2>2, <2>3 DEF Tid
  <1> QED  BY <1>2, <1>3, ResolveIs

LEMMA NoSimpleCalled ==
    ASSUME program \in Programs, NEW name \in QualifiedName, Len(name) = 1
    PROVE  S!Called(program, name) = {}
  <1>1. ASSUME NEW t \in Types, Long(t) = name PROVE FALSE
    <2>1. name \in Seq(Identifier)
      BY DEF QualifiedName
    <2>2. Pkg(t) \in Seq(Identifier) /\ Name(t) \in Identifier
      BY TypesAre
    <2> QED  BY <1>1, <2>1, <2>2, LongNameIs DEF Long
  <1>2. name \in Seq(Identifier)
    BY DEF QualifiedName
  <1> QED  BY <1>1, <1>2, CalledIs

\* A lookup finds the type its name means, and no other; unless declarations are
\* broken and the name is qualified.
LEMMA GetRight ==
    ASSUME NEW id, Scoped(id), NEW f \in DOMAIN program \cup {NoFile}, NEW name \in QualifiedName,
           name[1] \notin DOMAIN BuiltinIds, NEW known, Remembers(known)
    PROVE  LET tid == Get(f, name, known).tid
           IN  /\ IsValid(tid) /\ (Legal \/ Len(name) = 1) =>
                    \E t \in Types \ Bad : MeaningAt(f, name) = {t} /\ tid = id[t]
               /\ Legal /\ (\E t : MeaningAt(f, name) = {t}) => IsValid(tid)
  <1> DEFINE tid == Get(f, name, known).tid
             first == GetSimple(f, name[1], known).tid
             means == MeaningAt(f, name)
             Right == /\ IsValid(tid) /\ (Legal \/ Len(name) = 1) =>
                           \E t \in Types \ Bad : means = {t} /\ tid = id[t]
                      /\ Legal /\ (\E t : means = {t}) => IsValid(tid)
  <1>1. program \in Programs /\ Resolved(id)
    BY DEF Scoped, Resolved
  <1>2. ASSUME Len(name) # 1
        PROVE  /\ name \notin DOMAIN qualIndex => tid = ErrorBase
               /\ name \in DOMAIN qualIndex /\ qualIndex[name] # ErrorBase =>
                    tid = IF IsValid(first) THEN ErrorBase ELSE qualIndex[name]
    BY <1>2, ResultIs, QuietIs DEF Get, GetQualified
  <1>3. ~ IsValid(ErrorBase)
    BY DEF IsValid, ErrorBase
  <1>4. ASSUME f \in DOMAIN program, Len(name) = 1 PROVE Right
    <2>1. tid = first /\ means = S!Simple(program, f, name[1])
      BY <1>1, <1>4, FilesAre DEF Get, MeaningAt, S!Meaning
    <2>2. LET m == S!Simple(program, f, name[1])
          IN  /\ IsValid(first) => \E t \in Types \ Bad : m = {t} /\ first = id[t]
              /\ Legal /\ (\E t : m = {t}) => IsValid(first)
      BY <1>4, GetSimpleRight
    <2> HIDE DEF first, tid, means
    <2> QED  BY <2>1, <2>2
  <1>5. ASSUME Len(name) # 1, Legal,
               means = IF IsValid(first) THEN {} ELSE S!Called(program, name)
        PROVE  Right
    <2> HIDE DEF first, tid, means
    <2>1. CASE name \in DOMAIN qualIndex
      <3>1. PICK t \in Types \ Bad : /\ S!Called(program, name) = {t} /\ qualIndex[name] = id[t]
                                     /\ IsValid(id[t]) /\ id[t] # ErrorBase
        BY <1>1, <1>5, <2>1, QualifiedRight
      <3>2. tid = IF IsValid(first) THEN ErrorBase ELSE id[t]
        BY <1>2, <1>5, <2>1, <3>1
      <3> QED  BY <1>3, <1>5, <3>1, <3>2
    <2>2. CASE name \notin DOMAIN qualIndex
      <3>1. S!Called(program, name) = {} /\ tid = ErrorBase
        BY <1>1, <1>2, <1>5, <2>2, QualifiedRight
      <3> QED  BY <1>3, <1>5, <3>1
    <2> QED  BY <2>1, <2>2
  <1>6. ASSUME f \in DOMAIN program, Len(name) # 1 PROVE Right
    <2>1. Legal => (IsValid(first) <=> S!Cardinality(S!Simple(program, f, name[1])) = 1)
      <3>1. LET m == S!Simple(program, f, name[1])
            IN  /\ IsValid(first) => \E t \in Types \ Bad : m = {t} /\ first = id[t]
                /\ Legal /\ (\E t : m = {t}) => IsValid(first)
        BY <1>6, GetSimpleRight
      <3> HIDE DEF first
      <3> QED  BY <1>1, <3>1, MeaningIs
    <2>2. Legal => means = IF IsValid(first) THEN {} ELSE S!Called(program, name)
      <3>1. means = IF S!Cardinality(S!Simple(program, f, name[1])) = 1 THEN {}
                    ELSE S!Called(program, name)
        BY <1>1, <1>6, FilesAre DEF MeaningAt, S!Meaning
      <3> HIDE DEF first, means
      <3> QED  BY <2>1, <3>1
    <2> HIDE DEF first, tid, means
    <2> QED  BY <1>5, <1>6, <2>2
  <1>7. ASSUME f = NoFile PROVE Right
    <2>1. first = ErrorBase /\ means = S!Called(program, name)
      BY <1>7, ResultIs DEF GetSimple, MeaningAt
    <2>2. CASE Len(name) = 1
      <3>1. tid = ErrorBase /\ means = {}
        BY <1>1, <2>1, <2>2, NoSimpleCalled DEF Get
      <3> HIDE DEF first, tid, means
      <3> QED  BY <1>3, <3>1
    <2>3. CASE Len(name) # 1
      <3> HIDE DEF first, tid, means
      <3> QED  BY <1>3, <1>5, <2>1, <2>3
    <2> QED  BY <2>2, <2>3
  <1>8. Right
    <2> HIDE DEF Right
    <2> QED  BY <1>4, <1>6, <1>7
  <1> QED  BY <1>8

-----------------------------------------------------------------------------
(* A name in an expression: its prefixes are tried one after the other.    *)

\* What a lookup g makes of the result r so far.
After(r, g) ==
    LET next == Quiet(g) IN Result(next.tid, {}, r.lost \cup next.lost, next.cache)

Tried(f, name, known, r) ==
    /\ r[0] = Result(ErrorBase, {}, {}, known)
    /\ \A k \in 1..Len(name) :
          r[k] = IF IsValid(r[k - 1].tid) THEN r[k - 1]
                 ELSE After(r[k - 1], Get(f, SubSeq(name, 1, k), r[k - 1].cache))
    /\ TryPrefixes(f, name, known) = r[Len(name)]

LEMMA AfterIs ==
    ASSUME NEW r, NEW g
    PROVE  /\ After(r, g).tid = g.tid /\ After(r, g).cache = g.cache
           /\ After(r, g).lost = r.lost \cup g.lost \cup g.errors
  BY ResultIs, QuietIs DEF After

LEMMA TriesAre ==
    ASSUME NEW f, NEW name \in QualifiedName, NEW known
    PROVE  \E r : Tried(f, name, known, r)
  <1> DEFINE N == Len(name)
             ns == [n \in DOMAIN name |-> n]
             step(r, n) == IF IsValid(r.tid) THEN r
                           ELSE After(r, Get(f, SubSeq(name, 1, n), r.cache))
             none == Result(ErrorBase, {}, {}, known)
             next(h, s) == IF s = {} THEN none ELSE step(h[s \ {Max(s)}], ns[Max(s)])
             Begins(m, h) == h = [s \in SUBSET (1..m) |-> next(h, s)]
             Can == {m \in Nat : \E h : Begins(m, h)}
  <1>1. N \in Nat /\ DOMAIN name = 1..N /\ DOMAIN ns = 1..N /\ \A n \in 1..N : ns[n] = n
    BY DEF QualifiedName
  <1>2. 0 \in Can
    <2>1. SUBSET (1..0) = {{}}
      OBVIOUS
    <2>2. Begins(0, [s \in SUBSET (1..0) |-> none])
      BY <2>1
    <2> HIDE DEF Begins
    <2> QED  BY <2>2
  <1>3. ASSUME NEW m \in Nat, m \in Can PROVE m + 1 \in Can
    <2>1. PICK h : Begins(m, h)
      BY <1>3
    <2> HIDE DEF none
    <2> DEFINE g == [s \in SUBSET (1..(m + 1)) |->
                       IF m + 1 \in s THEN step(h[s \ {m + 1}], ns[m + 1]) ELSE h[s]]
    <2> HIDE DEF step, ns
    <2>2. ASSUME NEW s \in SUBSET (1..(m + 1)) PROVE g[s] = next(g, s)
      <3>1. CASE m + 1 \in s
        <4>1. Max(s) = m + 1
          BY <3>1, MaxIs
        <4>2. s \ {m + 1} \in SUBSET (1..(m + 1)) /\ m + 1 \notin s \ {m + 1}
          OBVIOUS
        <4>3. g[s \ {m + 1}] = h[s \ {m + 1}]
          BY <4>2
        <4> QED  BY <3>1, <4>1, <4>3
      <3>2. CASE m + 1 \notin s
        <4>1. s \in SUBSET (1..m)
          BY <3>2
        <4>2. \A r \in SUBSET s : r \in SUBSET (1..(m + 1)) /\ m + 1 \notin r
          BY <3>2
        <4>3. \A r \in SUBSET s : g[r] = h[r]
          BY <4>2
        <4>4. h[s] = next(h, s)
          BY <2>1, <4>1
        <4>5. s \ {Max(s)} \in SUBSET s /\ s \in SUBSET s
          OBVIOUS
        <4> HIDE DEF g
        <4> QED  BY <4>3, <4>4, <4>5
      <3> QED  BY <3>1, <3>2
    <2>3. Begins(m + 1, g)
      <3>1. g = [s \in SUBSET (1..(m + 1)) |-> g[s]]
        OBVIOUS
      <3> HIDE DEF g, next
      <3> QED  BY <2>2, <3>1
    <2> HIDE DEF Begins
    <2> QED  BY <2>3
  <1>4. \E h : Begins(N, h)
    <2> HIDE DEF Can, Begins
    <2>1. N \in Can
      BY <1>1, <1>2, <1>3, SetInduction
    <2> QED  BY <1>1, <2>1 DEF Can
  <1>5. PICK it :
           /\ \A s \in SUBSET (1..N) : it[s] = next(it, s)
           /\ TryPrefixes(f, name, known) = it[1..N]
    <2> DEFINE iter[s \in SUBSET DOMAIN ns] ==
                  IF s = {} THEN none
                  ELSE LET x == Max(s)
                       IN  step(iter[s \ {x}], ns[x])
    <2>1. iter = [s \in SUBSET DOMAIN ns |-> next(iter, s)]
      <3> HIDE DEF ns, none
      <3> QED  BY <1>1, <1>4 DEF iter
    <2>2. TryPrefixes(f, name, known) = iter[DOMAIN ns]
      BY DEF TryPrefixes, FoldLeft, MapThenFoldSet, After
    <2> HIDE DEF iter, next, N, ns
    <2> QED  BY <1>1, <2>1, <2>2
  <1> HIDE DEF none, step, ns
  <1>6. PICK r : r = [k \in 0..N |-> it[1..k]]
    OBVIOUS
  <1>7. r[0] = none
    <2>1. 1..0 = {} /\ {} \in SUBSET (1..N) /\ 0 \in 0..N
      BY <1>1
    <2> QED  BY <1>5, <1>6, <2>1
  <1>8. ASSUME NEW k \in 1..N
        PROVE  r[k] = step(r[k - 1], k)
    <2> HIDE DEF N
    <2>1. /\ 1..k \in SUBSET (1..N) /\ 1..k # {} /\ k \in 1..k /\ (1..k) \ {k} = 1..(k - 1)
          /\ k - 1 \in 0..N /\ k \in 0..N
      <3>1. k \in Nat /\ 1 <= k /\ k <= N /\ k - 1 \in 0..N /\ k \in 0..N /\ k \in 1..k
        BY <1>1
      <3>2. (1..k) \ {k} = 1..(k - 1)
        BY <3>1
      <3>3. 1..k \in SUBSET (1..N)
        BY <1>1, <3>1
      <3> QED  BY <3>1, <3>2, <3>3
    <2>2. Max(1..k) = k
      <3>1. PICK j \in Nat : k = j + 1
        <4>1. k - 1 \in Nat /\ k = (k - 1) + 1
          BY <1>1
        <4> QED  BY <4>1
      <3> QED  BY MaxIs, <2>1, <3>1
    <2>3. r[k] = it[1..k] /\ r[k - 1] = it[1..(k - 1)]
      BY <1>6, <2>1
    <2>4. it[1..k] = step(it[(1..k) \ {k}], ns[k])
      BY <1>5, <2>1, <2>2
    <2> QED  BY <1>1, <2>1, <2>3, <2>4
  <1>9. TryPrefixes(f, name, known) = r[N]
    <2>1. N \in 0..N
      BY <1>1
    <2> QED  BY <1>5, <1>6, <2>1
  <1>10. Tried(f, name, known, r)
    BY <1>7, <1>8, <1>9 DEF Tried, none, step
  <1> QED  BY <1>10

LEMMA PrefixIs ==
    ASSUME NEW name \in QualifiedName, NEW k \in 1..Len(name)
    PROVE  LET prefix == SubSeq(name, 1, k)
           IN  /\ prefix \in QualifiedName /\ Len(prefix) = k /\ prefix[1] = name[1]
               /\ k = Len(name) => prefix = name
  <1>1. PICK p \in Seq(Identifier) : p = name
    BY DEF QualifiedName
  <1>2. /\ SubSeq(p, 1, k) \in Seq(Identifier) /\ Len(SubSeq(p, 1, k)) = k
        /\ SubSeq(p, 1, k)[1] = p[1]
        /\ k = Len(p) => SubSeq(p, 1, k) = p
    BY <1>1
  <1> QED  BY <1>1, <1>2 DEF QualifiedName

LEMMA TryPrefixesRemembers ==
    ASSUME NEW f \in DOMAIN program, NEW name \in QualifiedName, NEW known, Remembers(known)
    PROVE  LET found == TryPrefixes(f, name, known).cache
           IN  /\ Remembers(found)
               /\ DOMAIN found \subseteq DOMAIN known \cup {<<f, name[1]>>}
               /\ \A k \in DOMAIN known : k \in DOMAIN found /\ found[k] = known[k]
  <1> DEFINE N == Len(name)
             Kept(found) == /\ Remembers(found)
                            /\ DOMAIN found \subseteq DOMAIN known \cup {<<f, name[1]>>}
                            /\ \A k \in DOMAIN known : k \in DOMAIN found /\ found[k] = known[k]
  <1>1. PICK r : Tried(f, name, known, r)
    BY TriesAre
  <1> DEFINE Good == {k \in Nat : k <= N => Kept(r[k].cache)}
  <1>2. N \in Nat
    BY DEF QualifiedName
  <1>3. ASSUME NEW c, Kept(c), NEW k \in 1..N
        PROVE  Kept(Get(f, SubSeq(name, 1, k), c).cache)
    <2> DEFINE found == Get(f, SubSeq(name, 1, k), c).cache
    <2>1. SubSeq(name, 1, k)[1] = name[1]
      BY PrefixIs
    <2>2. /\ Remembers(found)
          /\ DOMAIN found \subseteq DOMAIN c \cup {<<f, SubSeq(name, 1, k)[1]>>}
          /\ \A x \in DOMAIN c : x \in DOMAIN found /\ found[x] = c[x]
      <3>1. Remembers(c) /\ f \in DOMAIN program \cup {NoFile}
        BY <1>3
      <3>2. PICK g : g = SubSeq(name, 1, k)
        OBVIOUS
      <3> HIDE DEF Kept, N
      <3>3. LET d == Get(f, g, c).cache
            IN  /\ Remembers(d)
                /\ DOMAIN d \subseteq DOMAIN c \cup {<<f, g[1]>>}
                /\ \A x \in DOMAIN c : x \in DOMAIN d /\ d[x] = c[x]
        BY <3>1, GetRemembers
      <3> QED  BY <3>2, <3>3
    <2> HIDE DEF found
    <2>3. Kept(found)
      BY <1>3, <2>1, <2>2
    <2> QED  BY <2>3 DEF found
  <1>4. 0 \in Good
    <2>1. r[0].cache = known
      BY <1>1, ResultIs DEF Tried
    <2> QED  BY <2>1
  <1>5. ASSUME NEW k \in Nat, k \in Good, k + 1 <= N PROVE Kept(r[k + 1].cache)
    <2> HIDE DEF Kept, N
    <2>1. Kept(r[k].cache)
      BY <1>2, <1>5
    <2>2. PICK j \in 1..N : j = k + 1 /\ j - 1 = k
      BY <1>2, <1>5
    <2>3. r[j].cache = IF IsValid(r[k].tid) THEN r[k].cache
                       ELSE Get(f, SubSeq(name, 1, j), r[k].cache).cache
      BY <1>1, <2>2, AfterIs DEF Tried, N
    <2> QED  BY <1>3, <2>1, <2>2, <2>3
  <1>6. Kept(r[N].cache)
    <2> HIDE DEF Kept, N
    <2>1. \A k \in Nat : k \in Good => k + 1 \in Good
      BY <1>2, <1>5
    <2>2. N \in Good
      <3> HIDE DEF Good
      <3> QED  BY <1>2, <1>4, <2>1, SetInduction
    <2> QED  BY <1>2, <2>2
  <1>7. TryPrefixes(f, name, known) = r[N]
    BY <1>1 DEF Tried
  <1> QED  BY <1>6, <1>7

\* The type found for a name in an expression is that of its first prefix that is a
\* type.
LEMMA TryPrefixesRight ==
    ASSUME NEW id, Scoped(id), NEW f \in DOMAIN program, NEW name \in QualifiedName,
           name[1] \notin DOMAIN BuiltinIds, NEW known, Remembers(known),
           Legal \/ Len(name) = 1
    PROVE  LET tid == TryPrefixes(f, name, known).tid
               means == FirstTypePrefix(f, name)
           IN  /\ IsValid(tid) => \E t \in Types \ Bad : means = {t} /\ tid = id[t]
               /\ Legal /\ (\E t : means = {t}) => IsValid(tid)
  <1> DEFINE N == Len(name)
             means(n) == MeaningAt(f, SubSeq(name, 1, n))
             One(n) == \E t : means(n) = {t}
             Right(k, tid) ==
                /\ IsValid(tid) => \E n \in 1..k : \E t \in Types \ Bad :
                                      /\ means(n) = {t} /\ tid = id[t]
                                      /\ \A m \in 1..k : m < n => ~ One(m)
                /\ Legal /\ ~ IsValid(tid) => \A m \in 1..k : ~ One(m)
  <1>1. PICK r : Tried(f, name, known, r)
    BY TriesAre
  <1> DEFINE Good == {k \in Nat : k <= N => Remembers(r[k].cache) /\ Right(k, r[k].tid)}
  <1>2. N \in Nat /\ program \in Programs /\ DOMAIN name = 1..N
    BY DEF QualifiedName, Scoped, Resolved
  <1>3. 0 \in Good
    <2>1. r[0].cache = known /\ r[0].tid = ErrorBase
      BY <1>1, ResultIs DEF Tried
    <2> QED  BY <2>1 DEF IsValid, ErrorBase
  <1>4. ASSUME NEW k \in Nat, k \in Good, k + 1 <= N
        PROVE  Remembers(r[k + 1].cache) /\ Right(k + 1, r[k + 1].tid)
    <2>1. Remembers(r[k].cache) /\ Right(k, r[k].tid)
      <3> HIDE DEF Right, N
      <3> QED  BY <1>2, <1>4
    <2>2. PICK j \in 1..N : j = k + 1 /\ j - 1 = k
      <3> HIDE DEF N
      <3> QED  BY <1>2, <1>4
    <2> DEFINE prefix == SubSeq(name, 1, j)
               old == r[k].tid
               new == r[j].tid
    <2>3. IF IsValid(old) THEN r[j] = r[k]
          ELSE /\ r[j].tid = Get(f, prefix, r[k].cache).tid
               /\ r[j].cache = Get(f, prefix, r[k].cache).cache
      BY <1>1, <2>2, AfterIs DEF Tried
    <2>4. prefix \in QualifiedName /\ Len(prefix) = j /\ prefix[1] = name[1]
      BY PrefixIs
    <2>5. /\ IsValid(Get(f, prefix, r[k].cache).tid) /\ (Legal \/ j = 1) =>
               \E t \in Types \ Bad : means(j) = {t} /\ Get(f, prefix, r[k].cache).tid = id[t]
          /\ Legal /\ One(j) => IsValid(Get(f, prefix, r[k].cache).tid)
      <3>1. PICK c : c = r[k].cache
        OBVIOUS
      <3>2. PICK q \in QualifiedName : q = prefix /\ Len(q) = j /\ q[1] = name[1]
        BY <2>4
      <3>3. LET tid == Get(f, q, c).tid
            IN  /\ IsValid(tid) /\ (Legal \/ Len(q) = 1) =>
                     \E t \in Types \ Bad : MeaningAt(f, q) = {t} /\ tid = id[t]
                /\ Legal /\ (\E t : MeaningAt(f, q) = {t}) => IsValid(tid)
        <4>1. Remembers(c)
          BY <2>1, <3>1
        <4>2. q[1] \notin DOMAIN BuiltinIds
          BY <3>2
        <4> HIDE DEF prefix, N, means, Good, Right
        <4> QED  BY <4>1, <4>2, GetRight
      <3> QED  BY <2>4, <3>1, <3>2, <3>3
    <2>6. Remembers(Get(f, prefix, r[k].cache).cache)
      BY <2>1, GetRemembers
    <2>7. Legal \/ j = 1
      <3> HIDE DEF prefix, means
      <3>1. CASE N = 1
        <4>1. j \in 1..1
          BY <3>1
        <4> QED  BY <4>1
      <3> QED  BY <3>1
    <2>8. 1..j = (1..k) \cup {j} /\ k < j /\ k \in Nat /\ j \in Nat
      <3> HIDE DEF N
      <3> QED  BY <2>2
    <2> HIDE DEF prefix, means, N
    <2>9. Remembers(r[j].cache)
      BY <2>1, <2>3, <2>6
    <2>10. Right(j, new)
      <3>1. CASE IsValid(old)
        <4>1. new = old
          BY <2>3, <3>1
        <4>2. PICK n \in 1..k : \E t \in Types \ Bad :
                  means(n) = {t} /\ old = id[t] /\ \A m \in 1..k : m < n => ~ One(m)
          BY <2>1, <3>1
        <4>3. \A m \in 1..j : m < n => m \in 1..k
          BY <2>8
        <4> QED  BY <2>8, <3>1, <4>1, <4>2, <4>3
      <3>2. CASE ~ IsValid(old) /\ IsValid(new)
        <4>1. PICK t \in Types \ Bad : means(j) = {t} /\ new = id[t]
          BY <2>3, <2>5, <2>7, <3>2
        <4>2. \A m \in 1..j : m < j => ~ One(m)
          <5>1. CASE Legal
            <6>1. \A m \in 1..k : ~ One(m)
              BY <2>1, <3>2, <5>1
            <6>2. \A m \in 1..j : m < j => m \in 1..k
              BY <2>8
            <6> HIDE DEF One
            <6> QED  BY <6>1, <6>2
          <5>2. CASE j = 1
            BY <5>2
          <5> QED  BY <2>7, <5>1, <5>2
        <4>3. j \in 1..j
          BY <2>8
        <4> HIDE DEF One
        <4> QED  BY <3>2, <4>1, <4>2, <4>3
      <3>3. CASE ~ IsValid(old) /\ ~ IsValid(new)
        <4>1. Legal => ~ One(j)
          BY <2>3, <2>5, <3>3
        <4> HIDE DEF One
        <4> QED  BY <2>1, <2>8, <3>3, <4>1
      <3> QED  BY <3>1, <3>2, <3>3
    <2> QED  BY <2>2, <2>9, <2>10
  <1>5. Right(N, r[N].tid)
    <2> HIDE DEF Right, N
    <2>1. \A k \in Nat : k \in Good => k + 1 \in Good
      BY <1>2, <1>4
    <2>2. N \in Good
      <3> HIDE DEF Good
      <3> QED  BY <1>2, <1>3, <2>1, SetInduction
    <2> QED  BY <1>2, <2>2
  <1>6. TryPrefixes(f, name, known) = r[N]
    BY <1>1 DEF Tried
  <1>7. \A n : One(n) <=> Cardinality(means(n)) = 1
    BY <1>2, MeaningIs
  <1> DEFINE tid == r[N].tid
             types == {n \in 1..N : One(n)}
             prefixes == {n \in DOMAIN name : Cardinality(MeaningAt(f, SubSeq(name, 1, n))) = 1}
  <1>8. FirstTypePrefix(f, name) = IF types = {} THEN {}
                                   ELSE means(CHOOSE n \in types : \A k \in types : n <= k)
    <2>1. prefixes = types
      BY <1>2, <1>7
    <2>2. FirstTypePrefix(f, name) = IF prefixes = {} THEN {}
                     ELSE means(CHOOSE n \in prefixes : \A k \in prefixes : n <= k)
      BY DEF FirstTypePrefix
    <2> HIDE DEF prefixes, types
    <2> QED  BY <2>1, <2>2
  <1> HIDE DEF means
  <1>9. ASSUME IsValid(tid)
        PROVE  \E t \in Types \ Bad : FirstTypePrefix(f, name) = {t} /\ tid = id[t]
    <2>1. PICK n \in 1..N, t \in Types \ Bad :
             means(n) = {t} /\ tid = id[t] /\ \A m \in 1..N : m < n => ~ One(m)
      BY <1>5, <1>9
    <2> HIDE DEF tid, N
    <2>2. n \in types /\ \A m \in types : n <= m
      <3>1. One(n)
        BY <2>1
      <3> HIDE DEF One
      <3>2. n \in types
        BY <3>1
      <3>3. \A m \in types : m \in 1..N /\ One(m)
        OBVIOUS
      <3> HIDE DEF types
      <3>4. \A m \in types : m \in Nat /\ ~ (m < n)
        BY <1>2, <2>1, <3>3
      <3> QED  BY <1>2, <3>2, <3>4
    <2>3. types # {} /\ \A k \in types : k \in Nat
      <3> HIDE DEF One
      <3> QED  BY <1>2, <2>2
    <2> HIDE DEF types
    <2>4. (CHOOSE i \in types : \A k \in types : i <= k) = n
      <3>1. \A i \in types : (\A k \in types : i <= k) => i = n
        BY <2>2, <2>3
      <3> QED  BY <2>2, <3>1
    <2> QED  BY <1>8, <2>1, <2>3, <2>4
  <1>10. ASSUME Legal, NEW t, FirstTypePrefix(f, name) = {t} PROVE IsValid(tid)
    <2>1. types # {}
      <3> HIDE DEF types
      <3> QED  BY <1>8, <1>10
    <2> QED  BY <1>5, <1>10, <2>1
  <1> QED  BY <1>6, <1>9, <1>10

-----------------------------------------------------------------------------
(* The lookups the passes make.                                            *)

LookupPasses == {"verify", "decl", "check"}
Kinds == {"predef", "own", "super", "member", "type", "name", "string"}
TaskSet ==
    {t \in [pass : LookupPasses, kind : Kinds, file : Nat, type : Nat, member : Nat,
            name : QualifiedName] :
       /\ IF t.kind = "predef" THEN t.file = NoFile ELSE t.file \in DOMAIN program
       /\ t.kind = "own" => \E i \in DOMAIN program[t.file].types : t.name = <<program[t.file].types[i].name>>
       /\ t.kind = "string" => t.name = JavaLangString}

LEMMA TaskIn ==
    ASSUME NEW pass \in LookupPasses, NEW kind \in Kinds, NEW f \in Nat, NEW i \in Nat, NEW m \in Nat,
           NEW name \in QualifiedName,
           IF kind = "predef" THEN f = NoFile ELSE f \in DOMAIN program,
           kind = "own" => \E j \in DOMAIN program[f].types : name = <<program[f].types[j].name>>,
           kind = "string" => name = JavaLangString
    PROVE  Task(pass, kind, f, i, m, name) \in TaskSet
  BY DEF Task, TaskSet

LEMMA FlattenRows ==
    ASSUME NEW E, NEW n \in Nat, NEW rows \in [1..n -> Seq(E)]
    PROVE  FlattenSeq(rows) \in Seq(E)
  <1>1. rows \in Seq(Seq(E))
    BY SegmentInSeq
  <1> QED  BY <1>1, FlattenIs

LEMMA TasksIn ==
    ASSUME NEW pass \in LookupPasses, NEW kind \in {"super", "member"}, NEW f \in DOMAIN program, f \in Nat,
           NEW i \in Nat, NEW m \in Nat, NEW names \in Seq(QualifiedName)
    PROVE  Tasks(pass, kind, f, i, m, names) \in Seq(TaskSet)
  <1>1. PICK n \in Nat : DOMAIN names = 1..n /\ \A k \in 1..n : names[k] \in QualifiedName
    OBVIOUS
  <1>2. kind \in Kinds /\ kind # "predef" /\ kind # "own" /\ kind # "string"
    BY DEF Kinds
  <1>3. \A k \in 1..n : Task(pass, kind, f, i, m, names[k]) \in TaskSet
    BY <1>1, <1>2, TaskIn
  <1>4. Tasks(pass, kind, f, i, m, names) \in [1..n -> TaskSet]
    BY <1>1, <1>3 DEF Tasks
  <1> QED  BY <1>4, SegmentInSeq

\* What is known of a type's declaration in the tree.
LEMMA TypeDeclIs ==
    ASSUME program \in Programs, NEW f \in DOMAIN program, NEW i \in DOMAIN program[f].types
    PROVE  LET type == program[f].types[i]
           IN  /\ f \in Nat /\ i \in Nat
               /\ <<type.name>> \in QualifiedName /\ type.supers \in Seq(QualifiedName)
               /\ \E n \in Nat : DOMAIN type.members = 1..n
               /\ \A m \in DOMAIN type.members :
                     /\ m \in Nat /\ type.members[m].types \in Seq(QualifiedName)
                     /\ type.members[m].uses \in Seq(UseInBody)
  <1>1. program[f] \in CompUnit /\ f \in Nat /\ program[f].types[i] \in TypeDecl
    BY UnitsAre
  <1>2. i \in Nat
    <2>1. program[f].types \in Seq(TypeDecl)
      BY <1>1 DEF CompUnit
    <2> QED  BY <2>1
  <1>3. PICK type \in TypeDecl : type = program[f].types[i]
    BY <1>1
  <1>4. type.name \in Identifier /\ type.supers \in Seq(QualifiedName)
        /\ type.members \in Seq(MemberDecl)
    BY <1>3 DEF TypeDecl
  <1>5. <<type.name>> \in QualifiedName
    <2>1. <<type.name>> \in Seq(Identifier) /\ <<type.name>> # <<>>
      BY <1>4
    <2> QED  BY <2>1 DEF QualifiedName
  <1>6. \A m \in DOMAIN type.members : m \in Nat /\ type.members[m] \in MemberDecl
    BY <1>4
  <1>7. \E n \in Nat : DOMAIN type.members = 1..n
    BY <1>4
  <1>8. ASSUME NEW m \in DOMAIN type.members
        PROVE  m \in Nat /\ type.members[m].types \in Seq(QualifiedName)
               /\ type.members[m].uses \in Seq(UseInBody)
    <2>1. m \in Nat /\ type.members[m] \in MemberDecl
      BY <1>6
    <2> QED  BY <2>1 DEF MemberDecl
  <1> QED  BY <1>1, <1>2, <1>3, <1>4, <1>5, <1>7, <1>8

\* The tasks of all types, one row for each type.
LEMMA AllTasks ==
    ASSUME program \in Programs, NEW rows,
           \A f \in DOMAIN program : \A i \in DOMAIN program[f].types : rows[f][i] \in Seq(TaskSet)
    PROVE  FlattenSeq([f \in DOMAIN program |->
             FlattenSeq([i \in DOMAIN program[f].types |-> rows[f][i]])]) \in Seq(TaskSet)
  <1>1. ASSUME NEW f \in DOMAIN program
        PROVE  FlattenSeq([i \in DOMAIN program[f].types |-> rows[f][i]]) \in Seq(TaskSet)
    <2>1. PICK n \in Nat : DOMAIN program[f].types = 1..n
      <3>1. program[f] \in CompUnit
        BY UnitsAre
      <3>2. program[f].types \in Seq(TypeDecl)
        BY <3>1 DEF CompUnit
      <3> QED  BY <3>2
    <2>2. PICK row : row = [i \in DOMAIN program[f].types |-> rows[f][i]]
      OBVIOUS
    <2>3. row \in [1..n -> Seq(TaskSet)]
      BY <2>1, <2>2
    <2>4. FlattenSeq(row) \in Seq(TaskSet)
      BY <2>3, FlattenRows
    <2> QED  BY <2>2, <2>4
  <1>2. PICK n \in Nat : DOMAIN program = 1..n
    BY UnitsAre
  <1> DEFINE all == [f \in DOMAIN program |->
                       FlattenSeq([i \in DOMAIN program[f].types |-> rows[f][i]])]
  <1>3. all \in [1..n -> Seq(TaskSet)]
    BY <1>1, <1>2
  <1> HIDE DEF all
  <1>4. FlattenSeq(all) \in Seq(TaskSet)
    BY <1>3, FlattenRows
  <1> QED  BY <1>4 DEF all

LEMMA DeclTasksIn ==
    ASSUME program \in Programs
    PROVE  DeclTasks \in Seq(TaskSet)
  <1> DEFINE type(f, i) == program[f].types[i]
             members(f, i) == FlattenSeq([m \in DOMAIN type(f, i).members |->
                                Tasks("decl", "member", f, i, m, type(f, i).members[m].types)])
             row(f, i) == <<Task("decl", "own", f, i, 0, <<type(f, i).name>>)>>
                          \o Tasks("decl", "super", f, i, 0, type(f, i).supers)
                          \o members(f, i)
  <1>1. ASSUME NEW f \in DOMAIN program, NEW i \in DOMAIN program[f].types
        PROVE  row(f, i) \in Seq(TaskSet)
    <2>1. /\ f \in Nat /\ i \in Nat
          /\ <<type(f, i).name>> \in QualifiedName /\ type(f, i).supers \in Seq(QualifiedName)
          /\ \E n \in Nat : DOMAIN type(f, i).members = 1..n
          /\ \A m \in DOMAIN type(f, i).members :
                m \in Nat /\ type(f, i).members[m].types \in Seq(QualifiedName)
      BY TypeDeclIs
    <2> HIDE DEF type
    <2>2. <<Task("decl", "own", f, i, 0, <<type(f, i).name>>)>> \in Seq(TaskSet)
      <3>1. Task("decl", "own", f, i, 0, <<type(f, i).name>>) \in TaskSet
        <4>1. /\ \E j \in DOMAIN program[f].types : <<type(f, i).name>> = <<program[f].types[j].name>>
              /\ "decl" \in LookupPasses /\ "own" \in Kinds
          BY <1>1 DEF LookupPasses, Kinds, type
        <4> QED  BY <2>1, <4>1, TaskIn
      <3> QED  BY <3>1
    <2>3. Tasks("decl", "super", f, i, 0, type(f, i).supers) \in Seq(TaskSet)
      BY <2>1, TasksIn DEF LookupPasses
    <2>4. members(f, i) \in Seq(TaskSet)
      <3>1. PICK n \in Nat : DOMAIN type(f, i).members = 1..n
        BY <2>1
      <3>2. PICK rows : rows = [m \in DOMAIN type(f, i).members |->
                                Tasks("decl", "member", f, i, m, type(f, i).members[m].types)]
        OBVIOUS
      <3>3. \A m \in 1..n : Tasks("decl", "member", f, i, m, type(f, i).members[m].types)
                               \in Seq(TaskSet)
        BY <2>1, <3>1, TasksIn DEF LookupPasses
      <3>4. rows \in [1..n -> Seq(TaskSet)]
        BY <3>1, <3>2, <3>3
      <3>5. FlattenSeq(rows) \in Seq(TaskSet)
        BY <3>4, FlattenRows
      <3> QED  BY <3>2, <3>5
    <2> HIDE DEF members
    <2> QED  BY <2>2, <2>3, <2>4
  <1>2. DeclTasks = FlattenSeq([f \in DOMAIN program |->
                      FlattenSeq([i \in DOMAIN program[f].types |-> row(f, i)])])
    BY DEF DeclTasks, PerType, PerMember
  <1> HIDE DEF row
  <1>3. PICK rows : rows = [f \in DOMAIN program |-> [i \in DOMAIN program[f].types |-> row(f, i)]]
    OBVIOUS
  <1>4. \A f \in DOMAIN program : \A i \in DOMAIN program[f].types : rows[f][i] = row(f, i)
    BY <1>3
  <1>5. FlattenSeq([f \in DOMAIN program |->
             FlattenSeq([i \in DOMAIN program[f].types |-> rows[f][i]])]) \in Seq(TaskSet)
    BY <1>1, <1>4, AllTasks
  <1>6. [f \in DOMAIN program |-> FlattenSeq([i \in DOMAIN program[f].types |-> rows[f][i]])]
        = [f \in DOMAIN program |-> FlattenSeq([i \in DOMAIN program[f].types |-> row(f, i)])]
    <2>1. \A f \in DOMAIN program : [i \in DOMAIN program[f].types |-> rows[f][i]]
                                    = [i \in DOMAIN program[f].types |-> row(f, i)]
      BY <1>4
    <2> QED  BY <2>1
  <1> QED  BY <1>2, <1>5, <1>6

LEMMA UseTasksIn ==
    ASSUME NEW f \in DOMAIN program, f \in Nat, NEW i \in Nat, NEW m \in Nat,
           NEW uses \in Seq(UseInBody)
    PROVE  [k \in DOMAIN uses |-> Task("check", uses[k].kind, f, i, m, uses[k].name)]
              \in Seq(TaskSet)
  <1>1. PICK n \in Nat : DOMAIN uses = 1..n /\ \A k \in 1..n : uses[k] \in UseInBody
    OBVIOUS
  <1>2. ASSUME NEW use \in UseInBody
        PROVE  Task("check", use.kind, f, i, m, use.name) \in TaskSet
    <2>1. /\ use.name \in QualifiedName /\ use.kind \in {"type", "name", "string"}
          /\ use.kind = "string" => use.name = JavaLangString
      BY PredefsAssumption DEF UseInBody
    <2>2. /\ use.kind \in Kinds /\ use.kind # "predef" /\ use.kind # "own"
          /\ "check" \in LookupPasses
      BY <2>1 DEF Kinds, LookupPasses
    <2> QED  BY <2>1, <2>2, TaskIn
  <1>3. PICK tasks : tasks = [k \in DOMAIN uses |-> Task("check", uses[k].kind, f, i, m, uses[k].name)]
    OBVIOUS
  <1>4. tasks \in [1..n -> TaskSet]
    BY <1>1, <1>2, <1>3
  <1>5. tasks \in Seq(TaskSet)
    BY <1>4, SegmentInSeq
  <1> QED  BY <1>3, <1>5

LEMMA CheckTasksIn ==
    ASSUME program \in Programs
    PROVE  CheckTasks \in Seq(TaskSet)
  <1> DEFINE type(f, i) == program[f].types[i]
             uses(f, i, m) == [k \in DOMAIN type(f, i).members[m].uses |->
                                 Task("check", type(f, i).members[m].uses[k].kind, f, i, m,
                                      type(f, i).members[m].uses[k].name)]
             fields(f, i, m) == IF type(f, i).members[m].isField
                                  THEN Tasks("check", "member", f, i, m, type(f, i).members[m].types)
                                  ELSE <<>>
             members(f, i) == FlattenSeq([m \in DOMAIN type(f, i).members |->
                                fields(f, i, m) \o uses(f, i, m)])
             row(f, i) == <<Task("check", "own", f, i, 0, <<type(f, i).name>>)>> \o members(f, i)
  <1>1. ASSUME NEW f \in DOMAIN program, NEW i \in DOMAIN program[f].types
        PROVE  row(f, i) \in Seq(TaskSet)
    <2>1. /\ f \in Nat /\ i \in Nat
          /\ <<type(f, i).name>> \in QualifiedName
          /\ \E n \in Nat : DOMAIN type(f, i).members = 1..n
          /\ \A m \in DOMAIN type(f, i).members :
                /\ m \in Nat /\ type(f, i).members[m].types \in Seq(QualifiedName)
                /\ type(f, i).members[m].uses \in Seq(UseInBody)
      BY TypeDeclIs
    <2> HIDE DEF type
    <2>2. <<Task("check", "own", f, i, 0, <<type(f, i).name>>)>> \in Seq(TaskSet)
      <3>1. Task("check", "own", f, i, 0, <<type(f, i).name>>) \in TaskSet
        <4>1. /\ \E j \in DOMAIN program[f].types : <<type(f, i).name>> = <<program[f].types[j].name>>
              /\ "check" \in LookupPasses /\ "own" \in Kinds
          BY <1>1 DEF LookupPasses, Kinds, type
        <4> QED  BY <2>1, <4>1, TaskIn
      <3> QED  BY <3>1
    <2>3. ASSUME NEW m \in DOMAIN type(f, i).members
          PROVE  fields(f, i, m) \o uses(f, i, m) \in Seq(TaskSet)
      <3>1. uses(f, i, m) \in Seq(TaskSet)
        <4>1. m \in Nat /\ type(f, i).members[m].uses \in Seq(UseInBody)
          BY <2>1
        <4> QED  BY <2>1, <4>1, UseTasksIn
      <3>2. fields(f, i, m) \in Seq(TaskSet)
        <4>1. Tasks("check", "member", f, i, m, type(f, i).members[m].types) \in Seq(TaskSet)
          BY <2>1, TasksIn DEF LookupPasses
        <4> QED  BY <4>1
      <3> HIDE DEF uses, fields
      <3> QED  BY <3>1, <3>2
    <2>4. members(f, i) \in Seq(TaskSet)
      <3> HIDE DEF uses, fields
      <3>1. PICK n \in Nat : DOMAIN type(f, i).members = 1..n
        BY <2>1
      <3>2. PICK rows : rows = [m \in DOMAIN type(f, i).members |-> fields(f, i, m) \o uses(f, i, m)]
        OBVIOUS
      <3>3. rows \in [1..n -> Seq(TaskSet)]
        BY <2>3, <3>1, <3>2
      <3>4. FlattenSeq(rows) \in Seq(TaskSet)
        BY <3>3, FlattenRows
      <3> QED  BY <3>2, <3>4
    <2> HIDE DEF members
    <2> QED  BY <2>2, <2>4
  <1>2. CheckTasks = FlattenSeq([f \in DOMAIN program |->
                       FlattenSeq([i \in DOMAIN program[f].types |-> row(f, i)])])
    BY DEF CheckTasks, PerType, PerMember
  <1> HIDE DEF row
  <1>3. PICK rows : rows = [f \in DOMAIN program |-> [i \in DOMAIN program[f].types |-> row(f, i)]]
    OBVIOUS
  <1>4. \A f \in DOMAIN program : \A i \in DOMAIN program[f].types : rows[f][i] = row(f, i)
    BY <1>3
  <1>5. FlattenSeq([f \in DOMAIN program |->
             FlattenSeq([i \in DOMAIN program[f].types |-> rows[f][i]])]) \in Seq(TaskSet)
    BY <1>1, <1>4, AllTasks
  <1>6. [f \in DOMAIN program |-> FlattenSeq([i \in DOMAIN program[f].types |-> rows[f][i]])]
        = [f \in DOMAIN program |-> FlattenSeq([i \in DOMAIN program[f].types |-> row(f, i)])]
    <2>1. \A f \in DOMAIN program : [i \in DOMAIN program[f].types |-> rows[f][i]]
                                    = [i \in DOMAIN program[f].types |-> row(f, i)]
      BY <1>4
    <2> QED  BY <2>1
  <1> QED  BY <1>2, <1>5, <1>6

LEMMA VerifyTasksIn == VerifyTasks \in Seq(TaskSet)
  <1>1. PICK n \in Nat : DOMAIN Predefs = 1..n /\ \A k \in 1..n : Predefs[k] \in QualifiedName
    BY PredefsAssumption
  <1>2. NoFile \in Nat /\ "verify" \in LookupPasses /\ "predef" \in Kinds
    BY DEF NoFile, LookupPasses, Kinds
  <1>3. \A k \in 1..n : Task("verify", "predef", NoFile, 0, 0, Predefs[k]) \in TaskSet
    BY <1>1, <1>2, TaskIn
  <1>4. VerifyTasks \in [1..n -> TaskSet]
    BY <1>1, <1>3 DEF VerifyTasks
  <1> QED  BY <1>4, SegmentInSeq

-----------------------------------------------------------------------------
(* Each answer is right.                                                   *)

MeansFor(a) ==
    IF a.kind = "name" THEN FirstTypePrefix(a.file, a.name) ELSE MeaningAt(a.file, a.name)
RightFor(a) ==
    Head(a.name) \notin DOMAIN BuiltinIds =>
      IF Legal THEN IF Cardinality(MeansFor(a)) = 1 THEN Declared(a.tid) = MeansFor(a)
                    ELSE ~ IsValid(a.tid)
      ELSE IsValid(a.tid) /\ Len(a.name) = 1 => Declared(a.tid) = MeansFor(a)

NamesInv ==
    /\ work \in Seq(TaskSet)
    /\ phase \notin Passes => cache = <<>> /\ answer = NoAnswer
    /\ phase \in Passes => Remembers(cache)
    /\ NamesRight

LEMMA RightStays ==
    ASSUME UNCHANGED <<program, index>>, answer' = NoAnswer \/ RightFor(answer')
    PROVE  NamesRight'
  <1>1. program' = program /\ allTypes' = allTypes
    BY DEF index
  <1>2. \A f, name : FirstTypePrefix(f, name)' = FirstTypePrefix(f, name)
    BY <1>1 DEF FirstTypePrefix, MeaningAt
  <1>3. \A f, name : MeaningAt(f, name)' = MeaningAt(f, name)
    BY <1>1 DEF MeaningAt
  <1>4. \A tid : Declared(tid)' = Declared(tid)
    BY <1>1 DEF Declared
  <1>5. S!LegalDeclarations(program)' = S!LegalDeclarations(program)
    BY <1>1
  <1>6. PICK a : a = answer'
    OBVIOUS
  <1>7. a = NoAnswer \/ RightFor(a)
    BY <1>6
  <1>8. AnswerMeans' = MeansFor(a)
    BY <1>2, <1>3, <1>6 DEF AnswerMeans, MeansFor
  <1>9. Declared(answer.tid)' = Declared(a.tid)
    BY <1>4, <1>6
  <1> QED  BY <1>5, <1>6, <1>7, <1>8, <1>9 DEF NamesRight, RightFor, Legal, IsValid, ErrorBase

LEMMA CacheStays ==
    ASSUME UNCHANGED <<program, index>>, Remembers(cache')
    PROVE  Remembers(cache)'
  <1>1. program' = program /\ wildcards' = wildcards /\ pkgScope' = pkgScope
    BY DEF index
  <1>2. \A f, n : WildTid(f, n)' = WildTid(f, n)
    BY <1>1 DEF WildTid, Matches, ErrorBase
  <1>3. DOMAIN program' = DOMAIN program
    BY <1>1
  <1> QED  BY <1>2, <1>3 DEF Remembers

LEMMA TasksStay ==
    ASSUME program' = program
    PROVE  TaskSet' = TaskSet
  BY DEF TaskSet, NoFile

\* An answer is right when the lookup found what its name means.
LEMMA FoundIsRight ==
    ASSUME program \in Programs, NEW id, Indexed(id, allTypes, qualIndex), NEW a,
           Head(a.name) \notin DOMAIN BuiltinIds =>
             /\ IsValid(a.tid) /\ (Legal \/ Len(a.name) = 1) =>
                  \E t \in Types \ Bad : MeansFor(a) = {t} /\ a.tid = id[t]
             /\ Legal /\ (\E t : MeansFor(a) = {t}) => IsValid(a.tid)
    PROVE  RightFor(a)
  <1>1. \A f, name : MeaningAt(f, name) \subseteq Types
    BY MeaningIs
  <1>2. MeansFor(a) \subseteq Types
    BY <1>1 DEF MeansFor, FirstTypePrefix
  <1>3. IsFiniteSet(MeansFor(a))
    BY <1>2, TypesFinite, FS_Subset
  <1>4. Cardinality(MeansFor(a)) = 1 <=> \E t : MeansFor(a) = {t}
    BY <1>3, Counting
  <1>5. \A t \in Types \ Bad : MeansFor(a) = {t} /\ a.tid = id[t] => Declared(a.tid) = MeansFor(a)
    BY DeclaredIs
  <1> QED  BY <1>4, <1>5 DEF RightFor

\* The task at hand.
LEMMA HeadIs ==
    ASSUME NEW kind, Doing(kind), work \in Seq(TaskSet)
    PROVE  LET t == Head(work)
           IN  /\ t \in TaskSet /\ t.kind = kind /\ t.name \in QualifiedName
               /\ Head(t.name) = t.name[1] /\ Tail(work) \in Seq(TaskSet)
               /\ IF kind = "predef" THEN t.file = NoFile ELSE t.file \in DOMAIN program
               /\ kind = "own" => /\ Len(t.name) = 1
                                  /\ \E i \in DOMAIN program[t.file].types :
                                       t.name[1] = program[t.file].types[i].name
               /\ kind = "string" => t.name = JavaLangString
  <1>1. work # <<>> /\ Head(work).kind = kind
    BY DEF Doing
  <1>2. Head(work) \in TaskSet /\ Tail(work) \in Seq(TaskSet)
    BY <1>1
  <1>3. PICK t \in TaskSet : t = Head(work)
    BY <1>2
  <1>4. /\ t.name \in QualifiedName /\ t.kind = kind
        /\ IF t.kind = "predef" THEN t.file = NoFile ELSE t.file \in DOMAIN program
        /\ t.kind = "own" => \E i \in DOMAIN program[t.file].types : t.name = <<program[t.file].types[i].name>>
        /\ t.kind = "string" => t.name = JavaLangString
    BY <1>1, <1>3 DEF TaskSet
  <1>5. Head(t.name) = t.name[1]
    BY <1>4 DEF QualifiedName
  <1>6. kind = "own" => /\ Len(t.name) = 1
                        /\ \E i \in DOMAIN program[t.file].types :
                             t.name[1] = program[t.file].types[i].name
    <2> SUFFICES ASSUME kind = "own"
                 PROVE  /\ Len(t.name) = 1
                        /\ \E i \in DOMAIN program[t.file].types :
                             t.name[1] = program[t.file].types[i].name
      OBVIOUS
    <2>1. PICK i \in DOMAIN program[t.file].types : t.name = <<program[t.file].types[i].name>>
      BY <1>4
    <2>2. PICK n : n = program[t.file].types[i].name /\ t.name = <<n>>
      BY <2>1
    <2>3. Len(<<n>>) = 1 /\ <<n>>[1] = n
      OBVIOUS
    <2> QED  BY <2>2, <2>3
  <1> QED  BY <1>2, <1>3, <1>4, <1>5, <1>6

\* A lookup keeps the cache right, and its answer is right if it found what its
\* name means.
LEMMA AnswerIs ==
    ASSUME NEW kind, Doing(kind), NEW res, NEW reported, NEW dropped, Finish(res, reported, dropped)
    PROVE  /\ (answer').kind = kind /\ (answer').file = Head(work).file
           /\ (answer').name = Head(work).name /\ (answer').tid = res.tid
           /\ (answer').cached <=> /\ Len(Head(work).name) = 1
                                /\ <<Head(work).file, Head(work).name[1]>> \in DOMAIN cache
  BY DEF Doing, Finish

LEMMA FinishStep ==
    ASSUME IndexInv, NamesInv, NEW kind, Doing(kind),
           NEW res, NEW reported, NEW dropped,
           Finish(res, reported, dropped), Remembers(res.cache), RightFor(answer')
    PROVE  NamesInv'
  <1>1. /\ phase \in Passes /\ phase' = phase /\ UNCHANGED <<program, index>>
        /\ cache' = res.cache /\ work' = Tail(work)
    BY DEF Finish, Doing, Passes
  <1>2. Head(work).kind = kind /\ Tail(work) \in Seq(TaskSet)
    BY HeadIs DEF NamesInv
  <1>3. program' = program
    BY <1>1
  <1>4. (work \in Seq(TaskSet))'
    BY <1>1, <1>2, <1>3, TasksStay
  <1>5. Remembers(cache)'
    BY <1>1, CacheStays
  <1>6. NamesRight'
    <2> QED  BY <1>1, RightStays
  <1>7. phase' \in Passes
    BY <1>1
  <1> QED  BY <1>4, <1>5, <1>6, <1>7 DEF NamesInv, Passes

LEMMA PassesReady ==
    ASSUME IndexInv, phase \in Passes
    PROVE  /\ program \in Programs
           /\ \E id : Scoped(id) /\ Indexed(id, allTypes, qualIndex)
  BY DEF IndexInv, Ready, Scoped, Resolved, Passes

LEMMA GetStep ==
    ASSUME IndexInv, NamesInv, NEW kind, kind # "name", Doing(kind),
           NEW res, NEW reported, NEW dropped, Finish(res, reported, dropped),
           NEW got, got = Get(Head(work).file, Head(work).name, cache),
           res.tid = got.tid, res.cache = got.cache
    PROVE  NamesInv'
  <1>1. phase \in Passes
    BY DEF Doing, Passes
  <1>2. program \in Programs
    BY <1>1, PassesReady
  <1>3. PICK id : Scoped(id) /\ Indexed(id, allTypes, qualIndex)
    BY <1>1, PassesReady
  <1>4. PICK f \in DOMAIN program \cup {NoFile}, name \in QualifiedName :
           f = Head(work).file /\ name = Head(work).name /\ Head(name) = name[1]
    <2>1. PICK t \in TaskSet : /\ t = Head(work) /\ t.name \in QualifiedName
                               /\ Head(t.name) = t.name[1]
                               /\ t.file \in DOMAIN program \cup {NoFile}
      BY HeadIs DEF NamesInv
    <2> QED  BY <2>1
  <1>5. Remembers(cache)
    BY <1>1 DEF NamesInv
  <1>6. res.tid = Get(f, name, cache).tid /\ res.cache = Get(f, name, cache).cache
    BY <1>4
  <1>7. Remembers(res.cache)
    BY <1>5, <1>6, GetRemembers
  <1>8. PICK a : a = answer'
    OBVIOUS
  <1>9. /\ a.kind = kind /\ a.file = f /\ a.name = name /\ a.tid = res.tid
        /\ MeansFor(a) = MeaningAt(f, name)
    BY <1>4, <1>8, AnswerIs DEF MeansFor
  <1>10. name[1] \notin DOMAIN BuiltinIds =>
             /\ IsValid(res.tid) /\ (Legal \/ Len(name) = 1) =>
                  \E t \in Types \ Bad : MeaningAt(f, name) = {t} /\ res.tid = id[t]
             /\ Legal /\ (\E t : MeaningAt(f, name) = {t}) => IsValid(res.tid)
    <2>1. ASSUME name[1] \notin DOMAIN BuiltinIds
          PROVE  LET tid == Get(f, name, cache).tid
                 IN  /\ IsValid(tid) /\ (Legal \/ Len(name) = 1) =>
                          \E t \in Types \ Bad : MeaningAt(f, name) = {t} /\ tid = id[t]
                     /\ Legal /\ (\E t : MeaningAt(f, name) = {t}) => IsValid(tid)
      BY <1>3, <1>5, <2>1, GetRight
    <2> QED  BY <1>6, <2>1
  <1>11. RightFor(a)
    BY <1>2, <1>3, <1>4, <1>9, <1>10, FoundIsRight
  <1> QED  BY <1>4, <1>7, <1>8, <1>11, FinishStep

LEMMA TryStep ==
    ASSUME IndexInv, NamesInv, Doing("name"),
           NEW res, NEW reported, NEW dropped, Finish(res, reported, dropped),
           res = TryPrefixes(Head(work).file, Head(work).name, cache)
    PROVE  NamesInv'
  <1>1. phase \in Passes
    BY DEF Doing, Passes
  <1>2. program \in Programs
    BY <1>1, PassesReady
  <1>3. PICK id : Scoped(id) /\ Indexed(id, allTypes, qualIndex)
    BY <1>1, PassesReady
  <1>4. PICK f \in DOMAIN program, name \in QualifiedName :
           f = Head(work).file /\ name = Head(work).name /\ Head(name) = name[1]
    <2>1. PICK t \in TaskSet : /\ t = Head(work) /\ t.name \in QualifiedName
                               /\ Head(t.name) = t.name[1] /\ t.file \in DOMAIN program
      BY HeadIs DEF NamesInv
    <2> QED  BY <2>1
  <1>5. Remembers(cache)
    BY <1>1 DEF NamesInv
  <1>6. res = TryPrefixes(f, name, cache)
    BY <1>4
  <1>7. Remembers(res.cache)
    BY <1>5, <1>6, TryPrefixesRemembers
  <1>8. PICK a : a = answer'
    OBVIOUS
  <1>9. /\ a.kind = "name" /\ a.file = f /\ a.name = name /\ a.tid = res.tid
        /\ MeansFor(a) = FirstTypePrefix(f, name)
    BY <1>4, <1>8, AnswerIs DEF MeansFor
  <1>10. name[1] \notin DOMAIN BuiltinIds /\ (Legal \/ Len(name) = 1) =>
             /\ IsValid(res.tid) =>
                  \E t \in Types \ Bad : FirstTypePrefix(f, name) = {t} /\ res.tid = id[t]
             /\ Legal /\ (\E t : FirstTypePrefix(f, name) = {t}) => IsValid(res.tid)
    BY <1>3, <1>5, <1>6, TryPrefixesRight
  <1>11. RightFor(a)
    BY <1>2, <1>3, <1>4, <1>9, <1>10, FoundIsRight
  <1> QED  BY <1>4, <1>7, <1>8, <1>11, FinishStep

LEMMA NamesInvInit ==
    ASSUME Init
    PROVE  NamesInv
  <1>1. <<>> \in Seq(TaskSet)
    OBVIOUS
  <1> QED  BY <1>1 DEF Init, NamesInv, Passes, NamesRight

\* While the type set is built nothing is looked up.
LEMMA BuildKeeps ==
    ASSUME IndexInv, NamesInv,
           \/ ExtractTypesAndPackages \/ CheckTypePackageCollision
           \/ BuildQualifiedNameIndex \/ ResolveImports \/ ResolvePkgScope
    PROVE  NamesInv'
  <1>1. /\ phase \notin Passes /\ program' = program /\ cache' = cache /\ answer' = answer
        /\ work' = work \/ work' = VerifyTasks
    BY DEF ExtractTypesAndPackages, CheckTypePackageCollision, BuildQualifiedNameIndex,
           ResolveImports, ResolvePkgScope, Passes
  <1>2. cache' = <<>> /\ answer' = NoAnswer
    BY <1>1 DEF NamesInv
  <1>3. NamesRight'
    BY <1>2 DEF NamesRight
  <1>4. Remembers(cache)'
    <2>1. DOMAIN (cache') = {}
      BY <1>2
    <2> QED  BY <2>1 DEF Remembers
  <1>5. (work \in Seq(TaskSet))'
    BY <1>1, TasksStay, VerifyTasksIn DEF NamesInv
  <1> QED  BY <1>2, <1>3, <1>4, <1>5 DEF NamesInv

LEMMA NamesInvStep ==
    ASSUME IndexInv, NamesInv, [Next]_vars
    PROVE  NamesInv'
  <1>1. CASE \/ ExtractTypesAndPackages \/ CheckTypePackageCollision
             \/ BuildQualifiedNameIndex \/ ResolveImports \/ ResolvePkgScope
    BY <1>1, BuildKeeps
  <1>2. CASE Verify
    BY <1>2, GetStep, QuietIs DEF Verify
  <1>3. CASE Own
    BY <1>3, GetStep, QuietIs DEF Own
  <1>4. CASE Super
    BY <1>4, GetStep DEF Super
  <1>5. CASE Member
    BY <1>5, GetStep DEF Member
  <1>6. CASE LocalType
    BY <1>6, GetStep DEF LocalType
  <1>7. CASE NameExpr
    BY <1>7, TryStep DEF NameExpr
  <1>8. CASE StringLit
    <2>1. Doing("string") /\ work \in Seq(TaskSet)
      BY <1>8 DEF StringLit, NamesInv
    <2>2. Head(work).name = JavaLangString
      BY <2>1, HeadIs
    <2> QED  BY <1>8, <2>2, GetStep, QuietIs DEF StringLit
  <1>9. CASE Skip \/ NextPass \/ UNCHANGED vars
    <2>1. /\ UNCHANGED <<program, index>> /\ cache' = cache
          /\ answer' = NoAnswer \/ answer' = answer
          /\ phase' \in Passes <=> phase \in Passes
      <3>1. CASE Skip
        BY <3>1 DEF Skip, index, Passes
      <3>2. CASE NextPass
        BY <3>2 DEF NextPass, index, Passes
      <3>3. CASE UNCHANGED vars
        BY <3>3 DEF vars, index, Passes
      <3> QED  BY <1>9, <3>1, <3>2, <3>3
    <2>2. program' = program /\ program \in Programs
      BY <2>1 DEF IndexInv
    <2>3. (work \in Seq(TaskSet))'
      <3>1. work' \in Seq(TaskSet)
        <4>1. CASE Skip
          <5>1. work' = Tail(work) /\ work # <<>> /\ work \in Seq(TaskSet)
            BY <4>1 DEF Skip, NamesInv
          <5> QED  BY <5>1
        <4>2. CASE NextPass
          <5>1. work' = DeclTasks \/ work' = CheckTasks \/ work' = <<>>
            BY <4>2 DEF NextPass
          <5>2. <<>> \in Seq(TaskSet)
            OBVIOUS
          <5> QED  BY <2>2, <5>1, <5>2, DeclTasksIn, CheckTasksIn
        <4>3. CASE UNCHANGED vars
          <5>1. work' = work /\ work \in Seq(TaskSet)
            BY <4>3 DEF vars, NamesInv
          <5> QED  BY <5>1
        <4> QED  BY <1>9, <4>1, <4>2, <4>3
      <3> QED  BY <2>2, <3>1, TasksStay
    <2>4. phase \in Passes => Remembers(cache)'
      BY <2>1, CacheStays DEF NamesInv
    <2>5. NamesRight'
      <3>1. answer' = NoAnswer \/ RightFor(answer')
        BY <2>1 DEF NamesInv, NamesRight, RightFor, AnswerMeans, MeansFor, Legal
      <3> QED  BY <2>1, <3>1, RightStays
    <2>6. phase' \notin Passes => cache' = <<>> /\ answer' = NoAnswer
      BY <2>1 DEF NamesInv
    <2> QED  BY <2>1, <2>3, <2>4, <2>5, <2>6 DEF NamesInv
  <1> QED  BY <1>1, <1>2, <1>3, <1>4, <1>5, <1>6, <1>7, <1>8, <1>9 DEF Next

LEMMA NamesInvAlways == Spec => []NamesInv
  <1> QED  BY NamesInvInit, NamesInvStep, IndexInvAlways, PTL DEF Spec

\* NamesRight (TypeNames): in every program, in whatever order names are looked up
\* and whatever the cache of the wildcard imports holds by then, TypeSet::Get
\* (types/typeset.cpp) finds the one type a name means by the rules of the language,
\* and none if it means none or several.
THEOREM NamesAreRight == Spec => []NamesRight
  <1>1. NamesInv => NamesRight
    BY DEF NamesInv
  <1> QED  BY <1>1, NamesInvAlways, PTL

-----------------------------------------------------------------------------
(* Every failure is explained.                                             *)

\* One of the errors is about a name in a file.
About(errs, f, name) == \E e \in errs : e.file = f /\ e.name = name

\* The failures that the cache holds have had their errors.
ExplainedInv ==
    /\ Legal => \A f \in DOMAIN program : \A n :
         <<f, n>> \in DOMAIN cache /\ ~ IsValid(cache[<<f, n>>]) =>
           About(errors \cup hushed, f, <<n>>)
    /\ FailuresExplained

\* In a legal program a simple name that is not in the cache fails with an error, and
\* a name in the scope of the file does not fail.
LEMMA SimpleFails ==
    ASSUME NEW id, Scoped(id), Legal, NEW f \in DOMAIN program, NEW n, NEW known
    PROVE  LET res == GetSimple(f, n, known)
           IN  /\ ~ IsValid(res.tid) =>
                    \/ About(res.errors, f, <<n>>)
                    \/ <<f, n>> \in DOMAIN known /\ ~ IsValid(known[<<f, n>>])
               /\ <<f, n>> \in DOMAIN res.cache \ DOMAIN known =>
                    res.tid = res.cache[<<f, n>>]
               /\ <<f, n>> \in DOMAIN fileScope => IsValid(res.tid)
  <1> DEFINE res == GetSimple(f, n, known)
             wild == WildcardLookup(f, n, known)
             pkg == program[f].package
  <1>1. program \in Programs /\ Resolved(id) /\ ImportsDone /\ PackagesDone
    BY DEF Scoped, Resolved
  <1>2. f # NoFile
    BY <1>1, FilesAre
  <1>3. \/ n \in DOMAIN BuiltinIds /\ res = Result(BuiltinIds[n], {}, {}, known)
        \/ <<f, n>> \in DOMAIN fileScope /\ res = Result(fileScope[<<f, n>>], {}, {}, known)
        \/ /\ <<f, n>> \notin DOMAIN fileScope
           /\ \/ <<pkg, n>> \in DOMAIN pkgScope /\ res = Result(pkgScope[<<pkg, n>>], {}, {}, known)
              \/ <<f, n>> \in DOMAIN known /\ res = Result(known[<<f, n>>], {}, {}, known)
              \/ res = wild
    BY <1>2 DEF GetSimple
  <1>4. ASSUME ~ IsValid(wild.tid)
        PROVE  About(wild.errors, f, <<n>>)
    <2> DEFINE found == Matches(f, n)
               tid == IF Cardinality(found) = 1
                        THEN LET w == CHOOSE w \in found : TRUE IN pkgScope[<<w[2], n>>]
                        ELSE ErrorBase
               errs == IF found = {} THEN {Err("UnknownTypename", f, <<n>>)}
                       ELSE IF Cardinality(found) > 1 THEN {Err("AmbiguousType", f, <<n>>)}
                       ELSE {}
    <2>1. wild.tid = tid /\ wild.errors = errs /\ WildTid(f, n) = tid
      BY ResultIs DEF WildcardLookup, WildTid
    <2>2. IsFiniteSet(found) /\ (Cardinality(found) = 1 => IsValid(WildTid(f, n)))
      BY <1>1, MatchesAre, WildTidRight
    <2>3. Cardinality(found) # 1
      BY <1>4, <2>1, <2>2
    <2> HIDE DEF found, tid
    <2>4. found = {} \/ Cardinality(found) > 1
      <3>1. Cardinality(found) \in Nat /\ (Cardinality(found) = 0 <=> found = {})
        BY <2>2, FS_CardinalityType, FS_EmptySet
      <3> QED  BY <2>3, <3>1
    <2> HIDE DEF wild
    <2> QED  BY <2>1, <2>4, ErrIs DEF About
  <1>5. wild.cache = [x \in DOMAIN known \cup {<<f, n>>} |->
                        IF x \in DOMAIN known THEN known[x] ELSE wild.tid]
    <2>1. wild.cache = Extend(known, [k \in {<<f, n>>} |-> wild.tid])
      BY ResultIs DEF WildcardLookup
    <2> HIDE DEF wild
    <2> QED  BY <2>1 DEF Extend
  <1> HIDE DEF res, wild, pkg
  <1>6. n \in DOMAIN BuiltinIds => IsValid(BuiltinIds[n])
    BY BuiltinAssumption
  <1>7. <<f, n>> \in DOMAIN fileScope => IsValid(fileScope[<<f, n>>])
    BY <1>1, FileScopeRight
  <1>8. ASSUME ~ IsValid(res.tid)
        PROVE  \/ About(res.errors, f, <<n>>)
               \/ <<f, n>> \in DOMAIN known /\ ~ IsValid(known[<<f, n>>])
    <2>1. <<pkg, n>> \in DOMAIN pkgScope => IsValid(pkgScope[<<pkg, n>>])
      BY <1>1, PkgScopeRight
    <2> QED  BY <1>3, <1>4, <1>6, <1>7, <1>8, <2>1, ResultIs
  <1>9. <<f, n>> \in DOMAIN res.cache \ DOMAIN known => res.tid = res.cache[<<f, n>>]
    BY <1>3, <1>5, ResultIs
  <1>10. <<f, n>> \in DOMAIN fileScope => IsValid(res.tid)
    BY <1>3, <1>6, <1>7, ResultIs
  <1> QED  BY <1>8, <1>9, <1>10 DEF res

\* The same of any name; a failure that is new in the cache comes with its error,
\* reported or thrown away.
LEMMA GetFails ==
    ASSUME NEW id, Scoped(id), Legal, NEW f \in DOMAIN program, NEW name \in QualifiedName, NEW known
    PROVE  LET res == Get(f, name, known)
               key == <<f, name[1]>>
           IN  /\ ~ IsValid(res.tid) =>
                    \/ About(res.errors, f, name)
                    \/ Len(name) = 1 /\ key \in DOMAIN known /\ ~ IsValid(known[key])
               /\ key \in DOMAIN res.cache \ DOMAIN known /\ ~ IsValid(res.cache[key]) =>
                    About(res.errors \cup res.lost, f, <<name[1]>>)
               /\ Len(name) = 1 /\ key \in DOMAIN fileScope => IsValid(res.tid)
  <1>1. program \in Programs /\ Resolved(id)
    BY DEF Scoped, Resolved
  <1> DEFINE first == GetSimple(f, name[1], known)
             key == <<f, name[1]>>
             res == Get(f, name, known)
  <1>2. PICK n : n = name[1]
    OBVIOUS
  <1>3. LET got == GetSimple(f, n, known)
        IN  /\ ~ IsValid(got.tid) =>
                 \/ About(got.errors, f, <<n>>)
                 \/ <<f, n>> \in DOMAIN known /\ ~ IsValid(known[<<f, n>>])
            /\ <<f, n>> \in DOMAIN got.cache \ DOMAIN known =>
                 got.tid = got.cache[<<f, n>>]
            /\ <<f, n>> \in DOMAIN fileScope => IsValid(got.tid)
    BY SimpleFails
  <1>4. /\ ~ IsValid(first.tid) =>
             \/ About(first.errors, f, <<name[1]>>)
             \/ key \in DOMAIN known /\ ~ IsValid(known[key])
        /\ key \in DOMAIN first.cache \ DOMAIN known => first.tid = first.cache[key]
        /\ key \in DOMAIN fileScope => IsValid(first.tid)
    BY <1>2, <1>3
  <1>5. ASSUME key \in DOMAIN first.cache \ DOMAIN known, ~ IsValid(first.cache[key])
        PROVE  About(first.errors, f, <<name[1]>>)
    <2> HIDE DEF first, key
    <2> QED  BY <1>4, <1>5
  <1>6. CASE Len(name) = 1
    <2>1. name = <<name[1]>>
      BY <1>6 DEF QualifiedName
    <2>2. res = first
      BY <1>6 DEF Get
    <2> HIDE DEF first, res, key
    <2>3. /\ ~ IsValid(res.tid) =>
               \/ About(res.errors, f, name)
               \/ Len(name) = 1 /\ key \in DOMAIN known /\ ~ IsValid(known[key])
          /\ key \in DOMAIN res.cache \ DOMAIN known /\ ~ IsValid(res.cache[key]) =>
               About(res.errors \cup res.lost, f, <<name[1]>>)
          /\ key \in DOMAIN fileScope => IsValid(res.tid)
      BY <1>4, <1>5, <1>6, <2>1, <2>2 DEF About
    <2> QED  BY <2>3 DEF res, key
  <1>7. CASE Len(name) # 1
    <2>1. /\ name \notin DOMAIN qualIndex => res.errors = {Err("UnknownTypename", f, name)}
          /\ name \in DOMAIN qualIndex /\ qualIndex[name] # ErrorBase =>
               IF IsValid(first.tid) THEN res.errors = {Err("TypeWithTypePrefix", f, name)}
                                     ELSE res.tid = qualIndex[name]
      BY <1>7, ResultIs, QuietIs DEF Get, GetQualified
    <2>2. \/ res.cache = known
          \/ res.cache = first.cache /\ res.lost = first.lost \cup first.errors
      BY <1>7, ResultIs, QuietIs DEF Get, GetQualified
    <2>3. name \in DOMAIN qualIndex => IsValid(qualIndex[name]) /\ qualIndex[name] # ErrorBase
      BY <1>1, QualifiedRight
    <2> HIDE DEF res, first, key
    <2>4. ~ IsValid(res.tid) => About(res.errors, f, name)
      BY <2>1, <2>3, ErrIs DEF About
    <2>5. key \in DOMAIN res.cache \ DOMAIN known /\ ~ IsValid(res.cache[key]) =>
               About(res.errors \cup res.lost, f, <<name[1]>>)
      BY <1>5, <2>2 DEF About
    <2> QED  BY <1>7, <2>4, <2>5 DEF res, key
  <1> QED  BY <1>6, <1>7

\* So it is with the prefixes of a name, tried one after the other.
LEMMA TriesFail ==
    ASSUME NEW id, Scoped(id), Legal, NEW f \in DOMAIN program, NEW name \in QualifiedName,
           NEW known, Remembers(known)
    PROVE  LET res == TryPrefixes(f, name, known)
               key == <<f, name[1]>>
           IN  key \in DOMAIN res.cache \ DOMAIN known /\ ~ IsValid(res.cache[key]) =>
                 About(res.lost, f, <<name[1]>>)
  <1> DEFINE N == Len(name)
             key == <<f, name[1]>>
             Right(res) ==
               /\ Remembers(res.cache)
               /\ key \in DOMAIN res.cache \ DOMAIN known /\ ~ IsValid(res.cache[key]) =>
                    About(res.lost, f, <<name[1]>>)
  <1>1. PICK r : Tried(f, name, known, r)
    BY TriesAre
  <1> DEFINE Good == {k \in Nat : k <= N => Right(r[k])}
  <1>2. N \in Nat
    BY DEF QualifiedName
  <1>3. 0 \in Good
    <2>1. r[0].cache = known
      BY <1>1, ResultIs DEF Tried
    <2>2. Right(r[0])
      BY <2>1
    <2> HIDE DEF Right
    <2> QED  BY <2>2
  <1>4. ASSUME NEW k \in Nat, k \in Good, k + 1 <= N PROVE Right(r[k + 1])
    <2> HIDE DEF N
    <2>1. Right(r[k])
      <3> HIDE DEF Right
      <3> QED  BY <1>2, <1>4
    <2>2. PICK j \in 1..N : j = k + 1 /\ j - 1 = k
      BY <1>2, <1>4
    <2>3. PICK c : c = r[k].cache
      OBVIOUS
    <2>4. PICK q \in QualifiedName : q = SubSeq(name, 1, j) /\ q[1] = name[1]
      BY <2>2, PrefixIs DEF N
    <2>5. PICK g : g = Get(f, q, c)
      OBVIOUS
    <2>6. r[j] = IF IsValid(r[k].tid) THEN r[k] ELSE After(r[k], g)
      BY <1>1, <2>2, <2>3, <2>4, <2>5 DEF Tried, N
    <2>7. Remembers(c)
      BY <2>1, <2>3
    <2>8. Remembers(g.cache) /\ \A x \in DOMAIN c : x \in DOMAIN g.cache /\ g.cache[x] = c[x]
      <3> HIDE DEF Right
      <3> QED  BY <2>5, <2>7, GetRemembers
    <2>9. key \in DOMAIN g.cache \ DOMAIN c /\ ~ IsValid(g.cache[key]) =>
            About(g.errors \cup g.lost, f, <<name[1]>>)
      <3> HIDE DEF Right
      <3>1. LET got == Get(f, q, c)
            IN  <<f, q[1]>> \in DOMAIN got.cache \ DOMAIN c /\ ~ IsValid(got.cache[<<f, q[1]>>]) =>
                  About(got.errors \cup got.lost, f, <<q[1]>>)
        BY GetFails
      <3> QED  BY <2>4, <2>5, <3>1
    <2> HIDE DEF key
    <2>10. CASE IsValid(r[k].tid)
      <3> HIDE DEF Right
      <3> QED  BY <2>1, <2>2, <2>6, <2>10
    <2>11. CASE ~ IsValid(r[k].tid)
      <3>1. r[j].cache = g.cache /\ r[j].lost = r[k].lost \cup g.lost \cup g.errors
        BY <2>6, <2>11, AfterIs
      <3>2. ASSUME key \in DOMAIN g.cache \ DOMAIN known, ~ IsValid(g.cache[key])
            PROVE  About(r[j].lost, f, <<name[1]>>)
        <4>1. CASE key \in DOMAIN c
          <5>1. ~ IsValid(c[key])
            BY <2>8, <3>2, <4>1
          <5>2. About(r[k].lost, f, <<name[1]>>)
            BY <2>1, <2>3, <3>2, <4>1, <5>1
          <5> QED  BY <3>1, <5>2 DEF About
        <4>2. CASE key \notin DOMAIN c
          <5>1. About(g.errors \cup g.lost, f, <<name[1]>>)
            BY <2>9, <3>2, <4>2
          <5> QED  BY <3>1, <5>1 DEF About
        <4> QED  BY <4>1, <4>2
      <3> QED  BY <2>2, <2>8, <3>1, <3>2
    <2> QED  BY <2>10, <2>11
  <1>5. Right(r[N])
    <2> HIDE DEF Right, N
    <2>1. \A k \in Nat : k \in Good => k + 1 \in Good
      BY <1>2, <1>4
    <2>2. N \in Good
      <3> HIDE DEF Good
      <3> QED  BY <1>2, <1>3, <2>1, SetInduction
    <2> QED  BY <1>2, <2>2
  <1>6. TryPrefixes(f, name, known) = r[N]
    BY <1>1 DEF Tried
  <1> QED  BY <1>5, <1>6

\* A lookup keeps every failure explained if its own is, and that of the name it adds
\* to the cache.
LEMMA ExplainStep ==
    ASSUME NamesInv, ExplainedInv, NEW kind, Doing(kind),
           NEW res, NEW reported, NEW dropped, Finish(res, reported, dropped),
           NEW f, f = Head(work).file, NEW name, name = Head(work).name,
           NEW n, DOMAIN res.cache \subseteq DOMAIN cache \cup {<<f, n>>},
           \A k \in DOMAIN cache : res.cache[k] = cache[k],
           Legal /\ ~ IsValid(res.tid) =>
             \/ About(errors \cup reported, f, name)
             \/ /\ kind # "own" /\ Len(name) = 1 /\ <<f, name[1]>> \in DOMAIN cache
                /\ About(hushed, f, name),
           Legal /\ <<f, n>> \in DOMAIN res.cache \ DOMAIN cache
             /\ f \in DOMAIN program /\ ~ IsValid(res.cache[<<f, n>>]) =>
               About(errors \cup reported \cup hushed \cup res.lost, f, <<n>>)
    PROVE  ExplainedInv'
  <1>1. /\ cache' = res.cache /\ errors' = errors \cup reported
        /\ hushed' = hushed \cup res.lost /\ program' = program
    BY DEF Finish
  <1>2. \A g, m : About(errors \cup hushed, g, m) => About(errors' \cup hushed', g, m)
    BY <1>1 DEF About
  <1>3. Legal' = Legal
    BY <1>1, ProgramStays
  <1>4. ASSUME Legal, NEW g \in DOMAIN program, NEW m, <<g, m>> \in DOMAIN (cache'),
               ~ IsValid((cache')[<<g, m>>])
        PROVE  About(errors' \cup hushed', g, <<m>>)
    <2>1. CASE <<g, m>> \in DOMAIN cache
      <3>1. (cache')[<<g, m>>] = cache[<<g, m>>]
        BY <1>1, <2>1
      <3>2. About(errors \cup hushed, g, <<m>>)
        BY <1>4, <2>1, <3>1 DEF ExplainedInv
      <3> QED  BY <1>2, <3>2
    <2>2. CASE <<g, m>> \notin DOMAIN cache
      <3>1. <<g, m>> = <<f, n>>
        BY <1>1, <1>4, <2>2
      <3>2. g = f /\ m = n
        BY <3>1
      <3>3. About(errors \cup reported \cup hushed \cup res.lost, f, <<n>>)
        BY <1>1, <1>4, <2>2, <3>1, <3>2
      <3>4. errors \cup reported \cup hushed \cup res.lost = errors' \cup hushed'
        BY <1>1
      <3> QED  BY <3>2, <3>3, <3>4
    <2> QED  BY <2>1, <2>2
  <1>5. FailuresExplained'
    <2>1. /\ (answer').kind = kind /\ (answer').file = f /\ (answer').name = name
          /\ (answer').tid = res.tid
          /\ (answer').cached <=> Len(name) = 1 /\ <<f, name[1]>> \in DOMAIN cache
      BY AnswerIs
    <2>2. About(hushed, f, name) => About(hushed', f, name)
      BY <1>1 DEF About
    <2>3. Legal /\ ~ IsValid((answer').tid) =>
            \/ About(errors', f, name)
            \/ (answer').cached /\ (answer').kind # "own" /\ About(hushed', f, name)
      BY <1>1, <2>1, <2>2
    <2>4. S!LegalDeclarations(program)' = Legal
      BY <1>3 DEF Legal
    <2> QED  BY <2>1, <2>3, <2>4 DEF FailuresExplained, About, IsValid, ErrorBase
  <1>6. DOMAIN program' = DOMAIN program
    BY <1>1
  <1>7. \A g \in DOMAIN program : \A m :
           Legal /\ <<g, m>> \in DOMAIN (cache') /\ ~ IsValid((cache')[<<g, m>>]) =>
             About(errors' \cup hushed', g, <<m>>)
    BY <1>4
  <1>8. Legal' => \A g \in DOMAIN program' : \A m :
           <<g, m>> \in DOMAIN (cache') /\ ~ (cache'[<<g, m>>] > 1) =>
             \E e \in errors' \cup hushed' : e.file = g /\ e.name = <<m>>
    <2>1. PICK known, met : known = cache' /\ met = errors' \cup hushed'
      OBVIOUS
    <2>2. \A g \in DOMAIN program : \A m :
            Legal /\ <<g, m>> \in DOMAIN known /\ ~ (known[<<g, m>>] > 1) =>
              \E e \in met : e.file = g /\ e.name = <<m>>
      BY <1>7, <2>1 DEF About, IsValid, ErrorBase
    <2>3. ASSUME Legal', NEW g \in DOMAIN program', NEW m,
                 <<g, m>> \in DOMAIN known, ~ (known[<<g, m>>] > 1)
          PROVE  \E e \in met : e.file = g /\ e.name = <<m>>
      <3>1. Legal /\ g \in DOMAIN program
        BY <1>3, <1>6, <2>3
      <3> QED  BY <2>2, <2>3, <3>1
    <2> QED  BY <2>1, <2>3
  <1> QED  BY <1>5, <1>8 DEF ExplainedInv, About, IsValid, ErrorBase

\* What reports its failure, or all of its errors, explains it.
LEMMA GetExplains ==
    ASSUME IndexInv, NamesInv, ExplainedInv, NEW kind, kind # "name", kind # "predef", Doing(kind),
           NEW res, NEW reported, NEW dropped, Finish(res, reported, dropped),
           NEW f, f = Head(work).file, NEW name, name = Head(work).name,
           NEW got, got = Get(f, name, cache), res.tid = got.tid, res.cache = got.cache,
           got.errors \cup got.lost \subseteq reported \cup res.lost,
           Legal /\ ~ IsValid(res.tid) =>
             About(reported, f, name) \/ (kind # "own" /\ got.errors \subseteq reported)
    PROVE  ExplainedInv'
  <1>1. phase \in Passes
    BY DEF Doing, Passes
  <1>2. PICK id : Scoped(id)
    BY <1>1, PassesReady
  <1>3. f \in DOMAIN program /\ name \in QualifiedName
    BY HeadIs DEF NamesInv
  <1>4. Remembers(cache)
    BY <1>1 DEF NamesInv
  <1>5. /\ DOMAIN got.cache \subseteq DOMAIN cache \cup {<<f, name[1]>>}
        /\ \A k \in DOMAIN cache : got.cache[k] = cache[k]
    BY <1>3, <1>4, GetRemembers
  <1>6. Legal =>
           /\ ~ IsValid(got.tid) =>
                \/ About(got.errors, f, name)
                \/ /\ Len(name) = 1 /\ <<f, name[1]>> \in DOMAIN cache
                   /\ ~ IsValid(cache[<<f, name[1]>>])
           /\ <<f, name[1]>> \in DOMAIN got.cache \ DOMAIN cache
                /\ ~ IsValid(got.cache[<<f, name[1]>>]) =>
                About(got.errors \cup got.lost, f, <<name[1]>>)
    BY <1>2, <1>3, GetFails
  <1>7. Len(name) = 1 => name = <<name[1]>>
    BY <1>3 DEF QualifiedName
  <1>8. ASSUME Legal, ~ IsValid(res.tid)
        PROVE  \/ About(errors \cup reported, f, name)
               \/ /\ kind # "own" /\ Len(name) = 1 /\ <<f, name[1]>> \in DOMAIN cache
                  /\ About(hushed, f, name)
    <2>1. CASE About(reported, f, name)
      BY <2>1 DEF About
    <2>2. CASE kind # "own" /\ got.errors \subseteq reported
      <3>1. CASE About(got.errors, f, name)
        BY <2>2, <3>1 DEF About
      <3>2. CASE /\ Len(name) = 1 /\ <<f, name[1]>> \in DOMAIN cache
                 /\ ~ IsValid(cache[<<f, name[1]>>])
        <4>1. About(errors \cup hushed, f, <<name[1]>>)
          BY <1>3, <1>8, <3>2 DEF ExplainedInv
        <4>2. About(errors \cup hushed, f, name)
          BY <1>7, <3>2, <4>1
        <4>3. About(errors, f, name) \/ About(hushed, f, name)
          BY <4>2 DEF About
        <4>4. About(errors, f, name) => About(errors \cup reported, f, name)
          BY DEF About
        <4> QED  BY <2>2, <3>2, <4>3, <4>4
      <3> QED  BY <1>6, <1>8, <3>1, <3>2
    <2> QED  BY <1>8, <2>1, <2>2
  <1>9. ASSUME Legal, <<f, name[1]>> \in DOMAIN got.cache \ DOMAIN cache,
               ~ IsValid(got.cache[<<f, name[1]>>])
        PROVE  About(errors \cup reported \cup hushed \cup res.lost, f, <<name[1]>>)
    <2>1. About(got.errors \cup got.lost, f, <<name[1]>>)
      BY <1>6, <1>9
    <2> QED  BY <2>1 DEF About
  <1>10. PICK n : n = name[1]
    OBVIOUS
  <1>11. DOMAIN res.cache \subseteq DOMAIN cache \cup {<<f, n>>}
    BY <1>5, <1>10
  <1>12. \A k \in DOMAIN cache : res.cache[k] = cache[k]
    BY <1>5
  <1>13. Legal /\ <<f, n>> \in DOMAIN res.cache \ DOMAIN cache
           /\ f \in DOMAIN program /\ ~ IsValid(res.cache[<<f, n>>]) =>
             About(errors \cup reported \cup hushed \cup res.lost, f, <<n>>)
    BY <1>9, <1>10
  <1>14. Legal /\ ~ IsValid(res.tid) =>
           \/ About(errors \cup reported, f, name)
           \/ /\ kind # "own" /\ Len(name) = 1 /\ <<f, name[1]>> \in DOMAIN cache
              /\ About(hushed, f, name)
    BY <1>8
  <1>15. Doing(kind) /\ Finish(res, reported, dropped)
         /\ f = Head(work).file /\ name = Head(work).name
    OBVIOUS
  <1> QED  BY ONLY NamesInv, ExplainedInv, <1>11, <1>12, <1>13, <1>14, <1>15, ExplainStep

LEMMA VerifyExplains ==
    ASSUME IndexInv, NamesInv, ExplainedInv, Verify
    PROVE  ExplainedInv'
  <1> DEFINE t == Head(work)
             got == Get(t.file, t.name, cache)
             res == Quiet(got)
             reported == IF IsValid(res.tid) THEN {} ELSE {Err("MissingPredef", NoFile, t.name)}
  <1>1. Doing("predef") /\ Finish(res, reported, {})
    BY DEF Verify
  <1>2. t.file = NoFile /\ phase \in Passes
    BY <1>1, HeadIs DEF NamesInv, Doing, Passes
  <1>3. Remembers(cache)
    BY <1>2 DEF NamesInv
  <1>4. res.cache = cache
    <2>1. got.cache = cache
      BY <1>2, <1>3, GetRemembers
    <2> HIDE DEF got
    <2> QED  BY <2>1, QuietIs
  <1>5. ~ IsValid(res.tid) => About(errors \cup reported, t.file, t.name)
    <2>1. \/ IsValid(res.tid)
          \/ \E e \in reported : e.file = t.file /\ e.name = t.name
      BY <1>2, ErrIs
    <2> HIDE DEF res, reported, t
    <2> QED  BY <2>1 DEF About
  <1> HIDE DEF res, reported
  <1>6. PICK f, name, n, none : f = t.file /\ name = t.name /\ n = t.name[1] /\ none = {}
    OBVIOUS
  <1>7. DOMAIN res.cache \subseteq DOMAIN cache \cup {<<f, n>>}
    BY <1>4
  <1>8. \A k \in DOMAIN cache : res.cache[k] = cache[k]
    BY <1>4
  <1>9. Legal /\ ~ IsValid(res.tid) => About(errors \cup reported, f, name)
    BY <1>5, <1>6
  <1>10. <<f, n>> \notin DOMAIN res.cache \ DOMAIN cache
    BY <1>4
  <1>11. Finish(res, reported, none) /\ f = Head(work).file /\ name = Head(work).name
    BY <1>1, <1>6
  <1>12. PICK kind : kind = "predef"
    OBVIOUS
  <1> HIDE DEF t
  <1>13. Doing(kind)
    BY <1>1, <1>12
  <1> QED  BY <1>7, <1>8, <1>9, <1>10, <1>11, <1>13, ExplainStep

LEMMA NameExplains ==
    ASSUME IndexInv, NamesInv, ExplainedInv, NameExpr
    PROVE  ExplainedInv'
  <1> DEFINE t == Head(work)
             res == TryPrefixes(t.file, t.name, cache)
             reported == IF IsValid(res.tid) THEN {} ELSE {Err("UndefinedReference", t.file, t.name)}
  <1>1. Doing("name") /\ Finish(res, reported, {})
    BY DEF NameExpr
  <1>2. t.file \in DOMAIN program /\ t.name \in QualifiedName /\ phase \in Passes
    BY <1>1, HeadIs DEF NamesInv, Doing, Passes
  <1>3. Remembers(cache)
    BY <1>2 DEF NamesInv
  <1>4. PICK id : Scoped(id)
    BY <1>2, PassesReady
  <1>5. PICK f, name, n : /\ f = t.file /\ name = t.name /\ n = t.name[1] /\ n = name[1]
                          /\ f \in DOMAIN program /\ name \in QualifiedName
    BY <1>2
  <1>6. PICK got : got = TryPrefixes(f, name, cache)
    OBVIOUS
  <1>7. /\ DOMAIN got.cache \subseteq DOMAIN cache \cup {<<f, n>>}
        /\ \A k \in DOMAIN cache : got.cache[k] = cache[k]
    BY <1>3, <1>5, <1>6, TryPrefixesRemembers
  <1>8. ~ IsValid(res.tid) => About(errors \cup reported, t.file, t.name)
    <2>1. \/ IsValid(res.tid)
          \/ \E e \in reported : e.file = t.file /\ e.name = t.name
      BY ErrIs
    <2> HIDE DEF res, reported, t
    <2> QED  BY <2>1 DEF About
  <1>9. Legal /\ <<f, n>> \in DOMAIN got.cache \ DOMAIN cache /\ ~ IsValid(got.cache[<<f, n>>]) =>
          About(got.lost, f, <<n>>)
    BY <1>3, <1>4, <1>5, <1>6, TriesFail
  <1>10. res = got
    BY <1>5, <1>6
  <1>11. PICK out, none : out = reported /\ none = {}
    OBVIOUS
  <1>12. Finish(got, out, none) /\ f = Head(work).file /\ name = Head(work).name
    BY <1>1, <1>5, <1>10, <1>11
  <1>13. Legal /\ ~ IsValid(got.tid) => About(errors \cup out, f, name)
    BY <1>5, <1>8, <1>10, <1>11
  <1>14. Legal /\ <<f, n>> \in DOMAIN got.cache \ DOMAIN cache
           /\ f \in DOMAIN program /\ ~ IsValid(got.cache[<<f, n>>]) =>
             About(errors \cup out \cup hushed \cup got.lost, f, <<n>>)
    BY <1>9 DEF About
  <1>15. PICK kind : kind = "name"
    OBVIOUS
  <1> HIDE DEF t, res, reported
  <1>16. Doing(kind)
    BY <1>1, <1>15
  <1> QED  BY <1>7, <1>12, <1>13, <1>14, <1>16, ExplainStep

LEMMA ExplainedInvInit ==
    ASSUME Init
    PROVE  ExplainedInv
  BY DEF Init, ExplainedInv, FailuresExplained

\* A type of a legal program is in the scope of its file.
LEMMA OwnExplains ==
    ASSUME IndexInv, NamesInv, ExplainedInv, Own
    PROVE  ExplainedInv'
  <1>1. PICK f, name, got, res, dropped, none :
           /\ f = Head(work).file /\ name = Head(work).name /\ got = Get(f, name, cache)
           /\ res = Quiet(got) /\ Finish(res, none, dropped)
    BY DEF Own
  <1>2. PICK kind : kind = "own" /\ kind # "name" /\ kind # "predef" /\ Doing(kind)
    BY DEF Own
  <1>3. /\ Len(name) = 1 /\ f \in DOMAIN program /\ name \in QualifiedName
        /\ \E i \in DOMAIN program[f].types : name[1] = program[f].types[i].name
    BY <1>1, <1>2, HeadIs DEF NamesInv
  <1>4. PICK id : Scoped(id)
    BY <1>2, PassesReady DEF Doing, Passes
  <1>5. <<f, name[1]>> \in DOMAIN fileScope
    <2>1. ImportsDone
      BY <1>4 DEF Scoped
    <2>2. \E p \in FileTypes(f) : p[1] = name[1]
      <3>1. PICK i \in DOMAIN program[f].types : name[1] = program[f].types[i].name
        BY <1>3
      <3>2. PICK tid : tid = MustResolve(LongName(program[f].package, program[f].types[i].name))
        OBVIOUS
      <3>3. <<program[f].types[i].name, tid>> \in FileTypes(f)
        BY <3>1, <3>2 DEF FileTypes
      <3> QED  BY <3>1, <3>3
    <2> QED  BY <1>3, <2>1, <2>2, FileScopeIs
  <1>6. Legal => IsValid(got.tid)
    BY <1>1, <1>3, <1>4, <1>5, GetFails
  <1>7. /\ res.tid = got.tid /\ res.cache = got.cache
        /\ got.errors \cup got.lost \subseteq none \cup res.lost
    BY <1>1, QuietIs
  <1>8. Finish(res, none, dropped) /\ f = Head(work).file /\ name = Head(work).name
        /\ got = Get(f, name, cache)
    BY <1>1
  <1> QED  BY <1>2, <1>6, <1>7, <1>8, GetExplains

\* The lookups that report their errors.
LEMMA ReportedExplains ==
    ASSUME IndexInv, NamesInv, ExplainedInv, Super \/ Member \/ LocalType
    PROVE  ExplainedInv'
  <1>1. PICK f, name, got, dropped, reported :
           /\ f = Head(work).file /\ name = Head(work).name /\ got = Get(f, name, cache)
           /\ reported = got.errors /\ Finish(got, reported, dropped)
    BY DEF Super, Member, LocalType
  <1>2. PICK kind : kind # "name" /\ kind # "predef" /\ kind # "own" /\ Doing(kind)
    <2>1. Doing("super") \/ Doing("member") \/ Doing("type")
      BY DEF Super, Member, LocalType
    <2> QED  BY <2>1
  <1>3. /\ got.errors \cup got.lost \subseteq reported \cup got.lost
        /\ got.errors \subseteq reported
    BY <1>1
  <1>4. Finish(got, reported, dropped) /\ f = Head(work).file /\ name = Head(work).name
        /\ got = Get(f, name, cache)
    BY <1>1
  <1> QED  BY <1>2, <1>3, <1>4, GetExplains

LEMMA StringExplains ==
    ASSUME IndexInv, NamesInv, ExplainedInv, StringLit
    PROVE  ExplainedInv'
  <1>1. PICK kind : kind = "string" /\ kind # "name" /\ kind # "predef" /\ Doing(kind)
    BY DEF StringLit
  <1>2. Head(work).name = JavaLangString
    BY <1>1, HeadIs DEF NamesInv
  <1>3. PICK f, name, got, res, none, reported :
           /\ f = Head(work).file /\ name = Head(work).name /\ got = Get(f, name, cache)
           /\ res = Quiet(got) /\ Finish(res, reported, none)
           /\ reported = IF IsValid(res.tid) THEN {} ELSE {Err("NoString", f, name)}
    BY <1>2 DEF StringLit
  <1>4. ~ IsValid(res.tid) => About(reported, f, name)
    BY <1>3, ErrIs DEF About
  <1>5. /\ res.tid = got.tid /\ res.cache = got.cache
        /\ got.errors \cup got.lost \subseteq reported \cup res.lost
    BY <1>3, QuietIs
  <1>6. Finish(res, reported, none) /\ f = Head(work).file /\ name = Head(work).name
        /\ got = Get(f, name, cache)
    BY <1>3
  <1>7. Legal /\ ~ IsValid(res.tid) =>
          About(reported, f, name) \/ (kind # "own" /\ got.errors \subseteq reported)
    BY <1>4
  <1>8. kind # "name" /\ kind # "predef" /\ Doing(kind) /\ res.tid = got.tid /\ res.cache = got.cache
    BY <1>1, <1>5
  <1>9. got.errors \cup got.lost \subseteq reported \cup res.lost
    BY <1>5
  <1> QED  BY <1>6, <1>7, <1>8, <1>9, GetExplains

LEMMA ExplainedInvStep ==
    ASSUME IndexInv, NamesInv, ExplainedInv, [Next]_vars
    PROVE  ExplainedInv'
  <1>1. CASE \/ ExtractTypesAndPackages \/ CheckTypePackageCollision
             \/ BuildQualifiedNameIndex \/ ResolveImports \/ ResolvePkgScope
    <2>1. phase \notin Passes /\ cache' = cache /\ answer' = answer
      BY <1>1 DEF ExtractTypesAndPackages, CheckTypePackageCollision, BuildQualifiedNameIndex,
                  ResolveImports, ResolvePkgScope, Passes
    <2>2. cache' = <<>> /\ answer' = NoAnswer
      BY <2>1 DEF NamesInv
    <2>3. DOMAIN (cache') = {}
      BY <2>2
    <2> QED  BY <2>2, <2>3 DEF ExplainedInv, FailuresExplained
  <1>2. CASE Verify
    BY <1>2, VerifyExplains
  <1>3. CASE Own
    BY <1>3, OwnExplains
  <1>4. CASE Super \/ Member \/ LocalType
    BY <1>4, ReportedExplains
  <1>5. CASE NameExpr
    BY <1>5, NameExplains
  <1>6. CASE StringLit
    BY <1>6, StringExplains
  <1>7. CASE Skip \/ NextPass \/ UNCHANGED vars
    <2>1. /\ program' = program /\ cache' = cache /\ errors' = errors /\ hushed' = hushed
          /\ answer' = NoAnswer \/ answer' = answer
      <3>1. CASE Skip
        BY <3>1 DEF Skip
      <3>2. CASE NextPass
        BY <3>2 DEF NextPass
      <3>3. CASE UNCHANGED vars
        BY <3>3 DEF vars
      <3> QED  BY <1>7, <3>1, <3>2, <3>3
    <2>2. Legal' = Legal
      BY <2>1, ProgramStays
    <2>3. FailuresExplained'
      <3>1. CASE answer' = NoAnswer
        BY <3>1 DEF FailuresExplained
      <3>2. CASE answer' = answer
        BY <2>1, <2>2, <3>2 DEF ExplainedInv, FailuresExplained, Legal, IsValid, ErrorBase
      <3> QED  BY <2>1, <3>1, <3>2
    <2>4. DOMAIN program' = DOMAIN program
      BY <2>1
    <2> QED  BY <2>1, <2>2, <2>3, <2>4 DEF ExplainedInv, About, IsValid, ErrorBase
  <1> QED  BY <1>1, <1>2, <1>3, <1>4, <1>5, <1>6, <1>7 DEF Next

LEMMA ExplainedInvAlways == Spec => []ExplainedInv
  <1> QED  BY ExplainedInvInit, ExplainedInvStep, IndexInvAlways, NamesInvAlways, PTL DEF Spec

\* FailuresExplained (TypeNames): in every legal program a type finds itself, and a
\* lookup of a pass that finds nothing has an error about its name in its file, reported then or
\* before; except that TypeSet::Get (types/typeset.cpp) may give a simple name's failure
\* again from the cache of the wildcard imports, after a lookup that met the error
\* and threw it away.
THEOREM FailuresAreExplained == Spec => []FailuresExplained
  <1>1. ExplainedInv => FailuresExplained
    BY DEF ExplainedInv
  <1> QED  BY <1>1, ExplainedInvAlways, PTL
=============================================================================
