-------------------------- MODULE ObjectLayoutProofs --------------------------
(***************************************************************************)
(* Member tables and the layout of objects.                                *)
(*                                                                         *)
(* For every program and every set of bodies, the checks that              *)
(* MemberTables.tla makes between a type and its direct parents are enough *)
(* for all the types above it (AcceptedIsLegal).  The inductive invariant  *)
(* says, for a program without errors so far, of every table that is done  *)
(* (TypeDone) and of the one being built (TypeBegun) that each method of   *)
(* every type above it is still there, or a method that may take its place *)
(* (Covers).  The case that decides is InheritedTwice: two entries of one  *)
(* id may differ in visibility, and must not where the method kept would   *)
(* be the less visible one.                                                *)
(*                                                                         *)
(* For every program that is accepted, the fields of an object lie apart   *)
(* (FieldsApart of ObjectLayout.tla), a call finds the implementation the  *)
(* object's class has (DispatchRight), and no method is missing but one    *)
(* that an abstract class leaves to others (FailsOnlyForAbstract).  The    *)
(* inductive invariant of the first says of every class laid out that the  *)
(* fields of the classes above it end where its own may begin (ClassLaid). *)
(* Dispatch rests on two.  While the tables are built, an entry of a class *)
(* comes from the lowest class above it that declares the method, and      *)
(* takes the place of the entry of the class above (DInv).  While the      *)
(* offsets are given, the methods of a class laid out fill the slots of    *)
(* its vtable one each, and have the slots they have in the classes above  *)
(* it (VtableLaid of MethodsInv); at the end the methods of interfaces     *)
(* have one place for each signature (ItablesLaid).                        *)
(***************************************************************************)
EXTENDS ObjectLayout, TypeHierarchyProofs, ProofLemmas, FiniteSetTheorems

-----------------------------------------------------------------------------
(* The hierarchy of a program without errors.                              *)

Clean == errors = {} /\ pruned = {} /\ cycles = {}

\* The kinds PruneInvalidGraphEdges asks of the parents of a type.
Valid(t) ==
    /\ decls[t].kind = "interface" =>
          \A i \in 1..Len(decls[t].extends) : decls[decls[t].extends[i]].kind # "class"
    /\ decls[t].kind # "interface" =>
          /\ \A i \in 1..Len(decls[t].implements) : decls[decls[t].implements[i]].kind # "class"
          /\ \A i \in 1..Len(decls[t].extends) : decls[decls[t].extends[i]].kind # "interface"

\* The first parent of a class is a class, its others are interfaces.  The parents
\* of an interface are interfaces or Object, and only Object has none.
FromInterface(t) == decls[t].kind = "interface" \/ t = Object
Kinded(t) ==
    /\ t # Object => edges[t] # << >>
    /\ decls[t].kind = "class" /\ edges[t] # << >> => decls[edges[t][1]].kind = "class"
    /\ \A k \in 1..Len(edges[t]) :
          /\ decls[t].kind = "interface" \/ k > 1 => FromInterface(edges[t][k])
          /\ decls[t].kind = "class" /\ k > 1 => decls[edges[t][k]].kind = "interface"

KindsInv ==
    /\ decls \in Programs
    /\ pruned = {} =>
          /\ phase = "prune" => \A t \in 1..(next - 1) : Valid(t)
          /\ phase # "prune" => \A t \in Types : Kinded(t)

HInv == IInv /\ EarlyInv /\ KindsInv

-----------------------------------------------------------------------------
(* What the tables hold.                                                   *)

TablesOK ==
    /\ bodies \in Bodies /\ \A t \in Types : Writable(t, bodies[t])
    /\ at \in Nat \ {0} /\ step \in {"begin", "parent", "method"} /\ par \in Nat \ {0}
    /\ own \subseteq MethodInfo
    /\ cur_mid \in Nat \ {0}
    /\ tables \in [Types -> SUBSET MethodInfo]
    /\ bad_methods = [t \in Types |-> bad_methods[t]]
    /\ phase # "done" => at = 1 /\ step = "begin"
    /\ step # "begin" => at <= Len(sorted) /\ par <= Len(edges[This]) + 1
    /\ step = "method" =>
          par <= Len(edges[This]) /\ todo \subseteq {m.sig : m \in tables[FromParent]}
    /\ errors = {} => bad_names = {} /\ \A t \in Types : bad_methods[t] = {}

\* A method id stands for one declaration.
Held == own \union UNION {tables[t] : t \in Types}
MidsInv ==
    /\ \A x \in Held : x.mid < cur_mid
    /\ \A x, y \in Held : x.mid = y.mid => x.owner = y.owner /\ x.sig = y.sig

OneEach(table) == \A x, y \in table : x.sig = y.sig => x = y
SingleDecl(t) == Duplicated(t) = {}

\* What an entry keeps of the declaration it is made of.  Only abstract methods
\* become public (Overriding).
Keeps(x, m) ==
    /\ x.sig = m.sig /\ x.returns = m.returns /\ x.static = m.static /\ x.final = m.final
    /\ x.abstract = (m.abstract \/ decls[x.owner].kind = "interface")
    /\ x.protected => m.protected
    /\ m.protected => x.protected \/ m.abstract
EntryOf(x) == \E m \in bodies[x.owner].methods : Keeps(x, m)

\* An entry may take the place of a method that d declares.
Fits(x, d, m) ==
    /\ x.sig = m.sig /\ x.returns = m.returns
    /\ x.owner # d => ~x.static /\ ~m.static
    /\ m.final => x.final
    /\ x.protected => m.protected
Covers(table, d, m) == \E x \in table : Fits(x, d, m)

\* A declaration may override another.
Legal(m, n) ==
    m.sig = n.sig /\ n.sig # Constructor => ~n.final /\ (m.protected => n.protected)

TypeDone(t) ==
    /\ OneEach(tables[t]) /\ SingleDecl(t)
    /\ \A x \in tables[t] : Below(t, x.owner) /\ EntryOf(x)
    /\ \A d \in Types : Below(t, d) =>
          \A m \in bodies[d].methods : m.sig # Constructor => Covers(tables[t], d, m)
    /\ \A e \in Types : Below(t, e) /\ e # t =>
          \A m \in bodies[t].methods, n \in bodies[e].methods : Legal(m, n)
    /\ t = Object => \A m \in bodies[t].methods : ~m.abstract

\* The types whose methods of a signature the loop over the parents has met.
SeenBefore(d) == d = This \/ \E k \in 1..(par - 1) : Below(edges[This][k], d)
Seen(d, s) ==
    SeenBefore(d) \/ (step = "method" /\ s \notin todo /\ Below(FromParent, d))

OwnKept ==
    \A m \in bodies[This].methods :
       \E x \in own : x.owner = This /\ Keeps(x, m) /\ (m.protected => x.protected)

TypeBegun ==
    /\ OneEach(own) /\ SingleDecl(This) /\ OwnKept
    /\ \A x \in own : Seen(x.owner, x.sig) /\ EntryOf(x)
    /\ \A d \in Types : \A m \in bodies[d].methods :
          Seen(d, m.sig) /\ m.sig # Constructor => Covers(own, d, m)
    /\ \A e \in Types : \A m \in bodies[This].methods, n \in bodies[e].methods :
          Seen(e, n.sig) /\ e # This => Legal(m, n)

LegalSoFar ==
    Clean /\ phase = "done" =>
       /\ \A i \in 1..Len(sorted) : i < at => TypeDone(sorted[i])
       /\ step # "begin" => TypeBegun

MInv == HInv /\ TablesOK /\ MidsInv /\ LegalSoFar

-----------------------------------------------------------------------------
(* The hierarchy.                                                          *)

LEMMA ParentsKinded ==
    ASSUME TypeOK, decls \in Programs, RootsPlain, bad = {}, NEW t \in Types, Valid(t),
           NEW list, list = Parents(t)
    PROVE  /\ t # Object => list # << >>
           /\ decls[t].kind = "class" /\ list # << >> => decls[list[1]].kind = "class"
           /\ \A k \in 1..Len(list) :
                 /\ decls[t].kind = "interface" \/ k > 1 => FromInterface(list[k])
                 /\ decls[t].kind = "class" /\ k > 1 => decls[list[k]].kind = "interface"
  <1> DEFINE above == decls[t].extends
             beside == decls[t].implements
             first == IF above = << >> /\ t # Object THEN << Object >> ELSE above
  <1>1. decls[t].kind \in {"class", "interface"} /\ above \in Seq(Types) /\ beside \in Seq(Types)
    BY DEF TypeOK, Declaration
  <1>2. Object \in Types
    BY HierarchyAssumption
  <1>3. list = first \o beside
    BY DEF Parents
  <1>4. first \in Seq(Types)
    BY <1>1, <1>2
  <1>5. t # Object => Len(first) > 0
    <2>1. CASE above = << >>
      BY <2>1
    <2>2. CASE above # << >>
      BY <1>1, <2>2
    <2> QED  BY <2>1, <2>2
  <1>6. decls[t].kind = "interface" => beside = << >>
    BY ParserAssumption
  <1>7. decls[t].kind = "class" => Len(first) <= 1
    <2>1. decls[t].kind = "class" => Len(above) <= 1
      BY ParserAssumption
    <2> QED  BY <2>1
  <1>8. t = Object => first = << >> /\ beside = << >>
    BY DEF RootsPlain
  <1> DEFINE m == Len(first)
             n == Len(beside)
  <1>9. /\ list \in Seq(Types) /\ Len(list) = m + n /\ m \in Nat /\ n \in Nat
        /\ \A k \in 1..m : list[k] = first[k]
        /\ \A k \in (m + 1)..(m + n) : k - m \in 1..n /\ list[k] = beside[k - m]
    <2> HIDE DEF first, above, beside
    <2>1. list \in Seq(Types) /\ Len(list) = m + n /\ m \in Nat /\ n \in Nat
      BY <1>1, <1>3, <1>4
    <2>2. \A k \in 1..m : list[k] = first[k]
      BY <1>1, <1>3, <1>4, ConcatProperties
    <2>3. \A k \in (m + 1)..(m + n) : k - m \in 1..n /\ list[k] = beside[k - m]
      BY <1>1, <1>3, <1>4, <2>1, ConcatProperties
    <2> QED  BY <2>1, <2>2, <2>3
  <1>12. list \in Seq(Types) /\ \A k \in 1..Len(list) : list[k] \in Types
    <2>1. list \in Seq(Types)
      BY <1>9
    <2> HIDE DEF m, n, first, above, beside
    <2> QED  BY <2>1
  <1>10. t # Object => list # << >>
    <2> HIDE DEF first, beside
    <2> QED  BY <1>5, <1>9
  <1>11. ASSUME NEW k \in 1..Len(list), decls[t].kind = "interface" \/ k > 1
         PROVE  /\ FromInterface(list[k])
                /\ decls[t].kind = "class" => decls[list[k]].kind = "interface"
    <2>1. CASE decls[t].kind = "interface"
      <3>1. n = 0
        BY <1>6, <2>1
      <3>2. k \in 1..m
        <4> HIDE DEF m, n
        <4> QED  BY <1>9, <3>1
      <3>3. list[k] = first[k]
        BY <1>9, <3>2
      <3>4. CASE above = << >> /\ t # Object
        <4>1. first = << Object >> /\ k = 1
          BY <3>2, <3>4
        <4> QED  BY <2>1, <3>3, <4>1 DEF FromInterface
      <3>5. CASE ~(above = << >> /\ t # Object)
        <4>1. first = above
          BY <3>5
        <4>2. list[k] \in Types
          BY <1>12
        <4>3. decls[list[k]].kind # "class"
          BY <2>1, <3>2, <3>3, <4>1 DEF Valid
        <4> QED  BY <2>1, <4>2, <4>3 DEF TypeOK, Declaration, FromInterface
      <3> QED  BY <3>4, <3>5
    <2>2. CASE decls[t].kind = "class" /\ k > 1
      <3>1. k \in (m + 1)..(m + n)
        <4>1. m <= 1
          BY <1>7, <2>2
        <4> HIDE DEF m, n
        <4> QED  BY <1>9, <2>2, <4>1
      <3>2. k - m \in 1..n /\ list[k] = beside[k - m]
        BY <1>9, <3>1
      <3>3. list[k] \in Types
        BY <1>12
      <3>4. decls[list[k]].kind # "class"
        BY <2>2, <3>2 DEF Valid
      <3> QED  BY <3>3, <3>4 DEF TypeOK, Declaration, FromInterface
    <2> QED  BY <1>1, <1>11, <2>1, <2>2
  <1>13. ASSUME decls[t].kind = "class", list # << >>
         PROVE  decls[list[1]].kind = "class"
    <2>1. t # Object /\ 1 \in 1..m
      <3>1. t # Object
        BY <1>3, <1>8, <1>13
      <3> HIDE DEF first
      <3> QED  BY <1>5, <1>9, <3>1
    <2>2. list[1] = first[1]
      BY <1>9, <2>1
    <2>3. CASE above = << >>
      <3>1. list[1] = Object
        BY <2>1, <2>2, <2>3
      <3> QED  BY <3>1 DEF RootsPlain
    <2>4. CASE above # << >>
      <3>1. first = above
        BY <2>4
      <3>4. 1 \in 1..Len(list)
        BY <1>12, <1>13
      <3>2. 1 \in 1..Len(above) /\ list[1] \in Types /\ list[1] = above[1]
        BY <1>12, <2>1, <2>2, <3>1, <3>4
      <3>3. decls[list[1]].kind # "interface"
        BY <1>13, <3>2 DEF Valid
      <3> QED  BY <3>2, <3>3 DEF TypeOK, Declaration
    <2> QED  BY <2>3, <2>4
  <1> QED  BY <1>10, <1>11, <1>13

LEMMA NotInvalid ==
    ASSUME TypeOK, bad = {}, NEW t \in Types, ~Invalid(t)
    PROVE  Valid(t)
  <1>1. DOMAIN decls[t].extends = 1..Len(decls[t].extends)
        /\ DOMAIN decls[t].implements = 1..Len(decls[t].implements)
    BY DEF TypeOK, Declaration
  <1> QED  BY <1>1 DEF Invalid, SomeAre, Valid

LEMMA KindsKeep ==
    ASSUME IInv, EarlyInv, KindsInv, [Next]_vars
    PROVE  KindsInv'
  <1>0. decls' = decls
    BY DEF Next, vars, Prune, BuildGraph, Start, Finish, ParentBad, ParentGood, ParentOpen,
           ParentNew, Fail, Succeed
  <1>1. CASE Prune
    <2>1. pruned' = {} => pruned = {} /\ bad = {} /\ ~Invalid(next)
      BY <1>1 DEF Prune, IInv, SearchInv, PruneFirst
    <2>2. pruned' = {} => Valid(next)
      BY <1>1, <2>1, NotInvalid DEF Prune, IInv
    <2>3. phase = "prune" /\ phase' = "prune" /\ next' = next + 1 /\ next \in Types
      BY <1>1 DEF Prune
    <2>4. \A t \in Types : Valid(t)' <=> Valid(t)
      BY <1>0 DEF Valid
    <2>5. next \in 1..NumTypes /\ NumTypes \in Nat
      BY <2>3, HierarchyAssumption DEF Types
    <2>6. \A t \in 1..(next' - 1) : t \in Types /\ (t \in 1..(next - 1) \/ t = next)
      BY <2>3, <2>5 DEF Types
    <2>7. pruned' = {} => \A t \in 1..(next' - 1) : Valid(t)'
      BY <2>1, <2>2, <2>3, <2>4, <2>6 DEF KindsInv
    <2> QED  BY <1>0, <2>3, <2>7 DEF KindsInv
  <1>2. CASE BuildGraph
    <2>1. /\ bad = pruned /\ pruned' = pruned /\ phase = "prune" /\ phase' = "search"
          /\ next \notin Types /\ edges' = [t \in Types |-> Parents(t)]
      BY <1>2 DEF BuildGraph, IInv, SearchInv, PruneFirst
    <2>2. ASSUME pruned = {}, NEW t \in Types
          PROVE  Kinded(t)'
      <3>1. next = NumTypes + 1
        BY <2>1, HierarchyAssumption DEF IInv, TypeOK, Types
      <3>2. t \in 1..(next - 1)
        BY <3>1, HierarchyAssumption DEF Types
      <3>3. Valid(t)
        BY <2>1, <2>2, <3>2 DEF KindsInv
      <3>4. PICK list : list = Parents(t)
        OBVIOUS
      <3>5. /\ t # Object => list # << >>
            /\ decls[t].kind = "class" /\ list # << >> => decls[list[1]].kind = "class"
            /\ \A k \in 1..Len(list) :
                  /\ decls[t].kind = "interface" \/ k > 1 => FromInterface(list[k])
                  /\ decls[t].kind = "class" /\ k > 1 => decls[list[k]].kind = "interface"
        BY <2>1, <2>2, <3>3, <3>4, ParentsKinded DEF KindsInv, IInv, EarlyInv
      <3>6. edges'[t] = list
        BY <2>1, <3>4
      <3> QED  BY <1>0, <3>5, <3>6 DEF Kinded, FromInterface
    <2> QED  BY <1>0, <2>1, <2>2 DEF KindsInv
  <1>3. CASE phase # "prune" /\ [Next]_vars
    <2>1. phase' # "prune" /\ UNCHANGED <<edges, pruned>>
      BY <1>3 DEF Next, vars, Prune, BuildGraph, Start, Finish, ParentBad, ParentGood, ParentOpen,
           ParentNew, AtEdge, Fail, Succeed
    <2> QED  BY <1>0, <1>3, <2>1 DEF KindsInv, Kinded, FromInterface
  <1>4. CASE phase = "prune" /\ ~Prune /\ ~BuildGraph
    <2>1. UNCHANGED vars
      BY <1>4 DEF Next, Start, Finish, ParentBad, ParentGood, ParentOpen, ParentNew, AtEdge, Fail, Succeed
    <2>2. UNCHANGED <<decls, phase, next, pruned, edges>>
      BY <2>1 DEF vars
    <2>3. \A t : Valid(t)' <=> Valid(t)
      BY <2>2 DEF Valid
    <2> QED  BY <1>4, <2>2, <2>3 DEF KindsInv
  <1> QED  BY <1>1, <1>2, <1>3, <1>4

LEMMA HInit == Init => HInv
  <1>1. Init => KindsInv
    BY DEF Init, KindsInv
  <1> QED  BY <1>1, InitHolds, EarlyInit DEF HInv

LEMMA HNext == HInv /\ [Next]_vars => HInv'
  BY StepsKeep, EarlyKeeps, KindsKeep DEF HInv

LEMMA BelowItself ==
    ASSUME NEW c
    PROVE  Below(c, c)
  BY DEF Below

LEMMA BelowAbove ==
    ASSUME NEW a, NEW b, NEW c, Below(a, b), Below(b, c)
    PROVE  Below(a, c)
  BY DEF Below

LEMMA BelowParent ==
    ASSUME NEW t, NEW p \in ParentsOf(t), NEW a, Below(p, a)
    PROVE  Below(t, a)
  BY DEF Below, Upward

\* What is above a type is above one of its parents, but for the type itself.
LEMMA AboveSomeParent ==
    ASSUME TypeOK, NEW t \in Types, NEW a, Below(t, a), a # t
    PROVE  \E p \in ParentsOf(t) : Below(p, a)
  <1> DEFINE S == {t} \union {x \in Types : \E p \in ParentsOf(t) : Below(p, x)}
  <1>1. t \in S /\ S \in SUBSET Types
    OBVIOUS
  <1>2. Upward(S)
    <2> SUFFICES ASSUME NEW x \in S, NEW q \in ParentsOf(x)
                 PROVE  q \in S
      BY DEF Upward
    <2>1. q \in Types
      BY <1>1, ParentsAreTypes
    <2>2. CASE x = t
      BY <2>1, <2>2, BelowItself
    <2>3. CASE x # t
      <3>1. PICK p \in ParentsOf(t) : Below(p, x)
        BY <2>3
      <3>2. Below(x, q)
        BY BelowItself, BelowParent
      <3> QED  BY <2>1, <3>1, <3>2, BelowAbove
    <2> QED  BY <2>2, <2>3
  <1> QED  BY <1>1, <1>2 DEF Below

\* What is above a type of the order comes no later in it.
LEMMA AboveIsEarlier ==
    ASSUME TypeOK, TopSorted, NEW i \in 1..Len(sorted), NEW a, Below(sorted[i], a)
    PROVE  \E j \in 1..i : sorted[j] = a
  <1>1. sorted \in Seq(Types) /\ Len(sorted) \in Nat /\ DOMAIN sorted = 1..Len(sorted)
    BY DEF TypeOK
  <1> DEFINE S == {sorted[j] : j \in 1..i}
  <1>2. S \in SUBSET Types
    BY <1>1
  <1>3. sorted[i] \in S
    OBVIOUS
  <1>4. Upward(S)
    <2> SUFFICES ASSUME NEW j \in 1..i, NEW q \in ParentsOf(sorted[j])
                 PROVE  q \in S
      BY DEF Upward
    <2>1. PICK k \in 1..(j - 1) : sorted[k] = q
      BY <1>1 DEF TopSorted
    <2>2. k \in 1..i
      OBVIOUS
    <2> QED  BY <2>1, <2>2
  <1> QED  BY <1>2, <1>3, <1>4 DEF Below

LEMMA NotAboveItsParent ==
    ASSUME TypeOK, TopSorted, NEW i \in 1..Len(sorted), NEW p \in ParentsOf(sorted[i])
    PROVE  ~Below(p, sorted[i])
  <1>1. sorted \in Seq(Types) /\ Len(sorted) \in Nat /\ DOMAIN sorted = 1..Len(sorted)
    BY DEF TypeOK
  <1>2. PICK j \in 1..(i - 1) : sorted[j] = p
    BY <1>1 DEF TopSorted
  <1>3. j \in 1..Len(sorted)
    BY <1>1
  <1>4. SUFFICES ASSUME Below(p, sorted[i]) PROVE FALSE
    OBVIOUS
  <1>5. PICK k \in 1..j : sorted[k] = sorted[i]
    BY <1>2, <1>3, <1>4, AboveIsEarlier
  <1>6. k \in 1..Len(sorted) /\ k # i
    BY <1>1
  <1> QED  BY <1>1, <1>5, <1>6 DEF TopSorted

\* A program without errors: every type is in the order, and only the first parent
\* of a class leads to other classes than Object.
Graph == HInv /\ pruned = {} /\ cycles = {} /\ phase = "done"

LEMMA EveryTypeSorted ==
    ASSUME Graph, NEW t \in Types
    PROVE  \E i \in 1..Len(sorted) : sorted[i] = t
  <1> USE DEF Graph, HInv, IInv, SearchInv
  <1>1. sorted \in Seq(Types) /\ DOMAIN sorted = 1..Len(sorted) /\ Len(sorted) \in Nat
    BY DEF TypeOK
  <1>2. bad = {}
    <2>1. Blamed = {}
      BY DEF Blamed
    <2>2. ClosedBelow({})
      BY DEF ClosedBelow
    <2> QED  BY <2>1, <2>2 DEF BadExplained
  <1>3. path = << >> /\ (t \in good \/ edges[t] = << >>)
    BY <1>2 DEF LoopDone, Known
  <1>4. CASE t = Object
    <2>1. Len(sorted) >= 2 /\ sorted[1] = Object
      <3>1. path = << >> /\ << Call(TypeInfo) >> # << >>
            /\ << Call(TypeInfo), Call(Object) >> # << >>
            /\ << [Call(TypeInfo) EXCEPT !.cur = 1] >> # << >>
        BY DEF LoopDone
      <3> QED  BY <3>1 DEF EarlyInv, Begun, Stage
    <2> QED  BY <1>1, <1>4, <2>1
  <1>5. CASE t # Object
    <2>1. edges[t] # << >>
      BY <1>5 DEF KindsInv, Kinded
    <2> QED  BY <1>1, <1>3, <2>1 DEF TopSorted
  <1> QED  BY <1>4, <1>5

LEMMA AboveInterface ==
    ASSUME Graph, NEW c \in Types, NEW a, FromInterface(c), Below(c, a)
    PROVE  FromInterface(a)
  <1> DEFINE S == {t \in Types : FromInterface(t)}
  <1>1. c \in S /\ S \in SUBSET Types
    OBVIOUS
  <1>2. Upward(S)
    <2> SUFFICES ASSUME NEW t \in S, NEW q \in ParentsOf(t)
                 PROVE  q \in S
      BY DEF Upward
    <2>1. t \in Types /\ edges \in [Types -> Seq(Types)] /\ q \in Types
      BY ParentsAreTypes DEF Graph, HInv, IInv, TypeOK
    <2>2. PICK k \in 1..Len(edges[t]) : q = edges[t][k]
      BY <2>1 DEF ParentsOf
    <2>3. Kinded(t)
      BY <2>1 DEF Graph, HInv, KindsInv
    <2>4. t # Object
      <3>1. edges[Object] = << >>
        BY DEF Graph, HInv, EarlyInv, RootEdges
      <3> QED  BY <2>2, <3>1
    <2>5. decls[t].kind = "interface"
      BY <2>4 DEF FromInterface
    <2> QED  BY <2>1, <2>2, <2>3, <2>5 DEF Kinded
  <1> QED  BY <1>1, <1>2 DEF Below

LEMMA MetTwice ==
    ASSUME Graph, NEW t \in Types, NEW k \in 1..Len(edges[t]), NEW l \in 1..Len(edges[t]), k < l,
           NEW a, Below(edges[t][l], a)
    PROVE  FromInterface(a)
  <1>1. edges[t] \in Seq(Types) /\ edges[t][l] \in Types
    BY DEF Graph, HInv, IInv, TypeOK
  <1>2. Kinded(t)
    BY DEF Graph, HInv, KindsInv
  <1>3. FromInterface(edges[t][l])
    BY <1>2 DEF Kinded
  <1> QED  BY <1>1, <1>3, AboveInterface

-----------------------------------------------------------------------------
(* Types.                                                                  *)

LEMMA BuildFixes ==
    ASSUME BuildTables
    PROVE  Tabling /\ UNCHANGED <<decls, phase, next, bad, pruned, edges, cycles, good, sorted,
                                  path, failing, bodies>>
  BY DEF BuildTables, DeclareMethods, FinalParent, EnterParent, LeaveParent, EndType,
         ResolveMethod, SkipConstructor, SkipBad, Inherit, InheritedTwice, ReturnError, StaticError,
         VisibilityError, FinalError, Override, Clash, OnlyTable, AtParent, AtMethod, Resolving,
         Meeting, vars

LEMMA SortingFixes ==
    ASSUME Sorting
    PROVE  phase # "done" /\ decls' = decls /\ UNCHANGED tableVars
  BY DEF Sorting, Next, Prune, BuildGraph, Start, Finish, ParentBad, ParentGood, ParentOpen,
         ParentNew, AtEdge, Fail, Succeed

LEMMA ThisIs ==
    ASSUME HInv, TablesOK, Tabling
    PROVE  /\ at \in 1..Len(sorted) /\ sorted \in Seq(Types) /\ This \in Types
           /\ edges[This] \in Seq(Types) /\ Len(edges[This]) \in Nat
           /\ bodies[This].methods \subseteq Method
           /\ bodies \in [Types -> Body]
  <1>1. sorted \in Seq(Types) /\ edges \in [Types -> Seq(Types)]
    BY DEF HInv, IInv, TypeOK
  <1>2. at \in 1..Len(sorted) /\ This \in Types
    BY <1>1 DEF TablesOK, Tabling, This
  <1>3. bodies \in [Types -> Body]
    BY MembersAssumption DEF TablesOK
  <1> QED  BY <1>1, <1>2, <1>3 DEF Body

LEMMA FromParentIs ==
    ASSUME HInv, TablesOK, Tabling, par <= Len(edges[This])
    PROVE  /\ par \in 1..Len(edges[This])
           /\ FromParent \in Types /\ FromParent \in ParentsOf(This)
           /\ tables[FromParent] \subseteq MethodInfo
  <1>1. par \in 1..Len(edges[This]) /\ edges[This] \in Seq(Types)
    BY ThisIs DEF TablesOK
  <1>2. FromParent \in Types /\ FromParent \in ParentsOf(This)
    BY <1>1 DEF FromParent, ParentsOf
  <1> QED  BY <1>1, <1>2 DEF TablesOK

LEMMA SigIs ==
    ASSUME HInv, TablesOK, AtMethod
    PROVE  /\ Sig \in todo /\ Sig \in Signatures
           /\ Theirs \in tables[FromParent] /\ Theirs.sig = Sig /\ Theirs \in MethodInfo
           /\ With(own, Sig) # {} => Mine \in own /\ Mine.sig = Sig /\ Mine \in MethodInfo
  <1>1. /\ Tabling /\ par <= Len(edges[This]) /\ todo # {}
        /\ todo \subseteq {m.sig : m \in tables[FromParent]}
    BY DEF AtMethod, TablesOK
  <1>2. tables[FromParent] \subseteq MethodInfo
    BY <1>1, FromParentIs
  <1>3. todo \subseteq Signatures /\ todo \subseteq Nat
    BY <1>1, <1>2, MembersAssumption DEF MethodInfo, Signatures, Constructor
  <1>4. \E s \in todo : \A r \in todo : s <= r
    BY <1>1, <1>3, LeastNumber
  <1>5. Sig \in todo
    BY <1>4 DEF Sig
  <1>6. \E m \in tables[FromParent] : m.sig = Sig
    BY <1>1, <1>5
  <1>7. Theirs \in tables[FromParent] /\ Theirs.sig = Sig
    BY <1>6 DEF Theirs
  <1>8. With(own, Sig) # {} => Mine \in own /\ Mine.sig = Sig
    BY DEF With, Mine
  <1> QED  BY <1>2, <1>3, <1>5, <1>7, <1>8 DEF TablesOK

LEMMA SinglesFinite ==
    ASSUME NEW t \in Types, bodies \in [Types -> Body]
    PROVE  IsFiniteSet(Single(t)) /\ Single(t) \subseteq bodies[t].methods
           /\ bodies[t].methods \subseteq Method
  <1>1. bodies[t].methods \subseteq Method
    BY DEF Body
  <1> DEFINE S == Single(t)
             f == [m \in S |-> m.sig]
  <1>2. S \subseteq bodies[t].methods /\ \A m, n \in S : m.sig = n.sig => m = n
    BY DEF Single
  <1>3. IsFiniteSet(Signatures)
    BY MembersAssumption, FS_Interval DEF Signatures, Constructor
  <1>4. f \in [S -> Signatures]
    BY <1>1, <1>2 DEF Method
  <1>5. f \in Injection(S, Signatures)
    BY <1>2, <1>4 DEF Injection, IsInjective
  <1> HIDE DEF f, S
  <1>6. IsFiniteSet(S)
    BY <1>3, <1>5, FS_Injection
  <1> QED  BY <1>1, <1>2, <1>6 DEF S

LEMMA InfoIs ==
    ASSUME NEW t \in Types, bodies \in [Types -> Body], cur_mid \in Nat, NEW m \in Single(t)
    PROVE  /\ Cardinality(Single(t)) \in Nat
           /\ Info(t, m) \in MethodInfo /\ Info(t, m).owner = t /\ Info(t, m).sig = m.sig
           /\ cur_mid <= Info(t, m).mid /\ Info(t, m).mid < cur_mid + Cardinality(Single(t))
           /\ \A n \in Single(t) : m.sig < n.sig => Info(t, m).mid < Info(t, n).mid
  <1> DEFINE S == Single(t)
             Less(k) == {n \in S : n.sig < k.sig}
  <1>1. IsFiniteSet(S) /\ S \subseteq Method
    BY SinglesFinite
  <1>2. \A k \in S : k.sig \in Nat /\ k.sig \in Signatures
    BY <1>1, MembersAssumption DEF Method, Signatures, Constructor
  <1>3. Cardinality(S) \in Nat
    BY <1>1, FS_CardinalityType
  <1>4. ASSUME NEW k \in S
        PROVE  IsFiniteSet(Less(k)) /\ Cardinality(Less(k)) \in Nat
               /\ Cardinality(Less(k)) < Cardinality(S)
    <2> DEFINE T == Less(k)
    <2>1. T \in SUBSET S /\ T # S
      BY <1>2
    <2> HIDE DEF T, S
    <2>2. IsFiniteSet(T) /\ Cardinality(T) <= Cardinality(S) /\ Cardinality(T) # Cardinality(S)
      BY <1>1, <2>1, FS_Subset
    <2>3. Cardinality(T) \in Nat
      BY <2>2, FS_CardinalityType
    <2> QED  BY <1>3, <2>2, <2>3 DEF T
  <1>5. ASSUME NEW n \in S, m.sig < n.sig
        PROVE  Cardinality(Less(m)) < Cardinality(Less(n))
    <2> DEFINE T == Less(m)
               R == Less(n)
    <2>1. T \in SUBSET R /\ T # R
      BY <1>2, <1>5
    <2>2. IsFiniteSet(R) /\ Cardinality(R) \in Nat /\ Cardinality(T) \in Nat
      BY <1>4
    <2> HIDE DEF T, R
    <2>3. Cardinality(T) <= Cardinality(R) /\ Cardinality(T) # Cardinality(R)
      BY <2>1, <2>2, FS_Subset
    <2> QED  BY <2>2, <2>3 DEF T, R
  <1> HIDE DEF Less
  <1>6. \A k \in S : Info(t, k).mid = cur_mid + Cardinality(Less(k))
                     /\ Info(t, k).owner = t /\ Info(t, k).sig = k.sig
    BY DEF Info, Less
  <1>7. m \in Method
    BY <1>1
  <1>8. Info(t, m) \in MethodInfo
    <2>1. Info(t, m).mid \in Nat
      BY <1>4, <1>6
    <2>2. /\ m.sig \in Signatures /\ m.returns \in Nat /\ m.static \in BOOLEAN
          /\ m.protected \in BOOLEAN /\ m.final \in BOOLEAN /\ m.abstract \in BOOLEAN
      BY <1>7 DEF Method
    <2>3. NoMethod \in Nat /\ (m.abstract \/ decls[t].kind = "interface") \in BOOLEAN
      BY DEF NoMethod
    <2> QED  BY <2>1, <2>2, <2>3 DEF Info, MethodInfo
  <1>9. Cardinality(S) \in Nat /\ Info(t, m).owner = t /\ Info(t, m).sig = m.sig
    BY <1>3, <1>6
  <1>10. cur_mid <= Info(t, m).mid /\ Info(t, m).mid < cur_mid + Cardinality(S)
    <2>1. m \in S
      OBVIOUS
    <2> HIDE DEF S
    <2> QED  BY <1>3, <1>4, <1>6, <2>1
  <1>11. \A n \in S : m.sig < n.sig => Info(t, m).mid < Info(t, n).mid
    <2>1. m \in S
      OBVIOUS
    <2> HIDE DEF S
    <2> QED  BY <1>4, <1>5, <1>6, <2>1
  <1> QED  BY <1>8, <1>9, <1>10, <1>11

LEMMA OverridingIs ==
    ASSUME NEW mine \in MethodInfo, NEW theirs \in MethodInfo
    PROVE  LET new == Overriding(mine, theirs)
           IN  /\ new \in MethodInfo
               /\ new.mid = mine.mid /\ new.owner = mine.owner /\ new.sig = mine.sig
               /\ new.returns = mine.returns /\ new.static = mine.static
               /\ new.final = mine.final /\ new.abstract = mine.abstract
               /\ new.protected = (mine.protected /\ ~(BothAbstract /\ ~theirs.protected))
  <1> DEFINE p == mine.protected /\ ~(BothAbstract /\ ~theirs.protected)
             q == IF decls[FromParent].kind = "class" THEN theirs.mid ELSE mine.parent
             new == Overriding(mine, theirs)
  <1>1. p \in BOOLEAN /\ q \in Nat
    BY DEF MethodInfo
  <1>2. new = [mine EXCEPT !.protected = p, !.parent = q]
    BY DEF Overriding
  <1> HIDE DEF p, q, new
  <1>3. /\ new \in MethodInfo
        /\ new.mid = mine.mid /\ new.owner = mine.owner /\ new.sig = mine.sig
        /\ new.returns = mine.returns /\ new.static = mine.static
        /\ new.final = mine.final /\ new.abstract = mine.abstract
        /\ new.protected = p
    BY <1>1, <1>2 DEF MethodInfo
  <1> QED  BY <1>3 DEF new, p

\* What the steps on a method of the parent have in common.
LEMMA ResolveIs ==
    ASSUME HInv, TablesOK, ResolveMethod
    PROVE  /\ AtMethod /\ todo' = todo \ {Sig}
           /\ UNCHANGED <<at, step, par, cur_mid, tables, bad_methods, no_empty, bodies, vars>>
           /\ \/ own' = own /\ errors' = errors /\ bad_names' = bad_names
              \/ own' = own /\ errors' # {}
              \/ own' = own \union {Theirs} /\ errors' = errors /\ bad_names' = bad_names
              \/ /\ With(own, Sig) # {}
                 /\ own' = (own \ {Mine}) \union {Overriding(Mine, Theirs)}
                 /\ errors' = errors /\ bad_names' = bad_names
  <1> USE DEF AtMethod, Resolving, Meeting, MethodDone, OnlyTable, Clash
  <1>1. CASE SkipConstructor
    BY <1>1 DEF SkipConstructor
  <1>2. CASE SkipBad
    BY <1>2 DEF SkipBad
  <1>3. CASE Inherit
    BY <1>3 DEF Inherit
  <1>4. CASE InheritedTwice
    BY <1>4 DEF InheritedTwice
  <1>5. CASE ReturnError \/ StaticError \/ VisibilityError \/ FinalError
    BY <1>5 DEF ReturnError, StaticError, VisibilityError, FinalError
  <1>6. CASE Override
    BY <1>6 DEF Override
  <1> QED  BY <1>1, <1>2, <1>3, <1>4, <1>5, <1>6 DEF ResolveMethod

LEMMA TablesOKInit == TablesInit => TablesOK
  BY DEF TablesInit, Init, TablesOK

LEMMA TablesOKNext ==
    ASSUME HInv, TablesOK, [TablesNext]_<<vars, tableVars>>
    PROVE  TablesOK'
  <1>1. CASE UNCHANGED <<vars, tableVars>>
    <2>1. UNCHANGED <<decls, phase, edges, sorted>>
      BY <1>1 DEF vars
    <2> QED  BY <1>1, <2>1 DEF TablesOK, tableVars, Writable, This, FromParent
  <1>2. CASE Sorting
    BY <1>2, SortingFixes DEF TablesOK, tableVars, Writable, This, FromParent
  <1>3. ASSUME BuildTables
        PROVE  TablesOK'
    <2>1. /\ Tabling /\ phase = "done" /\ at <= Len(sorted)
          /\ UNCHANGED <<decls, phase, edges, sorted, bodies>>
      BY <1>3, BuildFixes DEF Tabling
    <2>2. /\ This \in Types /\ Len(edges[This]) \in Nat /\ bodies \in [Types -> Body]
          /\ Len(sorted) \in Nat
      BY <2>1, ThisIs
    <2>3. bodies' \in Bodies /\ \A t \in Types : Writable(t, bodies[t])'
      BY <2>1 DEF TablesOK, Writable
    <2>4. /\ at \in Nat \ {0} /\ par \in Nat \ {0} /\ own \subseteq MethodInfo
          /\ cur_mid \in Nat \ {0} /\ tables \in [Types -> SUBSET MethodInfo]
          /\ bad_methods = [t \in Types |-> bad_methods[t]]
          /\ errors = {} => bad_names = {} /\ \A t \in Types : bad_methods[t] = {}
      BY DEF TablesOK
    <2>5. CASE DeclareMethods
      <3>1. /\ own' = {Info(This, m) : m \in Single(This)}
            /\ bad_names' = {Name(m.sig) : m \in Duplicated(This)}
            /\ errors' = errors \union (IF Duplicated(This) = {} THEN {} ELSE {"Duplicate"})
            /\ cur_mid' = cur_mid + Cardinality(Single(This))
            /\ step' = "parent" /\ par' = 1
            /\ UNCHANGED <<at, tables, bad_methods>>
        BY <2>5 DEF DeclareMethods
      <3>2. own' \subseteq MethodInfo
        BY <2>2, <2>4, <3>1, InfoIs
      <3>3. cur_mid' \in Nat \ {0}
        BY <2>2, <2>4, <3>1, SinglesFinite, FS_CardinalityType
      <3>4. errors' = {} => bad_names' = {} /\ \A t \in Types : bad_methods'[t] = {}
        BY <2>4, <3>1
      <3> QED  BY <2>1, <2>2, <2>3, <2>4, <3>1, <3>2, <3>3, <3>4 DEF TablesOK, This
    <2>6. CASE FinalParent
      <3>1. /\ errors' # {} /\ step = "parent" /\ par <= Len(edges[This]) /\ par' = par + 1
            /\ UNCHANGED <<at, step, own, cur_mid, tables, bad_methods>>
        BY <2>6 DEF FinalParent, AtParent
      <3> QED  BY <2>1, <2>2, <2>3, <2>4, <3>1 DEF TablesOK, This
    <2>7. CASE EnterParent
      <3>1. /\ par <= Len(edges[This]) /\ step' = "method"
            /\ todo' = {m.sig : m \in tables[FromParent]}
            /\ UNCHANGED <<at, par, own, bad_names, errors, cur_mid, tables, bad_methods>>
        BY <2>7 DEF EnterParent, AtParent
      <3>2. par' <= Len(edges'[This'])
            /\ todo' \subseteq {m.sig : m \in tables'[FromParent']}
            /\ par' <= Len(edges'[This']) + 1
        BY <2>1, <2>2, <2>4, <3>1 DEF This, FromParent
      <3> QED  BY <2>1, <2>2, <2>3, <2>4, <3>1, <3>2 DEF TablesOK
    <2>8. CASE ResolveMethod
      <3>1. /\ AtMethod /\ step = "method" /\ todo' \subseteq todo
            /\ UNCHANGED <<at, step, par, cur_mid, tables, bad_methods>>
        BY <2>8, ResolveIs DEF AtMethod
      <3>2. own' \subseteq MethodInfo
        BY <2>4, <2>8, <3>1, ResolveIs, SigIs, OverridingIs
      <3>3. errors' = {} => bad_names' = {} /\ \A t \in Types : bad_methods'[t] = {}
        BY <2>4, <2>8, <3>1, ResolveIs
      <3>4. par' <= Len(edges'[This'])
            /\ todo' \subseteq {m.sig : m \in tables'[FromParent']}
        BY <2>1, <3>1 DEF This, FromParent, TablesOK
      <3>5. par' <= Len(edges'[This']) + 1
        BY <2>1, <3>1 DEF This, TablesOK
      <3> QED  BY <2>1, <2>2, <2>3, <2>4, <3>1, <3>2, <3>3, <3>4, <3>5 DEF TablesOK
    <2>9. CASE LeaveParent
      <3>1. /\ step = "method" /\ step' = "parent" /\ par' = par + 1
            /\ bad_names' = bad_names \union bad_methods[FromParent]
            /\ errors' = {} => errors = {}
            /\ UNCHANGED <<at, own, cur_mid, tables, bad_methods>>
        BY <2>9 DEF LeaveParent
      <3>2. par <= Len(edges[This]) /\ FromParent \in Types
        BY <2>1, <3>1, FromParentIs DEF TablesOK
      <3>3. errors' = {} => bad_names' = {} /\ \A t \in Types : bad_methods'[t] = {}
        BY <2>4, <3>1, <3>2
      <3> QED  BY <2>1, <2>2, <2>3, <2>4, <3>1, <3>2, <3>3 DEF TablesOK, This
    <2>10. CASE EndType
      <3>1. /\ tables' = [tables EXCEPT ![This] = own]
            /\ bad_methods' = [bad_methods EXCEPT ![This] = bad_names]
            /\ errors' = {} => errors = {}
            /\ at' = at + 1 /\ step' = "begin"
            /\ UNCHANGED <<par, own, bad_names, cur_mid>>
        BY <2>10 DEF EndType
      <3>2. tables' \in [Types -> SUBSET MethodInfo]
        BY <2>4, <3>1
      <3>3. bad_methods' = [t \in Types |-> bad_methods'[t]]
        BY <2>4, <3>1
      <3>4. errors' = {} => bad_names' = {} /\ \A t \in Types : bad_methods'[t] = {}
        BY <2>4, <3>1
      <3> QED  BY <2>1, <2>2, <2>3, <2>4, <3>1, <3>2, <3>3, <3>4 DEF TablesOK
    <2> QED  BY <1>3, <2>5, <2>6, <2>7, <2>8, <2>9, <2>10 DEF BuildTables
  <1> QED  BY <1>1, <1>2, <1>3 DEF TablesNext

-----------------------------------------------------------------------------
(* Method ids.                                                             *)

LEMMA MidsNext ==
    ASSUME HInv, TablesOK, MidsInv, [TablesNext]_<<vars, tableVars>>
    PROVE  MidsInv'
  <1>1. CASE UNCHANGED <<own, tables, cur_mid>>
    BY <1>1 DEF MidsInv, Held
  <1>2. CASE DeclareMethods
    <2>1. Tabling
      BY <1>2 DEF DeclareMethods
    <2>2. /\ own' = {Info(This, m) : m \in Single(This)}
          /\ cur_mid' = cur_mid + Cardinality(Single(This)) /\ tables' = tables
      BY <1>2 DEF DeclareMethods
    <2>3. /\ This \in Types /\ bodies \in [Types -> Body] /\ cur_mid \in Nat
          /\ tables \in [Types -> SUBSET MethodInfo]
      BY <2>1, ThisIs DEF TablesOK
    <2>4. Cardinality(Single(This)) \in Nat
      BY <2>3, SinglesFinite, FS_CardinalityType
    <2>5. ASSUME NEW x \in own'
          PROVE  /\ x \in MethodInfo /\ x.owner = This /\ cur_mid <= x.mid /\ x.mid < cur_mid'
                 /\ \A y \in own' : x.sig < y.sig => x.mid < y.mid
      BY <2>2, <2>3, <2>5, InfoIs
    <2>6. \A x \in MethodInfo : x.mid \in Nat /\ x.sig \in Nat
      BY MembersAssumption DEF MethodInfo, Signatures, Constructor
    <2>7. \A x, y \in own' : x.mid = y.mid => x.owner = y.owner /\ x.sig = y.sig
      <3> SUFFICES ASSUME NEW x \in own', NEW y \in own', x.mid = y.mid
                   PROVE  x.owner = y.owner /\ x.sig = y.sig
        OBVIOUS
      <3>1. x \in MethodInfo /\ y \in MethodInfo /\ x.owner = y.owner
        BY <2>5
      <3>2. ~(x.sig < y.sig) /\ ~(y.sig < x.sig)
        BY <2>5, <2>6, <3>1
      <3> QED  BY <2>6, <3>1, <3>2
    <2>8. Held' = own' \union UNION {tables[t] : t \in Types}
      BY <2>2 DEF Held
    <2>9. UNION {tables[t] : t \in Types} \subseteq Held \intersect MethodInfo
      BY <2>3 DEF Held
    <2>10. \A x \in Held : x.mid < cur_mid
      BY DEF MidsInv
    <2>11. \A x \in Held' : x.mid < cur_mid'
      BY <2>2, <2>3, <2>4, <2>5, <2>6, <2>8, <2>9, <2>10
    <2>12. ASSUME NEW x \in Held', NEW y \in Held', x.mid = y.mid
           PROVE  x.owner = y.owner /\ x.sig = y.sig
      <3>1. CASE x \in own' /\ y \in own'
        BY <2>7, <2>12, <3>1
      <3>2. CASE x \notin own' /\ y \notin own'
        BY <2>8, <2>9, <2>12, <3>2 DEF MidsInv
      <3>3. ~(x \in own' /\ y \notin own')
        BY <2>3, <2>5, <2>6, <2>8, <2>9, <2>10, <2>12
      <3>4. ~(y \in own' /\ x \notin own')
        BY <2>3, <2>5, <2>6, <2>8, <2>9, <2>10, <2>12
      <3> QED  BY <3>1, <3>2, <3>3, <3>4
    <2> QED  BY <2>11, <2>12 DEF MidsInv
  <1>3. CASE ResolveMethod
    <2>1. /\ cur_mid' = cur_mid /\ tables' = tables /\ Theirs \in Held
          /\ With(own, Sig) # {} => Mine \in own
      <3>1. AtMethod /\ Tabling /\ par <= Len(edges[This])
        BY <1>3, ResolveIs DEF AtMethod, TablesOK
      <3> QED  BY <1>3, <3>1, ResolveIs, SigIs, FromParentIs DEF Held
    <2>2. ASSUME With(own, Sig) # {}
          PROVE  LET new == Overriding(Mine, Theirs)
                 IN  new.mid = Mine.mid /\ new.owner = Mine.owner /\ new.sig = Mine.sig
      BY <1>3, <2>2, ResolveIs, SigIs, OverridingIs
    <2>3. \A x \in Held' : \E y \in Held :
             x.mid = y.mid /\ x.owner = y.owner /\ x.sig = y.sig
      BY <1>3, <2>1, <2>2, ResolveIs DEF Held
    <2> QED  BY <2>1, <2>3 DEF MidsInv
  <1>4. CASE EndType
    <2>1. tables' = [tables EXCEPT ![This] = own] /\ own' = own /\ cur_mid' = cur_mid
          /\ tables \in [Types -> SUBSET MethodInfo]
      BY <1>4 DEF EndType, TablesOK
    <2>2. Held' \subseteq Held
      BY <2>1 DEF Held
    <2> QED  BY <2>1, <2>2 DEF MidsInv
  <1>5. UNCHANGED <<own, tables, cur_mid>> \/ DeclareMethods \/ ResolveMethod \/ EndType
    BY DEF TablesNext, BuildTables, Sorting, tableVars, FinalParent, EnterParent, LeaveParent
  <1> QED  BY <1>1, <1>2, <1>3, <1>4, <1>5

-----------------------------------------------------------------------------
(* The tables of a program without errors so far.                          *)

Working == HInv /\ TablesOK /\ MidsInv /\ LegalSoFar /\ Clean /\ Tabling

\* What a step on the table of This does not change.
LEMMA StepFixes ==
    ASSUME BuildTables
    PROVE  /\ UNCHANGED <<phase, decls, bodies, edges, sorted, pruned, cycles>>
           /\ at' = at => This' = This
           /\ at' = at /\ par' = par => FromParent' = FromParent
           /\ \A t, a : Below(t, a)' <=> Below(t, a)
           /\ \A x, m : Keeps(x, m)' <=> Keeps(x, m)
           /\ \A x : EntryOf(x)' <=> EntryOf(x)
           /\ \A t : SingleDecl(t)' <=> SingleDecl(t)
  <1>1. UNCHANGED <<phase, decls, bodies, edges, sorted, pruned, cycles>>
    BY BuildFixes
  <1>2. /\ at' = at => This' = This
        /\ at' = at /\ par' = par => FromParent' = FromParent
    BY <1>1 DEF This, FromParent
  <1>3. \A t, a : Below(t, a)' <=> Below(t, a)
    BY <1>1 DEF Below, Upward, ParentsOf
  <1>4. \A x, m : Keeps(x, m)' <=> Keeps(x, m)
    BY <1>1 DEF Keeps
  <1>5. \A x : EntryOf(x)' <=> EntryOf(x)
    BY <1>1, <1>4 DEF EntryOf
  <1>6. \A t : SingleDecl(t)' <=> SingleDecl(t)
    BY <1>1 DEF SingleDecl, Duplicated, Single
  <1> QED  BY <1>1, <1>2, <1>3, <1>4, <1>5, <1>6

LEMMA DoneStays ==
    ASSUME BuildTables, NEW t \in Types, tables'[t] = tables[t], TypeDone(t)
    PROVE  TypeDone(t)'
  BY StepFixes DEF TypeDone, OneEach

\* The parent at hand is done, and so is every type above it.
LEMMA ParentDone ==
    ASSUME Working, par <= Len(edges[This])
    PROVE  /\ Graph /\ FromParent \in Types /\ TypeDone(FromParent)
           /\ \A d : Below(FromParent, d) => d # This /\ d \in Types /\ TypeDone(d)
  <1>1. HInv /\ TablesOK /\ LegalSoFar /\ Clean /\ Tabling /\ phase = "done"
    BY DEF Working, Tabling
  <1>2. Graph /\ TypeOK /\ TopSorted
    BY <1>1 DEF Graph, Clean, HInv, IInv
  <1>3. /\ FromParent \in Types /\ FromParent \in ParentsOf(This)
        /\ at \in 1..Len(sorted) /\ sorted \in Seq(Types) /\ Len(sorted) \in Nat
    BY <1>1, FromParentIs, ThisIs
  <1>4. PICK j \in 1..(at - 1) : sorted[j] = FromParent
    BY <1>2, <1>3 DEF TopSorted, This
  <1>5. j \in 1..Len(sorted)
    BY <1>3
  <1>6. ASSUME NEW d, Below(FromParent, d)
        PROVE  d # This /\ d \in Types /\ TypeDone(d)
    <2>1. d # This
      BY <1>2, <1>3, <1>6, NotAboveItsParent DEF This
    <2>2. PICK k \in 1..j : sorted[k] = d
      BY <1>2, <1>4, <1>5, <1>6, AboveIsEarlier
    <2>3. k \in 1..Len(sorted) /\ k < at
      BY <1>3
    <2>4. TypeDone(sorted[k])
      BY <1>1, <2>3 DEF LegalSoFar
    <2> QED  BY <1>3, <2>1, <2>2, <2>3, <2>4
  <1> QED  BY <1>2, <1>3, <1>6, BelowItself

LEMMA InfoKeeps ==
    ASSUME NEW t, NEW m
    PROVE  Keeps(Info(t, m), m) /\ (m.protected => Info(t, m).protected)
           /\ Info(t, m).owner = t
  BY DEF Info, Keeps

LEMMA DeclareBegins ==
    ASSUME Working, DeclareMethods, Clean'
    PROVE  TypeBegun'
  <1>1. /\ own' = {Info(This, m) : m \in Single(This)} /\ step' = "parent" /\ par' = 1 /\ at' = at
        /\ errors' = errors \union (IF Duplicated(This) = {} THEN {} ELSE {"Duplicate"})
    BY DEF DeclareMethods
  <1>2. BuildTables
    BY DEF BuildTables
  <1>3. SingleDecl(This) /\ Single(This) = bodies[This].methods
    BY <1>1 DEF Clean, SingleDecl, Duplicated, Single
  <1>4. \A m \in bodies[This].methods : Info(This, m) \in own'
    BY <1>1, <1>3
  <1>5. \A x \in own' : \E m \in bodies[This].methods : x = Info(This, m)
    BY <1>1, <1>3
  <1>6. \A d, s : Seen(d, s)' <=> d = This
    BY <1>1, <1>2, StepFixes DEF Seen, SeenBefore
  <1>7. \A m \in bodies[This].methods :
           Info(This, m).owner = This /\ Keeps(Info(This, m), m)
           /\ (m.protected => Info(This, m).protected)
    BY InfoKeeps
  <1>8. OneEach(own')
    <2> SUFFICES ASSUME NEW x \in own', NEW y \in own', x.sig = y.sig
                 PROVE  x = y
      BY DEF OneEach
    <2>1. PICK m \in bodies[This].methods : x = Info(This, m)
      BY <1>5
    <2>2. PICK n \in bodies[This].methods : y = Info(This, n)
      BY <1>5
    <2>3. m.sig = n.sig
      BY <1>7, <2>1, <2>2 DEF Keeps
    <2>4. m = n
      BY <1>3, <2>3 DEF Single
    <2> QED  BY <2>1, <2>2, <2>4
  <1>9. OwnKept'
    BY <1>1, <1>2, <1>4, <1>7, StepFixes DEF OwnKept
  <1>10. ASSUME NEW x \in own'
         PROVE  Seen(x.owner, x.sig)' /\ EntryOf(x)'
    <2>1. PICK m \in bodies[This].methods : x = Info(This, m)
      BY <1>5
    <2>2. x.owner = This /\ Keeps(x, m)
      BY <1>7, <2>1
    <2>3. EntryOf(x)
      BY <2>2 DEF EntryOf
    <2> QED  BY <1>2, <1>6, <2>2, <2>3, StepFixes
  <1>11. \A d \in Types : \A m \in bodies[d].methods :
            Seen(d, m.sig)' /\ m.sig # Constructor => Covers(own', d, m)
    BY <1>4, <1>6, <1>7 DEF Covers, Fits, Keeps
  <1> QED  BY <1>1, <1>2, <1>3, <1>6, <1>8, <1>9, <1>10, <1>11, StepFixes DEF TypeBegun

LEMMA EnterKeeps ==
    ASSUME Working, EnterParent, Clean'
    PROVE  TypeBegun'
  <1>1. /\ BuildTables /\ par <= Len(edges[This])
        /\ step = "parent" /\ step' = "method" /\ todo' = {m.sig : m \in tables[FromParent]}
        /\ UNCHANGED <<at, par, own>>
    BY DEF BuildTables, EnterParent, AtParent
  <1>2. TypeBegun
    BY <1>1 DEF Working, LegalSoFar, Tabling
  <1>3. \A d, s : Seen(d, s)' <=> SeenBefore(d) \/ (s \notin todo' /\ Below(FromParent, d))
    BY <1>1, StepFixes DEF Seen, SeenBefore
  <1>4. \A d, s : Seen(d, s) => Seen(d, s)'
    BY <1>1, <1>3 DEF Seen
  <1>5. ASSUME NEW d \in Types, NEW m \in bodies[d].methods, m.sig # Constructor, Seen(d, m.sig)'
        PROVE  Seen(d, m.sig)
    <2>1. CASE Below(FromParent, d)
      <3>1. Covers(tables[FromParent], d, m)
        BY <1>1, <1>5, <2>1, ParentDone DEF TypeDone
      <3>2. m.sig \in todo'
        BY <1>1, <3>1 DEF Covers, Fits
      <3> QED  BY <1>3, <1>5, <3>2 DEF Seen
    <2> QED  BY <1>3, <1>5, <2>1 DEF Seen
  <1>6. OneEach(own') /\ SingleDecl(This)' /\ OwnKept'
    BY <1>1, <1>2, StepFixes DEF TypeBegun, OwnKept
  <1>7. \A x \in own' : Seen(x.owner, x.sig)' /\ EntryOf(x)'
    BY <1>1, <1>2, <1>4, StepFixes DEF TypeBegun
  <1>8. \A d \in Types : \A m \in bodies[d].methods :
           Seen(d, m.sig)' /\ m.sig # Constructor => Covers(own', d, m)
    BY <1>1, <1>2, <1>5 DEF TypeBegun
  <1>9. \A e \in Types : \A m \in bodies[This].methods, n \in bodies[e].methods :
           Seen(e, n.sig)' /\ e # This => Legal(m, n)
    BY <1>2, <1>5 DEF TypeBegun, Legal
  <1> QED  BY <1>1, <1>6, <1>7, <1>8, <1>9, StepFixes DEF TypeBegun

LEMMA LeaveKeeps ==
    ASSUME Working, LeaveParent, Clean'
    PROVE  TypeBegun'
  <1>1. /\ BuildTables /\ step = "method" /\ todo = {} /\ step' = "parent" /\ par' = par + 1
        /\ UNCHANGED <<at, own>>
    BY DEF BuildTables, LeaveParent
  <1>2. TypeBegun /\ par \in Nat \ {0}
    BY <1>1 DEF Working, LegalSoFar, Tabling, TablesOK
  <1>3. \A d, s : Seen(d, s)' <=> Seen(d, s)
    <2>1. 1..(par' - 1) = 1..(par - 1) \union {par}
      BY <1>1, <1>2
    <2>2. \A d, s : Seen(d, s)' <=> d = This \/ \E k \in 1..(par' - 1) : Below(edges[This][k], d)
      BY <1>1, StepFixes DEF Seen, SeenBefore
    <2> QED  BY <1>1, <2>1, <2>2 DEF Seen, SeenBefore, FromParent
  <1> QED  BY <1>1, <1>2, <1>3, StepFixes DEF TypeBegun, OwnKept

\* A step on a method: what it meets, and which types it has met then.
LEMMA ResolveMeets ==
    ASSUME Working, ResolveMethod
    PROVE  /\ BuildTables /\ TypeBegun /\ AtMethod /\ par <= Len(edges[This]) /\ bad_names = {}
           /\ UNCHANGED <<at, par, tables>>
           /\ Theirs \in tables[FromParent] /\ Theirs.sig = Sig /\ Theirs \in MethodInfo
           /\ With(own, Sig) # {} => Mine \in own /\ Mine.sig = Sig /\ Mine \in MethodInfo
           /\ \A d, s : Seen(d, s)' <=> Seen(d, s) \/ (s = Sig /\ Below(FromParent, d))
  <1>1. BuildTables /\ AtMethod /\ todo' = todo \ {Sig} /\ UNCHANGED <<at, step, par, tables>>
    BY ResolveIs DEF Working, BuildTables
  <1>2. step = "method" /\ TypeBegun /\ par <= Len(edges[This]) /\ bad_names = {}
    BY <1>1 DEF Working, LegalSoFar, Tabling, TablesOK, AtMethod, Clean
  <1>3. \A d, s : Seen(d, s)' <=> Seen(d, s) \/ (s = Sig /\ Below(FromParent, d))
    <2>1. \A d : SeenBefore(d)' <=> SeenBefore(d)
      BY <1>1, StepFixes DEF SeenBefore
    <2>2. \A d, s : Seen(d, s)' <=> SeenBefore(d)
                                    \/ ((s \notin todo \/ s = Sig) /\ Below(FromParent, d))
      BY <1>1, <1>2, <2>1, StepFixes DEF Seen
    <2> QED  BY <1>2, <2>2 DEF Seen
  <1> QED  BY <1>1, <1>2, <1>3, SigIs DEF Working

\* The parent's method stands for those of all the types above it.
LEMMA TheirsFits ==
    ASSUME Working, ResolveMethod, Sig # Constructor
    PROVE  /\ Below(FromParent, Theirs.owner) /\ EntryOf(Theirs)
           /\ \A d : \A m \in bodies[d].methods :
                 Below(FromParent, d) /\ m.sig = Sig => d \in Types /\ Fits(Theirs, d, m)
  <1>1. TypeDone(FromParent) /\ Theirs \in tables[FromParent] /\ Theirs.sig = Sig
    BY ResolveMeets, ParentDone
  <1>2. Below(FromParent, Theirs.owner) /\ EntryOf(Theirs)
    BY <1>1 DEF TypeDone
  <1>3. ASSUME NEW d, NEW m \in bodies[d].methods, Below(FromParent, d), m.sig = Sig
        PROVE  d \in Types /\ Fits(Theirs, d, m)
    <2>1. d \in Types
      BY <1>3, ResolveMeets, ParentDone
    <2>2. PICK x \in tables[FromParent] : Fits(x, d, m)
      BY <1>1, <1>3, <2>1 DEF TypeDone, Covers
    <2>3. x = Theirs
      BY <1>1, <1>3, <2>2 DEF TypeDone, OneEach, Fits
    <2> QED  BY <2>1, <2>2, <2>3
  <1> QED  BY <1>2, <1>3

\* A step that keeps the own methods, and finds nothing to compare.
LEMMA OwnStays ==
    ASSUME Working, ResolveMethod, own' = own, Sig = Constructor
    PROVE  TypeBegun'
  <1>1. /\ BuildTables /\ TypeBegun /\ at' = at
        /\ \A d, s : Seen(d, s) => Seen(d, s)'
        /\ \A d, s : Seen(d, s)' /\ s # Constructor => Seen(d, s)
    BY ResolveMeets
  <1>2. OneEach(own') /\ SingleDecl(This)' /\ OwnKept'
    BY <1>1, StepFixes DEF TypeBegun, OwnKept
  <1>3. \A x \in own' : Seen(x.owner, x.sig)' /\ EntryOf(x)'
    BY <1>1, StepFixes DEF TypeBegun
  <1>4. \A d \in Types : \A m \in bodies[d].methods :
           Seen(d, m.sig)' /\ m.sig # Constructor => Covers(own', d, m)
    BY <1>1 DEF TypeBegun
  <1>5. \A e \in Types : \A m \in bodies[This].methods, n \in bodies[e].methods :
           Seen(e, n.sig)' /\ e # This => Legal(m, n)
    BY <1>1 DEF TypeBegun, Legal
  <1> QED  BY <1>1, <1>2, <1>3, <1>4, <1>5, StepFixes DEF TypeBegun

LEMMA InheritKeeps ==
    ASSUME Working, Inherit
    PROVE  TypeBegun'
  <1>1. ResolveMethod /\ Sig # Constructor /\ With(own, Sig) = {} /\ own' = own \union {Theirs}
    BY DEF Inherit, ResolveMethod, Resolving
  <1>2. /\ BuildTables /\ TypeBegun /\ at' = at /\ Theirs.sig = Sig
        /\ \A d, s : Seen(d, s)' <=> Seen(d, s) \/ (s = Sig /\ Below(FromParent, d))
    BY <1>1, ResolveMeets
  <1>3. /\ Below(FromParent, Theirs.owner) /\ EntryOf(Theirs)
        /\ \A d : \A m \in bodies[d].methods :
              Below(FromParent, d) /\ m.sig = Sig => d \in Types /\ Fits(Theirs, d, m)
    BY <1>1, TheirsFits
  <1>4. \A x \in own : x.sig # Sig
    BY <1>1 DEF With
  <1>5. OneEach(own')
    BY <1>1, <1>2, <1>4 DEF TypeBegun, OneEach
  <1>6. SingleDecl(This)' /\ OwnKept'
    BY <1>1, <1>2, StepFixes DEF TypeBegun, OwnKept
  <1>7. \A x \in own' : Seen(x.owner, x.sig)' /\ EntryOf(x)'
    BY <1>1, <1>2, <1>3, StepFixes DEF TypeBegun
  <1>8. \A d \in Types : \A m \in bodies[d].methods :
           Seen(d, m.sig)' /\ m.sig # Constructor => Covers(own', d, m)
    BY <1>1, <1>2, <1>3 DEF TypeBegun, Covers
  <1>9. \A m \in bodies[This].methods : m.sig # Sig
    BY <1>2, <1>4 DEF TypeBegun, OwnKept, Keeps
  <1>10. \A e \in Types : \A m \in bodies[This].methods, n \in bodies[e].methods :
           Seen(e, n.sig)' /\ e # This => Legal(m, n)
    BY <1>2, <1>9 DEF TypeBegun, Legal
  <1> QED  BY <1>2, <1>5, <1>6, <1>7, <1>8, <1>10, StepFixes DEF TypeBegun

\* Two entries of one id are made of the same declaration, and the one kept is
\* not less visible.
LEMMA SameEntry ==
    ASSUME Working, ResolveMethod, Sig # Constructor, With(own, Sig) # {}, Mine.mid = Theirs.mid
    PROVE  /\ Mine.owner = Theirs.owner /\ Mine.owner # This
           /\ Mine.returns = Theirs.returns /\ Mine.static = Theirs.static
           /\ Mine.final = Theirs.final /\ (Mine.protected => Theirs.protected)
  <1>1. /\ TypeBegun /\ AtMethod /\ par <= Len(edges[This])
        /\ Theirs \in tables[FromParent] /\ Theirs.sig = Sig
        /\ Mine \in own /\ Mine.sig = Sig
    BY ResolveMeets
  <1>2. /\ Graph /\ FromParent \in Types
        /\ \A d : Below(FromParent, d) => d # This /\ d \in Types /\ TypeDone(d)
    BY <1>1, ParentDone
  <1>3. Mine.owner = Theirs.owner
    <2>1. Mine \in Held /\ Theirs \in Held
      BY <1>1, <1>2 DEF Held
    <2> QED  BY <2>1 DEF Working, MidsInv
  <1>4. Below(FromParent, Theirs.owner) /\ EntryOf(Theirs)
    BY TheirsFits
  <1> DEFINE d == Theirs.owner
  <1>5. d # This /\ d \in Types /\ TypeDone(d)
    BY <1>2, <1>4
  <1>6. PICK n \in bodies[d].methods : Keeps(Theirs, n)
    BY <1>4 DEF EntryOf
  <1>7. PICK m \in bodies[d].methods : Keeps(Mine, m)
    BY <1>1, <1>3 DEF TypeBegun, EntryOf
  <1>8. m = n
    BY <1>1, <1>5, <1>6, <1>7 DEF TypeDone, SingleDecl, Duplicated, Single, Keeps
  <1>9. Mine.returns = Theirs.returns /\ Mine.static = Theirs.static /\ Mine.final = Theirs.final
    BY <1>6, <1>7, <1>8 DEF Keeps
  <1>10. ASSUME Mine.protected, ~Theirs.protected
         PROVE  FALSE
    <2>1. m.protected /\ m.abstract
      BY <1>6, <1>7, <1>8, <1>10 DEF Keeps
    <2>2. decls[d].kind # "interface"
      BY <1>5, <2>1 DEF Working, TablesOK, Writable
    <2>3. d # Object
      BY <1>5, <2>1 DEF TypeDone
    <2>4. ~FromInterface(d)
      BY <2>2, <2>3 DEF FromInterface
    <2>5. Seen(d, Sig)
      BY <1>1, <1>3 DEF TypeBegun
    <2>6. Sig \in todo
      BY <1>1, SigIs DEF Working
    <2>7. PICK k \in 1..(par - 1) : Below(edges[This][k], d)
      BY <1>5, <2>5, <2>6 DEF Seen, SeenBefore
    <2>8. par \in 1..Len(edges[This]) /\ Len(edges[This]) \in Nat /\ This \in Types
      BY <1>1, FromParentIs, ThisIs DEF Working
    <2>9. k \in 1..Len(edges[This]) /\ k < par
      BY <2>8
    <2>10. FromInterface(d)
      BY <1>2, <1>4, <2>8, <2>9, MetTwice DEF FromParent
    <2> QED  BY <2>4, <2>10
  <1> QED  BY <1>3, <1>5, <1>9, <1>10

LEMMA InheritedTwiceKeeps ==
    ASSUME Working, InheritedTwice
    PROVE  TypeBegun'
  <1>1. /\ ResolveMethod /\ Sig # Constructor /\ With(own, Sig) # {} /\ own' = own
        /\ Mine.mid = Theirs.mid
    BY DEF InheritedTwice, ResolveMethod, Resolving
  <1>2. /\ BuildTables /\ TypeBegun /\ at' = at /\ Theirs.sig = Sig /\ Mine \in own /\ Mine.sig = Sig
        /\ \A d, s : Seen(d, s)' <=> Seen(d, s) \/ (s = Sig /\ Below(FromParent, d))
    BY <1>1, ResolveMeets
  <1>3. \A d : \A m \in bodies[d].methods :
           Below(FromParent, d) /\ m.sig = Sig => d \in Types /\ Fits(Theirs, d, m)
    BY <1>1, TheirsFits
  <1>4. /\ Mine.owner = Theirs.owner /\ Mine.owner # This
        /\ Mine.returns = Theirs.returns /\ Mine.static = Theirs.static
        /\ Mine.final = Theirs.final /\ (Mine.protected => Theirs.protected)
    BY <1>1, SameEntry
  <1>5. OneEach(own') /\ SingleDecl(This)' /\ OwnKept'
    BY <1>1, <1>2, StepFixes DEF TypeBegun, OwnKept
  <1>6. \A x \in own' : Seen(x.owner, x.sig)' /\ EntryOf(x)'
    BY <1>1, <1>2, StepFixes DEF TypeBegun
  <1>7. \A d : \A m \in bodies[d].methods :
           Below(FromParent, d) /\ m.sig = Sig => Fits(Mine, d, m)
    BY <1>2, <1>3, <1>4 DEF Fits
  <1>8. \A d \in Types : \A m \in bodies[d].methods :
           Seen(d, m.sig)' /\ m.sig # Constructor => Covers(own', d, m)
    BY <1>1, <1>2, <1>7 DEF TypeBegun, Covers
  <1>9. \A m \in bodies[This].methods : m.sig # Sig
    BY <1>2, <1>4 DEF TypeBegun, OwnKept, Keeps, OneEach
  <1>10. \A e \in Types : \A m \in bodies[This].methods, n \in bodies[e].methods :
           Seen(e, n.sig)' /\ e # This => Legal(m, n)
    BY <1>2, <1>9 DEF TypeBegun, Legal
  <1> QED  BY <1>2, <1>5, <1>6, <1>8, <1>10, StepFixes DEF TypeBegun

LEMMA OverrideKeeps ==
    ASSUME Working, Override
    PROVE  TypeBegun'
  <1> DEFINE new == Overriding(Mine, Theirs)
  <1>1. /\ ResolveMethod /\ Sig # Constructor /\ With(own, Sig) # {}
        /\ own' = (own \ {Mine}) \union {new}
        /\ Mine.returns = Theirs.returns /\ ~Mine.static /\ ~Theirs.static /\ ~Theirs.final
        /\ Theirs.protected \/ ~Mine.protected \/ BothAbstract
    BY DEF Override, ResolveMethod, Meeting, Resolving, ReturnsDiffer, OneIsStatic,
           LowersVisibility, OverridesFinal
  <1>2. /\ BuildTables /\ TypeBegun /\ at' = at /\ Theirs.sig = Sig /\ Theirs \in MethodInfo
        /\ Mine \in own /\ Mine.sig = Sig /\ Mine \in MethodInfo /\ par <= Len(edges[This])
        /\ \A d, s : Seen(d, s)' <=> Seen(d, s) \/ (s = Sig /\ Below(FromParent, d))
    BY <1>1, ResolveMeets
  <1>3. /\ Below(FromParent, Theirs.owner) /\ EntryOf(Theirs)
        /\ \A d : \A m \in bodies[d].methods :
              Below(FromParent, d) /\ m.sig = Sig => d \in Types /\ Fits(Theirs, d, m)
    BY <1>1, TheirsFits
  <1>4. /\ new.owner = Mine.owner /\ new.sig = Sig
        /\ new.returns = Mine.returns /\ new.static = Mine.static /\ ~new.static
        /\ new.final = Mine.final /\ new.abstract = Mine.abstract
        /\ new.protected = (Mine.protected /\ ~(BothAbstract /\ ~Theirs.protected))
    BY <1>1, <1>2, OverridingIs
  <1>5. Mine.owner = This => ~BothAbstract
    BY DEF BothAbstract
  <1>6. new.protected => Mine.protected /\ Theirs.protected
    BY <1>1, <1>4
  <1> HIDE DEF new
  <1>7. \A x \in own : x.sig = Sig => x = Mine
    BY <1>2 DEF TypeBegun, OneEach
  <1>8. OneEach(own')
    BY <1>1, <1>2, <1>4, <1>7 DEF TypeBegun, OneEach
  <1>9. OwnKept'
    <2> SUFFICES ASSUME NEW m \in bodies[This].methods
                 PROVE  \E x \in own' : x.owner = This /\ Keeps(x, m) /\ (m.protected => x.protected)
      BY <1>2, StepFixes DEF OwnKept
    <2>1. PICK x \in own : x.owner = This /\ Keeps(x, m) /\ (m.protected => x.protected)
      BY <1>2 DEF TypeBegun, OwnKept
    <2>2. CASE x # Mine
      BY <1>1, <2>1, <2>2
    <2>3. CASE x = Mine
      <3>1. new.owner = This /\ (new.protected <=> Mine.protected)
        BY <1>4, <1>5, <2>1, <2>3
      <3>2. Keeps(new, m)
        BY <1>1, <1>2, <1>4, <2>1, <2>3, <3>1 DEF Keeps
      <3> QED  BY <1>1, <2>1, <2>3, <3>1, <3>2
    <2> QED  BY <2>2, <2>3
  <1>10. Seen(new.owner, new.sig) /\ EntryOf(new)
    <2>1. Seen(Mine.owner, Mine.sig) /\ EntryOf(Mine)
      BY <1>2 DEF TypeBegun
    <2>2. PICK m \in bodies[Mine.owner].methods : Keeps(Mine, m)
      BY <2>1 DEF EntryOf
    <2>3. m.protected => new.protected \/ m.abstract
      <3>1. m.protected => decls[Mine.owner].kind # "interface"
        BY <1>2 DEF Working, TablesOK, Writable, MethodInfo
      <3>2. BothAbstract => Mine.abstract
        BY DEF BothAbstract
      <3> QED  BY <1>4, <2>2, <3>1, <3>2 DEF Keeps
    <2>4. Keeps(new, m)
      BY <1>1, <1>2, <1>4, <1>6, <2>2, <2>3 DEF Keeps
    <2> QED  BY <1>2, <1>4, <2>1, <2>4 DEF EntryOf
  <1>11. \A x \in own' : Seen(x.owner, x.sig)' /\ EntryOf(x)'
    BY <1>1, <1>2, <1>10, StepFixes DEF TypeBegun
  <1>12. ASSUME NEW d, NEW m \in bodies[d].methods, Below(FromParent, d), m.sig = Sig
         PROVE  d \in Types /\ Fits(new, d, m) /\ ~m.final /\ (Theirs.protected => m.protected)
    <2>1. d \in Types /\ Fits(Theirs, d, m)
      BY <1>3, <1>12
    <2>2. ~m.static
      <3>1. CASE Theirs.owner # d
        BY <2>1, <3>1 DEF Fits
      <3>2. CASE Theirs.owner = d
        <4>1. PICK n \in bodies[d].methods : Keeps(Theirs, n)
          BY <1>3, <3>2 DEF EntryOf
        <4>2. SingleDecl(d)
          BY <1>2, <1>12, ParentDone DEF TypeDone
        <4>3. n = m
          BY <1>2, <1>12, <4>1, <4>2 DEF SingleDecl, Duplicated, Single, Keeps
        <4> QED  BY <1>1, <4>1, <4>3 DEF Keeps
      <3> QED  BY <3>1, <3>2
    <2>3. ~m.final /\ m.returns = Theirs.returns /\ (Theirs.protected => m.protected)
      BY <1>1, <2>1 DEF Fits
    <2> QED  BY <1>1, <1>4, <1>6, <1>12, <2>1, <2>2, <2>3 DEF Fits
  <1>13. ASSUME NEW d \in Types, NEW m \in bodies[d].methods,
                Seen(d, m.sig)', m.sig # Constructor
         PROVE  Covers(own', d, m)
    <2>1. CASE m.sig = Sig /\ Below(FromParent, d)
      BY <1>1, <1>12, <2>1 DEF Covers
    <2>2. CASE Seen(d, m.sig)
      <3>1. PICK x \in own : Fits(x, d, m)
        BY <1>2, <1>13, <2>2 DEF TypeBegun, Covers
      <3>2. CASE x # Mine
        BY <1>1, <3>1, <3>2 DEF Covers
      <3>3. CASE x = Mine
        <4>1. Fits(new, d, m)
          BY <1>2, <1>4, <1>6, <3>1, <3>3 DEF Fits
        <4> QED  BY <1>1, <4>1 DEF Covers
      <3> QED  BY <3>2, <3>3
    <2> QED  BY <1>2, <1>13, <2>1, <2>2
  <1>14. ASSUME NEW e \in Types, NEW m \in bodies[This].methods, NEW n \in bodies[e].methods,
                Seen(e, n.sig)', e # This
         PROVE  Legal(m, n)
    <2>1. CASE n.sig = Sig /\ m.sig = Sig /\ Below(FromParent, e)
      <3>1. ~n.final /\ (Theirs.protected => n.protected)
        BY <1>12, <2>1
      <3>2. PICK x \in own : x.owner = This /\ Keeps(x, m) /\ (m.protected => x.protected)
        BY <1>2 DEF TypeBegun, OwnKept
      <3>3. x = Mine
        BY <1>7, <2>1, <3>2 DEF Keeps
      <3>4. m.protected => Theirs.protected
        BY <1>1, <1>5, <3>2, <3>3
      <3> QED  BY <3>1, <3>4 DEF Legal
    <2>2. CASE n.sig = Sig /\ m.sig # Sig
      BY <2>2 DEF Legal
    <2>3. CASE Seen(e, n.sig)
      BY <1>2, <1>14, <2>3 DEF TypeBegun
    <2> QED  BY <1>2, <1>14, <2>1, <2>2, <2>3
  <1> QED  BY <1>2, <1>8, <1>9, <1>11, <1>13, <1>14, StepFixes DEF TypeBegun

LEMMA ResolveKeeps ==
    ASSUME Working, ResolveMethod, Clean'
    PROVE  TypeBegun'
  <1>1. CASE SkipConstructor
    BY <1>1, OwnStays DEF SkipConstructor
  <1>2. CASE SkipBad
    BY <1>2, ResolveMeets DEF SkipBad
  <1>3. CASE ReturnError \/ StaticError \/ VisibilityError \/ FinalError
    BY <1>3 DEF ReturnError, StaticError, VisibilityError, FinalError, Clash, Clean
  <1> QED  BY <1>1, <1>2, <1>3, InheritKeeps, InheritedTwiceKeeps, OverrideKeeps DEF ResolveMethod

\* When the parents are done with, all types above have been met.
LEMMA EndCompletes ==
    ASSUME Working, EndType, Clean'
    PROVE  /\ \E t \in Types : t = This /\ TypeDone(t)'
           /\ at \in 1..Len(sorted) /\ at' = at + 1 /\ step' = "begin"
           /\ \A t \in Types : t # This => tables'[t] = tables[t]
  <1>1. /\ BuildTables /\ step = "parent" /\ par > Len(edges[This])
        /\ tables' = [tables EXCEPT ![This] = own] /\ at' = at + 1 /\ step' = "begin"
        /\ decls[This].kind = "class" /\ ~bodies[This].abstract => \A m \in own : ~m.abstract
    BY DEF BuildTables, EndType, Clean
  <1>2. /\ at \in 1..Len(sorted) /\ This \in Types /\ Len(edges[This]) \in Nat
        /\ edges[This] \in Seq(Types)
    BY ThisIs DEF Working
  <1>3. /\ HInv /\ TypeBegun /\ par <= Len(edges[This]) + 1 /\ par \in Nat
        /\ tables \in [Types -> SUBSET MethodInfo] /\ bodies \in Bodies /\ TypeOK
    BY <1>1 DEF Working, LegalSoFar, Tabling, TablesOK, HInv, IInv
  <1>4. par - 1 = Len(edges[This])
    BY <1>1, <1>2, <1>3
  <1>5. ASSUME NEW d, NEW s
        PROVE  Seen(d, s) <=> Below(This, d)
    <2>1. Seen(d, s) <=> d = This \/ \E k \in 1..Len(edges[This]) : Below(edges[This][k], d)
      BY <1>1, <1>4 DEF Seen, SeenBefore
    <2>2. \A p : p \in ParentsOf(This) <=> \E k \in 1..Len(edges[This]) : p = edges[This][k]
      BY <1>2 DEF ParentsOf
    <2>3. Seen(d, s) <=> d = This \/ \E p \in ParentsOf(This) : Below(p, d)
      BY <2>1, <2>2
    <2> QED  BY <1>2, <1>3, <2>3, BelowItself, BelowParent, AboveSomeParent
  <1>6. tables'[This] = own /\ \A t \in Types : t # This => tables'[t] = tables[t]
    BY <1>1, <1>2, <1>3
  <1>7. ASSUME This = Object, NEW m \in bodies[This].methods
        PROVE  ~m.abstract
    <2>1. decls[This].kind = "class" /\ ~bodies[This].abstract
      BY <1>3, <1>7, MembersAssumption DEF HInv, EarlyInv, RootsPlain
    <2>2. PICK x \in own : Keeps(x, m)
      BY <1>3 DEF TypeBegun, OwnKept
    <2> QED  BY <1>1, <2>1, <2>2 DEF Keeps
  <1>8. PICK t : t = This
    OBVIOUS
  <1>9. OneEach(tables'[t]) /\ SingleDecl(t)'
    BY <1>1, <1>3, <1>6, <1>8, StepFixes DEF TypeBegun
  <1>10. \A x \in tables'[t] : Below(t, x.owner)' /\ EntryOf(x)'
    BY <1>1, <1>3, <1>5, <1>6, <1>8, StepFixes DEF TypeBegun
  <1>11. \A d \in Types : Below(t, d)' =>
            \A m \in bodies[d].methods : m.sig # Constructor => Covers(tables'[t], d, m)
    BY <1>1, <1>3, <1>5, <1>6, <1>8, StepFixes DEF TypeBegun
  <1>12. \A e \in Types : Below(t, e)' /\ e # t =>
            \A m \in bodies[t].methods, n \in bodies[e].methods : Legal(m, n)
    BY <1>1, <1>3, <1>5, <1>8, StepFixes DEF TypeBegun
  <1>13. TypeDone(t)'
    BY <1>1, <1>7, <1>8, <1>9, <1>10, <1>11, <1>12, StepFixes DEF TypeDone
  <1> QED  BY <1>1, <1>2, <1>6, <1>8, <1>13

LEMMA LegalNext ==
    ASSUME HInv, TablesOK, MidsInv, LegalSoFar, [TablesNext]_<<vars, tableVars>>
    PROVE  LegalSoFar'
  <1> SUFFICES ASSUME Clean', phase' = "done"
               PROVE  /\ (\A i \in 1..Len(sorted) : i < at => TypeDone(sorted[i]))'
                      /\ (step # "begin" => TypeBegun)'
    BY DEF LegalSoFar
  <1>1. CASE UNCHANGED <<vars, tableVars>>
    <2>1. UNCHANGED <<decls, phase, edges, sorted, pruned, cycles, bodies, tables, errors, at, step,
                      par, todo, own>>
      BY <1>1 DEF vars, tableVars
    <2>2. /\ \A t, a : Below(t, a)' <=> Below(t, a)
          /\ \A x, m : Keeps(x, m)' <=> Keeps(x, m)
          /\ \A t : SingleDecl(t)' <=> SingleDecl(t)
          /\ This' = This /\ FromParent' = FromParent
      BY <2>1 DEF Below, Upward, ParentsOf, Keeps, SingleDecl, Duplicated, Single, This, FromParent
    <2>3. \A x : EntryOf(x)' <=> EntryOf(x)
      BY <2>1, <2>2 DEF EntryOf
    <2>4. \A t : TypeDone(t)' <=> TypeDone(t)
      BY <2>1, <2>2, <2>3 DEF TypeDone
    <2>5. \A d, s : Seen(d, s)' <=> Seen(d, s)
      BY <2>1, <2>2 DEF Seen, SeenBefore
    <2>6. TypeBegun' <=> TypeBegun
      BY <2>1, <2>2, <2>3, <2>5 DEF TypeBegun, OwnKept
    <2> QED  BY <2>1, <2>4, <2>6 DEF LegalSoFar, Clean
  <1>2. CASE Sorting
    <2>1. at' = 1 /\ step' = "begin"
      BY <1>2, SortingFixes DEF tableVars, TablesOK
    <2> QED  BY <2>1
  <1>3. CASE BuildTables
    <2>1. Tabling /\ UNCHANGED <<phase, sorted, pruned, cycles>> /\ phase = "done"
      BY <1>3, BuildFixes
    <2>2. errors = {}
      BY <1>3 DEF Clean, BuildTables, DeclareMethods, FinalParent, EnterParent, LeaveParent, EndType,
         ResolveMethod, SkipConstructor, SkipBad, Inherit, InheritedTwice, ReturnError, StaticError,
         VisibilityError, FinalError, Override, Clash, OnlyTable
    <2>3. Working
      BY <2>1, <2>2 DEF Working, Clean
    <2>4. \A i \in 1..Len(sorted) : i < at => TypeDone(sorted[i])
      BY <2>1, <2>3 DEF Working, LegalSoFar
    <2>5. sorted \in Seq(Types) /\ \A i \in 1..Len(sorted) : sorted[i] \in Types
      BY DEF HInv, IInv, TypeOK
    <2>6. CASE EndType
      <3>1. /\ at' = at + 1 /\ at \in 1..Len(sorted) /\ step' = "begin"
            /\ \A t \in Types : t # This => tables'[t] = tables[t]
        BY <2>3, <2>6, EndCompletes
      <3>3. PICK u \in Types : u = This /\ TypeDone(u)'
        BY <2>3, <2>6, EndCompletes
      <3>2. ASSUME NEW i \in 1..Len(sorted), i < at'
            PROVE  TypeDone(sorted[i])'
        <4>1. PICK t : t = sorted[i]
          OBVIOUS
        <4>2. CASE i = at
          <5>1. sorted[i] = u
            BY <3>3, <4>2 DEF This
          <5> QED  BY <2>1, <3>3, <5>1
        <4>3. CASE i < at
          <5>1. t # This /\ t \in Types
            <6>1. DOMAIN sorted = 1..Len(sorted) /\ at \in DOMAIN sorted /\ i \in DOMAIN sorted
                  /\ i # at
              BY <2>5, <3>1, <4>3
            <6> QED  BY <2>5, <4>1, <6>1 DEF HInv, IInv, TopSorted, This
          <5>2. TypeDone(t)'
            BY <1>3, <2>4, <3>1, <4>1, <4>3, <5>1, DoneStays
          <5> QED  BY <2>1, <4>1, <5>2
        <4>4. i = at \/ i < at
          BY <3>1, <3>2
        <4> QED  BY <4>2, <4>3, <4>4
      <3> QED  BY <2>1, <3>1, <3>2
    <2>7. CASE ~EndType
      <3>1. at' = at /\ tables' = tables
        BY <1>3, <2>7, ResolveIs DEF BuildTables, DeclareMethods, FinalParent, EnterParent,
                                     LeaveParent
      <3>2. ASSUME NEW i \in 1..Len(sorted), i < at
            PROVE  TypeDone(sorted[i])'
        <4>1. PICK t \in Types : t = sorted[i] /\ TypeDone(t)
          BY <2>4, <2>5, <3>2
        <4>2. TypeDone(t)'
          BY <1>3, <3>1, <4>1, DoneStays
        <4> QED  BY <2>1, <4>1, <4>2
      <3>3. ~FinalParent
        BY DEF FinalParent, Clean
      <3>4. TypeBegun'
        BY <1>3, <2>3, <2>7, <3>3, DeclareBegins, EnterKeeps, LeaveKeeps, ResolveKeeps DEF BuildTables
      <3> QED  BY <2>1, <3>1, <3>2, <3>4
    <2> QED  BY <2>6, <2>7
  <1> QED  BY <1>1, <1>2, <1>3 DEF TablesNext

LEMMA MInit == TablesInit => MInv
  <1> SUFFICES ASSUME TablesInit PROVE MInv
    OBVIOUS
  <1>1. HInv /\ TablesOK
    BY HInit, TablesOKInit DEF TablesInit
  <1>2. MidsInv
    BY DEF TablesInit, MidsInv, Held
  <1>3. LegalSoFar
    BY DEF TablesInit, Init, LegalSoFar
  <1> QED  BY <1>1, <1>2, <1>3 DEF MInv

LEMMA MNext == MInv /\ [TablesNext]_<<vars, tableVars>> => MInv'
  <1> SUFFICES ASSUME MInv, [TablesNext]_<<vars, tableVars>>
               PROVE  MInv'
    OBVIOUS
  <1>1. [Next]_vars
    <2>1. CASE BuildTables
      <3>1. UNCHANGED vars
        BY <2>1, BuildFixes DEF vars
      <3> QED  BY <3>1
    <2> QED  BY <2>1 DEF TablesNext, Sorting
  <1>2. HInv'
    BY <1>1, HNext DEF MInv
  <1> QED  BY <1>2, TablesOKNext, MidsNext, LegalNext DEF MInv

LEMMA MInvariant == TablesSpec => []MInv
  BY MInit, MNext, PTL DEF TablesSpec

-----------------------------------------------------------------------------
(* The properties.                                                         *)

LEMMA LegalIs == MInv => AcceptedIsLegal
  <1> SUFFICES ASSUME MInv, Accepted,
                      NEW t \in Types, NEW d \in Types, NEW e \in Types,
                      Below(t, d), Below(t, e), d # e,
                      NEW m \in bodies[d].methods, NEW n \in bodies[e].methods,
                      m.sig = n.sig, m.sig # Constructor
               PROVE  /\ m.returns = n.returns
                      /\ ~m.static /\ ~n.static
                      /\ Below(d, e) => ~n.final /\ (m.protected => n.protected)
    BY DEF AcceptedIsLegal
  <1>1. Graph /\ Clean /\ LegalSoFar /\ at > Len(sorted) /\ at \in Nat
    BY DEF MInv, Accepted, Graph, Clean, TablesOK
  <1>2. ASSUME NEW u \in Types
        PROVE  TypeDone(u)
    <2>1. PICK i \in 1..Len(sorted) : sorted[i] = u
      BY <1>1, EveryTypeSorted
    <2>2. Len(sorted) \in Nat
      BY DEF MInv, HInv, IInv, TypeOK
    <2>3. i < at
      BY <1>1, <2>2
    <2> QED  BY <1>1, <2>1, <2>3 DEF LegalSoFar, Graph
  <1>3. PICK x \in tables[t] : Fits(x, d, m)
    BY <1>2 DEF TypeDone, Covers
  <1>4. PICK y \in tables[t] : Fits(y, e, n)
    BY <1>2 DEF TypeDone, Covers
  <1>5. x = y
    BY <1>2, <1>3, <1>4 DEF TypeDone, OneEach, Fits
  <1>6. ASSUME NEW c \in Types, NEW k \in bodies[c].methods, x.owner = c, k.sig = x.sig
        PROVE  k.static = x.static
    <2>1. PICK l \in bodies[c].methods : Keeps(x, l)
      BY <1>2, <1>6 DEF TypeDone, EntryOf
    <2>2. l = k
      BY <1>2, <1>6, <2>1 DEF TypeDone, SingleDecl, Duplicated, Single, Keeps
    <2> QED  BY <2>1, <2>2 DEF Keeps
  <1>7. ~m.static /\ ~n.static
    <2>1. CASE x.owner # d /\ x.owner # e
      BY <1>3, <1>4, <1>5, <2>1 DEF Fits
    <2>2. CASE x.owner = d
      <3>1. ~x.static /\ ~n.static
        BY <1>4, <1>5, <2>2 DEF Fits
      <3> QED  BY <1>3, <1>6, <2>2, <3>1 DEF Fits
    <2>3. CASE x.owner = e
      <3>1. ~x.static /\ ~m.static
        BY <1>3, <2>3 DEF Fits
      <3> QED  BY <1>4, <1>5, <1>6, <2>3, <3>1 DEF Fits
    <2> QED  BY <2>1, <2>2, <2>3
  <1>8. Below(d, e) => Legal(m, n)
    BY <1>2 DEF TypeDone
  <1> QED  BY <1>3, <1>4, <1>5, <1>7, <1>8 DEF Fits, Legal

\* For every program and every set of bodies: what the compiler accepts has no
\* method that conflicts with one of any type above it, although it compares a
\* type with its direct parents only (MakeResolvedMethodTable).
THEOREM TablesAreLegal == TablesSpec => []AcceptedIsLegal
  BY MInvariant, LegalIs, PTL

-----------------------------------------------------------------------------
(* The layout.                                                             *)

allVars == <<vars, tableVars, layoutVars>>

StageOK ==
    /\ stage \in {"tables", "fields", "methods", "interfaces", "done", "threw"}
    /\ stage # "tables" => Accepted
    /\ place \in 0..Len(sorted)
    /\ stage = "tables" => place = 0

LInv == MInv /\ StageOK

-----------------------------------------------------------------------------
(* Fields.                                                                 *)

\* The field lies before end, aligned to its size.
Placed(d, i, end) ==
    /\ field_offsets[d][i] \in Nat
    /\ field_offsets[d][i] % SizeOf(d, i) = 0
    /\ field_offsets[d][i] + SizeOf(d, i) <= end

Apart(d, i, e, j) ==
    \/ <<d, i>> = <<e, j>>
    \/ field_offsets[d][i] + SizeOf(d, i) <= field_offsets[e][j]
    \/ field_offsets[e][j] + SizeOf(e, j) <= field_offsets[d][i]

ClassesAbove(c) == {d \in Types : IsClass(d) /\ Below(c, d)}

ClassLaid(c) ==
    /\ type_sizes[c] % WordSize = 0
    /\ \A d \in ClassesAbove(c) : \A i \in DOMAIN bodies[d].fields : Placed(d, i, type_sizes[c])
    /\ \A d, e \in ClassesAbove(c) :
          \A i \in DOMAIN bodies[d].fields, j \in DOMAIN bodies[e].fields : Apart(d, i, e, j)

FieldsLaidOut(i) == stage # "tables" /\ (stage = "fields" => i <= place)
FieldsInv ==
    /\ type_sizes \in [Types -> Nat]
    /\ field_offsets = [t \in Types |-> field_offsets[t]]
    /\ \A i \in 1..Len(sorted) :
          FieldsLaidOut(i) /\ IsClass(sorted[i]) => ClassLaid(sorted[i])

-----------------------------------------------------------------------------
(* The bytes of fields.                                                    *)

Fields(t) == DOMAIN bodies[t].fields
Count(t, fields, size) == Cardinality({i \in fields : SizeOf(t, i) = size})

LEMMA FieldsAre ==
    ASSUME NEW t \in Types, bodies \in [Types -> Body]
    PROVE  /\ IsFiniteSet(Fields(t)) /\ Fields(t) \subseteq Nat
           /\ \A i \in Fields(t) : bodies[t].fields[i] \in 1..6 /\ SizeOf(t, i) \in {1, 2, 4}
           /\ \A i, j \in Fields(t) :
                 bodies[t].fields[i] <= bodies[t].fields[j] => SizeOf(t, i) <= SizeOf(t, j)
  <1>1. bodies[t].fields \in Seq(SizeClass)
    BY DEF Body
  <1>2. Fields(t) = 1..Len(bodies[t].fields) /\ Len(bodies[t].fields) \in Nat
    BY <1>1 DEF Fields
  <1>3. IsFiniteSet(Fields(t)) /\ Fields(t) \subseteq Nat
    BY <1>2, FS_Interval
  <1>4. \A i \in Fields(t) : bodies[t].fields[i] \in 1..6
    BY <1>1, <1>2 DEF SizeClass
  <1>5. /\ ByteSizeFrom[1] = 1 /\ ByteSizeFrom[2] = 1 /\ ByteSizeFrom[3] = 2
        /\ ByteSizeFrom[4] = 2 /\ ByteSizeFrom[5] = 4 /\ ByteSizeFrom[6] = 4
    BY DEF ByteSizeFrom
  <1>6. \A k \in 1..6 : k = 1 \/ k = 2 \/ k = 3 \/ k = 4 \/ k = 5 \/ k = 6
    OBVIOUS
  <1>7. \A k \in 1..6 : ByteSizeFrom[k] \in {1, 2, 4}
    BY <1>5, <1>6
  <1>8. \A k, l \in 1..6 : k <= l => ByteSizeFrom[k] <= ByteSizeFrom[l]
    BY <1>5, <1>6
  <1> QED  BY <1>3, <1>4, <1>7, <1>8 DEF SizeOf

LEMMA BytesAre ==
    ASSUME NEW t \in Types, bodies \in [Types -> Body], NEW fields \in SUBSET Fields(t)
    PROVE  /\ Bytes(t, fields) = Count(t, fields, 1) + 2 * Count(t, fields, 2)
                                 + 4 * Count(t, fields, 4)
           /\ \A size : Count(t, fields, size) \in Nat
                        /\ IsFiniteSet({i \in fields : SizeOf(t, i) = size})
           /\ Bytes(t, fields) \in Nat
  <1>1. Bytes(t, fields) = Count(t, fields, 1) + 2 * Count(t, fields, 2) + 4 * Count(t, fields, 4)
    BY DEF Bytes, Count
  <1>2. ASSUME NEW size
        PROVE  Count(t, fields, size) \in Nat /\ IsFiniteSet({i \in fields : SizeOf(t, i) = size})
    <2> DEFINE S == {i \in fields : SizeOf(t, i) = size}
    <2>1. S \in SUBSET Fields(t) /\ IsFiniteSet(Fields(t))
      BY FieldsAre
    <2> HIDE DEF S
    <2>2. IsFiniteSet(S) /\ Cardinality(S) \in Nat
      BY <2>1, FS_Subset, FS_CardinalityType
    <2> QED  BY <2>2 DEF S, Count
  <1>3. Bytes(t, fields) \in Nat
    <2>1. PICK x \in Nat, y \in Nat, z \in Nat :
             x = Count(t, fields, 1) /\ y = Count(t, fields, 2) /\ z = Count(t, fields, 4)
      BY <1>2
    <2>2. x + 2 * y + 4 * z \in Nat
      OBVIOUS
    <2> QED  BY <1>1, <2>1, <2>2
  <1> QED  BY <1>1, <1>2, <1>3

\* A field behind others needs its size more.
LEMMA BytesAdd ==
    ASSUME NEW t \in Types, bodies \in [Types -> Body], NEW F \in SUBSET Fields(t),
           NEW G \in SUBSET Fields(t), F \subseteq G, NEW i \in G, i \notin F
    PROVE  Bytes(t, F) + SizeOf(t, i) <= Bytes(t, G)
  <1>1. ASSUME NEW size
        PROVE  /\ Count(t, F, size) <= Count(t, G, size)
               /\ SizeOf(t, i) = size => Count(t, F, size) + 1 <= Count(t, G, size)
    <2> DEFINE A == {k \in F : SizeOf(t, k) = size}
               B == {k \in G : SizeOf(t, k) = size}
    <2>1. A \in SUBSET B /\ (SizeOf(t, i) = size => i \in B /\ i \notin A)
      OBVIOUS
    <2>2. /\ IsFiniteSet(B) /\ Cardinality(A) \in Nat /\ Cardinality(B) \in Nat
          /\ Count(t, F, size) = Cardinality(A) /\ Count(t, G, size) = Cardinality(B)
      BY BytesAre DEF Count
    <2> HIDE DEF A, B
    <2>3. Cardinality(A) <= Cardinality(B) /\ (Cardinality(A) = Cardinality(B) => A = B)
      BY <2>1, <2>2, FS_Subset
    <2> QED  BY <2>1, <2>2, <2>3
  <1>2. SizeOf(t, i) \in {1, 2, 4}
    BY FieldsAre
  <1>3. /\ Bytes(t, F) = Count(t, F, 1) + 2 * Count(t, F, 2) + 4 * Count(t, F, 4)
        /\ Bytes(t, G) = Count(t, G, 1) + 2 * Count(t, G, 2) + 4 * Count(t, G, 4)
        /\ \A size : Count(t, F, size) \in Nat /\ Count(t, G, size) \in Nat
    BY BytesAre
  <1> QED  BY <1>1, <1>2, <1>3

\* Fields of the same size or a larger one leave a field aligned.
LEMMA BytesAligned ==
    ASSUME NEW t \in Types, bodies \in [Types -> Body], NEW i \in Fields(t)
    PROVE  Before(t, i) \in SUBSET Fields(t) /\ i \notin Before(t, i)
           /\ Bytes(t, Before(t, i)) % SizeOf(t, i) = 0
  <1> DEFINE F == Before(t, i)
  <1>1. F \in SUBSET Fields(t) /\ i \notin F
    BY FieldsAre DEF Before, Fields
  <1>2. \A j \in F : SizeOf(t, i) <= SizeOf(t, j)
    BY FieldsAre DEF Before, Fields
  <1>3. ASSUME NEW size, \A j \in F : SizeOf(t, j) # size
        PROVE  Count(t, F, size) = 0
    <2>1. {j \in F : SizeOf(t, j) = size} = {}
      BY <1>3
    <2> HIDE DEF F
    <2> QED  BY <2>1, FS_EmptySet DEF Count
  <1>4. SizeOf(t, i) \in {1, 2, 4} /\ \A j \in F : SizeOf(t, j) \in {1, 2, 4}
    BY <1>1, FieldsAre
  <1> HIDE DEF F
  <1>5. PICK x \in Nat, y \in Nat, z \in Nat :
           /\ x = Count(t, F, 1) /\ y = Count(t, F, 2) /\ z = Count(t, F, 4)
           /\ Bytes(t, F) = x + 2 * y + 4 * z
    BY <1>1, BytesAre
  <1>6. Bytes(t, F) % SizeOf(t, i) = 0
    <2>1. CASE SizeOf(t, i) = 1
      <3>1. (x + 2 * y + 4 * z) % 1 = 0
        OBVIOUS
      <3> QED  BY <1>5, <2>1, <3>1
    <2>2. CASE SizeOf(t, i) = 2
      <3>1. x = 0
        BY <1>2, <1>3, <1>4, <1>5, <2>2
      <3>2. (0 + 2 * y + 4 * z) % 2 = 0
        OBVIOUS
      <3> QED  BY <1>5, <2>2, <3>1, <3>2
    <2>3. CASE SizeOf(t, i) = 4
      <3>1. x = 0 /\ y = 0
        BY <1>2, <1>3, <1>4, <1>5, <2>3
      <3>2. (0 + 2 * 0 + 4 * z) % 4 = 0
        OBVIOUS
      <3> QED  BY <1>5, <2>3, <3>1, <3>2
    <2> QED  BY <1>4, <2>1, <2>2, <2>3
  <1> QED  BY <1>1, <1>6 DEF F

\* Of two fields one comes before the other.
LEMMA BeforeTotal ==
    ASSUME NEW t \in Types, bodies \in [Types -> Body], NEW i \in Fields(t), NEW j \in Fields(t),
           i # j
    PROVE  \/ Bytes(t, Before(t, i)) + SizeOf(t, i) <= Bytes(t, Before(t, j))
           \/ Bytes(t, Before(t, j)) + SizeOf(t, j) <= Bytes(t, Before(t, i))
  <1> DEFINE class(k) == bodies[t].fields[k]
  <1>1. Fields(t) \subseteq Nat /\ \A k \in Fields(t) : class(k) \in Nat
    BY FieldsAre
  <1>2. \A k, l \in Fields(t) :
           l \in Before(t, k) <=> class(l) > class(k) \/ (class(l) = class(k) /\ l < k)
    BY DEF Before, Fields
  <1>3. i \in Before(t, j) \/ j \in Before(t, i)
    BY <1>1, <1>2
  <1>4. ASSUME NEW k \in Fields(t), NEW l \in Fields(t), k \in Before(t, l)
        PROVE  Bytes(t, Before(t, k)) + SizeOf(t, k) <= Bytes(t, Before(t, l))
    <2>1. Before(t, k) \subseteq Before(t, l)
      <3> SUFFICES ASSUME NEW m \in Before(t, k) PROVE m \in Before(t, l)
        OBVIOUS
      <3>1. m \in Fields(t)
        BY BytesAligned
      <3> HIDE DEF class
      <3> QED  BY <1>1, <1>2, <1>4, <3>1
    <2> QED  BY <1>4, <2>1, BytesAligned, BytesAdd
  <1> QED  BY <1>3, <1>4

LEMMA RoundUpIs ==
    ASSUME NEW n \in Nat
    PROVE  RoundUp(n) \in Nat /\ n <= RoundUp(n) /\ RoundUp(n) % WordSize = 0
  BY DEF RoundUp, WordSize

-----------------------------------------------------------------------------
(* The classes above a class.                                              *)

\* Object is above every type.
LEMMA ObjectOnTop ==
    ASSUME Graph, NEW t \in Types
    PROVE  Below(t, Object)
  <1>1. /\ sorted \in Seq(Types) /\ DOMAIN sorted = 1..Len(sorted) /\ Len(sorted) \in Nat
        /\ edges \in [Types -> Seq(Types)] /\ TopSorted
    BY DEF Graph, HInv, IInv, TypeOK
  <1> DEFINE T == {i \in 1..Len(sorted) : ~Below(sorted[i], Object)}
  <1>2. CASE T = {}
    BY <1>2, EveryTypeSorted
  <1>3. CASE T # {}
    <2>1. T \in SUBSET Nat
      OBVIOUS
    <2>2. PICK m \in T : \A k \in T : m <= k
      BY <1>3, <2>1, LeastNumber
    <2>3. m \in 1..Len(sorted) /\ ~Below(sorted[m], Object)
      OBVIOUS
    <2> DEFINE u == sorted[m]
    <2>4. u \in Types /\ u # Object
      BY <1>1, <2>3, BelowItself
    <2>5. edges[u] # << >>
      BY <2>4 DEF Graph, HInv, KindsInv, Kinded
    <2>6. edges[u][1] \in ParentsOf(u)
      BY <1>1, <2>4, <2>5 DEF ParentsOf
    <2>7. PICK j \in 1..(m - 1) : sorted[j] = edges[u][1]
      BY <1>1, <2>3, <2>6 DEF TopSorted
    <2>8. j \notin T /\ j \in 1..Len(sorted)
      BY <1>1, <2>2, <2>3
    <2>9. Below(edges[u][1], Object)
      BY <2>7, <2>8
    <2> QED  BY <2>3, <2>6, <2>9, BelowParent
  <1> QED  BY <1>2, <1>3

LEMMA RootIs ==
    ASSUME Graph, NEW t \in Types
    PROVE  /\ Root(t) <=> t = Object
           /\ IsClass(Object) /\ ClassesAbove(Object) = {Object}
  <1>1. edges[Object] = << >> /\ IsClass(Object) /\ Object \in Types
    BY HierarchyAssumption DEF Graph, HInv, EarlyInv, RootEdges, RootsPlain, IsClass
  <1>2. t # Object => edges[t] # << >>
    BY DEF Graph, HInv, KindsInv, Kinded
  <1>3. \A d : Below(Object, d) => d = Object
    <2>1. ParentsOf(Object) = {}
      BY <1>1 DEF ParentsOf
    <2>2. {Object} \in SUBSET Types /\ Upward({Object})
      BY <1>1, <2>1 DEF Upward
    <2> QED  BY <2>2 DEF Below
  <1> QED  BY <1>1, <1>2, <1>3, BelowItself DEF Root, ClassesAbove

LEMMA ClassAbove ==
    ASSUME Graph, NEW c \in Types, IsClass(c), ~Root(c)
    PROVE  /\ Extends(c) \in Types /\ IsClass(Extends(c)) /\ Extends(c) \in ParentsOf(c)
           /\ ClassesAbove(c) = {c} \union ClassesAbove(Extends(c))
           /\ c \notin ClassesAbove(Extends(c))
  <1>1. /\ edges \in [Types -> Seq(Types)] /\ TypeOK /\ TopSorted /\ Kinded(c)
    BY DEF Graph, HInv, IInv, TypeOK, KindsInv
  <1>2. edges[c] \in Seq(Types) /\ edges[c] # << >> /\ c # Object
    BY <1>1, RootIs DEF Root
  <1>3. 1 \in 1..Len(edges[c]) /\ edges[c][1] \in Types
    BY <1>2
  <1>4. Extends(c) \in Types /\ IsClass(Extends(c)) /\ Extends(c) \in ParentsOf(c)
    BY <1>1, <1>2, <1>3 DEF Extends, IsClass, Kinded, ParentsOf
  <1>5. ASSUME NEW d \in Types, IsClass(d), Below(c, d), d # c
        PROVE  Below(Extends(c), d)
    <2>1. PICK p \in ParentsOf(c) : Below(p, d)
      BY <1>1, <1>5, AboveSomeParent
    <2>2. PICK k \in 1..Len(edges[c]) : p = edges[c][k]
      BY <1>2 DEF ParentsOf
    <2>3. CASE k = 1
      BY <2>1, <2>2, <2>3 DEF Extends
    <2>4. CASE k > 1
      <3>1. FromInterface(d)
        BY <1>3, <2>1, <2>2, <2>4, MetTwice
      <3>2. d = Object
        BY <1>5, <3>1 DEF FromInterface, IsClass
      <3> QED  BY <1>4, <3>2, ObjectOnTop
    <2> QED  BY <1>2, <2>3, <2>4
  <1>6. PICK i \in 1..Len(sorted) : sorted[i] = c
    BY EveryTypeSorted
  <1>7. ~Below(Extends(c), c)
    BY <1>1, <1>4, <1>6, NotAboveItsParent
  <1> QED  BY <1>4, <1>5, <1>7, BelowItself, BelowParent DEF ClassesAbove

-----------------------------------------------------------------------------
(* The steps.                                                              *)

LEMMA AcceptedIs ==
    ASSUME MInv, Accepted
    PROVE  Graph /\ ~TablesNext
  <1>1. Graph
    BY DEF MInv, Accepted, Graph
  <1>2. ~Tabling
    <2>1. Len(sorted) \in Nat /\ at \in Nat /\ at > Len(sorted)
      BY DEF MInv, Accepted, TablesOK, HInv, IInv, TypeOK
    <2> QED  BY <2>1 DEF Tabling
  <1> QED  BY <1>1, <1>2, SortingFixes, BuildFixes DEF TablesNext, Accepted

LEMMA LayoutFixes ==
    ASSUME LInv, [LayoutNext]_allVars
    PROVE  /\ [TablesNext]_<<vars, tableVars>>
           /\ stage # "tables" => UNCHANGED <<vars, tableVars>>
           /\ UNCHANGED <<vars, tableVars>> \/ UNCHANGED layoutVars
  <1>1. TypeChecking \/ UNCHANGED <<vars, tableVars>>
    BY DEF LayoutNext, allVars, StartLayout, SkipInterface, LayFields, FieldsLaid, LayMethods, Throw,
           MethodsLaid, LayInterfaces, EndLoop
  <1>2. stage # "tables" => ~TypeChecking
    BY AcceptedIs DEF LInv, StageOK, TypeChecking
  <1> QED  BY <1>1, <1>2 DEF TypeChecking

\* The variables one by one.
LEMMA FrameIs ==
    ASSUME UNCHANGED <<vars, tableVars>>
    PROVE  /\ UNCHANGED <<decls, phase, next, bad, pruned, edges, cycles, good, sorted, path, failing>>
           /\ UNCHANGED <<bodies, at, step, par, todo, own, bad_names, empty, cur_mid, tables,
                         bad_methods, no_empty, errors>>
           /\ Accepted' <=> Accepted
           /\ \A t, a : Below(t, a)' <=> Below(t, a)
  BY DEF vars, tableVars, Accepted, Below, Upward, ParentsOf

LEMMA StageInit == LayoutInit => StageOK
  BY DEF LayoutInit, TablesInit, Init, StageOK

LEMMA StageNext ==
    ASSUME LInv, MInv', [LayoutNext]_allVars
    PROVE  StageOK'
  <1>1. Len(sorted') \in Nat /\ Len(sorted) \in Nat
    BY DEF LInv, MInv, HInv, IInv, TypeOK
  <1>2. CASE UNCHANGED layoutVars
    <2>1. UNCHANGED <<stage, place>>
      BY <1>2 DEF layoutVars
    <2>2. CASE stage = "tables"
      BY <1>1, <2>1, <2>2 DEF LInv, StageOK
    <2>3. CASE stage # "tables"
      BY <2>1, <2>3, LayoutFixes, FrameIs DEF LInv, StageOK
    <2> QED  BY <2>2, <2>3
  <1>3. CASE UNCHANGED <<vars, tableVars>>
    <2>1. sorted' = sorted /\ (Accepted' <=> Accepted)
      BY <1>3, FrameIs
    <2>2. CASE StartLayout \/ Throw \/ LayInterfaces
      BY <2>1, <2>2 DEF StartLayout, Throw, LayInterfaces, LInv, StageOK, AtClass, InLoop
    <2>3. CASE SkipInterface("fields") \/ SkipInterface("methods") \/ LayFields \/ LayMethods
      BY <1>1, <2>1, <2>3 DEF SkipInterface, LayFields, LayMethods, AtClass, InLoop, LInv, StageOK
    <2>4. CASE FieldsLaid \/ MethodsLaid
      BY <1>1, <2>1, <2>4 DEF FieldsLaid, MethodsLaid, EndLoop, LInv, StageOK
    <2>5. CASE TypeChecking
      BY <1>2, <2>5 DEF TypeChecking
    <2>6. CASE UNCHANGED allVars
      BY <1>2, <2>6 DEF allVars
    <2> QED  BY <2>2, <2>3, <2>4, <2>5, <2>6 DEF LayoutNext
  <1> QED  BY <1>2, <1>3, LayoutFixes

LEMMA LNext == LInv /\ [LayoutNext]_allVars => LInv'
  BY LayoutFixes, MNext, StageNext DEF LInv

LEMMA LInvariant == LayoutSpec => []LInv
  <1>1. LayoutInit => LInv
    BY MInit, StageInit DEF LayoutInit, LInv
  <1> QED  BY <1>1, LNext, PTL DEF LayoutSpec, allVars

\* The layout does not change what the tables were found to be.
THEOREM LayoutKeepsLegality == LayoutSpec => []AcceptedIsLegal
  <1>1. LInv => AcceptedIsLegal
    BY LegalIs DEF LInv
  <1> QED  BY <1>1, LInvariant, PTL

-----------------------------------------------------------------------------
(* The fields.                                                             *)

LEMMA OrderIs ==
    ASSUME LInv, stage # "tables"
    PROVE  /\ Graph /\ TypeOK /\ TopSorted /\ bodies \in [Types -> Body]
           /\ sorted \in Seq(Types) /\ DOMAIN sorted = 1..Len(sorted) /\ Len(sorted) \in Nat
           /\ \A i, j \in 1..Len(sorted) : sorted[i] = sorted[j] => i = j
           /\ \A i \in 1..Len(sorted) : sorted[i] \in Types
  <1>1. Graph
    BY AcceptedIs DEF LInv, StageOK
  <1>2. TypeOK /\ TopSorted /\ bodies \in [Types -> Body]
    BY <1>1, MembersAssumption DEF Graph, HInv, IInv, LInv, MInv, TablesOK
  <1>3. sorted \in Seq(Types) /\ DOMAIN sorted = 1..Len(sorted) /\ Len(sorted) \in Nat
    BY <1>2 DEF TypeOK
  <1> QED  BY <1>1, <1>2, <1>3 DEF TopSorted

LEMMA ClassLaidStays ==
    ASSUME UNCHANGED <<vars, tableVars>>, NEW c \in Types, ClassLaid(c),
           type_sizes'[c] = type_sizes[c],
           \A d \in ClassesAbove(c) : field_offsets'[d] = field_offsets[d]
    PROVE  ClassLaid(c)'
  <1>1. UNCHANGED <<bodies, decls>> /\ \A t, a : Below(t, a)' <=> Below(t, a)
    BY FrameIs
  <1>2. ClassesAbove(c)' = ClassesAbove(c) /\ \A d, i : SizeOf(d, i)' = SizeOf(d, i)
    BY <1>1 DEF ClassesAbove, IsClass, SizeOf
  <1>3. \A d \in ClassesAbove(c) : \A i, end : Placed(d, i, end) => Placed(d, i, end)'
    BY <1>2 DEF Placed
  <1>4. \A d, e \in ClassesAbove(c) : \A i, j : Apart(d, i, e, j) => Apart(d, i, e, j)'
    BY <1>2 DEF Apart
  <1> QED  BY <1>1, <1>2, <1>3, <1>4 DEF ClassLaid, WordSize

\* What the fields of the classes above the one at hand take.
LEMMA ParentLaid ==
    ASSUME LInv, FieldsInv, AtClass("fields")
    PROVE  LET above == ClassesAbove(Current) \ {Current}
               size == ParentSize(Current)
           IN  /\ size \in Nat /\ size % 4 = 0
               /\ \A d \in above : \A i \in DOMAIN bodies[d].fields : Placed(d, i, size)
               /\ \A d, e \in above :
                     \A i \in DOMAIN bodies[d].fields, j \in DOMAIN bodies[e].fields :
                        Apart(d, i, e, j)
  <1> DEFINE c == Current
  <1>1. /\ stage = "fields" /\ place < Len(sorted) /\ IsClass(c) /\ place \in Nat
        /\ place + 1 \in 1..Len(sorted) /\ c \in Types /\ c = sorted[place + 1]
    BY OrderIs DEF AtClass, InLoop, Current, LInv, StageOK
  <1>2. Graph /\ TopSorted /\ DOMAIN sorted = 1..Len(sorted) /\ Len(sorted) \in Nat
    BY <1>1, OrderIs
  <1>3. CASE Root(c)
    <2>1. ClassesAbove(c) \ {c} = {} /\ ParentSize(c) = 0
      BY <1>1, <1>2, <1>3, RootIs DEF ParentSize
    <2> QED  BY <2>1
  <1>4. CASE ~Root(c)
    <2>1. /\ Extends(c) \in Types /\ IsClass(Extends(c)) /\ Extends(c) \in ParentsOf(c)
          /\ ClassesAbove(c) \ {c} = ClassesAbove(Extends(c))
      BY <1>1, <1>2, <1>4, ClassAbove
    <2>2. PICK j \in 1..(place + 1 - 1) : sorted[j] = Extends(c)
      BY <1>1, <1>2, <2>1 DEF TopSorted
    <2>3. j \in 1..Len(sorted) /\ j <= place
      BY <1>1, <1>2
    <2>4. ClassLaid(Extends(c))
      BY <1>1, <2>1, <2>2, <2>3 DEF FieldsInv, FieldsLaidOut
    <2>5. ParentSize(c) = type_sizes[Extends(c)] /\ type_sizes[Extends(c)] \in Nat
      BY <1>4, <2>1 DEF ParentSize, FieldsInv
    <2> QED  BY <2>1, <2>4, <2>5 DEF ClassLaid, WordSize
  <1> QED  BY <1>3, <1>4

LEMMA AlignedSum ==
    ASSUME NEW p \in Nat, NEW b \in Nat, NEW s \in {1, 2, 4}, p % 4 = 0, b % s = 0
    PROVE  (p + b) % s = 0
  <1>1. CASE s = 1
    BY <1>1
  <1>2. CASE s = 2
    BY <1>2
  <1>3. CASE s = 4
    BY <1>3
  <1> QED  BY <1>1, <1>2, <1>3

LEMMA LaidOut ==
    ASSUME LInv, FieldsInv, LayFields
    PROVE  /\ type_sizes' \in [Types -> Nat]
           /\ field_offsets' = [t \in Types |-> field_offsets'[t]]
           /\ \E c \in Types : c = Current /\ ClassLaid(c)'
           /\ \A d \in Types : d # Current =>
                 type_sizes'[d] = type_sizes[d] /\ field_offsets'[d] = field_offsets[d]
  <1>1. /\ AtClass("fields") /\ UNCHANGED <<vars, tableVars>>
        /\ field_offsets' = [field_offsets EXCEPT ![Current] =
              [i \in Fields(Current) |-> ParentSize(Current) + Bytes(Current, Before(Current, i))]]
        /\ type_sizes' = [type_sizes EXCEPT ![Current] =
              RoundUp(ParentSize(Current) + Bytes(Current, Fields(Current)))]
    BY DEF LayFields, Fields
  <1>2. PICK c \in Types : c = Current /\ IsClass(c)
    <2>1. place + 1 \in 1..Len(sorted)
      BY <1>1, OrderIs DEF AtClass, InLoop, LInv, StageOK
    <2> QED  BY <1>1, <2>1, OrderIs DEF AtClass, InLoop, Current
  <1>3. PICK before \in Nat :
           /\ before = ParentSize(c) /\ before % 4 = 0
           /\ \A d \in ClassesAbove(c) \ {c} : \A i \in DOMAIN bodies[d].fields :
                 Placed(d, i, before)
           /\ \A d, e \in ClassesAbove(c) \ {c} :
                 \A i \in DOMAIN bodies[d].fields, j \in DOMAIN bodies[e].fields :
                    Apart(d, i, e, j)
    BY <1>1, <1>2, ParentLaid
  <1>4. bodies \in [Types -> Body]
    BY <1>1, OrderIs DEF AtClass, InLoop
  <1>5. PICK mine \in Nat : mine = Bytes(c, Fields(c))
    BY <1>2, <1>4, BytesAre, BytesAligned
  <1>6. PICK size \in Nat :
           /\ size = RoundUp(ParentSize(c) + Bytes(c, Fields(c)))
           /\ before + mine <= size /\ size % WordSize = 0
    <2>1. before + mine \in Nat
      OBVIOUS
    <2> QED  BY <1>3, <1>5, <2>1, RoundUpIs
  <1>7. PICK off :
           /\ off = [i \in Fields(c) |-> ParentSize(c) + Bytes(c, Before(c, i))]
           /\ \A i \in Fields(c) :
                 /\ off[i] \in Nat /\ before <= off[i] /\ off[i] % SizeOf(c, i) = 0
                 /\ off[i] + SizeOf(c, i) <= size
           /\ \A i, j \in Fields(c) :
                 \/ i = j
                 \/ off[i] + SizeOf(c, i) <= off[j]
                 \/ off[j] + SizeOf(c, j) <= off[i]
    <2> DEFINE f == [i \in Fields(c) |-> ParentSize(c) + Bytes(c, Before(c, i))]
    <2>1. ASSUME NEW i \in Fields(c)
          PROVE  \E b \in Nat : /\ b = Bytes(c, Before(c, i)) /\ f[i] = before + b
                                /\ b % SizeOf(c, i) = 0 /\ b + SizeOf(c, i) <= mine
      BY <1>2, <1>3, <1>4, <1>5, BytesAre, BytesAligned, BytesAdd, FieldsAre
    <2>2. ASSUME NEW i \in Fields(c)
          PROVE  /\ f[i] \in Nat /\ before <= f[i] /\ f[i] % SizeOf(c, i) = 0
                 /\ f[i] + SizeOf(c, i) <= size
      <3>1. PICK b \in Nat : /\ f[i] = before + b /\ b % SizeOf(c, i) = 0
                             /\ b + SizeOf(c, i) <= mine
        BY <2>1
      <3>2. PICK s \in {1, 2, 4} : s = SizeOf(c, i)
        BY <1>2, <1>4, FieldsAre
      <3> HIDE DEF f
      <3>3. (before + b) % s = 0
        BY <1>3, <3>1, <3>2, AlignedSum
      <3>4. before + b + s <= size
        BY <1>6, <3>1, <3>2
      <3> QED  BY <3>1, <3>2, <3>3, <3>4
    <2>3. ASSUME NEW i \in Fields(c), NEW j \in Fields(c), i # j
          PROVE  f[i] + SizeOf(c, i) <= f[j] \/ f[j] + SizeOf(c, j) <= f[i]
      <3>1. PICK b \in Nat, a \in Nat :
               /\ b = Bytes(c, Before(c, i)) /\ f[i] = before + b
               /\ a = Bytes(c, Before(c, j)) /\ f[j] = before + a
        BY <2>1
      <3>2. PICK s \in {1, 2, 4}, t \in {1, 2, 4} : s = SizeOf(c, i) /\ t = SizeOf(c, j)
        BY <1>2, <1>4, FieldsAre
      <3>3. b + s <= a \/ a + t <= b
        BY <1>2, <1>4, <2>3, <3>1, <3>2, BeforeTotal
      <3> HIDE DEF f
      <3> QED  BY <3>1, <3>2, <3>3
    <2> HIDE DEF f
    <2>4. f = [i \in Fields(c) |-> ParentSize(c) + Bytes(c, Before(c, i))]
      BY DEF f
    <2> QED  BY <2>2, <2>3, <2>4
  <1>8. /\ type_sizes' \in [Types -> Nat] /\ type_sizes'[c] = size
        /\ field_offsets' = [t \in Types |-> field_offsets'[t]]
        /\ field_offsets'[c] = off
        /\ \A d \in Types : d # c =>
              type_sizes'[d] = type_sizes[d] /\ field_offsets'[d] = field_offsets[d]
    BY <1>1, <1>2, <1>6, <1>7 DEF FieldsInv
  <1>10. UNCHANGED <<bodies, decls>> /\ \A t, a : Below(t, a)' <=> Below(t, a)
    BY <1>1, FrameIs
  <1>11. ClassesAbove(c)' = ClassesAbove(c) /\ \A d, i : SizeOf(d, i)' = SizeOf(d, i)
    BY <1>10 DEF ClassesAbove, IsClass, SizeOf
  <1>12. \A d \in ClassesAbove(c) : d \in Types
    BY DEF ClassesAbove
  <1>13. ASSUME NEW d \in ClassesAbove(c), NEW i \in DOMAIN bodies[d].fields
         PROVE  /\ Placed(d, i, size)'
                /\ d # c => field_offsets[d][i] \in Nat /\ SizeOf(d, i) \in Nat
                            /\ field_offsets[d][i] + SizeOf(d, i) <= before
    <2>1. CASE d = c
      <3>1. i \in Fields(c)
        BY <2>1 DEF Fields
      <3> QED  BY <1>7, <1>8, <1>11, <2>1, <3>1 DEF Placed
    <2>2. CASE d # c
      <3>1. Placed(d, i, before) /\ field_offsets'[d] = field_offsets[d] /\ d \in Types
        BY <1>3, <1>8, <1>12, <2>2
      <3>2. PICK s \in {1, 2, 4} : s = SizeOf(d, i)
        BY <1>4, <3>1, FieldsAre DEF Fields
      <3>3. PICK o \in Nat : o = field_offsets[d][i] /\ o % s = 0 /\ o + s <= before
        BY <3>1, <3>2 DEF Placed
      <3>4. o + s <= size
        BY <1>6, <3>2, <3>3
      <3> QED  BY <1>11, <3>1, <3>2, <3>3, <3>4 DEF Placed
    <2> QED  BY <2>1, <2>2
  <1>14. ASSUME NEW d \in ClassesAbove(c), NEW e \in ClassesAbove(c),
                NEW i \in DOMAIN bodies[d].fields, NEW j \in DOMAIN bodies[e].fields
         PROVE  Apart(d, i, e, j)'
    <2>1. CASE d # c /\ e # c
      <3>1. Apart(d, i, e, j) /\ field_offsets'[d] = field_offsets[d]
            /\ field_offsets'[e] = field_offsets[e]
        BY <1>3, <1>8, <1>12, <2>1
      <3> QED  BY <1>11, <3>1 DEF Apart
    <2>2. CASE d # c /\ e = c
      <3>1. field_offsets'[d] = field_offsets[d] /\ field_offsets'[e][j] = off[j]
            /\ before <= off[j] /\ off[j] \in Nat
        BY <1>7, <1>8, <1>12, <2>2 DEF Fields
      <3>2. field_offsets[d][i] \in Nat /\ field_offsets[d][i] + SizeOf(d, i) <= before
            /\ SizeOf(d, i) \in Nat
        BY <1>13, <2>2
      <3> QED  BY <1>11, <3>1, <3>2 DEF Apart
    <2>3. CASE d = c /\ e # c
      <3>1. field_offsets'[e] = field_offsets[e] /\ field_offsets'[d][i] = off[i]
            /\ before <= off[i] /\ off[i] \in Nat
        BY <1>7, <1>8, <1>12, <2>3 DEF Fields
      <3>2. field_offsets[e][j] \in Nat /\ field_offsets[e][j] + SizeOf(e, j) <= before
            /\ SizeOf(e, j) \in Nat
        BY <1>13, <2>3
      <3> QED  BY <1>11, <3>1, <3>2 DEF Apart
    <2>4. CASE d = c /\ e = c
      <3>1. i \in Fields(c) /\ j \in Fields(c)
        BY <2>4 DEF Fields
      <3> QED  BY <1>7, <1>8, <1>11, <2>4, <3>1 DEF Apart
    <2> QED  BY <2>1, <2>2, <2>3, <2>4
  <1>15. ClassLaid(c)'
    BY <1>6, <1>8, <1>10, <1>11, <1>13, <1>14 DEF ClassLaid, WordSize
  <1> QED  BY <1>2, <1>8, <1>15

LEMMA FieldsNext == LInv /\ FieldsInv /\ [LayoutNext]_allVars => FieldsInv'
  <1> SUFFICES ASSUME LInv, FieldsInv, [LayoutNext]_allVars
               PROVE  FieldsInv'
    OBVIOUS
  <1>1. CASE stage = "tables"
    <2>1. /\ stage' = "tables" \/ (stage' = "fields" /\ place' = 0)
          /\ UNCHANGED <<type_sizes, field_offsets>>
      BY <1>1 DEF LayoutNext, TypeChecking, StartLayout, SkipInterface, LayFields, FieldsLaid,
                  LayMethods, Throw, MethodsLaid, LayInterfaces, EndLoop, AtClass, InLoop, allVars,
                  layoutVars, LInv, StageOK
    <2>2. \A i \in 1..Len(sorted') : ~FieldsLaidOut(i)'
      BY <2>1 DEF FieldsLaidOut
    <2> QED  BY <2>1, <2>2 DEF FieldsInv
  <1>2. ASSUME stage # "tables", UNCHANGED <<type_sizes, field_offsets>>,
               \A i \in 1..Len(sorted) :
                  FieldsLaidOut(i)' /\ IsClass(sorted[i]) => FieldsLaidOut(i)
        PROVE  FieldsInv'
    <2>1. UNCHANGED <<vars, tableVars>> /\ sorted' = sorted /\ decls' = decls
      BY <1>2, LayoutFixes, FrameIs
    <2>2. ASSUME NEW i \in 1..Len(sorted), FieldsLaidOut(i)', IsClass(sorted[i])
          PROVE  \E c \in Types : c = sorted[i] /\ ClassLaid(c)'
      <3>1. PICK c \in Types : c = sorted[i]
        BY <1>2, OrderIs
      <3>2. ClassLaid(c)
        BY <1>2, <2>2, <3>1 DEF FieldsInv
      <3>3. ClassLaid(c)'
        BY <1>2, <2>1, <3>2, ClassLaidStays
      <3> QED  BY <3>1, <3>3
    <2>3. \A i \in 1..Len(sorted') :
             FieldsLaidOut(i)' /\ IsClass(sorted[i])' => ClassLaid(sorted[i])'
      BY <2>1, <2>2 DEF IsClass
    <2> QED  BY <1>2, <2>3 DEF FieldsInv
  <1>3. CASE LayFields
    <2>1. /\ AtClass("fields") /\ UNCHANGED <<vars, tableVars, stage>> /\ place' = place + 1
          /\ stage = "fields"
      BY <1>3 DEF LayFields, AtClass, InLoop
    <2>2. sorted' = sorted /\ decls' = decls /\ place \in Nat
      BY <2>1, FrameIs DEF LInv, StageOK
    <2>3. PICK c \in Types : c = Current /\ ClassLaid(c)'
      BY <1>3, LaidOut
    <2>4. ASSUME NEW i \in 1..Len(sorted), FieldsLaidOut(i)', IsClass(sorted[i])
          PROVE  \E d \in Types : d = sorted[i] /\ ClassLaid(d)'
      <3>1. i <= place + 1
        BY <2>1, <2>4 DEF FieldsLaidOut
      <3>2. CASE i = place + 1
        BY <2>3, <3>2 DEF Current
      <3>3. CASE i <= place
        <4>1. PICK d \in Types : d = sorted[i]
          BY <2>1, OrderIs
        <4>2. ClassLaid(d)
          BY <2>1, <2>4, <3>3, <4>1 DEF FieldsInv, FieldsLaidOut
        <4>3. ASSUME NEW e \in Types, Below(d, e)
              PROVE  e # Current
          <5>1. PICK j \in 1..i : sorted[j] = e
            BY <2>1, <4>1, <4>3, OrderIs, AboveIsEarlier
          <5>2. j \in 1..Len(sorted) /\ place + 1 \in 1..Len(sorted) /\ j # place + 1
            BY <2>1, <2>2, <3>3, OrderIs DEF AtClass, InLoop
          <5> QED  BY <2>1, <5>1, <5>2, OrderIs DEF Current
        <4>4. type_sizes'[d] = type_sizes[d]
              /\ \A e \in ClassesAbove(d) : field_offsets'[e] = field_offsets[e]
          BY <1>3, <4>3, BelowItself, LaidOut DEF ClassesAbove
        <4>5. ClassLaid(d)'
          BY <2>1, <4>2, <4>4, ClassLaidStays
        <4> QED  BY <4>1, <4>5
      <3> QED  BY <2>2, <3>1, <3>2, <3>3
    <2>5. \A i \in 1..Len(sorted') :
             FieldsLaidOut(i)' /\ IsClass(sorted[i])' => ClassLaid(sorted[i])'
      BY <2>2, <2>4 DEF IsClass
    <2> QED  BY <1>3, <2>5, LaidOut DEF FieldsInv
  <1>4. CASE stage # "tables" /\ ~LayFields
    <2>1. UNCHANGED <<type_sizes, field_offsets>>
      BY <1>4 DEF LayoutNext, TypeChecking, StartLayout, SkipInterface, FieldsLaid, LayMethods, Throw,
                  MethodsLaid, LayInterfaces, EndLoop, allVars, layoutVars
    <2>2. ASSUME NEW i \in 1..Len(sorted), FieldsLaidOut(i)', IsClass(sorted[i])
          PROVE  FieldsLaidOut(i)
      <3>1. CASE stage = "fields"
        <4>1. \/ UNCHANGED <<stage, place>>
              \/ SkipInterface("fields")
              \/ FieldsLaid
          BY <1>4, <3>1 DEF LayoutNext, TypeChecking, StartLayout, SkipInterface, LayMethods, Throw,
                  MethodsLaid, LayInterfaces, EndLoop, allVars, layoutVars, AtClass, InLoop
        <4>2. CASE UNCHANGED <<stage, place>>
          BY <2>2, <4>2 DEF FieldsLaidOut
        <4>3. CASE SkipInterface("fields")
          <5>1. place' = place + 1 /\ ~IsClass(sorted[place + 1]) /\ stage' = stage
            BY <4>3 DEF SkipInterface, Current
          <5>2. i <= place + 1 /\ i # place + 1 /\ place \in Nat
            BY <2>2, <3>1, <5>1 DEF FieldsLaidOut, LInv, StageOK
          <5> QED  BY <3>1, <5>2 DEF FieldsLaidOut
        <4>4. CASE FieldsLaid
          BY <3>1, <4>4 DEF FieldsLaid, EndLoop, FieldsLaidOut
        <4> QED  BY <4>1, <4>2, <4>3, <4>4
      <3>2. CASE stage # "fields"
        BY <1>4, <3>2 DEF FieldsLaidOut
      <3> QED  BY <3>1, <3>2
    <2> QED  BY <1>2, <1>4, <2>1, <2>2
  <1> QED  BY <1>1, <1>3, <1>4

\* For every accepted program no two fields of an object share a byte, those of
\* the classes above it among them; each lies in the object and is aligned.
THEOREM FieldsLieApart == LayoutSpec => []FieldsApart
  <1>1. LayoutInit => FieldsInv
    BY DEF LayoutInit, FieldsInv, FieldsLaidOut
  <1>2. LInv /\ FieldsInv => FieldsApart
    <2> SUFFICES ASSUME LInv, FieldsInv, stage = "methods", NEW c \in Types, IsClass(c)
                 PROVE  ClassLaid(c)
      BY DEF FieldsApart, ClassLaid, ClassesAbove, Placed, Apart
    <2>1. PICK i \in 1..Len(sorted) : sorted[i] = c
      BY OrderIs, EveryTypeSorted
    <2> QED  BY <2>1 DEF FieldsInv, FieldsLaidOut
  <1> QED  BY <1>1, <1>2, LInvariant, FieldsNext, PTL DEF LayoutSpec, allVars

-----------------------------------------------------------------------------
(* What dispatch relies on in the tables.                                  *)

\* An entry of another type is one of that type, too.
Originates(t, table) ==
    \A x \in table : x.owner # t =>
       \E y \in tables[x.owner] : y.mid = x.mid /\ y.owner = x.owner

\* No class above declares the method further below than the entry's owner.
Lowest(t, table) ==
    IsClass(t) =>
       \A x \in table, d \in Types :
          x.sig # Constructor /\ IsClass(d) /\ Below(t, d) /\ Declares(d, x.sig) =>
             IsClass(x.owner) /\ Below(x.owner, d)

\* What a method of a class overrides is the entry of the class above.
OverridesFirst(t, table) ==
    IsClass(t) =>
       \A x \in table : x.owner = t /\ x.parent # NoMethod =>
          /\ edges[t] # << >>
          /\ \E z \in tables[edges[t][1]] : z.sig = x.sig /\ z.mid = x.parent

Resolved(t, table) == Originates(t, table) /\ Lowest(t, table) /\ OverridesFirst(t, table)

\* Entry y of t is entry x of the class above, or overrides it.
Continues(y, x, t) == y.sig = x.sig /\ (y.mid = x.mid \/ (y.owner = t /\ y.parent = x.mid))
Continued(t, table, x) == x.sig # Constructor => \E y \in table : Continues(y, x, t)

DispatchDone(t) ==
    /\ Resolved(t, tables[t])
    /\ IsClass(t) =>
          /\ edges[t] # << >> => \A x \in tables[edges[t][1]] : Continued(t, tables[t], x)
          /\ ~bodies[t].abstract => \A x \in tables[t] : ~x.abstract

Met(s) == par > 1 \/ (step = "method" /\ s \notin todo)
DispatchBegun ==
    /\ Resolved(This, own)
    /\ IsClass(This) /\ edges[This] # << >> =>
          \A x \in tables[edges[This][1]] : Met(x.sig) => Continued(This, own, x)

MidsGiven == \A x \in Held : x.mid # NoMethod
DispatchSoFar ==
    Clean /\ phase = "done" =>
       /\ \A i \in 1..Len(sorted) : i < at => DispatchDone(sorted[i])
       /\ step # "begin" => DispatchBegun

DInv == MInv /\ MidsGiven /\ DispatchSoFar

LEMMA MidsGivenNext ==
    ASSUME HInv, TablesOK, MidsGiven, [TablesNext]_<<vars, tableVars>>
    PROVE  MidsGiven'
  <1>1. CASE UNCHANGED <<own, tables>>
    BY <1>1 DEF MidsGiven, Held
  <1>2. CASE DeclareMethods
    <2>1. Tabling
      BY <1>2 DEF DeclareMethods
    <2>2. own' = {Info(This, m) : m \in Single(This)} /\ tables' = tables
      BY <1>2 DEF DeclareMethods
    <2>3. This \in Types /\ bodies \in [Types -> Body] /\ cur_mid \in Nat \ {0}
      BY <2>1, ThisIs DEF TablesOK
    <2>4. ASSUME NEW m \in Single(This)
          PROVE  Info(This, m).mid # NoMethod
      <3>1. Info(This, m).mid \in Nat /\ cur_mid <= Info(This, m).mid
        BY <2>3, InfoIs DEF MethodInfo
      <3> QED  BY <2>3, <3>1 DEF NoMethod
    <2> QED  BY <2>2, <2>4 DEF MidsGiven, Held
  <1>3. CASE ResolveMethod
    <2>1. AtMethod /\ Tabling /\ par <= Len(edges[This])
      BY <1>3, ResolveIs DEF AtMethod, TablesOK
    <2>2. tables' = tables /\ Theirs \in Held /\ (With(own, Sig) # {} => Mine \in own)
      BY <1>3, <2>1, ResolveIs, SigIs, FromParentIs DEF Held
    <2>3. With(own, Sig) # {} => Overriding(Mine, Theirs).mid = Mine.mid
      BY <2>1, SigIs, OverridingIs
    <2>4. \A x \in Held' : \E y \in Held : x.mid = y.mid
      BY <1>3, <2>2, <2>3, ResolveIs DEF Held
    <2> QED  BY <2>4 DEF MidsGiven
  <1>4. CASE EndType
    <2>1. tables' = [tables EXCEPT ![This] = own] /\ own' = own
          /\ tables \in [Types -> SUBSET MethodInfo]
      BY <1>4 DEF EndType, TablesOK
    <2>2. Held' \subseteq Held
      BY <2>1 DEF Held
    <2> QED  BY <2>2 DEF MidsGiven
  <1>5. UNCHANGED <<own, tables>> \/ DeclareMethods \/ ResolveMethod \/ EndType
    BY DEF TablesNext, BuildTables, Sorting, tableVars, FinalParent, EnterParent, LeaveParent
  <1> QED  BY <1>1, <1>2, <1>3, <1>4, <1>5

\* What the definitions look at does not change while tables are built.
LEMMA DispatchFixes ==
    ASSUME BuildTables
    PROVE  /\ UNCHANGED <<edges, bodies, decls, sorted, phase>>
           /\ \A t, a : Below(t, a)' <=> Below(t, a)
           /\ \A t : IsClass(t)' <=> IsClass(t)
           /\ \A t, s : Declares(t, s)' <=> Declares(t, s)
           /\ at' = at => This' = This
  BY StepFixes, BuildFixes DEF IsClass, Declares

\* An action on the table of This leaves what is known of it alone, if it does
\* not touch the tables of the types above.
LEMMA ResolvedStays ==
    ASSUME BuildTables, NEW t \in Types, NEW table, Resolved(t, table),
           \A x \in table : x.owner # t => tables'[x.owner] = tables[x.owner],
           edges[t] # << >> => tables'[edges[t][1]] = tables[edges[t][1]]
    PROVE  Resolved(t, table)'
  <1>1. Originates(t, table)'
    BY DEF Resolved, Originates
  <1>2. Lowest(t, table)'
    BY DispatchFixes DEF Resolved, Lowest
  <1>3. OverridesFirst(t, table)'
    BY DispatchFixes DEF Resolved, OverridesFirst
  <1> QED  BY <1>1, <1>2, <1>3 DEF Resolved

DispatchWorking == Working /\ DispatchSoFar

\* What dispatch relies on holds for the parent at hand.
LEMMA ParentDispatched ==
    ASSUME DispatchWorking, par <= Len(edges[This])
    PROVE  /\ DispatchDone(FromParent) /\ TypeDone(FromParent) /\ Graph
           /\ par \in 1..Len(edges[This]) /\ This \in Types /\ FromParent \in Types
           /\ Kinded(This) /\ edges[This] # << >>
           /\ \A x \in tables[FromParent] : x.owner # This
  <1>1. Working /\ DispatchSoFar /\ HInv /\ TablesOK /\ Tabling /\ Clean /\ phase = "done"
    BY DEF DispatchWorking, Working, Tabling
  <1>2. /\ Graph /\ TypeDone(FromParent) /\ TypeOK /\ TopSorted
        /\ \A d : Below(FromParent, d) => d # This
    BY <1>1, ParentDone DEF HInv, IInv
  <1>3. /\ FromParent \in Types /\ FromParent \in ParentsOf(This)
        /\ at \in 1..Len(sorted) /\ sorted \in Seq(Types) /\ Len(sorted) \in Nat
        /\ This \in Types /\ par \in 1..Len(edges[This]) /\ edges[This] \in Seq(Types)
    BY <1>1, FromParentIs, ThisIs
  <1>4. PICK j \in 1..(at - 1) : sorted[j] = FromParent
    BY <1>2, <1>3 DEF TopSorted, This
  <1>5. j \in 1..Len(sorted) /\ j < at
    BY <1>3
  <1>6. DispatchDone(FromParent)
    BY <1>1, <1>4, <1>5 DEF DispatchSoFar
  <1>7. Kinded(This)
    BY <1>1, <1>2, <1>3 DEF Graph, HInv, KindsInv
  <1>8. \A x \in tables[FromParent] : x.owner # This
    BY <1>2 DEF TypeDone
  <1> QED  BY <1>2, <1>3, <1>6, <1>7, <1>8

LEMMA DeclareDispatches ==
    ASSUME DispatchWorking, DeclareMethods
    PROVE  DispatchBegun'
  <1>1. /\ own' = {Info(This, m) : m \in Single(This)} /\ step' = "parent" /\ par' = 1 /\ at' = at
        /\ BuildTables
    BY DEF DeclareMethods, BuildTables
  <1>0. \A m : Info(This, m).owner = This /\ Info(This, m).parent = NoMethod
    BY DEF Info
  <1>2. \A x \in own' : x.owner = This /\ x.parent = NoMethod
    BY <1>0, <1>1
  <1>3. PICK t : t = This /\ This' = t
    BY <1>1, DispatchFixes
  <1>4. Resolved(t, own)'
    BY <1>1, <1>2, <1>3, DispatchFixes DEF Resolved, Originates, Lowest, OverridesFirst
  <1>5. \A s : ~Met(s)'
    BY <1>1 DEF Met
  <1> QED  BY <1>3, <1>4, <1>5 DEF DispatchBegun

\* A step that keeps the own methods and the place where it is.
LEMMA MoveDispatches ==
    ASSUME DispatchWorking, BuildTables, step # "begin", UNCHANGED <<own, tables, at>>,
           IsClass(This) /\ edges[This] # << >> =>
              \A x \in tables[edges[This][1]] : Met(x.sig)' => Met(x.sig)
    PROVE  DispatchBegun'
  <1>1. DispatchBegun
    BY DEF DispatchWorking, Working, DispatchSoFar, Tabling
  <1>2. This' = This /\ UNCHANGED edges /\ (IsClass(This)' <=> IsClass(This))
    BY DispatchFixes
  <1>3. Resolved(This, own)'
    BY <1>1, <1>2, DispatchFixes DEF DispatchBegun, Resolved, Originates, Lowest, OverridesFirst
  <1>4. ASSUME IsClass(This), edges[This] # << >>, NEW x \in tables[edges[This][1]], Met(x.sig)'
        PROVE  Continued(This, own, x)'
    BY <1>1, <1>2, <1>4 DEF DispatchBegun, Continued, Continues
  <1> QED  BY <1>2, <1>3, <1>4 DEF DispatchBegun, IsClass

LEMMA EnterDispatches ==
    ASSUME DispatchWorking, EnterParent
    PROVE  DispatchBegun'
  <1>1. /\ BuildTables /\ par <= Len(edges[This]) /\ step = "parent" /\ step' = "method"
        /\ todo' = {m.sig : m \in tables[FromParent]} /\ UNCHANGED <<at, par, own, tables>>
    BY DEF BuildTables, EnterParent, AtParent
  <1>2. par \in Nat \ {0}
    BY DEF DispatchWorking, Working, TablesOK
  <1>3. ASSUME NEW x \in tables[edges[This][1]], Met(x.sig)'
        PROVE  Met(x.sig)
    <2>1. CASE par > 1
      BY <2>1 DEF Met
    <2>2. CASE par = 1
      BY <1>1, <1>3, <2>2 DEF Met, FromParent
    <2> QED  BY <1>2, <2>1, <2>2
  <1> QED  BY <1>1, <1>3, MoveDispatches

LEMMA LeaveDispatches ==
    ASSUME DispatchWorking, LeaveParent
    PROVE  DispatchBegun'
  <1>1. BuildTables /\ step = "method" /\ todo = {} /\ UNCHANGED <<at, own, tables>>
    BY DEF BuildTables, LeaveParent
  <1>2. \A s : Met(s)
    BY <1>1 DEF Met
  <1> QED  BY <1>1, <1>2, MoveDispatches

\* A step on a method: what it has met then, and what the first parent is.
LEMMA ResolveDispatches ==
    ASSUME DispatchWorking, ResolveMethod
    PROVE  /\ BuildTables /\ UNCHANGED <<at, tables, edges, par>> /\ This' = This
           /\ DispatchBegun /\ TypeBegun /\ AtMethod /\ This \in Types /\ edges[This] # << >>
           /\ \A s : Met(s)' => Met(s) \/ s = Sig
           /\ ~Met(Sig) <=> par = 1
           /\ IsClass(This) => (IsClass(FromParent) <=> par = 1)
           /\ par = 1 => FromParent = edges[This][1]
           /\ Theirs \in tables[FromParent] /\ Theirs.sig = Sig
           /\ \A x \in tables[FromParent] : x.sig = Sig => x = Theirs
  <1>1. /\ BuildTables /\ TypeBegun /\ AtMethod /\ par <= Len(edges[This])
        /\ UNCHANGED <<at, par, tables>>
        /\ Theirs \in tables[FromParent] /\ Theirs.sig = Sig
    BY ResolveMeets DEF DispatchWorking
  <1>2. step = "method" /\ step' = step /\ todo' = todo \ {Sig} /\ Sig \in todo
    BY <1>1, ResolveIs, SigIs DEF AtMethod, DispatchWorking, Working, TablesOK
  <1>3. DispatchBegun
    BY <1>2 DEF DispatchWorking, Working, DispatchSoFar, Tabling
  <1>4. /\ TypeDone(FromParent) /\ Kinded(This) /\ par \in 1..Len(edges[This]) /\ This \in Types
        /\ edges[This] # << >>
    BY <1>1, ParentDispatched
  <1>5. \A x \in tables[FromParent] : x.sig = Sig => x = Theirs
    BY <1>1, <1>4 DEF TypeDone, OneEach
  <1>6. ~Met(Sig) <=> par = 1
    BY <1>2, <1>4 DEF Met
  <1>7. \A s : Met(s)' => Met(s) \/ s = Sig
    BY <1>1, <1>2 DEF Met
  <1>8. par = 1 => FromParent = edges[This][1]
    BY DEF FromParent
  <1>9. IsClass(This) => (IsClass(FromParent) <=> par = 1)
    BY <1>4 DEF IsClass, Kinded, FromParent
  <1> QED  BY <1>1, <1>3, <1>4, <1>5, <1>6, <1>7, <1>8, <1>9, DispatchFixes

\* A method that comes from the parent.
LEMMA InheritDispatches ==
    ASSUME DispatchWorking, Inherit
    PROVE  DispatchBegun'
  <1>1. ResolveMethod /\ Sig # Constructor /\ With(own, Sig) = {} /\ own' = own \union {Theirs}
    BY DEF Inherit, ResolveMethod, Resolving
  <1>2. /\ BuildTables /\ UNCHANGED <<at, tables, edges>> /\ This' = This
        /\ DispatchBegun /\ TypeBegun /\ This \in Types
        /\ \A s : Met(s)' => Met(s) \/ s = Sig
        /\ ~Met(Sig) <=> par = 1
        /\ IsClass(This) => (IsClass(FromParent) <=> par = 1)
        /\ par = 1 => FromParent = edges[This][1]
        /\ Theirs \in tables[FromParent] /\ Theirs.sig = Sig
        /\ \A x \in tables[FromParent] : x.sig = Sig => x = Theirs
    BY <1>1, ResolveDispatches
  <1>3. /\ DispatchDone(FromParent) /\ TypeDone(FromParent) /\ Graph
        /\ par \in 1..Len(edges[This]) /\ FromParent \in Types /\ edges[This] # << >>
        /\ Theirs.owner # This
    BY <1>1, <1>2, ParentDispatched, ResolveMeets DEF DispatchWorking
  <1>4. PICK z \in tables[Theirs.owner] : z.mid = Theirs.mid /\ z.owner = Theirs.owner
    <2>1. CASE Theirs.owner = FromParent
      BY <1>2, <2>1
    <2>2. CASE Theirs.owner # FromParent
      BY <1>2, <1>3, <2>2 DEF DispatchDone, Resolved, Originates
    <2> QED  BY <2>1, <2>2
  <1>5. Originates(This, own')
    BY <1>1, <1>2, <1>4 DEF DispatchBegun, Resolved, Originates
  <1>6. ~Declares(This, Sig)
    BY <1>1, <1>2 DEF TypeBegun, OwnKept, Keeps, With, Declares
  <1>7. ASSUME IsClass(This), NEW d \in Types, IsClass(d), Below(This, d), Declares(d, Sig)
        PROVE  IsClass(Theirs.owner) /\ Below(Theirs.owner, d)
    <2>1. d # This
      BY <1>6, <1>7
    <2>2. ~Root(This)
      BY <1>3 DEF Root
    <2>3. Below(edges[This][1], d)
      BY <1>2, <1>3, <1>7, <2>1, <2>2, ClassAbove DEF ClassesAbove, Extends
    <2>4. PICK m \in bodies[d].methods : m.sig = Sig
      BY <1>7 DEF Declares
    <2>5. CASE par = 1
      BY <1>1, <1>2, <1>3, <1>7, <2>3, <2>5 DEF DispatchDone, Resolved, Lowest
    <2>6. CASE par # 1
      <3>1. 1 \in 1..(par - 1)
        BY <1>3, <2>6
      <3>2. Seen(d, Sig)
        BY <2>3, <3>1 DEF Seen, SeenBefore
      <3>3. Covers(own, d, m)
        BY <1>1, <1>2, <2>4, <3>2 DEF TypeBegun
      <3> QED  BY <1>1, <2>4, <3>3 DEF Covers, Fits, With
    <2> QED  BY <2>5, <2>6
  <1>8. Lowest(This, own')
    BY <1>1, <1>2, <1>7 DEF DispatchBegun, Resolved, Lowest
  <1>9. OverridesFirst(This, own')
    BY <1>1, <1>2, <1>3 DEF DispatchBegun, Resolved, OverridesFirst
  <1>10. ASSUME IsClass(This), edges[This] # << >>, NEW x \in tables[edges[This][1]], Met(x.sig)'
         PROVE  Continued(This, own', x)
    <2>1. CASE Met(x.sig)
      BY <1>1, <1>2, <1>10, <2>1 DEF DispatchBegun, Continued
    <2>2. CASE ~Met(x.sig)
      <3>1. x = Theirs
        BY <1>2, <1>10, <2>2
      <3> QED  BY <1>1, <3>1 DEF Continued, Continues
    <2> QED  BY <2>1, <2>2
  <1>11. Resolved(This, own)'
    BY <1>2, <1>5, <1>8, <1>9, DispatchFixes
       DEF Resolved, Originates, Lowest, OverridesFirst
  <1> QED  BY <1>2, <1>10, <1>11, DispatchFixes DEF DispatchBegun, Continued, Continues, IsClass

\* A method of the type that overrides the parent's.
LEMMA OverrideDispatches ==
    ASSUME DispatchWorking, Override
    PROVE  DispatchBegun'
  <1> DEFINE new == Overriding(Mine, Theirs)
  <1>1. /\ ResolveMethod /\ Sig # Constructor /\ With(own, Sig) # {}
        /\ own' = (own \ {Mine}) \union {new}
    BY DEF Override, ResolveMethod, Meeting, Resolving
  <1>2. /\ BuildTables /\ UNCHANGED <<at, tables, edges>> /\ This' = This
        /\ DispatchBegun /\ TypeBegun /\ This \in Types
        /\ \A s : Met(s)' => Met(s) \/ s = Sig
        /\ ~Met(Sig) <=> par = 1
        /\ IsClass(This) => (IsClass(FromParent) <=> par = 1)
        /\ par = 1 => FromParent = edges[This][1]
        /\ Theirs \in tables[FromParent] /\ Theirs.sig = Sig
        /\ \A x \in tables[FromParent] : x.sig = Sig => x = Theirs
    BY <1>1, ResolveDispatches
  <1>3. Mine \in own /\ Mine.sig = Sig /\ Mine \in MethodInfo /\ Theirs \in MethodInfo
        /\ step = "method" /\ Sig \in todo /\ edges[This] # << >>
    BY <1>1, <1>2, ResolveMeets, ResolveDispatches, ResolveIs, SigIs
       DEF DispatchWorking, Working, AtMethod
  <1>4. /\ new.mid = Mine.mid /\ new.owner = Mine.owner /\ new.sig = Sig
        /\ new.parent = IF IsClass(FromParent) THEN Theirs.mid ELSE Mine.parent
    <2>1. new.mid = Mine.mid /\ new.owner = Mine.owner /\ new.sig = Sig
      BY <1>3, OverridingIs
    <2> QED  BY <1>3, <2>1 DEF Overriding, MethodInfo, IsClass
  <1> HIDE DEF new
  <1>5. Originates(This, own')
    BY <1>1, <1>2, <1>3, <1>4 DEF DispatchBegun, Resolved, Originates
  <1>6. Lowest(This, own')
    BY <1>1, <1>2, <1>3, <1>4 DEF DispatchBegun, Resolved, Lowest
  <1>7. OverridesFirst(This, own')
    <2> SUFFICES ASSUME IsClass(This), NEW x \in own', x.owner = This, x.parent # NoMethod
                 PROVE  \E z \in tables[edges[This][1]] : z.sig = x.sig /\ z.mid = x.parent
      BY <1>3 DEF OverridesFirst
    <2>1. CASE x = new /\ par = 1
      BY <1>2, <1>4, <2>1
    <2>2. CASE x = new /\ par # 1
      BY <1>2, <1>3, <1>4, <2>2 DEF DispatchBegun, Resolved, OverridesFirst
    <2>3. CASE x # new
      BY <1>1, <1>2, <2>3 DEF DispatchBegun, Resolved, OverridesFirst
    <2> QED  BY <2>1, <2>2, <2>3
  <1>8. ASSUME IsClass(This), edges[This] # << >>, NEW x \in tables[edges[This][1]], Met(x.sig)'
        PROVE  Continued(This, own', x)
    <2>1. CASE Met(x.sig)
      <3> SUFFICES ASSUME x.sig # Constructor
                   PROVE  \E y \in own' : Continues(y, x, This)
        BY DEF Continued
      <3>1. PICK y \in own : Continues(y, x, This)
        BY <1>2, <1>8, <2>1 DEF DispatchBegun, Continued
      <3>2. CASE y # Mine
        BY <1>1, <3>1, <3>2
      <3>3. CASE y = Mine
        <4>1. par # 1
          BY <1>2, <1>3, <2>1, <3>1, <3>3 DEF Continues
        <4>2. Continues(new, x, This)
          BY <1>2, <1>3, <1>4, <1>8, <3>1, <3>3, <4>1 DEF Continues
        <4> QED  BY <1>1, <4>2
      <3> QED  BY <3>2, <3>3
    <2>2. CASE ~Met(x.sig)
      <3>1. x = Theirs /\ par = 1
        BY <1>2, <1>8, <2>2
      <3>2. Mine.owner = This
        <4>1. Seen(Mine.owner, Sig) /\ 1..(par - 1) = {}
          BY <1>2, <1>3, <3>1 DEF TypeBegun
        <4> QED  BY <1>3, <4>1 DEF Seen, SeenBefore
      <3>3. Continues(new, x, This)
        BY <1>2, <1>4, <1>8, <3>1, <3>2 DEF Continues
      <3> QED  BY <1>1, <3>3 DEF Continued
    <2> QED  BY <2>1, <2>2
  <1>9. Resolved(This, own)'
    BY <1>2, <1>5, <1>6, <1>7, DispatchFixes
       DEF Resolved, Originates, Lowest, OverridesFirst
  <1> QED  BY <1>2, <1>8, <1>9, DispatchFixes DEF DispatchBegun, Continued, Continues, IsClass

\* The other steps on a method that report no error keep the own methods.
LEMMA KeepDispatches ==
    ASSUME DispatchWorking, SkipConstructor \/ InheritedTwice
    PROVE  DispatchBegun'
  <1>1. ResolveMethod /\ own' = own
    BY DEF SkipConstructor, InheritedTwice, ResolveMethod
  <1>2. /\ BuildTables /\ UNCHANGED <<at, tables, edges>> /\ This' = This
        /\ DispatchBegun /\ TypeBegun /\ This \in Types
        /\ \A s : Met(s)' => Met(s) \/ s = Sig
        /\ ~Met(Sig) <=> par = 1
        /\ par = 1 => FromParent = edges[This][1]
        /\ \A x \in tables[FromParent] : x.sig = Sig => x = Theirs
    BY <1>1, ResolveDispatches
  <1>3. ASSUME IsClass(This), edges[This] # << >>, NEW x \in tables[edges[This][1]], Met(x.sig)'
        PROVE  Continued(This, own, x)
    <2>1. CASE Met(x.sig)
      BY <1>2, <1>3, <2>1 DEF DispatchBegun
    <2>2. CASE ~Met(x.sig)
      <3>1. x = Theirs /\ x.sig = Sig
        BY <1>2, <1>3, <2>2
      <3>2. CASE SkipConstructor
        BY <3>1, <3>2 DEF SkipConstructor, Continued
      <3>3. CASE InheritedTwice
        <4>1. With(own, Sig) # {} /\ Mine.mid = Theirs.mid
          BY <3>3 DEF InheritedTwice
        <4>2. Mine \in own /\ Mine.sig = Sig
          BY <1>1, <4>1, ResolveMeets DEF DispatchWorking
        <4> QED  BY <3>1, <4>1, <4>2 DEF Continued, Continues
      <3> QED  BY <3>2, <3>3
    <2> QED  BY <2>1, <2>2
  <1>4. Resolved(This, own)'
    BY <1>1, <1>2, DispatchFixes DEF DispatchBegun, Resolved, Originates, Lowest, OverridesFirst
  <1> QED  BY <1>1, <1>2, <1>3, <1>4, DispatchFixes
           DEF DispatchBegun, Continued, Continues, IsClass

\* When the parents are done with, all methods of the first have been met.
LEMMA EndDispatches ==
    ASSUME DispatchWorking, EndType, Clean'
    PROVE  \E t \in Types : t = This /\ DispatchDone(t)'
  <1>1. /\ BuildTables /\ step = "parent" /\ par > Len(edges[This])
        /\ tables' = [tables EXCEPT ![This] = own]
        /\ IsClass(This) /\ ~bodies[This].abstract => \A m \in own : ~m.abstract
    BY DEF BuildTables, EndType, Clean, IsClass
  <1>2. /\ at \in 1..Len(sorted) /\ This \in Types /\ Len(edges[This]) \in Nat
        /\ edges[This] \in Seq(Types) /\ tables \in [Types -> SUBSET MethodInfo]
        /\ sorted \in Seq(Types)
    BY ThisIs DEF DispatchWorking, Working, TablesOK
  <1>3. DispatchBegun
    BY <1>1 DEF DispatchWorking, Working, DispatchSoFar, Tabling
  <1>4. PICK t \in Types : t = This
    BY <1>2
  <1>5. tables'[t] = own /\ \A u : u # t => tables'[u] = tables[u]
    BY <1>1, <1>2, <1>4
  <1>6. ASSUME edges[t] # << >>
        PROVE  edges[t][1] # t /\ \A s : Met(s)
    <2>1. 1 \in 1..Len(edges[t]) /\ par > 1
      BY <1>1, <1>2, <1>4, <1>6 DEF DispatchWorking, Working, TablesOK
    <2>2. edges[t][1] \in ParentsOf(sorted[at])
      BY <1>2, <1>4, <2>1 DEF ParentsOf, This
    <2>3. TypeOK /\ TopSorted
      BY DEF DispatchWorking, Working, HInv, IInv, Tabling
    <2>4. ~Below(edges[t][1], t)
      BY <1>2, <1>4, <2>2, <2>3, NotAboveItsParent DEF This
    <2> QED  BY <2>1, <2>4, BelowItself DEF Met
  <1>7. Resolved(t, own)
    BY <1>3, <1>4 DEF DispatchBegun
  <1>8. PICK table : table = own
    OBVIOUS
  <1>9. Resolved(t, table)'
    BY <1>1, <1>5, <1>6, <1>7, <1>8, ResolvedStays
  <1>10. ASSUME IsClass(t), edges[t] # << >>, NEW x \in tables[edges[t][1]]
         PROVE  Continued(t, table, x)
    BY <1>3, <1>4, <1>6, <1>8, <1>10 DEF DispatchBegun
  <1>11. DispatchDone(t)'
    BY <1>1, <1>4, <1>5, <1>6, <1>8, <1>9, <1>10, DispatchFixes DEF DispatchDone, Continued, Continues
  <1> QED  BY <1>4, <1>11

LEMMA DoneDispatched ==
    ASSUME DispatchWorking, BuildTables, NEW i \in 1..Len(sorted), i < at,
           \A t \in Types : t # This => tables'[t] = tables[t]
    PROVE  \E t \in Types : t = sorted[i] /\ DispatchDone(t)'
  <1>1. Working /\ DispatchSoFar /\ LegalSoFar /\ Tabling /\ Clean /\ HInv /\ TablesOK
    BY DEF DispatchWorking, Working
  <1>2. /\ at \in 1..Len(sorted) /\ sorted \in Seq(Types) /\ Len(sorted) \in Nat
        /\ DOMAIN sorted = 1..Len(sorted) /\ TypeOK /\ TopSorted
    BY <1>1, ThisIs DEF HInv, IInv
  <1>3. PICK t \in Types : t = sorted[i]
    BY <1>2
  <1>4. DispatchDone(t) /\ TypeDone(t)
    BY <1>1, <1>3 DEF DispatchSoFar, LegalSoFar, Tabling
  <1>5. ASSUME NEW d \in Types, Below(t, d)
        PROVE  tables'[d] = tables[d]
    <2>1. PICK j \in 1..i : sorted[j] = d
      BY <1>2, <1>3, <1>5, AboveIsEarlier
    <2>2. j \in 1..Len(sorted) /\ j # at
      BY <1>2
    <2>3. d # This
      BY <1>2, <2>1, <2>2 DEF TopSorted, This
    <2> QED  BY <2>3
  <1>6. tables'[t] = tables[t] /\ tables[t] \subseteq MethodInfo
    BY <1>1, <1>5, BelowItself DEF TablesOK
  <1>7. \A x \in tables[t] : tables'[x.owner] = tables[x.owner]
    BY <1>4, <1>5, <1>6 DEF TypeDone, MethodInfo
  <1>8. edges[t] # << >> => tables'[edges[t][1]] = tables[edges[t][1]]
    <2> SUFFICES ASSUME edges[t] # << >>
                 PROVE  tables'[edges[t][1]] = tables[edges[t][1]]
      OBVIOUS
    <2>1. edges[t] \in Seq(Types)
      BY <1>2 DEF TypeOK
    <2>2. 1 \in 1..Len(edges[t]) /\ edges[t][1] \in Types
      BY <2>1
    <2>3. edges[t][1] \in ParentsOf(t)
      BY <2>2 DEF ParentsOf
    <2> QED  BY <1>5, <2>2, <2>3, BelowItself, BelowParent
  <1>9. PICK table : table = tables[t]
    OBVIOUS
  <1>10. Resolved(t, table)'
    BY <1>4, <1>7, <1>8, <1>9, ResolvedStays DEF DispatchDone
  <1>11. DispatchDone(t)'
    BY <1>4, <1>6, <1>8, <1>9, <1>10, DispatchFixes DEF DispatchDone, Continued, Continues
  <1> QED  BY <1>3, <1>11

LEMMA DispatchNext ==
    ASSUME MInv, DispatchSoFar, [TablesNext]_<<vars, tableVars>>
    PROVE  DispatchSoFar'
  <1> SUFFICES ASSUME Clean', phase' = "done"
               PROVE  /\ (\A i \in 1..Len(sorted) : i < at => DispatchDone(sorted[i]))'
                      /\ (step # "begin" => DispatchBegun)'
    BY DEF DispatchSoFar
  <1>0. HInv /\ TablesOK /\ MidsInv /\ LegalSoFar
    BY DEF MInv
  <1>1. CASE UNCHANGED <<vars, tableVars>>
    <2>1. UNCHANGED <<decls, phase, edges, sorted, pruned, cycles, bodies, tables, errors, at, step,
                      par, todo, own>>
      BY <1>1 DEF vars, tableVars
    <2>2. /\ \A t, a : Below(t, a)' <=> Below(t, a)
          /\ \A t : IsClass(t)' <=> IsClass(t)
          /\ \A t, s : Declares(t, s)' <=> Declares(t, s)
          /\ This' = This
      BY <2>1 DEF Below, Upward, ParentsOf, IsClass, Declares, This
    <2>3. \A t, table : Resolved(t, table)' <=> Resolved(t, table)
      BY <2>1, <2>2 DEF Resolved, Originates, Lowest, OverridesFirst
    <2>4. \A t : DispatchDone(t)' <=> DispatchDone(t)
      BY <2>1, <2>2, <2>3 DEF DispatchDone, Continued, Continues
    <2>5. DispatchBegun' <=> DispatchBegun
      BY <2>1, <2>2, <2>3 DEF DispatchBegun, Continued, Continues, Met
    <2> QED  BY <2>1, <2>4, <2>5 DEF DispatchSoFar, Clean
  <1>2. CASE Sorting
    <2>1. at' = 1 /\ step' = "begin"
      BY <1>0, <1>2, SortingFixes DEF tableVars, TablesOK
    <2> QED  BY <2>1
  <1>3. CASE BuildTables
    <2>1. Tabling /\ UNCHANGED <<phase, sorted, pruned, cycles>> /\ phase = "done"
      BY <1>3, BuildFixes
    <2>2. errors = {}
      BY <1>3 DEF Clean, BuildTables, DeclareMethods, FinalParent, EnterParent, LeaveParent, EndType,
         ResolveMethod, SkipConstructor, SkipBad, Inherit, InheritedTwice, ReturnError, StaticError,
         VisibilityError, FinalError, Override, Clash, OnlyTable
    <2>3. DispatchWorking
      BY <1>0, <2>1, <2>2 DEF DispatchWorking, Working, Clean
    <2>4. CASE EndType
      <3>1. /\ at' = at + 1 /\ at \in 1..Len(sorted) /\ step' = "begin"
            /\ \A t \in Types : t # This => tables'[t] = tables[t]
        BY <2>3, <2>4, EndCompletes DEF DispatchWorking
      <3>2. ASSUME NEW i \in 1..Len(sorted), i < at'
            PROVE  DispatchDone(sorted[i])'
        <4>1. PICK t \in Types : t = sorted[i] /\ DispatchDone(t)'
          <5>1. CASE i = at
            BY <2>3, <2>4, <5>1, EndDispatches DEF This
          <5>2. CASE i < at
            BY <1>3, <2>3, <3>1, <5>2, DoneDispatched
          <5> QED  BY <3>1, <3>2, <5>1, <5>2
        <4> QED  BY <2>1, <4>1
      <3> QED  BY <2>1, <3>1, <3>2
    <2>5. CASE ~EndType
      <3>1. at' = at /\ tables' = tables
        BY <1>3, <1>0, <2>5, ResolveIs DEF BuildTables, DeclareMethods, FinalParent, EnterParent,
                                           LeaveParent
      <3>2. ASSUME NEW i \in 1..Len(sorted), i < at
            PROVE  DispatchDone(sorted[i])'
        <4>1. PICK t \in Types : t = sorted[i] /\ DispatchDone(t)'
          BY <1>3, <2>3, <3>1, <3>2, DoneDispatched
        <4> QED  BY <2>1, <4>1
      <3>3. ~FinalParent /\ ~ReturnError /\ ~StaticError /\ ~VisibilityError /\ ~FinalError
        BY DEF FinalParent, Clean, ReturnError, StaticError, VisibilityError, FinalError, Clash
      <3>4. ~SkipBad
        BY <2>3, ResolveMeets DEF DispatchWorking, ResolveMethod, SkipBad
      <3>5. DispatchBegun'
        BY <1>3, <2>3, <2>5, <3>3, <3>4, DeclareDispatches, EnterDispatches, LeaveDispatches,
           InheritDispatches, OverrideDispatches, KeepDispatches DEF BuildTables, ResolveMethod
      <3> QED  BY <2>1, <3>1, <3>2, <3>5
    <2> QED  BY <2>4, <2>5
  <1> QED  BY <1>1, <1>2, <1>3 DEF TablesNext

LEMMA DInvariant == LayoutSpec => []DInv
  <1>1. LayoutInit => DInv
    <2>1. TablesInit => MidsGiven /\ DispatchSoFar
      BY DEF TablesInit, Init, MidsGiven, Held, DispatchSoFar
    <2> QED  BY <2>1, MInit DEF LayoutInit, DInv
  <1>2. LInv /\ DInv /\ [LayoutNext]_allVars => DInv'
    BY LayoutFixes, MNext, MidsGivenNext, DispatchNext DEF DInv, MInv
  <1> QED  BY <1>1, <1>2, LInvariant, PTL DEF LayoutSpec, allVars

-----------------------------------------------------------------------------
(* Ranks.                                                                  *)

\* The number of smaller elements of a finite set: it grows with the key, and
\* takes every value below the size of the set.
Lesser(S, key, m) == {n \in S : key[n] < key[m]}

LEMMA Ranks ==
    ASSUME NEW S, IsFiniteSet(S), NEW key \in [S -> Nat],
           \A m, n \in S : key[m] = key[n] => m = n
    PROVE  /\ Cardinality(S) \in Nat
           /\ \A m \in S : Cardinality(Lesser(S, key, m)) \in 0..(Cardinality(S) - 1)
           /\ \A m, l \in S : key[m] < key[l] =>
                 Cardinality(Lesser(S, key, m)) < Cardinality(Lesser(S, key, l))
           /\ \A k \in 0..(Cardinality(S) - 1) :
                 \E m \in S : Cardinality(Lesser(S, key, m)) = k
  <1> DEFINE Less(m) == Lesser(S, key, m)
             rank == [m \in S |-> Cardinality(Less(m))]
  <1>0. \A m \in S : key[m] \in Nat
    OBVIOUS
  <1>1. Cardinality(S) \in Nat
    BY FS_CardinalityType
  <1>2. ASSUME NEW m \in S
        PROVE  IsFiniteSet(Less(m)) /\ Cardinality(Less(m)) \in 0..(Cardinality(S) - 1)
    <2> DEFINE T == Less(m)
    <2>1. T \in SUBSET S /\ T # S
      BY <1>0 DEF Lesser
    <2> HIDE DEF T
    <2>2. IsFiniteSet(T) /\ Cardinality(T) <= Cardinality(S) /\ Cardinality(T) # Cardinality(S)
      BY <2>1, FS_Subset
    <2>3. Cardinality(T) \in Nat
      BY <2>2, FS_CardinalityType
    <2> QED  BY <1>1, <2>2, <2>3 DEF T
  <1>3. ASSUME NEW m \in S, NEW l \in S, key[m] < key[l]
        PROVE  Cardinality(Less(m)) < Cardinality(Less(l))
    <2>0. /\ IsFiniteSet(Less(l)) /\ Cardinality(Less(l)) \in Nat
          /\ Cardinality(Less(m)) \in Nat
      <3> HIDE DEF Less
      <3> QED  BY <1>1, <1>2
    <2> DEFINE T == Less(m)
               R == Less(l)
    <2>1. T \in SUBSET R /\ T # R
      BY <1>0, <1>3 DEF Lesser
    <2>2. IsFiniteSet(R) /\ Cardinality(R) \in Nat /\ Cardinality(T) \in Nat
      BY <2>0
    <2> HIDE DEF T, R
    <2>3. Cardinality(T) <= Cardinality(R) /\ Cardinality(T) # Cardinality(R)
      BY <2>1, <2>2, FS_Subset
    <2> QED  BY <2>2, <2>3 DEF T, R
  <1>4. \A k \in 0..(Cardinality(S) - 1) : \E m \in S : Cardinality(Less(m)) = k
    <2> DEFINE N == 0..(Cardinality(S) - 1)
    <2> HIDE DEF Less
    <2>1. rank \in [S -> N]
      BY <1>2
    <2>2. \A m, l \in S : rank[m] = rank[l] => m = l
      <3> SUFFICES ASSUME NEW m \in S, NEW l \in S, m # l
                   PROVE  rank[m] # rank[l]
        OBVIOUS
      <3>1. key[m] \in Nat /\ key[l] \in Nat /\ key[m] # key[l]
        BY <1>0
      <3>2. Cardinality(Less(m)) \in Nat /\ Cardinality(Less(l)) \in Nat
        BY <1>2
      <3>3. CASE key[m] < key[l]
        BY <1>3, <3>2, <3>3
      <3>4. CASE key[l] < key[m]
        BY <1>3, <3>2, <3>4
      <3> QED  BY <3>1, <3>3, <3>4
    <2> HIDE DEF rank
    <2>3. rank \in Injection(S, N)
      BY <2>1, <2>2 DEF Injection, IsInjective
    <2>4. IsFiniteSet(N) /\ Cardinality(N) = Cardinality(S)
      BY <1>1, FS_Interval
    <2>5. rank \in Surjection(S, N)
      <3> HIDE DEF N
      <3> QED  BY <2>3, <2>4, FS_Injection
    <2>6. \A k \in N : \E m \in S : rank[m] = k
      BY <2>5 DEF Surjection
    <2> QED  BY <2>6 DEF rank
  <1> QED  BY <1>1, <1>2, <1>3, <1>4

-----------------------------------------------------------------------------
(* The tables of an accepted program.                                      *)

Settled ==
    /\ Graph /\ TypeOK /\ TopSorted /\ MidsInv /\ MidsGiven /\ TablesOK
    /\ bodies \in [Types -> Body] /\ tables \in [Types -> SUBSET MethodInfo]
    /\ \A t \in Types : TypeDone(t) /\ DispatchDone(t)

LEMMA IsSettled ==
    ASSUME LInv, DInv, stage # "tables"
    PROVE  Settled
  <1>1. Graph /\ Clean /\ LegalSoFar /\ DispatchSoFar /\ at > Len(sorted) /\ at \in Nat
    BY OrderIs DEF LInv, StageOK, DInv, MInv, Accepted, Clean, TablesOK
  <1>2. ASSUME NEW t \in Types
        PROVE  TypeDone(t) /\ DispatchDone(t)
    <2>1. PICK i \in 1..Len(sorted) : sorted[i] = t
      BY <1>1, EveryTypeSorted
    <2>2. i < at
      BY <1>1, OrderIs
    <2> QED  BY <1>1, <2>1, <2>2 DEF LegalSoFar, DispatchSoFar, Graph
  <1> QED  BY <1>1, <1>2, OrderIs DEF Settled, DInv, MInv, TablesOK

LEMMA EntriesAre ==
    ASSUME Settled, NEW t \in Types, NEW x \in tables[t]
    PROVE  /\ x \in MethodInfo /\ x.owner \in Types /\ x.mid \in Nat \ {0} /\ x.mid # NoMethod
           /\ Below(t, x.owner) /\ x \in Held
           /\ \E m \in bodies[x.owner].methods : Keeps(x, m)
  BY DEF Settled, TypeDone, EntryOf, MethodInfo, Held, MidsGiven, NoMethod

\* Two entries of one declaration.
LEMMA SameDeclaration ==
    ASSUME Settled, NEW d \in Types, NEW m \in bodies[d].methods, NEW n \in bodies[d].methods,
           m.sig = n.sig
    PROVE  m = n
  <1>1. Duplicated(d) = {}
    BY DEF Settled, TypeDone, SingleDecl
  <1>2. m \in Single(d)
    BY <1>1 DEF Duplicated
  <1> QED  BY <1>2 DEF Single

LEMMA SameMid ==
    ASSUME Settled, NEW t \in Types, NEW u \in Types, NEW x \in tables[t], NEW y \in tables[u],
           x.mid = y.mid
    PROVE  /\ x.owner = y.owner /\ x.sig = y.sig /\ x.static = y.static
           /\ t = u => x = y
  <1>1. x.owner = y.owner /\ x.sig = y.sig
    BY EntriesAre DEF Settled, MidsInv
  <1>2. PICK m \in bodies[x.owner].methods : Keeps(x, m)
    BY EntriesAre
  <1>3. PICK n \in bodies[x.owner].methods : Keeps(y, n)
    BY <1>1, EntriesAre
  <1>4. m = n
    <2>1. x.owner \in Types
      BY EntriesAre
    <2>2. m.sig = n.sig
      BY <1>1, <1>2, <1>3 DEF Keeps
    <2> QED  BY <2>1, <2>2, SameDeclaration
  <1>5. x.static = y.static
    BY <1>2, <1>3, <1>4 DEF Keeps
  <1>6. t = u => x = y
    BY <1>1 DEF Settled, TypeDone, OneEach
  <1> QED  BY <1>1, <1>5, <1>6

\* The entry a type has for a method of a type above.
LEMMA HasEntry ==
    ASSUME Settled, NEW c \in Types, NEW d \in Types, Below(c, d),
           NEW k \in bodies[d].methods, k.sig # Constructor
    PROVE  \E x \in tables[c] : /\ Fits(x, d, k) /\ (~k.static => x \in Dispatched(c))
                                /\ \A y \in tables[c] : y.sig = k.sig => y = x
  <1>1. PICK x \in tables[c] : Fits(x, d, k)
    BY DEF Settled, TypeDone, Covers
  <1>2. ASSUME x.owner = d
        PROVE  x.static = k.static
    <2>1. PICK l \in bodies[d].methods : Keeps(x, l)
      BY <1>2, EntriesAre
    <2>2. l = k
      BY <1>1, <2>1, SameDeclaration DEF Keeps, Fits
    <2> QED  BY <2>1, <2>2 DEF Keeps
  <1> QED  BY <1>1, <1>2 DEF Fits, Dispatched, Settled, TypeDone, OneEach

LEMMA HasDispatched ==
    ASSUME Settled, NEW c \in Types, NEW t \in Types, Below(c, t), NEW m \in Dispatched(t)
    PROVE  \E x \in Dispatched(c) : /\ x.sig = m.sig
                                    /\ \A y \in tables[c] : y.sig = m.sig => y = x
  <1>1. m \in tables[t] /\ ~m.static /\ m.sig # Constructor
    BY DEF Dispatched
  <1>2. PICK k \in bodies[m.owner].methods : Keeps(m, k)
    BY <1>1, EntriesAre
  <1>3. m.owner \in Types /\ Below(c, m.owner)
    BY <1>1, EntriesAre, BelowAbove
  <1> QED  BY <1>1, <1>2, <1>3, HasEntry DEF Keeps, Fits

LEMMA ObjectDispatches ==
    ASSUME Settled
    PROVE  \E m \in bodies[Object].methods : ~m.static /\ m.sig # Constructor
  BY LayoutAssumption DEF Settled, TablesOK

-----------------------------------------------------------------------------
(* A class and the one above it.                                           *)

\* Nothing but Object is above Object.
LEMMA RootOwnsAll ==
    ASSUME Settled
    PROVE  Dispatched(Object) = NewMethods(Object)
  <1> SUFFICES ASSUME NEW m \in Dispatched(Object)
               PROVE  m \in NewMethods(Object)
    BY DEF NewMethods, OwnMethods
  <1>1. /\ Graph /\ Object \in Types /\ edges[Object] = << >> /\ IsClass(Object)
        /\ m \in tables[Object]
    BY HierarchyAssumption, RootIs DEF Settled, Root, Dispatched
  <1>2. m.owner = Object
    <2>1. Below(Object, m.owner) /\ m.owner \in Types
      BY <1>1, EntriesAre
    <2>2. ParentsOf(Object) = {}
      BY <1>1 DEF ParentsOf
    <2>3. {Object} \in SUBSET Types /\ Upward({Object})
      BY <1>1, <2>2 DEF Upward
    <2> QED  BY <2>1, <2>3 DEF Below
  <1>3. m.parent = NoMethod
    BY <1>1, <1>2 DEF Settled, DispatchDone, Resolved, OverridesFirst
  <1> QED  BY <1>2, <1>3 DEF NewMethods, OwnMethods

LEMMA AboveClass ==
    ASSUME Settled, NEW c \in Types, IsClass(c), ~Root(c)
    PROVE  /\ Extends(c) \in Types /\ IsClass(Extends(c)) /\ Extends(c) = edges[c][1]
           /\ edges[c] # << >> /\ Below(c, Extends(c)) /\ ~Below(Extends(c), c)
           /\ \A d \in Types : IsClass(d) /\ Below(c, d) /\ d # c => Below(Extends(c), d)
  <1>1. /\ Extends(c) \in Types /\ IsClass(Extends(c)) /\ Extends(c) \in ParentsOf(c)
        /\ ClassesAbove(c) = {c} \union ClassesAbove(Extends(c))
        /\ c \notin ClassesAbove(Extends(c))
    BY ClassAbove DEF Settled
  <1>2. Below(c, Extends(c))
    BY <1>1, BelowItself, BelowParent
  <1> QED  BY <1>1, <1>2 DEF ClassesAbove, Extends, Root

\* An entry of the class above has one that takes its place.
LEMMA PlaceTaken ==
    ASSUME Settled, NEW c \in Types, IsClass(c), ~Root(c), NEW z \in Dispatched(Extends(c))
    PROVE  \E m \in Dispatched(c) :
              /\ m.sig = z.sig /\ m \notin NewMethods(c)
              /\ m.mid = z.mid \/ (m.owner = c /\ m.parent = z.mid)
  <1>1. /\ Extends(c) \in Types /\ Extends(c) = edges[c][1] /\ edges[c] # << >>
        /\ Below(c, Extends(c)) /\ ~Below(Extends(c), c)
    BY AboveClass
  <1>2. z \in tables[Extends(c)] /\ z.sig # Constructor
    BY DEF Dispatched
  <1>3. PICK m \in tables[c] : Continues(m, z, c)
    BY <1>1, <1>2 DEF Settled, DispatchDone, Continued
  <1>4. m \in Dispatched(c)
    <2>1. PICK x \in Dispatched(c) : \A y \in tables[c] : y.sig = z.sig => y = x
      BY <1>1, HasDispatched
    <2> QED  BY <1>3, <2>1 DEF Continues
  <1>5. CASE m.mid = z.mid
    <2>1. m.owner = z.owner
      BY <1>1, <1>2, <1>5, SameMid
    <2>2. m.owner # c
      BY <1>1, <1>2, <2>1, EntriesAre
    <2> QED  BY <1>3, <1>4, <1>5, <2>2 DEF Continues, NewMethods, OwnMethods
  <1>6. CASE m.owner = c /\ m.parent = z.mid
    <2>1. m.parent # NoMethod
      BY <1>1, <1>2, <1>6, EntriesAre
    <2> QED  BY <1>3, <1>4, <1>6, <2>1 DEF Continues, NewMethods
  <1> QED  BY <1>3, <1>5, <1>6 DEF Continues

\* A method that overrides one has the entry of the class above as its parent.
LEMMA OwnHasPlace ==
    ASSUME Settled, NEW c \in Types, IsClass(c), NEW m \in OwnMethods(c), m \notin NewMethods(c)
    PROVE  ~Root(c) /\ \E z \in Dispatched(Extends(c)) : z.sig = m.sig /\ z.mid = m.parent
  <1>1. /\ m \in tables[c] /\ m.owner = c /\ m.parent # NoMethod /\ m.sig # Constructor
        /\ ~m.static
    BY DEF OwnMethods, NewMethods, Dispatched
  <1>2. edges[c] # << >> /\ \E z \in tables[edges[c][1]] : z.sig = m.sig /\ z.mid = m.parent
    BY <1>1 DEF Settled, DispatchDone, Resolved, OverridesFirst
  <1>3. ~Root(c) /\ Extends(c) = edges[c][1]
    BY <1>2 DEF Root, Extends
  <1>4. PICK z \in tables[Extends(c)] : z.sig = m.sig /\ z.mid = m.parent
    BY <1>2, <1>3
  <1>5. Extends(c) \in Types /\ Below(c, Extends(c)) /\ ~Below(Extends(c), c)
    BY <1>3, AboveClass
  <1>6. PICK k \in bodies[z.owner].methods : Keeps(z, k)
    BY <1>5, EntriesAre
  <1>7. z.owner \in Types /\ Below(Extends(c), z.owner) /\ Below(c, z.owner)
    BY <1>5, EntriesAre, BelowAbove
  <1>8. k.sig = m.sig /\ k.static = z.static
    BY <1>4, <1>6 DEF Keeps
  <1>9. PICK x \in tables[c] : Fits(x, z.owner, k) /\ \A y \in tables[c] : y.sig = k.sig => y = x
    BY <1>1, <1>7, <1>8, HasEntry
  <1>10. x = m /\ m.owner # z.owner
    BY <1>1, <1>5, <1>7, <1>8, <1>9
  <1>11. ~z.static
    BY <1>8, <1>9, <1>10 DEF Fits
  <1> QED  BY <1>1, <1>3, <1>4, <1>11 DEF Dispatched

\* A method inherited from a class is one of the class above.
LEMMA InheritedPlace ==
    ASSUME Settled, NEW c \in Types, IsClass(c), NEW m \in Dispatched(c), m.owner # c,
           IsClass(m.owner)
    PROVE  ~Root(c) /\ \E z \in Dispatched(Extends(c)) : z.sig = m.sig /\ z.mid = m.mid
  <1>1. m \in tables[c] /\ ~m.static /\ m.sig # Constructor
    BY DEF Dispatched
  <1>2. m.owner \in Types /\ Below(c, m.owner)
    BY <1>1, EntriesAre
  <1>3. ~Root(c)
    BY <1>2, RootIs DEF Settled, ClassesAbove
  <1>4. /\ Extends(c) \in Types /\ Extends(c) = edges[c][1] /\ edges[c] # << >>
        /\ Below(Extends(c), m.owner)
    BY <1>2, <1>3, AboveClass
  <1>5. PICK k \in bodies[m.owner].methods : Keeps(m, k)
    BY <1>1, EntriesAre
  <1>6. k.sig = m.sig /\ ~k.static
    BY <1>1, <1>5 DEF Keeps
  <1>7. PICK z \in Dispatched(Extends(c)) : z.sig = m.sig
    <2>1. k.sig # Constructor
      BY <1>1, <1>6
    <2>2. PICK x \in tables[Extends(c)] : Fits(x, m.owner, k) /\ x \in Dispatched(Extends(c))
      BY <1>2, <1>4, <1>6, <2>1, HasEntry
    <2> QED  BY <1>6, <2>2 DEF Fits
  <1>8. PICK y \in Dispatched(c) : /\ y.sig = z.sig
                                   /\ y.mid = z.mid \/ (y.owner = c /\ y.parent = z.mid)
    BY <1>3, PlaceTaken
  <1>9. y = m
    BY <1>1, <1>7, <1>8 DEF Dispatched, Settled, TypeDone, OneEach
  <1> QED  BY <1>3, <1>7, <1>8, <1>9

LEMMA OneDispatched ==
    ASSUME Settled, NEW c \in Types, NEW m \in Dispatched(c), NEW n \in Dispatched(c), m.sig = n.sig
    PROVE  m = n
  BY DEF Dispatched, Settled, TypeDone, OneEach

LEMMA DispatchedFinite ==
    ASSUME Settled, NEW c \in Types
    PROVE  IsFiniteSet(Dispatched(c)) /\ IsFiniteSet(NewMethods(c))
  <1> DEFINE S == Dispatched(c)
             f == [m \in S |-> m.sig]
  <1>1. IsFiniteSet(Signatures)
    BY MembersAssumption, FS_Interval DEF Signatures, Constructor
  <1>2. \A m \in S : m.sig \in Signatures
    BY DEF Dispatched, Settled, MethodInfo
  <1>3. \A m, n \in S : m.sig = n.sig => m = n
    BY OneDispatched
  <1>4. f \in Injection(S, Signatures)
    <2> HIDE DEF S
    <2> QED  BY <1>2, <1>3 DEF Injection, IsInjective
  <1> HIDE DEF f, S
  <1>5. IsFiniteSet(S)
    BY <1>1, <1>4, FS_Injection
  <1>6. NewMethods(c) \in SUBSET S
    BY DEF S, NewMethods, OwnMethods
  <1> QED  BY <1>5, <1>6, FS_Subset DEF S

-----------------------------------------------------------------------------
(* The vtables.                                                            *)

AtOf(m) == method_offsets[m.mid].at
IsSlot(o, end) == o \in Nat /\ o % WordSize = 0 /\ VtableOverhead <= o /\ o < end
HasSlot(m, end) ==
    HasOffset(m.mid) /\ method_offsets[m.mid].kind = "class" /\ IsSlot(AtOf(m), end)

\* The methods of a class have the slots of its vtable, one each, and a method has
\* the slot it has in the classes above.
VtableLaid(c) ==
    /\ vtables[c] = {Entry(m) : m \in Dispatched(c)}
    /\ next_offset[c] % WordSize = 0 /\ VtableOverhead <= next_offset[c]
    /\ \A m \in Dispatched(c) : HasSlot(m, next_offset[c])
    /\ \A m \in Dispatched(c) : IsClass(m.owner)
    /\ \A m, n \in Dispatched(c) : AtOf(m) = AtOf(n) => m = n
    /\ \A o : IsSlot(o, next_offset[c]) => \E m \in Dispatched(c) : AtOf(m) = o
    /\ \A t \in ClassesAbove(c) : \A m \in Dispatched(t) :
          /\ HasOffset(m.mid)
          /\ \A n \in Dispatched(c) : m.sig = n.sig => AtOf(m) = AtOf(n)

MethodsLaidOut(i) ==
    \/ stage \in {"methods", "threw"} /\ i <= place
    \/ stage \in {"interfaces", "done"}

\* The method belongs to a class laid out.
IsLaid(mid) ==
    \E i \in 1..Len(sorted) :
       MethodsLaidOut(i) /\ IsClass(sorted[i]) /\ \E m \in OwnMethods(sorted[i]) : m.mid = mid

HereInMethods == stage \in {"methods", "threw"} /\ place < Len(sorted) /\ IsClass(Current)

MethodsInv ==
    /\ next_offset \in [Types -> Nat] /\ vtables = [t \in Types |-> vtables[t]]
    /\ \A i \in 1..Len(sorted) :
          MethodsLaidOut(i) /\ IsClass(sorted[i]) => VtableLaid(sorted[i])
    /\ stage # "done" => \A mid \in DOMAIN method_offsets : IsLaid(mid)
    /\ stage = "threw" => HereInMethods /\ Missing(Current)

LEMMA HereIs ==
    ASSUME LInv, DInv, MethodsInv, HereInMethods
    PROVE  /\ Settled /\ Current \in Types /\ IsClass(Current)
           /\ place \in Nat /\ place + 1 \in 1..Len(sorted)
           /\ \A t \in Types : IsClass(t) /\ Below(Current, t) /\ t # Current =>
                 \E j \in 1..Len(sorted) : j <= place /\ sorted[j] = t /\ VtableLaid(t)
  <1>1. stage # "tables" /\ place \in Nat /\ place < Len(sorted) /\ IsClass(Current)
    BY DEF HereInMethods, LInv, StageOK
  <1>2. /\ Settled /\ Len(sorted) \in Nat /\ TypeOK /\ TopSorted
        /\ \A i \in 1..Len(sorted) : sorted[i] \in Types
    BY <1>1, IsSettled, OrderIs
  <1>3. place + 1 \in 1..Len(sorted) /\ Current \in Types
    BY <1>1, <1>2 DEF Current
  <1>4. ASSUME NEW t \in Types, IsClass(t), Below(Current, t), t # Current
        PROVE  \E j \in 1..Len(sorted) : j <= place /\ sorted[j] = t /\ VtableLaid(t)
    <2>1. PICK j \in 1..(place + 1) : sorted[j] = t
      BY <1>2, <1>3, <1>4, AboveIsEarlier DEF Current
    <2>2. j # place + 1
      BY <1>4, <2>1 DEF Current
    <2>3. j \in 1..Len(sorted) /\ j <= place
      BY <1>1, <1>2, <2>2
    <2>4. MethodsLaidOut(j)
      BY <2>3 DEF MethodsLaidOut, HereInMethods
    <2> QED  BY <1>4, <2>1, <2>3, <2>4 DEF MethodsInv
  <1> QED  BY <1>1, <1>2, <1>3, <1>4

\* The methods of the class at hand have no offsets yet.
LEMMA OwnUnplaced ==
    ASSUME LInv, DInv, MethodsInv, HereInMethods, NEW m \in OwnMethods(Current)
    PROVE  ~HasOffset(m.mid)
  <1> SUFFICES ASSUME HasOffset(m.mid)
               PROVE  FALSE
    OBVIOUS
  <1>1. Settled /\ Current \in Types /\ place \in Nat /\ place + 1 \in 1..Len(sorted)
    BY HereIs
  <1>2. IsLaid(m.mid)
    BY DEF HasOffset, MethodsInv, HereInMethods
  <1>3. PICK i \in 1..Len(sorted) :
           MethodsLaidOut(i) /\ \E n \in OwnMethods(sorted[i]) : n.mid = m.mid
    BY <1>2 DEF IsLaid
  <1>4. i <= place
    BY <1>3 DEF MethodsLaidOut, HereInMethods
  <1>5. /\ sorted[i] \in Types
        /\ \A k, j \in 1..Len(sorted) : sorted[k] = sorted[j] => k = j
    BY OrderIs DEF HereInMethods
  <1>6. PICK n \in OwnMethods(sorted[i]) : n.mid = m.mid
    BY <1>3
  <1>7. /\ n \in tables[sorted[i]] /\ n.owner = sorted[i]
        /\ m \in tables[Current] /\ m.owner = Current
    BY <1>6 DEF OwnMethods, Dispatched
  <1>8. sorted[i] = sorted[place + 1]
    BY <1>1, <1>5, <1>6, <1>7, SameMid DEF Current
  <1> QED  BY <1>1, <1>4, <1>5, <1>8

\* What the class inherits from classes has offsets.
LEMMA InheritedPlaced ==
    ASSUME LInv, DInv, MethodsInv, HereInMethods, NEW m \in Dispatched(Current),
           m.owner # Current, IsClass(m.owner)
    PROVE  HasOffset(m.mid)
  <1> DEFINE c == Current
  <1>1. Settled /\ c \in Types /\ IsClass(c)
    BY HereIs
  <1>2. PICK z \in Dispatched(Extends(c)) : z.mid = m.mid /\ ~Root(c)
    BY <1>1, InheritedPlace
  <1>3. VtableLaid(Extends(c))
    BY <1>1, <1>2, HereIs, AboveClass, BelowItself
  <1> QED  BY <1>2, <1>3 DEF VtableLaid, HasSlot

LEMMA PlacedOwner ==
    ASSUME LInv, DInv, MethodsInv, stage \notin {"tables", "done"},
           NEW t \in Types, NEW m \in tables[t], HasOffset(m.mid)
    PROVE  IsClass(m.owner)
  <1>1. Settled /\ \A i \in 1..Len(sorted) : sorted[i] \in Types
    BY IsSettled, OrderIs
  <1>2. IsLaid(m.mid)
    BY DEF HasOffset, MethodsInv
  <1>3. PICK i \in 1..Len(sorted) :
           IsClass(sorted[i]) /\ \E n \in OwnMethods(sorted[i]) : n.mid = m.mid
    BY <1>2 DEF IsLaid
  <1>4. PICK n \in OwnMethods(sorted[i]) : n.mid = m.mid
    BY <1>3
  <1>5. n \in tables[sorted[i]] /\ n.owner = sorted[i] /\ sorted[i] \in Types
    BY <1>1, <1>4 DEF OwnMethods, Dispatched
  <1>6. m.owner = sorted[i]
    BY <1>1, <1>4, <1>5, SameMid
  <1> QED  BY <1>3, <1>6

\* If nothing is missing, all that the class does not declare is from classes and
\* has an offset: Object's methods are dispatched, so that there is one entry only
\* if it is Object's.
LEMMA NothingMissing ==
    ASSUME LInv, DInv, MethodsInv, HereInMethods, ~Missing(Current), NEW m \in Dispatched(Current),
           m.owner # Current
    PROVE  HasOffset(m.mid) /\ IsClass(m.owner)
  <1> DEFINE c == Current
  <1>1. Settled /\ c \in Types /\ IsClass(c)
    BY HereIs
  <1>2. CASE Cardinality(Dispatched(c)) > 1
    <2>1. HasOffset(m.mid)
      BY <1>2 DEF Missing, OwnMethods
    <2> QED  BY <1>1, <2>1, PlacedOwner DEF HereInMethods, Dispatched
  <1>3. CASE ~(Cardinality(Dispatched(c)) > 1)
    <2>1. PICK k \in bodies[Object].methods : ~k.static /\ k.sig # Constructor
      BY <1>1, ObjectDispatches
    <2>2. Object \in Types /\ IsClass(Object) /\ Below(c, Object)
      BY <1>1, HierarchyAssumption, RootIs, ObjectOnTop DEF Settled
    <2>3. PICK x \in Dispatched(c) : x.sig = k.sig
      BY <1>1, <2>1, <2>2, HasEntry DEF Fits
    <2>4. x = m
      <3> SUFFICES ASSUME x # m
                   PROVE  FALSE
        OBVIOUS
      <3> DEFINE S == Dispatched(c)
      <3>1. IsFiniteSet(S) /\ {x, m} \in SUBSET S
        BY <1>1, <2>3, DispatchedFinite
      <3>2. IsFiniteSet({x}) /\ Cardinality({x}) = 1 /\ {x, m} = {x} \union {m}
        BY FS_Singleton
      <3>3. Cardinality({x, m}) = 2
        BY <3>2, FS_AddElement
      <3> HIDE DEF S
      <3>4. Cardinality(S) \in Nat /\ 2 <= Cardinality(S)
        BY <3>1, <3>3, FS_Subset, FS_CardinalityType
      <3> QED  BY <1>3, <3>4 DEF S
    <2>5. Declares(Object, m.sig) /\ m.sig # Constructor /\ m \in tables[c]
      BY <2>1, <2>3, <2>4 DEF Declares, Dispatched
    <2>6. IsClass(m.owner)
      BY <1>1, <2>2, <2>5 DEF Settled, DispatchDone, Resolved, Lowest
    <2> QED  BY <2>6, InheritedPlaced
  <1> QED  BY <1>2, <1>3

\* The offsets that LayMethods gives.
LEMMA OffsetsGiven ==
    ASSUME LInv, DInv, MethodsInv, LayMethods
    PROVE  /\ \A mid \in DOMAIN method_offsets :
                 mid \in DOMAIN method_offsets' /\ method_offsets'[mid] = method_offsets[mid]
           /\ \A m \in OwnMethods(Current) :
                 /\ m.mid \in DOMAIN method_offsets'
                 /\ method_offsets'[m.mid] = OffsetIn(Current, m)
           /\ \A mid \in DOMAIN method_offsets' :
                 mid \in DOMAIN method_offsets \/ \E m \in OwnMethods(Current) : m.mid = mid
  <1> DEFINE mids == {m.mid : m \in OwnMethods(Current)}
  <1>1. /\ HereInMethods
        /\ method_offsets' = [mid \in DOMAIN method_offsets \union mids |->
              IF HasOffset(mid) THEN method_offsets[mid]
              ELSE OffsetIn(Current, CHOOSE m \in OwnMethods(Current) : m.mid = mid)]
    BY DEF LayMethods, AtClass, InLoop, HereInMethods
  <1>2. ASSUME NEW m \in OwnMethods(Current)
        PROVE  /\ ~HasOffset(m.mid)
               /\ (CHOOSE n \in OwnMethods(Current) : n.mid = m.mid) = m
    <2>1. \A n \in OwnMethods(Current) : n.mid = m.mid => n = m
      BY <1>1, HereIs, SameMid DEF OwnMethods, Dispatched
    <2> QED  BY <1>1, <2>1, OwnUnplaced
  <1> QED  BY <1>1, <1>2 DEF HasOffset

\* The methods of the class are new, or have the slot of one of the class above.
LEMMA SlotsFrom ==
    ASSUME LInv, DInv, MethodsInv, LayMethods
    PROVE  LET c == Current
           IN  /\ \A m \in Dispatched(c) : m \notin NewMethods(c) =>
                     /\ ~Root(c)
                     /\ \E z \in Dispatched(Extends(c)) :
                           /\ z.sig = m.sig
                           /\ m.mid \in DOMAIN method_offsets'
                           /\ method_offsets'[m.mid] = method_offsets[z.mid]
               /\ ~Root(c) => \A z \in Dispatched(Extends(c)) :
                     \E m \in Dispatched(c) :
                        /\ m.sig = z.sig /\ m \notin NewMethods(c)
                        /\ method_offsets'[m.mid] = method_offsets[z.mid]
  <1> DEFINE c == Current
  <1>1. HereInMethods /\ ~Missing(c)
    BY DEF LayMethods, AtClass, InLoop, HereInMethods
  <1>2. Settled /\ c \in Types /\ IsClass(c)
    BY <1>1, HereIs
  <1>3. ASSUME NEW m \in Dispatched(c), m \notin NewMethods(c)
        PROVE  /\ ~Root(c)
               /\ \E z \in Dispatched(Extends(c)) :
                     /\ z.sig = m.sig
                     /\ m.mid \in DOMAIN method_offsets'
                     /\ method_offsets'[m.mid] = method_offsets[z.mid]
    <2>1. CASE m.owner = c
      <3>1. m \in OwnMethods(c)
        BY <2>1 DEF OwnMethods
      <3>2. PICK z \in Dispatched(Extends(c)) : z.sig = m.sig /\ z.mid = m.parent /\ ~Root(c)
        BY <1>2, <1>3, <3>1, OwnHasPlace
      <3>3. method_offsets'[m.mid] = method_offsets[m.parent] /\ m.mid \in DOMAIN method_offsets'
        BY <1>3, <3>1, OffsetsGiven DEF OffsetIn
      <3> QED  BY <3>2, <3>3
    <2>2. CASE m.owner # c
      <3>1. HasOffset(m.mid) /\ IsClass(m.owner)
        BY <1>1, <2>2, NothingMissing
      <3>2. PICK z \in Dispatched(Extends(c)) : z.sig = m.sig /\ z.mid = m.mid /\ ~Root(c)
        BY <1>2, <2>2, <3>1, InheritedPlace
      <3> QED  BY <3>1, <3>2, OffsetsGiven DEF HasOffset
    <2> QED  BY <2>1, <2>2
  <1>4. ASSUME ~Root(c), NEW z \in Dispatched(Extends(c))
        PROVE  \E m \in Dispatched(c) :
                  /\ m.sig = z.sig /\ m \notin NewMethods(c)
                  /\ method_offsets'[m.mid] = method_offsets[z.mid]
    <2>1. PICK m \in Dispatched(c) : m.sig = z.sig /\ m \notin NewMethods(c)
      BY <1>2, <1>4, PlaceTaken
    <2>2. PICK y \in Dispatched(Extends(c)) :
             y.sig = m.sig /\ method_offsets'[m.mid] = method_offsets[y.mid]
      BY <1>3, <2>1
    <2>3. Extends(c) \in Types
      BY <1>2, <1>4, AboveClass
    <2>4. y = z
      BY <1>2, <2>1, <2>2, <2>3, OneDispatched
    <2> QED  BY <2>1, <2>2, <2>4
  <1> QED  BY <1>3, <1>4

\* The new ones get the slots from the first that is free, one each.
LEMMA NewSlots ==
    ASSUME LInv, DInv, MethodsInv, LayMethods, FirstOffset(Current) \in Nat
    PROVE  LET c == Current
               size == Cardinality(NewMethods(c))
           IN  /\ size \in Nat
               /\ \A m \in NewMethods(c) :
                     /\ m.mid \in DOMAIN method_offsets'
                     /\ method_offsets'[m.mid].kind = "class"
                     /\ \E k \in 0..(size - 1) :
                           method_offsets'[m.mid].at = FirstOffset(c) + 4 * k
               /\ \A m, n \in NewMethods(c) :
                     method_offsets'[m.mid].at = method_offsets'[n.mid].at => m = n
               /\ \A k \in 0..(size - 1) : \E m \in NewMethods(c) :
                     method_offsets'[m.mid].at = FirstOffset(c) + 4 * k
  <1> DEFINE c == Current
             S == NewMethods(c)
             key == [m \in S |-> m.mid]
             Less(m) == Lesser(S, key, m)
  <1>1. Settled /\ c \in Types
    BY HereIs DEF LayMethods, AtClass, InLoop, HereInMethods
  <1>2. \A m \in S : m \in tables[c] /\ m \in OwnMethods(c)
    BY DEF NewMethods, OwnMethods, Dispatched
  <1>3. key \in [S -> Nat] /\ \A m, n \in S : key[m] = key[n] => m = n
    BY <1>1, <1>2, EntriesAre, SameMid
  <1>4. IsFiniteSet(S)
    BY <1>1, DispatchedFinite
  <1>5. \A m \in S : {n \in S : n.mid < m.mid} = Less(m)
    BY DEF Lesser
  <1>6. ASSUME NEW m \in S
        PROVE  /\ m.mid \in DOMAIN method_offsets' /\ method_offsets'[m.mid].kind = "class"
               /\ method_offsets'[m.mid].at = FirstOffset(c) + 4 * Cardinality(Less(m))
    <2>1. /\ m.mid \in DOMAIN method_offsets'
          /\ method_offsets'[m.mid] = OffsetIn(c, m)
      BY <1>2, OffsetsGiven
    <2>2. OffsetIn(c, m) = [at |-> FirstOffset(c) + WordSize * Cardinality({n \in S : n.mid < m.mid}),
                            kind |-> "class"]
      BY DEF OffsetIn
    <2>3. Cardinality({n \in S : n.mid < m.mid}) = Cardinality(Less(m))
      BY <1>5
    <2> QED  BY <2>1, <2>2, <2>3 DEF WordSize
  <1>7. /\ Cardinality(S) \in Nat
        /\ \A m \in S : Cardinality(Less(m)) \in 0..(Cardinality(S) - 1)
        /\ \A m, l \in S : key[m] < key[l] => Cardinality(Less(m)) < Cardinality(Less(l))
        /\ \A k \in 0..(Cardinality(S) - 1) : \E m \in S : Cardinality(Less(m)) = k
    <2> HIDE DEF key, S
    <2> QED  BY <1>3, <1>4, Ranks
  <1> HIDE DEF key, S, Less
  <1>8. ASSUME NEW m \in S, NEW n \in S, method_offsets'[m.mid].at = method_offsets'[n.mid].at
        PROVE  m = n
    <2>1. PICK a \in Nat, b \in Nat : a = Cardinality(Less(m)) /\ b = Cardinality(Less(n))
      BY <1>7
    <2>2. PICK first \in Nat : first = FirstOffset(c)
      OBVIOUS
    <2>3. first + 4 * a = first + 4 * b
      BY <1>6, <1>8, <2>1, <2>2
    <2>4. a = b
      BY <2>3
    <2>5. key[m] \in Nat /\ key[n] \in Nat
      BY <1>3
    <2>6. ASSUME key[m] < key[n]
          PROVE  FALSE
      <3>1. a < b
        BY <1>7, <2>1, <2>6
      <3> QED  BY <2>4, <3>1
    <2>7. ASSUME key[n] < key[m]
          PROVE  FALSE
      <3>1. b < a
        BY <1>7, <2>1, <2>7
      <3> QED  BY <2>4, <3>1
    <2> QED  BY <1>3, <2>5, <2>6, <2>7
  <1> QED  BY <1>6, <1>7, <1>8 DEF S

LEMMA Multiple ==
    ASSUME NEW a \in Nat, NEW b \in Nat, a % 4 = 0, b % 4 = 0, a <= b
    PROVE  \E k \in Nat : b = a + 4 * k
  <1>1. b = a + 4 * ((b \div 4) - (a \div 4)) /\ (b \div 4) - (a \div 4) \in Nat
    OBVIOUS
  <1> QED  BY <1>1

\* Where the vtable of the class above ends.
LEMMA FirstIs ==
    ASSUME LInv, DInv, MethodsInv, HereInMethods
    PROVE  LET c == Current
               first == FirstOffset(c)
           IN  /\ first \in Nat /\ first % 4 = 0 /\ VtableOverhead <= first
               /\ Root(c) => first = VtableOverhead
               /\ ~Root(c) =>
                     /\ VtableLaid(Extends(c)) /\ first = next_offset[Extends(c)]
                     /\ Extends(c) \in Types /\ IsClass(Extends(c)) /\ Below(c, Extends(c))
                     /\ \A d \in Types : IsClass(d) /\ Below(c, d) /\ d # c =>
                           Below(Extends(c), d) /\ VtableLaid(d)
  <1> DEFINE c == Current
  <1>1. /\ Settled /\ c \in Types /\ IsClass(c)
        /\ \A t \in Types : IsClass(t) /\ Below(c, t) /\ t # c => VtableLaid(t)
    BY HereIs
  <1>2. CASE Root(c)
    BY <1>2 DEF FirstOffset, VtableOverhead, WordSize
  <1>3. CASE ~Root(c)
    <2>1. /\ Extends(c) \in Types /\ IsClass(Extends(c)) /\ Below(c, Extends(c))
          /\ Extends(c) # c
          /\ \A d \in Types : IsClass(d) /\ Below(c, d) /\ d # c => Below(Extends(c), d)
      BY <1>1, <1>3, AboveClass, BelowItself
    <2>2. VtableLaid(Extends(c))
      BY <1>1, <2>1
    <2>3. FirstOffset(c) = next_offset[Extends(c)]
      BY <1>3 DEF FirstOffset
    <2>4. FirstOffset(c) \in Nat /\ FirstOffset(c) % 4 = 0 /\ VtableOverhead <= FirstOffset(c)
      BY <2>1, <2>2, <2>3 DEF VtableLaid, MethodsInv, WordSize
    <2> QED  BY <1>1, <1>3, <2>1, <2>2, <2>3, <2>4
  <1> QED  BY <1>2, <1>3

LEMMA MethodsFrame ==
    ASSUME UNCHANGED <<vars, tableVars>>
    PROVE  /\ \A t : Dispatched(t)' = Dispatched(t) /\ OwnMethods(t)' = OwnMethods(t)
           /\ \A t : ClassesAbove(t)' = ClassesAbove(t) /\ (IsClass(t)' <=> IsClass(t))
           /\ \A t : NewMethods(t)' = NewMethods(t)
           /\ sorted' = sorted
  <1>1. UNCHANGED <<decls, edges, tables, sorted>> /\ \A t, a : Below(t, a)' <=> Below(t, a)
    BY FrameIs
  <1>2. \A t : Dispatched(t)' = Dispatched(t)
    BY <1>1 DEF Dispatched
  <1>3. \A t : OwnMethods(t)' = OwnMethods(t)
    BY <1>2 DEF OwnMethods
  <1> QED  BY <1>1, <1>2, <1>3 DEF NewMethods, ClassesAbove, IsClass

LEMMA VtableStays ==
    ASSUME UNCHANGED <<vars, tableVars>>, NEW c \in Types, VtableLaid(c),
           next_offset'[c] = next_offset[c], vtables'[c] = vtables[c],
           \A mid \in DOMAIN method_offsets :
              mid \in DOMAIN method_offsets' /\ method_offsets'[mid] = method_offsets[mid]
    PROVE  VtableLaid(c)'
  <1>1. /\ Dispatched(c)' = Dispatched(c) /\ ClassesAbove(c)' = ClassesAbove(c)
        /\ \A t : Dispatched(t)' = Dispatched(t)
    BY MethodsFrame
  <1>2. \A m : HasOffset(m.mid) => HasOffset(m.mid)' /\ AtOf(m)' = AtOf(m)
    BY DEF HasOffset, AtOf
  <1>3. \A m \in Dispatched(c) : HasSlot(m, next_offset[c])' /\ HasOffset(m.mid)
    BY <1>2 DEF VtableLaid, HasSlot, HasOffset, AtOf
  <1>4. \A m, n \in Dispatched(c) : AtOf(m)' = AtOf(n)' => m = n
    BY <1>2, <1>3 DEF VtableLaid
  <1>5. \A o : IsSlot(o, next_offset[c])' => \E m \in Dispatched(c) : AtOf(m)' = o
    BY <1>2, <1>3 DEF VtableLaid, IsSlot
  <1>6. \A t \in ClassesAbove(c) : \A m \in Dispatched(t) :
           /\ HasOffset(m.mid)'
           /\ \A n \in Dispatched(c) : m.sig = n.sig => AtOf(m)' = AtOf(n)'
    BY <1>2, <1>3 DEF VtableLaid
  <1>7. \A m : Entry(m)' = Entry(m)
    BY DEF Entry
  <1>8. \A m \in Dispatched(c) : IsClass(m.owner)'
    BY MethodsFrame DEF VtableLaid
  <1> QED  BY <1>1, <1>3, <1>4, <1>5, <1>6, <1>7, <1>8 DEF VtableLaid

\* The class at hand has its vtable then.
LEMMA ClassMethodsLaid ==
    ASSUME LInv, DInv, MethodsInv, LayMethods
    PROVE  \E c \in Types : c = Current /\ VtableLaid(c)'
  <1>1. /\ HereInMethods /\ UNCHANGED <<vars, tableVars>>
        /\ next_offset' = [next_offset EXCEPT ![Current] =
              FirstOffset(Current) + WordSize * Cardinality(NewMethods(Current))]
        /\ vtables' = [vtables EXCEPT ![Current] = {Entry(m) : m \in Dispatched(Current)}]
    BY DEF LayMethods, AtClass, InLoop, HereInMethods
  <1>2. PICK c \in Types : c = Current
    BY <1>1, HereIs
  <1>3. Settled /\ IsClass(c)
    BY <1>1, <1>2, HereIs
  <1>4. PICK first \in Nat :
           /\ first = FirstOffset(c) /\ first % 4 = 0 /\ 8 <= first
           /\ Root(c) => first = 8
           /\ ~Root(c) =>
                 /\ VtableLaid(Extends(c)) /\ first = next_offset[Extends(c)]
                 /\ Extends(c) \in Types /\ IsClass(Extends(c))
                 /\ \A d \in Types : IsClass(d) /\ Below(c, d) /\ d # c =>
                       Below(Extends(c), d) /\ VtableLaid(d)
    BY <1>1, <1>2, FirstIs DEF VtableOverhead, WordSize
  <1>5. PICK size \in Nat :
           /\ size = Cardinality(NewMethods(c))
           /\ \A m \in NewMethods(c) :
                 /\ m.mid \in DOMAIN method_offsets' /\ method_offsets'[m.mid].kind = "class"
                 /\ \E k \in 0..(size - 1) : method_offsets'[m.mid].at = first + 4 * k
           /\ \A m, n \in NewMethods(c) :
                 method_offsets'[m.mid].at = method_offsets'[n.mid].at => m = n
           /\ \A k \in 0..(size - 1) : \E m \in NewMethods(c) :
                 method_offsets'[m.mid].at = first + 4 * k
    BY <1>2, <1>4, NewSlots
  <1>6. PICK end \in Nat : end = first + 4 * size
    BY <1>4, <1>5
  <1>7. end % 4 = 0 /\ first <= end /\ 8 <= end
    BY <1>4, <1>5, <1>6
  <1>8. next_offset'[c] = end /\ vtables'[c] = {Entry(m) : m \in Dispatched(c)}
    BY <1>1, <1>2, <1>4, <1>5, <1>6 DEF MethodsInv, WordSize
  <1>9. \A m \in NewMethods(c) : m \in Dispatched(c)
    BY DEF NewMethods, OwnMethods
  <1>10. ASSUME NEW m \in NewMethods(c)
         PROVE  /\ m.mid \in DOMAIN method_offsets' /\ method_offsets'[m.mid].kind = "class"
                /\ IsSlot(method_offsets'[m.mid].at, end) /\ first <= method_offsets'[m.mid].at
    <2>1. PICK k \in 0..(size - 1) : method_offsets'[m.mid].at = first + 4 * k
      BY <1>5
    <2>2. /\ first + 4 * k \in Nat /\ (first + 4 * k) % 4 = 0 /\ 8 <= first + 4 * k
          /\ first + 4 * k < end /\ first <= first + 4 * k
      BY <1>4, <1>5, <1>6
    <2> QED  BY <1>5, <2>1, <2>2 DEF IsSlot, VtableOverhead, WordSize
  <1>11. ASSUME NEW m \in Dispatched(c), m \notin NewMethods(c)
         PROVE  /\ m.mid \in DOMAIN method_offsets' /\ method_offsets'[m.mid].kind = "class"
                /\ IsSlot(method_offsets'[m.mid].at, end) /\ method_offsets'[m.mid].at < first
                /\ ~Root(c)
                /\ \E z \in Dispatched(Extends(c)) :
                      z.sig = m.sig /\ method_offsets'[m.mid].at = AtOf(z)
    <2>1. PICK z \in Dispatched(Extends(c)) :
             /\ ~Root(c) /\ z.sig = m.sig /\ m.mid \in DOMAIN method_offsets'
             /\ method_offsets'[m.mid] = method_offsets[z.mid]
      BY <1>2, <1>11, SlotsFrom
    <2>2. HasSlot(z, first)
      BY <1>4, <2>1 DEF VtableLaid
    <2>3. IsSlot(AtOf(z), end)
      BY <1>7, <2>2 DEF HasSlot, IsSlot
    <2> QED  BY <2>1, <2>2, <2>3 DEF HasSlot, IsSlot, AtOf
  <1>12. \A m \in Dispatched(c) : HasSlot(m, end)'
    BY <1>10, <1>11 DEF HasSlot, HasOffset, AtOf
  <1>13. ASSUME NEW m \in Dispatched(c), NEW n \in Dispatched(c), AtOf(m)' = AtOf(n)'
         PROVE  m = n
    <2>1. CASE m \in NewMethods(c) /\ n \in NewMethods(c)
      BY <1>5, <1>13, <2>1 DEF AtOf
    <2>2. CASE m \notin NewMethods(c) /\ n \notin NewMethods(c)
      <3>1. PICK y \in Dispatched(Extends(c)) :
               ~Root(c) /\ y.sig = m.sig /\ method_offsets'[m.mid].at = AtOf(y)
        BY <1>11, <2>2
      <3>2. PICK z \in Dispatched(Extends(c)) :
               z.sig = n.sig /\ method_offsets'[n.mid].at = AtOf(z)
        BY <1>11, <2>2
      <3>3. y = z
        BY <1>4, <1>13, <3>1, <3>2 DEF VtableLaid, AtOf
      <3> QED  BY <1>3, <3>1, <3>2, <3>3, OneDispatched
    <2>3. ASSUME NEW x \in NewMethods(c), NEW y \in Dispatched(c), y \notin NewMethods(c)
          PROVE  AtOf(x)' # AtOf(y)'
      <3>1. PICK a \in Nat, b \in Nat : a = AtOf(x)' /\ b = AtOf(y)' /\ first <= a /\ b < first
        BY <1>10, <1>11, <2>3 DEF AtOf, IsSlot
      <3> QED  BY <3>1
    <2> QED  BY <1>13, <2>1, <2>2, <2>3
  <1>14. ASSUME NEW o, IsSlot(o, end)
         PROVE  \E m \in Dispatched(c) : AtOf(m)' = o
    <2>1. o \in Nat /\ o % 4 = 0 /\ 8 <= o /\ o < end
      BY <1>14 DEF IsSlot, VtableOverhead, WordSize
    <2>2. CASE o < first
      <3>1. ~Root(c) /\ IsSlot(o, first)
        BY <1>4, <2>1, <2>2 DEF IsSlot, VtableOverhead, WordSize
      <3>2. PICK z \in Dispatched(Extends(c)) : AtOf(z) = o
        BY <1>4, <3>1 DEF VtableLaid
      <3>3. PICK m \in Dispatched(c) : method_offsets'[m.mid] = method_offsets[z.mid]
        BY <1>2, <3>1, SlotsFrom
      <3> QED  BY <3>2, <3>3 DEF AtOf
    <2>3. CASE first <= o
      <3>1. PICK k \in Nat : o = first + 4 * k
        BY <1>4, <2>1, <2>3, Multiple
      <3>2. k \in 0..(size - 1)
        BY <1>4, <1>5, <1>6, <2>1, <3>1
      <3> QED  BY <1>5, <1>9, <3>1, <3>2 DEF AtOf
    <2> QED  BY <1>4, <2>1, <2>2, <2>3
  <1>15. ASSUME NEW t \in ClassesAbove(c), NEW m \in Dispatched(t)
         PROVE  /\ HasOffset(m.mid)'
                /\ \A n \in Dispatched(c) : m.sig = n.sig => AtOf(m)' = AtOf(n)'
    <2>1. t \in Types /\ IsClass(t) /\ Below(c, t)
      BY DEF ClassesAbove
    <2>2. CASE t = c
      BY <1>3, <1>12, <2>2, OneDispatched DEF HasSlot
    <2>3. CASE t # c
      <3>1. ~Root(c)
        BY <1>3, <2>1, <2>3, RootIs DEF Settled, ClassesAbove
      <3>2. /\ Below(Extends(c), t) /\ VtableLaid(t) /\ VtableLaid(Extends(c))
            /\ Extends(c) \in Types /\ t \in ClassesAbove(Extends(c))
        BY <1>4, <2>1, <2>3, <3>1 DEF ClassesAbove
      <3>3. HasOffset(m.mid) /\ HasOffset(m.mid)' /\ AtOf(m)' = AtOf(m)
        BY <3>2, OffsetsGiven DEF VtableLaid, HasSlot, HasOffset, AtOf
      <3>4. ASSUME NEW n \in Dispatched(c), m.sig = n.sig
            PROVE  AtOf(m)' = AtOf(n)'
        <4>1. PICK z \in Dispatched(Extends(c)) : z.sig = m.sig
          BY <1>3, <2>1, <3>2, HasDispatched
        <4>2. AtOf(m) = AtOf(z)
          BY <3>2, <4>1 DEF VtableLaid
        <4>3. PICK x \in Dispatched(c) :
                 x.sig = z.sig /\ method_offsets'[x.mid] = method_offsets[z.mid]
          BY <1>2, <3>1, SlotsFrom
        <4>4. x = n
          BY <1>3, <3>4, <4>1, <4>3, OneDispatched
        <4> QED  BY <3>3, <4>2, <4>3, <4>4 DEF AtOf
      <3> QED  BY <3>3, <3>4
    <2> QED  BY <2>2, <2>3
  <1>16. /\ Dispatched(c)' = Dispatched(c) /\ ClassesAbove(c)' = ClassesAbove(c)
         /\ \A t : Dispatched(t)' = Dispatched(t)
         /\ \A m : Entry(m)' = Entry(m)
    BY <1>1, MethodsFrame DEF Entry
  <1>17. \A m \in Dispatched(c) : IsClass(m.owner)'
    <2>1. \A m \in Dispatched(c) : IsClass(m.owner)
      BY <1>1, <1>2, <1>3, NothingMissing DEF LayMethods
    <2> QED  BY <1>1, <2>1, MethodsFrame
  <1>18. VtableLaid(c)'
    BY <1>7, <1>8, <1>12, <1>13, <1>14, <1>15, <1>16, <1>17
       DEF VtableLaid, HasSlot, IsSlot, VtableOverhead, WordSize
  <1> QED  BY <1>2, <1>18

LEMMA MethodsInit == LayoutInit => MethodsInv
  <1> SUFFICES ASSUME LayoutInit
               PROVE  MethodsInv
    OBVIOUS
  <1>1. stage = "tables" /\ method_offsets = << >>
    BY DEF LayoutInit
  <1>2. \A mid : mid \notin DOMAIN method_offsets
    BY <1>1
  <1>3. next_offset \in [Types -> Nat] /\ vtables = [t \in Types |-> vtables[t]]
    BY DEF LayoutInit
  <1>4. \A i : ~MethodsLaidOut(i)
    BY <1>1 DEF MethodsLaidOut
  <1> QED  BY <1>1, <1>2, <1>3, <1>4 DEF MethodsInv

\* A step on which the classes laid out are the same.
LEMMA MethodsKept ==
    ASSUME LInv, MethodsInv, stage \notin {"tables", "done"}, stage' # "done",
           UNCHANGED <<vars, tableVars, next_offset, vtables, method_offsets>>,
           \A i \in 1..Len(sorted) : IsClass(sorted[i]) => (MethodsLaidOut(i)' <=> MethodsLaidOut(i)),
           stage' = "threw" => (HereInMethods /\ Missing(Current))'
    PROVE  MethodsInv'
  <1>1. UNCHANGED <<vars, tableVars>> /\ UNCHANGED <<next_offset, vtables, method_offsets>>
    OBVIOUS
  <1>2. /\ sorted' = sorted /\ \A t : OwnMethods(t)' = OwnMethods(t)
        /\ \A t : IsClass(t)' <=> IsClass(t)
    BY <1>1, MethodsFrame
  <1>3. ASSUME NEW i \in 1..Len(sorted), MethodsLaidOut(i)', IsClass(sorted[i])
        PROVE  \E c \in Types : c = sorted[i] /\ VtableLaid(c)'
    <2>1. PICK c \in Types : c = sorted[i]
      BY OrderIs
    <2>2. VtableLaid(c)
      BY <1>3, <2>1 DEF MethodsInv
    <2>3. VtableLaid(c)'
      BY <1>1, <2>2, VtableStays
    <2> QED  BY <2>1, <2>3
  <1>4. ASSUME NEW i \in 1..Len(sorted'), MethodsLaidOut(i)', IsClass(sorted[i])'
        PROVE  VtableLaid(sorted[i])'
    <2>1. PICK c \in Types : c = sorted[i] /\ VtableLaid(c)'
      BY <1>2, <1>3, <1>4
    <2> QED  BY <1>2, <2>1
  <1>5. ASSUME NEW mid \in DOMAIN method_offsets'
        PROVE  IsLaid(mid)'
    <2>1. IsLaid(mid)
      BY <1>1 DEF MethodsInv
    <2>2. PICK i \in 1..Len(sorted) :
             MethodsLaidOut(i) /\ IsClass(sorted[i]) /\ \E m \in OwnMethods(sorted[i]) : m.mid = mid
      BY <2>1 DEF IsLaid
    <2>3. MethodsLaidOut(i)'
      BY <2>2
    <2> QED  BY <1>2, <2>2, <2>3 DEF IsLaid
  <1> QED  BY <1>1, <1>4, <1>5 DEF MethodsInv

LEMMA LayMethodsNext ==
    ASSUME LInv, DInv, MethodsInv, LayMethods
    PROVE  MethodsInv'
  <1>1. /\ HereInMethods /\ UNCHANGED <<vars, tableVars>> /\ stage = "methods" /\ stage' = stage
        /\ place' = place + 1
        /\ next_offset' = [next_offset EXCEPT ![Current] =
              FirstOffset(Current) + WordSize * Cardinality(NewMethods(Current))]
        /\ vtables' = [vtables EXCEPT ![Current] = {Entry(m) : m \in Dispatched(Current)}]
    BY DEF LayMethods, AtClass, InLoop, HereInMethods
  <1>2. /\ sorted' = sorted /\ \A t : OwnMethods(t)' = OwnMethods(t)
        /\ \A t : IsClass(t)' <=> IsClass(t)
    BY <1>1, MethodsFrame
  <1>3. PICK c \in Types : c = Current /\ VtableLaid(c)'
    BY ClassMethodsLaid
  <1>4. /\ IsClass(c) /\ place \in Nat /\ place + 1 \in 1..Len(sorted) /\ c = sorted[place + 1]
        /\ \A i, j \in 1..Len(sorted) : sorted[i] = sorted[j] => i = j
    BY <1>1, <1>3, HereIs, OrderIs DEF Current
  <1>5. next_offset' \in [Types -> Nat] /\ vtables' = [t \in Types |-> vtables'[t]]
    <2>1. FirstOffset(c) \in Nat /\ Cardinality(NewMethods(c)) \in Nat
      BY <1>1, <1>3, FirstIs, HereIs, DispatchedFinite, FS_CardinalityType
    <2>2. PICK end \in Nat : end = FirstOffset(c) + WordSize * Cardinality(NewMethods(c))
      <3>1. PICK a \in Nat, b \in Nat : a = FirstOffset(c) /\ b = Cardinality(NewMethods(c))
        BY <2>1
      <3>2. a + 4 * b \in Nat
        OBVIOUS
      <3> QED  BY <3>1, <3>2 DEF WordSize
    <2> QED  BY <1>1, <1>3, <2>2 DEF MethodsInv
  <1>6. \A i \in 1..Len(sorted) : MethodsLaidOut(i)' <=> MethodsLaidOut(i) \/ i = place + 1
    BY <1>1, <1>4 DEF MethodsLaidOut
  <1>7. ASSUME NEW i \in 1..Len(sorted), MethodsLaidOut(i)', IsClass(sorted[i])
        PROVE  \E d \in Types : d = sorted[i] /\ VtableLaid(d)'
    <2>1. CASE i = place + 1
      BY <1>3, <1>4, <2>1
    <2>2. CASE i # place + 1
      <3>1. PICK d \in Types : d = sorted[i]
        BY <1>1, OrderIs
      <3>2. VtableLaid(d) /\ d # c
        BY <1>4, <1>6, <1>7, <2>2, <3>1 DEF MethodsInv
      <3>3. next_offset'[d] = next_offset[d] /\ vtables'[d] = vtables[d]
        BY <1>1, <1>3, <3>2 DEF MethodsInv
      <3>4. VtableLaid(d)'
        BY <1>1, <3>2, <3>3, OffsetsGiven, VtableStays
      <3> QED  BY <3>1, <3>4
    <2> QED  BY <2>1, <2>2
  <1>8. ASSUME NEW i \in 1..Len(sorted'), MethodsLaidOut(i)', IsClass(sorted[i])'
        PROVE  VtableLaid(sorted[i])'
    <2>1. PICK d \in Types : d = sorted[i] /\ VtableLaid(d)'
      BY <1>2, <1>7, <1>8
    <2> QED  BY <1>2, <2>1
  <1>9. ASSUME NEW mid \in DOMAIN method_offsets'
        PROVE  IsLaid(mid)'
    <2>1. CASE mid \in DOMAIN method_offsets
      <3>1. IsLaid(mid)
        BY <1>1, <2>1 DEF MethodsInv
      <3>2. PICK i \in 1..Len(sorted) :
               MethodsLaidOut(i) /\ IsClass(sorted[i]) /\ \E m \in OwnMethods(sorted[i]) : m.mid = mid
        BY <3>1 DEF IsLaid
      <3>3. MethodsLaidOut(i)'
        BY <1>6, <3>2
      <3> QED  BY <1>2, <3>2, <3>3 DEF IsLaid
    <2>2. CASE \E m \in OwnMethods(c) : m.mid = mid
      <3>1. PICK i \in 1..Len(sorted) : i = place + 1 /\ sorted[i] = c
        BY <1>4
      <3>2. MethodsLaidOut(i)'
        BY <1>6, <3>1
      <3> QED  BY <1>2, <1>4, <2>2, <3>1, <3>2 DEF IsLaid
    <2> QED  BY <1>3, <2>1, <2>2, OffsetsGiven
  <1> QED  BY <1>1, <1>5, <1>8, <1>9 DEF MethodsInv

-----------------------------------------------------------------------------
(* The itables.                                                            *)

Below4(S, sig) == 4 * Cardinality({s \in S : s < sig})

\* Methods of interfaces have one place per signature, in the itables of all classes.
ItablesLaid(S) ==
    /\ \A t \in Types : \A m \in tables[t] :
          ~IsClass(t) /\ ~IsClass(m.owner) =>
             /\ m.sig \in S /\ HasOffset(m.mid)
             /\ method_offsets[m.mid] = [at |-> Below4(S, m.sig), kind |-> "interface"]
    /\ \A c \in Types : IsClass(c) =>
          itables[c] = {[at |-> Below4(S, m.sig), entry |-> Entry(m)] :
                           m \in {n \in tables[c] : n.sig \in S}}

ItablesInv == stage = "done" => \E S \in SUBSET Signatures : ItablesLaid(S)

LEMMA ItablesDone ==
    ASSUME LInv, DInv, MethodsInv, LayInterfaces
    PROVE  \E S \in SUBSET Signatures : ItablesLaid(S)'
  <1>1. /\ stage = "interfaces" /\ UNCHANGED <<vars, tableVars>>
        /\ method_offsets' =
              [mid \in DOMAIN method_offsets \union {m.mid : m \in InterfaceMethods} |->
                 IF HasOffset(mid) THEN method_offsets[mid]
                 ELSE [at |-> ItableOffset((CHOOSE m \in InterfaceMethods : m.mid = mid).sig),
                       kind |-> "interface"]]
        /\ itables' = [t \in Types |->
              IF t \in Interfaces THEN {}
              ELSE {[at |-> ItableOffset(m.sig), entry |-> Entry(m)] :
                      m \in {n \in tables[t] : n.sig \in InterfaceSigs}}]
    BY DEF LayInterfaces
  <1>2. Settled /\ Graph
    BY <1>1, IsSettled DEF Settled
  <1>3. \A t \in Types : t \in Interfaces <=> ~IsClass(t)
    <2>1. \A t \in Types : \E i \in DOMAIN sorted : sorted[i] = t
      BY <1>1, <1>2, EveryTypeSorted, OrderIs
    <2> QED  BY <2>1 DEF Interfaces
  <1>4. PICK S : S = InterfaceSigs
    OBVIOUS
  <1>5. S \in SUBSET Signatures
    <2>1. \A t \in Interfaces : t \in Types /\ tables[t] \subseteq MethodInfo
      BY <1>1, <1>2, OrderIs DEF Interfaces, Settled
    <2>2. \A t \in Interfaces : \A m \in tables[t] : m.sig \in Signatures
      BY <2>1 DEF MethodInfo
    <2> QED  BY <1>4, <2>2 DEF InterfaceSigs
  <1>6. \A sig : ItableOffset(sig) = Below4(S, sig)
    BY <1>4 DEF ItableOffset, Below4, WordSize
  <1>7. ASSUME NEW t \in Types, NEW m \in tables[t], ~IsClass(t), ~IsClass(m.owner)
        PROVE  /\ m.sig \in S /\ m.mid \in DOMAIN method_offsets'
               /\ method_offsets'[m.mid] = [at |-> Below4(S, m.sig), kind |-> "interface"]
    <2>1. ~HasOffset(m.mid)
      BY <1>1, <1>7, PlacedOwner
    <2>2. m.sig \in S
      BY <1>3, <1>4, <1>7, <2>1 DEF InterfaceSigs
    <2>3. m \in InterfaceMethods
      <3>1. m.owner \in Types
        BY <1>2, EntriesAre
      <3> QED  BY <1>3, <1>4, <1>7, <2>2, <3>1 DEF InterfaceMethods
    <2>4. PICK n : n = CHOOSE l \in InterfaceMethods : l.mid = m.mid
      OBVIOUS
    <2>5. n \in InterfaceMethods /\ n.mid = m.mid
      BY <2>3, <2>4
    <2>6. n.sig = m.sig
      <3>1. PICK u \in Interfaces : n \in tables[u]
        BY <2>5 DEF InterfaceMethods
      <3>2. u \in Types
        BY <1>1, <3>1, OrderIs DEF Interfaces
      <3> QED  BY <1>2, <2>5, <3>1, <3>2, SameMid
    <2>7. m.mid \in DOMAIN method_offsets'
          /\ method_offsets'[m.mid] = [at |-> ItableOffset(n.sig), kind |-> "interface"]
      BY <1>1, <2>1, <2>3, <2>4
    <2> QED  BY <1>6, <2>2, <2>6, <2>7
  <1>8. ASSUME NEW c \in Types, IsClass(c)
        PROVE  itables'[c] = {[at |-> Below4(S, m.sig), entry |-> Entry(m)] :
                                 m \in {n \in tables[c] : n.sig \in S}}
    BY <1>1, <1>3, <1>4, <1>6, <1>8
  <1>9. tables' = tables /\ (\A t : IsClass(t)' <=> IsClass(t))
    BY <1>1, FrameIs, MethodsFrame
  <1>10. ItablesLaid(S)'
    BY <1>7, <1>8, <1>9 DEF ItablesLaid, HasOffset, Below4, Entry
  <1> QED  BY <1>5, <1>10

LEMMA LayInterfacesNext ==
    ASSUME LInv, DInv, MethodsInv, LayInterfaces
    PROVE  MethodsInv' /\ ItablesInv'
  <1>1. /\ stage = "interfaces" /\ stage' = "done"
        /\ UNCHANGED <<vars, tableVars>> /\ UNCHANGED <<next_offset, vtables>>
        /\ \A mid \in DOMAIN method_offsets :
              mid \in DOMAIN method_offsets' /\ method_offsets'[mid] = method_offsets[mid]
    BY DEF LayInterfaces, HasOffset
  <1>2. sorted' = sorted /\ \A t : IsClass(t)' <=> IsClass(t)
    BY <1>1, MethodsFrame
  <1>3. ASSUME NEW i \in 1..Len(sorted), IsClass(sorted[i])
        PROVE  \E c \in Types : c = sorted[i] /\ VtableLaid(c)'
    <2>1. PICK c \in Types : c = sorted[i]
      BY <1>1, OrderIs
    <2>2. VtableLaid(c)
      BY <1>1, <1>3, <2>1 DEF MethodsInv, MethodsLaidOut
    <2>3. VtableLaid(c)'
      BY <1>1, <2>2, VtableStays
    <2> QED  BY <2>1, <2>3
  <1>4. ASSUME NEW i \in 1..Len(sorted'), IsClass(sorted[i])'
        PROVE  VtableLaid(sorted[i])'
    <2>1. PICK c \in Types : c = sorted[i] /\ VtableLaid(c)'
      BY <1>2, <1>3, <1>4
    <2> QED  BY <1>2, <2>1
  <1>5. MethodsInv'
    BY <1>1, <1>4 DEF MethodsInv
  <1> QED  BY <1>1, <1>5, ItablesDone DEF ItablesInv

LEMMA MethodsNext ==
    LInv /\ DInv /\ MethodsInv /\ ItablesInv /\ [LayoutNext]_allVars => MethodsInv' /\ ItablesInv'
  <1> SUFFICES ASSUME LInv, DInv, MethodsInv, ItablesInv, [LayoutNext]_allVars
               PROVE  MethodsInv' /\ ItablesInv'
    OBVIOUS
  <1>1. CASE stage = "tables"
    <2>1. /\ stage' \in {"tables", "fields"}
          /\ UNCHANGED <<next_offset, vtables, method_offsets>>
      BY <1>1 DEF LayoutNext, TypeChecking, StartLayout, SkipInterface, LayFields, FieldsLaid,
                  LayMethods, Throw, MethodsLaid, LayInterfaces, EndLoop, AtClass, InLoop, allVars,
                  layoutVars
    <2>2. \A i : ~MethodsLaidOut(i) /\ ~MethodsLaidOut(i)'
      BY <1>1, <2>1 DEF MethodsLaidOut
    <2>3. \A mid : mid \notin DOMAIN method_offsets
      BY <1>1, <2>2 DEF MethodsInv, IsLaid
    <2> QED  BY <2>1, <2>2, <2>3 DEF MethodsInv, ItablesInv
  <1>2. CASE LayMethods
    <2>1. stage' = "methods"
      BY <1>2 DEF LayMethods, AtClass, InLoop
    <2> QED  BY <1>2, <2>1, LayMethodsNext DEF ItablesInv
  <1>3. CASE LayInterfaces
    BY <1>3, LayInterfacesNext
  <1>4. CASE stage = "done"
    <2>1. UNCHANGED <<vars, tableVars>> /\ UNCHANGED <<stage, place>>
          /\ UNCHANGED <<next_offset, vtables, method_offsets, itables>>
      BY <1>4, LayoutFixes DEF LayoutNext, TypeChecking, StartLayout, SkipInterface, LayFields,
                  FieldsLaid, LayMethods, Throw, MethodsLaid, LayInterfaces, EndLoop, AtClass,
                  InLoop, allVars, layoutVars
    <2>2. sorted' = sorted /\ tables' = tables /\ \A t : IsClass(t)' <=> IsClass(t)
      BY <2>1, FrameIs, MethodsFrame
    <2>3. ASSUME NEW i \in 1..Len(sorted), IsClass(sorted[i])
          PROVE  \E c \in Types : c = sorted[i] /\ VtableLaid(c)'
      <3>1. PICK c \in Types : c = sorted[i]
        BY <1>4, OrderIs
      <3>2. VtableLaid(c)
        BY <1>4, <2>3, <3>1 DEF MethodsInv, MethodsLaidOut
      <3> QED  BY <2>1, <3>1, <3>2, VtableStays
    <2>4. ASSUME NEW i \in 1..Len(sorted'), IsClass(sorted[i])'
          PROVE  VtableLaid(sorted[i])'
      <3>1. PICK c \in Types : c = sorted[i] /\ VtableLaid(c)'
        BY <2>2, <2>3, <2>4
      <3> QED  BY <2>2, <3>1
    <2>5. PICK S \in SUBSET Signatures : ItablesLaid(S)
      BY <1>4 DEF ItablesInv
    <2>6. ItablesLaid(S)'
      BY <2>1, <2>2, <2>5 DEF ItablesLaid, HasOffset, Entry, Below4
    <2> QED  BY <1>4, <2>1, <2>4, <2>5, <2>6 DEF MethodsInv, ItablesInv
  <1>5. CASE stage \notin {"tables", "done"} /\ ~LayMethods /\ ~LayInterfaces
    <2>1. /\ UNCHANGED <<vars, tableVars>> /\ UNCHANGED <<next_offset, vtables, method_offsets>>
          /\ stage' # "done"
      BY <1>5, LayoutFixes DEF LayoutNext, TypeChecking, StartLayout, SkipInterface, LayFields,
                  FieldsLaid, Throw, MethodsLaid, EndLoop, allVars, layoutVars
    <2>2. sorted' = sorted /\ \A t : IsClass(t)' <=> IsClass(t)
      BY <2>1, MethodsFrame
    <2>3. /\ \A i \in 1..Len(sorted) :
                IsClass(sorted[i]) => (MethodsLaidOut(i)' <=> MethodsLaidOut(i))
          /\ stage' = "threw" => (HereInMethods /\ Missing(Current))'
      <3>1. CASE UNCHANGED <<stage, place>>
        <4>1. stage = "threw" => HereInMethods /\ Missing(Current)
          BY DEF MethodsInv
        <4>2. /\ HereInMethods' <=> HereInMethods
              /\ Missing(Current)' <=> Missing(Current)
          <5>1. Current' = Current
            BY <2>2, <3>1 DEF Current
          <5>2. \A t : Missing(t)' <=> Missing(t)
            BY <2>1, MethodsFrame DEF Missing, HasOffset
          <5>3. PICK c : c = Current
            OBVIOUS
          <5>4. Missing(c)' <=> Missing(c)
            BY <5>2
          <5> QED  BY <2>2, <3>1, <5>1, <5>3, <5>4 DEF HereInMethods, Missing
        <4> QED  BY <3>1, <4>1, <4>2 DEF MethodsLaidOut
      <3>2. CASE stage \in {"fields"} /\ stage' \in {"fields", "methods"} /\ place' \in Nat
                 /\ (stage' = "methods" => place' = 0)
        BY <3>2 DEF MethodsLaidOut
      <3>3. CASE SkipInterface("methods")
        <4>1. /\ stage = "methods" /\ stage' = stage /\ place' = place + 1
              /\ ~IsClass(sorted[place + 1]) /\ place \in Nat
          BY <3>3 DEF SkipInterface, InLoop, Current, LInv, StageOK
        <4>2. \A i \in 1..Len(sorted) : IsClass(sorted[i]) => i # place + 1
          BY <4>1
        <4> QED  BY <4>1, <4>2 DEF MethodsLaidOut
      <3>4. CASE Throw
        <4>1. /\ stage = "methods" /\ stage' = "threw" /\ place' = place
              /\ HereInMethods /\ Missing(Current)
          BY <3>4 DEF Throw, AtClass, InLoop, HereInMethods
        <4>2. PICK c : c = Current /\ Missing(c)
          BY <4>1
        <4>3. Missing(c)' /\ Current' = c
          BY <2>1, <2>2, <4>1, <4>2, MethodsFrame DEF Missing, HasOffset, Current
        <4>4. HereInMethods'
          BY <2>2, <4>1, <4>2, <4>3 DEF HereInMethods
        <4> QED  BY <4>1, <4>3, <4>4 DEF MethodsLaidOut
      <3>5. CASE MethodsLaid
        <4>1. stage = "methods" /\ stage' = "interfaces" /\ place = Len(sorted)
          BY <3>5 DEF MethodsLaid, EndLoop
        <4> QED  BY <4>1 DEF MethodsLaidOut
      <3> QED
        <4>1. \/ UNCHANGED <<stage, place>> \/ SkipInterface("methods") \/ Throw \/ MethodsLaid
              \/ SkipInterface("fields") \/ LayFields \/ FieldsLaid
          BY <1>5 DEF LayoutNext, TypeChecking, StartLayout, allVars, layoutVars
        <4>2. SkipInterface("fields") \/ LayFields \/ FieldsLaid =>
                 /\ stage \in {"fields"} /\ stage' \in {"fields", "methods"} /\ place' \in Nat
                 /\ (stage' = "methods" => place' = 0)
          BY DEF SkipInterface, LayFields, FieldsLaid, EndLoop, AtClass, InLoop, LInv, StageOK
        <4> QED  BY <3>1, <3>2, <3>3, <3>4, <3>5, <4>1, <4>2
    <2>4. MethodsInv'
      BY <1>5, <2>1, <2>3, MethodsKept
    <2> QED  BY <2>1, <2>4 DEF ItablesInv
  <1> QED  BY <1>1, <1>2, <1>3, <1>4, <1>5

LEMMA MethodsInvariant == LayoutSpec => [](MethodsInv /\ ItablesInv)
  <1>1. LayoutInit => MethodsInv /\ ItablesInv
    <2>1. LayoutInit => stage = "tables"
      BY DEF LayoutInit
    <2> QED  BY <2>1, MethodsInit DEF ItablesInv
  <1> QED  BY <1>1, MethodsNext, LInvariant, DInvariant, PTL DEF LayoutSpec, allVars

-----------------------------------------------------------------------------
(* The words of the tables.                                                *)

LEMMA AboveBoth ==
    ASSUME Settled, NEW d \in Types, NEW e \in Types, Below(d, e), Below(e, d)
    PROVE  d = e
  <1>1. Graph /\ TypeOK /\ TopSorted
    BY DEF Settled
  <1>2. PICK i \in 1..Len(sorted) : sorted[i] = d
    BY <1>1, EveryTypeSorted
  <1>3. sorted \in Seq(Types) /\ Len(sorted) \in Nat
    BY <1>1 DEF TypeOK
  <1>4. PICK j \in 1..i : sorted[j] = e
    BY <1>1, <1>2, AboveIsEarlier
  <1>5. j \in 1..Len(sorted)
    BY <1>3
  <1>6. PICK k \in 1..j : sorted[k] = d
    BY <1>1, <1>4, <1>5, AboveIsEarlier
  <1>7. k \in 1..Len(sorted) /\ k = i
    BY <1>1, <1>2, <1>3, <1>6 DEF TopSorted
  <1>8. j = i
    BY <1>3, <1>7
  <1> QED  BY <1>2, <1>4, <1>8

Under(c, o) == {f \in vtables[c] : method_offsets[f.mid].at < o}

\* Below a slot the vtable has one entry for each slot.
LEMMA SlotIsRank ==
    ASSUME NEW c, VtableLaid(c), next_offset[c] \in Nat, NEW m \in Dispatched(c)
    PROVE  AtOf(m) = VtableOverhead + WordSize * Cardinality(Under(c, AtOf(m)))
  <1>1. AtOf(m) \in Nat /\ AtOf(m) % 4 = 0 /\ 8 <= AtOf(m) /\ AtOf(m) < next_offset[c]
    BY DEF VtableLaid, HasSlot, IsSlot, WordSize, VtableOverhead
  <1>2. PICK end \in Nat : end = next_offset[c]
    OBVIOUS
  <1>3. PICK o \in Nat : o = AtOf(m) /\ o % 4 = 0 /\ 8 <= o /\ o < end
    BY <1>1, <1>2
  <1>0. 8 \in Nat /\ 8 % 4 = 0
    OBVIOUS
  <1>4. PICK k \in Nat : o = 8 + 4 * k
    BY <1>0, <1>3, Multiple
  <1> DEFINE T == 0..(k - 1)
             Slot(j) == 8 + 4 * j
             by == [j \in T |-> CHOOSE n \in Dispatched(c) : AtOf(n) = Slot(j)]
             g == [j \in T |-> Entry(by[j])]
             L == Under(c, o)
  <1>5. ASSUME NEW j \in T
        PROVE  by[j] \in Dispatched(c) /\ AtOf(by[j]) = Slot(j)
    <2>1. /\ Slot(j) \in Nat /\ Slot(j) % 4 = 0 /\ 8 <= Slot(j) /\ Slot(j) < end
      BY <1>3, <1>4
    <2>2. IsSlot(Slot(j), next_offset[c])
      BY <1>2, <2>1 DEF IsSlot, WordSize, VtableOverhead
    <2>3. \E n \in Dispatched(c) : AtOf(n) = Slot(j)
      BY <2>2 DEF VtableLaid
    <2> HIDE DEF Slot
    <2> QED  BY <2>3
  <1>6. \A n : Entry(n).mid = n.mid
    BY DEF Entry
  <1>7. g \in [T -> L]
    <2> SUFFICES ASSUME NEW j \in T
                 PROVE  Entry(by[j]) \in L
      OBVIOUS
    <2>1. Slot(j) < o
      BY <1>4
    <2>2. Entry(by[j]) \in vtables[c]
      BY <1>5 DEF VtableLaid
    <2> HIDE DEF Slot, by
    <2>3. method_offsets[Entry(by[j]).mid].at = Slot(j)
      BY <1>5, <1>6 DEF AtOf
    <2> QED  BY <2>1, <2>2, <2>3 DEF Under
  <1>8. ASSUME NEW i \in T, NEW j \in T, g[i] = g[j]
        PROVE  i = j
    <2>1. Entry(by[i]) = Entry(by[j])
      BY <1>8
    <2>2. AtOf(by[i]) = AtOf(by[j])
      BY <1>6, <2>1 DEF AtOf
    <2>3. Slot(i) = Slot(j)
      BY <1>5, <2>2
    <2> QED  BY <2>3
  <1>9. ASSUME NEW f \in L
        PROVE  \E j \in T : g[j] = f
    <2>1. f \in vtables[c] /\ method_offsets[f.mid].at < o
      BY DEF Under
    <2>2. PICK n \in Dispatched(c) : f = Entry(n)
      BY <2>1 DEF VtableLaid
    <2>3. /\ AtOf(n) \in Nat /\ AtOf(n) % 4 = 0 /\ 8 <= AtOf(n)
      BY DEF VtableLaid, HasSlot, IsSlot, WordSize, VtableOverhead
    <2>4. AtOf(n) < o
      BY <1>6, <2>1, <2>2 DEF AtOf
    <2>5. PICK j \in Nat : AtOf(n) = 8 + 4 * j
      BY <1>0, <2>3, Multiple
    <2>6. j \in T
      BY <1>4, <2>4, <2>5
    <2>7. AtOf(by[j]) = AtOf(n) /\ by[j] \in Dispatched(c)
      BY <1>5, <2>5, <2>6
    <2>8. by[j] = n
      BY <2>7 DEF VtableLaid
    <2> QED  BY <2>2, <2>6, <2>8
  <1> HIDE DEF g, L, T
  <1>10. g \in Bijection(T, L)
    <2>1. DOMAIN g = T
      BY <1>7
    <2> QED  BY <1>7, <1>8, <1>9, <2>1 DEF Bijection, Injection, Surjection, IsInjective
  <1>11. IsFiniteSet(T) /\ Cardinality(T) = k
    <2>1. 0 \in Int /\ k - 1 \in Int /\ (0 > k - 1 <=> k = 0) /\ k - 1 - 0 + 1 = k
      OBVIOUS
    <2>2. IsFiniteSet(0..(k - 1))
          /\ Cardinality(0..(k - 1)) = IF 0 > k - 1 THEN 0 ELSE k - 1 - 0 + 1
      BY <2>1, FS_Interval
    <2> QED  BY <2>1, <2>2 DEF T
  <1>12. Cardinality(L) = k
    BY <1>10, <1>11, FS_Bijection DEF ExistsBijection
  <1> QED  BY <1>3, <1>4, <1>12 DEF L, WordSize, VtableOverhead

\* The word of the vtable at the offset of a method is that method.
LEMMA VtableWordIs ==
    ASSUME NEW c, VtableLaid(c), next_offset[c] \in Nat, NEW x \in Dispatched(c)
    PROVE  VtableWord(c, AtOf(x)) = {Entry(x)}
  <1>1. vtables[c] = {Entry(m) : m \in Dispatched(c)}
    BY DEF VtableLaid
  <1>2. ASSUME NEW n \in Dispatched(c)
        PROVE  Entry(n) \in VtableWord(c, AtOf(x)) <=> n = x
    <2>1. Entry(n) \in vtables[c] /\ method_offsets[Entry(n).mid].at = AtOf(n)
      BY <1>1 DEF Entry, AtOf
    <2>2. Entry(n) \in VtableWord(c, AtOf(x)) <=>
             AtOf(x) = VtableOverhead + WordSize * Cardinality(Under(c, AtOf(n)))
      BY <2>1 DEF VtableWord, Under
    <2>3. AtOf(n) = VtableOverhead + WordSize * Cardinality(Under(c, AtOf(n)))
      BY SlotIsRank
    <2> QED  BY <2>2, <2>3 DEF VtableLaid
  <1>3. VtableWord(c, AtOf(x)) \subseteq vtables[c]
    BY DEF VtableWord
  <1> QED  BY <1>1, <1>2, <1>3

\* A place in the itables belongs to one signature.
LEMMA PlacesDiffer ==
    ASSUME NEW S \in SUBSET Signatures, NEW r \in S, NEW s \in S, Below4(S, r) = Below4(S, s)
    PROVE  r = s
  <1> DEFINE key == [n \in S |-> n]
  <1>1. IsFiniteSet(Signatures) /\ Signatures \subseteq Nat
    BY MembersAssumption, FS_Interval DEF Signatures, Constructor
  <1>2. IsFiniteSet(S) /\ key \in [S -> Nat] /\ \A m, n \in S : key[m] = key[n] => m = n
    BY <1>1, FS_Subset
  <1>3. \A n \in S : {i \in S : i < n} = Lesser(S, key, n)
    BY DEF Lesser
  <1> HIDE DEF key
  <1>4. /\ Cardinality(S) \in Nat
        /\ \A m \in S : Cardinality(Lesser(S, key, m)) \in 0..(Cardinality(S) - 1)
        /\ \A m, l \in S : key[m] < key[l] =>
              Cardinality(Lesser(S, key, m)) < Cardinality(Lesser(S, key, l))
    BY <1>2, Ranks
  <1>5. PICK rank : rank = [m \in S |-> Cardinality(Lesser(S, key, m))]
    OBVIOUS
  <1>6. /\ rank[r] \in Nat /\ rank[s] \in Nat
        /\ \A m, l \in S : key[m] < key[l] => rank[m] < rank[l]
    <2>1. \A n \in S : rank[n] = Cardinality(Lesser(S, key, n))
      BY <1>5
    <2>2. \A n \in S : rank[n] \in 0..(Cardinality(S) - 1)
      BY <1>4, <2>1
    <2> QED  BY <1>4, <2>1, <2>2
  <1>7. rank[r] = rank[s]
    <2>1. Below4(S, r) = 4 * rank[r] /\ Below4(S, s) = 4 * rank[s]
      BY <1>3, <1>5 DEF Below4
    <2>2. PICK a \in Nat, b \in Nat : a = rank[r] /\ b = rank[s] /\ 4 * a = 4 * b
      BY <1>6, <2>1
    <2>3. a = b
      BY <2>2
    <2> QED  BY <2>2, <2>3
  <1>8. key[r] = r /\ key[s] = s /\ r \in Nat /\ s \in Nat
    BY <1>1 DEF key
  <1>9. ~(r < s) /\ ~(s < r)
    BY <1>6, <1>7, <1>8
  <1> QED  BY <1>8, <1>9

-----------------------------------------------------------------------------
(* What the compiler throws for, and what a call finds.                    *)

LEMMA MissingIs ==
    LInv /\ DInv /\ MethodsInv => FailsOnlyForAbstract
  <1> SUFFICES ASSUME LInv, DInv, MethodsInv, stage = "threw"
               PROVE  /\ bodies[Current].abstract
                      /\ \E i \in Interfaces : \E m \in bodies[i].methods :
                            Below(Current, i) /\ \A d \in Types : ~Runs(Current, d, m.sig)
    BY DEF FailsOnlyForAbstract
  <1>1. HereInMethods /\ Missing(Current)
    BY DEF MethodsInv
  <1>2. PICK c \in Types : c = Current /\ IsClass(c) /\ Settled
    BY <1>1, HereIs
  <1>3. ASSUME NEW m \in OwnMethods(c) \ NewMethods(c)
        PROVE  HasOffset(m.parent)
    <2>1. PICK z \in Dispatched(Extends(c)) : z.mid = m.parent /\ ~Root(c)
      BY <1>2, <1>3, OwnHasPlace
    <2>2. VtableLaid(Extends(c))
      BY <1>1, <1>2, <2>1, FirstIs
    <2> QED  BY <2>1, <2>2 DEF VtableLaid, HasSlot
  <1>4. PICK m \in Dispatched(c) \ OwnMethods(c) : ~HasOffset(m.mid)
    BY <1>1, <1>2, <1>3 DEF Missing
  <1>5. m \in tables[c] /\ m.sig # Constructor /\ m.owner # c
    BY <1>4 DEF Dispatched, OwnMethods
  <1>6. m.owner \in Types /\ Below(c, m.owner) /\ ~IsClass(m.owner)
    BY <1>1, <1>2, <1>4, <1>5, EntriesAre, InheritedPlaced
  <1>7. PICK k \in bodies[m.owner].methods : Keeps(m, k)
    BY <1>2, <1>5, EntriesAre
  <1>8. m.owner \in Interfaces
    <2>1. \E i \in DOMAIN sorted : sorted[i] = m.owner
      BY <1>2, <1>6, EveryTypeSorted, OrderIs DEF Settled
    <2> QED  BY <1>6, <2>1 DEF Interfaces
  <1>9. bodies[c].abstract
    <2>1. decls[m.owner].kind = "interface"
      <3>1. decls \in [Types -> Declaration]
        BY <1>2, HierarchyAssumption DEF Settled, Graph, HInv, KindsInv
      <3> QED  BY <1>6, <3>1 DEF IsClass, Declaration
    <2>2. m.abstract
      BY <1>7, <2>1 DEF Keeps
    <2> QED  BY <1>2, <1>5, <2>2 DEF Settled, DispatchDone
  <1>10. ASSUME NEW d \in Types, Runs(c, d, k.sig)
         PROVE  FALSE
    <2>1. IsClass(d) /\ Below(c, d) /\ Declares(d, m.sig)
      BY <1>7, <1>10 DEF Runs, Keeps
    <2> QED  BY <1>2, <1>5, <1>6, <2>1 DEF Settled, DispatchDone, Resolved, Lowest
  <1> QED  BY <1>2, <1>6, <1>8, <1>9, <1>10

\* Whatever the program, no method is missing when a class is laid out, unless the
\* class is abstract and leaves a method of an interface to the classes below it.
THEOREM ThrowsOnlyForAbstract == LayoutSpec => []FailsOnlyForAbstract
  BY MissingIs, LInvariant, DInvariant, MethodsInvariant, PTL

\* The entry of a class is made of the declaration an object of the class runs.
LEMMA EntryRuns ==
    ASSUME Settled, NEW c \in Types, IsClass(c), ~bodies[c].abstract,
           NEW x \in Dispatched(c), IsClass(x.owner)
    PROVE  LET d == x.owner
           IN  /\ d \in Types /\ Runs(c, d, x.sig)
               /\ {Entry(n) : n \in {o \in OwnMethods(d) : o.sig = x.sig}} = {Entry(x)}
               /\ \A n \in bodies[d].methods : n.sig = x.sig => ~n.abstract
  <1>1. x \in tables[c] /\ ~x.static /\ x.sig # Constructor
    BY DEF Dispatched
  <1>2. PICK d \in Types : d = x.owner /\ Below(c, d) /\ IsClass(d)
    BY <1>1, EntriesAre
  <1>3. PICK k \in bodies[d].methods : Keeps(x, k)
    BY <1>1, <1>2, EntriesAre
  <1>4. Runs(c, d, x.sig)
    <2>1. Declares(d, x.sig)
      BY <1>3 DEF Declares, Keeps
    <2>2. ASSUME NEW e \in Types, IsClass(e), Below(c, e), Below(e, d), Declares(e, x.sig)
          PROVE  e = d
      <3>1. Below(d, e)
        BY <1>1, <1>2, <2>2 DEF Settled, DispatchDone, Resolved, Lowest
      <3> QED  BY <2>2, <3>1, AboveBoth
    <2> QED  BY <1>2, <2>1, <2>2 DEF Runs
  <1>5. PICK y \in tables[d] : y.mid = x.mid /\ y.owner = d
    <2>1. CASE d = c
      BY <1>1, <1>2, <2>1
    <2>2. CASE d # c
      BY <1>1, <1>2, <2>2 DEF Settled, DispatchDone, Resolved, Originates
    <2> QED  BY <2>1, <2>2
  <1>6. y \in OwnMethods(d) /\ y.sig = x.sig
    <2>1. y.sig = x.sig /\ y.static = x.static
      BY <1>1, <1>5, SameMid
    <2> QED  BY <1>1, <1>5, <2>1 DEF OwnMethods, Dispatched
  <1>7. \A o \in OwnMethods(d) : o.sig = x.sig => o = y
    BY <1>6, OneDispatched DEF OwnMethods
  <1>8. Entry(y) = Entry(x)
    BY <1>2, <1>5 DEF Entry
  <1>9. {Entry(n) : n \in {o \in OwnMethods(d) : o.sig = x.sig}} = {Entry(x)}
    BY <1>6, <1>7, <1>8
  <1>10. ASSUME NEW n \in bodies[d].methods, n.sig = x.sig
         PROVE  ~n.abstract
    <2>1. n = k
      BY <1>3, <1>10, SameDeclaration DEF Keeps
    <2>2. ~x.abstract
      BY <1>1 DEF Settled, DispatchDone
    <2> QED  BY <1>3, <2>1, <2>2 DEF Keeps
  <1> QED  BY <1>2, <1>4, <1>9, <1>10

\* A call through a class finds the entry of the object's class.
LEMMA ClassCall ==
    ASSUME Settled, NEW c \in Types, NEW t \in Types, IsClass(c), IsClass(t), Below(c, t),
           VtableLaid(c), VtableLaid(t), next_offset[c] \in Nat,
           NEW m \in Dispatched(t), NEW x \in Dispatched(c), x.sig = m.sig
    PROVE  DynamicCall(c, m.mid) = {Entry(x)}
  <1>1. t \in ClassesAbove(c)
    BY DEF ClassesAbove
  <1>2. AtOf(m) = AtOf(x)
    BY <1>1 DEF VtableLaid
  <1>3. method_offsets[m.mid].kind = "class"
    BY DEF VtableLaid, HasSlot
  <1>4. DynamicCall(c, m.mid) = VtableWord(c, AtOf(x))
    BY <1>2, <1>3 DEF DynamicCall, AtOf
  <1> QED  BY <1>4, VtableWordIs

\* So does a call of a method that an interface declares.
LEMMA InterfaceCall ==
    ASSUME NEW S \in SUBSET Signatures, ItablesLaid(S), NEW c \in Types, IsClass(c),
           NEW t \in Types, ~IsClass(t), NEW m \in tables[t], ~IsClass(m.owner),
           NEW x \in tables[c], x.sig = m.sig, \A y \in tables[c] : y.sig = m.sig => y = x
    PROVE  DynamicCall(c, m.mid) = {Entry(x)}
  <1>1. /\ m.sig \in S
        /\ method_offsets[m.mid] = [at |-> Below4(S, m.sig), kind |-> "interface"]
    BY DEF ItablesLaid
  <1>2. itables[c] = {[at |-> Below4(S, n.sig), entry |-> Entry(n)] :
                         n \in {l \in tables[c] : l.sig \in S}}
    BY DEF ItablesLaid
  <1>3. DynamicCall(c, m.mid) = ItableWord(c, Below4(S, m.sig))
    BY <1>1 DEF DynamicCall
  <1>4. ASSUME NEW i \in itables[c], i.at = Below4(S, m.sig)
        PROVE  i.entry = Entry(x)
    <2>1. PICK n \in tables[c] :
             n.sig \in S /\ i = [at |-> Below4(S, n.sig), entry |-> Entry(n)]
      BY <1>2
    <2>2. Below4(S, n.sig) = Below4(S, m.sig)
      BY <1>4, <2>1
    <2>3. n.sig = m.sig
      BY <1>1, <2>1, <2>2, PlacesDiffer
    <2> QED  BY <2>1, <2>3
  <1>5. PICK i : i = [at |-> Below4(S, x.sig), entry |-> Entry(x)]
    OBVIOUS
  <1>6. i \in itables[c] /\ i.at = Below4(S, m.sig) /\ i.entry = Entry(x)
    BY <1>1, <1>2, <1>5
  <1> QED  BY <1>3, <1>4, <1>6 DEF ItableWord

LEMMA CallsFind ==
    LInv /\ DInv /\ MethodsInv /\ ItablesInv => DispatchRight
  <1> SUFFICES ASSUME LInv, DInv, MethodsInv, ItablesInv, stage = "done",
                      NEW c \in Types, IsClass(c), ~bodies[c].abstract,
                      NEW t \in Types, Below(c, t), NEW m \in Dispatched(t)
               PROVE  \E d \in Types :
                         /\ Runs(c, d, m.sig)
                         /\ DynamicCall(c, m.mid) =
                               {Entry(n) : n \in {o \in OwnMethods(d) : o.sig = m.sig}}
                         /\ \A n \in bodies[d].methods : n.sig = m.sig => ~n.abstract
    BY DEF DispatchRight
  <1>1. Settled /\ Graph
    BY IsSettled DEF Settled
  <1>2. \A u \in Types : IsClass(u) => VtableLaid(u) /\ next_offset[u] \in Nat
    <2> SUFFICES ASSUME NEW u \in Types, IsClass(u)
                 PROVE  VtableLaid(u) /\ next_offset[u] \in Nat
      OBVIOUS
    <2>1. PICK i \in 1..Len(sorted) : sorted[i] = u
      BY <1>1, EveryTypeSorted
    <2> QED  BY <2>1 DEF MethodsInv, MethodsLaidOut
  <1>3. PICK S \in SUBSET Signatures : ItablesLaid(S)
    BY DEF ItablesInv
  <1>4. PICK x \in Dispatched(c) : x.sig = m.sig /\ \A y \in tables[c] : y.sig = m.sig => y = x
    BY <1>1, HasDispatched
  <1>5. x \in tables[c] /\ m \in tables[t] /\ ~m.static /\ m.sig # Constructor
    BY DEF Dispatched
  <1>6. DynamicCall(c, m.mid) = {Entry(x)}
    <2>1. CASE IsClass(t)
      BY <1>1, <1>2, <1>4, <2>1, ClassCall
    <2>2. CASE ~IsClass(t) /\ ~IsClass(m.owner)
      BY <1>3, <1>4, <1>5, <2>2, InterfaceCall
    <2>3. CASE ~IsClass(t) /\ IsClass(m.owner)
      <3>1. m.owner \in Types /\ Below(t, m.owner) /\ m.owner # t
        BY <1>1, <1>5, <2>3, EntriesAre
      <3>2. FromInterface(t)
        <4>1. decls \in [Types -> Declaration]
          BY <1>1, HierarchyAssumption DEF Settled, Graph, HInv, KindsInv
        <4> QED  BY <2>3, <4>1 DEF IsClass, FromInterface, Declaration
      <3>3. m.owner = Object
        BY <1>1, <2>3, <3>1, <3>2, AboveInterface DEF IsClass, FromInterface
      <3>4. PICK y \in tables[Object] : y.mid = m.mid /\ y.owner = Object
        BY <1>1, <1>5, <3>1, <3>3 DEF Settled, DispatchDone, Resolved, Originates
      <3>5. /\ Object \in Types /\ IsClass(Object) /\ Below(c, Object)
        BY <1>1, HierarchyAssumption, RootIs, ObjectOnTop
      <3>6. y.sig = m.sig /\ y \in Dispatched(Object)
        BY <1>1, <1>5, <3>4, <3>5, SameMid DEF Dispatched
      <3>7. DynamicCall(c, y.mid) = {Entry(x)}
        BY <1>1, <1>2, <1>4, <3>5, <3>6, ClassCall
      <3> QED  BY <3>4, <3>7
    <2> QED  BY <2>1, <2>2, <2>3
  <1>7. IsClass(x.owner)
    BY <1>2 DEF VtableLaid
  <1>8. PICK d \in Types : d = x.owner
    BY <1>1, <1>5, EntriesAre
  <1>9. /\ Runs(c, d, m.sig)
        /\ {Entry(n) : n \in {o \in OwnMethods(d) : o.sig = m.sig}} = {Entry(x)}
        /\ \A n \in bodies[d].methods : n.sig = m.sig => ~n.abstract
    <2>1. /\ Runs(c, d, x.sig)
          /\ {Entry(n) : n \in {o \in OwnMethods(d) : o.sig = x.sig}} = {Entry(x)}
          /\ \A n \in bodies[d].methods : n.sig = x.sig => ~n.abstract
      BY <1>1, <1>7, <1>8, EntryRuns
    <2> QED  BY <1>4, <2>1
  <1> QED  BY <1>6, <1>9

\* For every accepted program that is laid out, whatever an object's class inherits,
\* overrides and implements, and through whichever of its classes and interfaces a
\* method is called, the vtable or itable holds the one implementation that the
\* class has, which is not abstract.
THEOREM DispatchFindsImplementation == LayoutSpec => []DispatchRight
  BY CallsFind, LInvariant, DInvariant, MethodsInvariant, PTL
=============================================================================
