------------------------- MODULE TypeHierarchyProofs -------------------------
(***************************************************************************)
(* For every number of types and every program, the search of              *)
(* TypeHierarchy.tla puts the sound types, and only these, in topological  *)
(* order, and explains why it leaves out the others.                       *)
(*                                                                         *)
(* The inductive invariant adds to the properties how the calls of fn are  *)
(* linked (PathLinked), what the parents done with are (ParentsDone), why  *)
(* a call is about to return false (FailsForParent), and that the types    *)
(* known to be good or bad so far are (KnownRight), which is what makes    *)
(* BadExact hold when every type is known (LoopDone).                      *)
(***************************************************************************)
EXTENDS TypeHierarchy, SequenceTheorems, TLAPS

Calls == [tid : Types, cur : Nat]

Linked(i) ==
    /\ path[i].cur < Len(edges[path[i].tid])
    /\ path[i + 1].tid = edges[path[i].tid][path[i].cur + 1]

PathLinked ==
    /\ \A i \in 1..Len(path) : path[i].cur <= Len(edges[path[i].tid])
    /\ \A i \in 1..Len(path) : i < Len(path) => Linked(i)
    /\ \A i, j \in 1..Len(path) : path[i].tid = path[j].tid => i = j
    /\ \A i \in 1..Len(path) : path[i].tid \notin good \union pruned

ParentsDone ==
    \A i \in 1..Len(path) : \A k \in 1..path[i].cur : edges[path[i].tid][k] \in good

FailsForParent ==
    failing => /\ Top.cur < Len(edges[Top.tid])
               /\ edges[Top.tid][Top.cur + 1] \in bad

KnownRight ==
    /\ pruned \subseteq bad
    /\ good \subseteq Sound
    /\ bad \intersect Sound = {}

LoopDone ==
    /\ phase = "search" => \A t \in 1..(next - 1) : Known(t)
    /\ phase = "done" => path = << >> /\ \A t \in Types : Known(t)

PruneFirst ==
    phase = "prune" => /\ bad = pruned /\ good = {} /\ cycles = {}
                       /\ sorted = << >> /\ path = << >>

SearchInv ==
    PathLinked /\ ParentsDone /\ FailsForParent /\ KnownRight /\ LoopDone /\ PruneFirst

IInv == TypeOK /\ SearchInv /\ TopSorted /\ BadExplained

-----------------------------------------------------------------------------
(* The path.                                                               *)

LEMMA TopInPath ==
    ASSUME TypeOK, path # << >>
    PROVE  /\ Len(path) \in Nat \ {0} /\ Len(path) \in 1..Len(path)
           /\ Top = path[Len(path)] /\ Top \in Calls
           /\ Top.tid \in Types /\ Top.cur \in Nat
           /\ edges[Top.tid] \in Seq(Types)
  <1>1. path \in Seq(Calls) /\ edges \in [Types -> Seq(Types)]
    BY DEF TypeOK, Calls
  <1>2. Len(path) \in Nat \ {0} /\ Len(path) \in 1..Len(path)
    BY <1>1
  <1>3. Top = path[Len(path)] /\ Top \in Calls
    BY <1>1, <1>2 DEF Top
  <1>4. Top.tid \in Types /\ Top.cur \in Nat
    BY <1>3 DEF Calls
  <1> QED  BY <1>1, <1>2, <1>3, <1>4

LEMMA AllButLast ==
    ASSUME NEW C, NEW p \in Seq(C), p # << >>
    PROVE  /\ SubSeq(p, 1, Len(p) - 1) \in Seq(C)
           /\ Len(SubSeq(p, 1, Len(p) - 1)) = Len(p) - 1
           /\ \A i \in 1..(Len(p) - 1) : SubSeq(p, 1, Len(p) - 1)[i] = p[i]
  <1>1. Len(p) \in Nat \ {0}
    OBVIOUS
  <1>2. 1 \in Int /\ Len(p) - 1 \in Int /\ \A i \in 1..(Len(p) - 1) : p[i] \in C
    BY <1>1
  <1>3. PICK q, n : q = SubSeq(p, 1, Len(p) - 1) /\ n = Len(p) - 1
    OBVIOUS
  <1>4. /\ q \in Seq(C)
        /\ Len(q) = IF 1 <= n THEN n - 1 + 1 ELSE 0
        /\ \A i \in 1..(n - 1 + 1) : q[i] = p[1 + i - 1]
    BY <1>2, <1>3, SubSeqProperties
  <1>5. n \in Nat
    BY <1>1, <1>3
  <1>6. Len(q) = n /\ \A i \in 1..n : q[i] = p[i]
    BY <1>4, <1>5
  <1> QED  BY <1>3, <1>4, <1>6

LEMMA CallerIs ==
    ASSUME TypeOK, path # << >>
    PROVE  /\ Caller \in Seq(Calls) /\ Len(Caller) = Len(path) - 1
           /\ \A i \in 1..(Len(path) - 1) : Caller[i] = path[i]
  <1>1. path \in Seq(Calls) /\ Len(path) \in Nat \ {0}
    BY TopInPath DEF TypeOK, Calls
  <1> QED  BY <1>1, AllButLast DEF Caller

LEMMA AdvancedIs ==
    ASSUME NEW p \in Seq(Calls)
    PROVE  /\ Advanced(p) \in Seq(Calls) /\ Len(Advanced(p)) = Len(p)
           /\ \A i \in 1..Len(p) : Advanced(p)[i].tid = p[i].tid
           /\ \A i \in 1..Len(p) : i < Len(p) => Advanced(p)[i] = p[i]
           /\ p # << >> => Advanced(p)[Len(p)].cur = p[Len(p)].cur + 1
  <1>1. CASE p = << >>
    BY <1>1 DEF Advanced
  <1>2. CASE p # << >>
    <2>1. Len(p) \in 1..Len(p) /\ p[Len(p)] \in Calls
      BY <1>2
    <2>2. Advanced(p) = [p EXCEPT ![Len(p)].cur = @ + 1]
      BY <1>2 DEF Advanced
    <2>3. [p[Len(p)] EXCEPT !.cur = @ + 1] \in Calls
      BY <2>1 DEF Calls
    <2>4. Advanced(p) \in Seq(Calls) /\ Len(Advanced(p)) = Len(p)
      BY <2>1, <2>2, <2>3
    <2>5. \A i \in 1..Len(p) : i # Len(p) => Advanced(p)[i] = p[i]
      BY <2>2, <2>1
    <2>6. /\ Advanced(p)[Len(p)].tid = p[Len(p)].tid
          /\ Advanced(p)[Len(p)].cur = p[Len(p)].cur + 1
      BY <2>1, <2>2 DEF Calls
    <2> QED  BY <2>4, <2>5, <2>6
  <1> QED  BY <1>1, <1>2

-----------------------------------------------------------------------------
(* Sound types.                                                            *)

LEMMA ParentsAreTypes ==
    ASSUME TypeOK, NEW t \in Types
    PROVE  ParentsOf(t) \subseteq Types
  BY DEF TypeOK, ParentsOf

\* A type above which all are sound is sound.
LEMMA SoundAbove ==
    ASSUME NEW t \in Types, t \notin pruned, ParentsOf(t) \subseteq Sound
    PROVE  t \in Sound
  BY DEF Sound, Closed

\* A type below one that is not sound is not sound.
LEMMA UnsoundBelow ==
    ASSUME NEW t \in Types, NEW p \in Types, p \in ParentsOf(t), p \notin Sound
    PROVE  t \notin Sound
  <1>1. PICK S \in SUBSET Types : Closed(S) /\ p \notin S
    BY DEF Sound
  <1> DEFINE R == S \ {t}
  <1>2. R \in SUBSET Types /\ t \notin R
    OBVIOUS
  <1>3. Closed(R)
    <2> SUFFICES ASSUME NEW u \in Types \ pruned, ParentsOf(u) \subseteq R
                 PROVE  u \in R
      BY DEF Closed
    <2>1. u \in S
      BY <1>1 DEF Closed
    <2>2. u # t
      BY <1>1
    <2> QED  BY <2>1, <2>2
  <1> QED  BY <1>2, <1>3 DEF Sound

LEMMA UnsoundPruned ==
    ASSUME NEW t \in pruned
    PROVE  t \notin Sound
  <1> DEFINE S == Types \ pruned
  <1>1. S \in SUBSET Types /\ t \notin S /\ Closed(S)
    BY DEF Closed
  <1> QED  BY <1>1 DEF Sound

\* No type of a cycle is sound.
LEMMA UnsoundOnCycle ==
    ASSUME NEW c \in Seq(Types), IsCycle(c), NEW k \in 1..Len(c)
    PROVE  c[k] \notin Sound
  <1> DEFINE S == Types \ {c[i] : i \in 1..Len(c)}
  <1>1. S \in SUBSET Types /\ c[k] \notin S
    OBVIOUS
  <1>2. Closed(S)
    <2> SUFFICES ASSUME NEW u \in Types \ pruned, ParentsOf(u) \subseteq S, u \notin S
                 PROVE  FALSE
      BY DEF Closed
    <2>1. PICK i \in 1..Len(c) : u = c[i]
      OBVIOUS
    <2>2. Len(c) \in Nat /\ Len(c) > 1 /\ c[Len(c)] = c[1]
      BY DEF IsCycle
    <2>3. CASE i < Len(c)
      <3>1. c[i + 1] \in ParentsOf(u) /\ i + 1 \in 1..Len(c)
        BY <2>1, <2>2, <2>3 DEF IsCycle
      <3> QED  BY <3>1
    <2>4. CASE i = Len(c)
      <3>1. c[2] \in ParentsOf(u) /\ 2 \in 1..Len(c)
        BY <2>1, <2>2, <2>4 DEF IsCycle
      <3> QED  BY <3>1
    <2> QED  BY <2>1, <2>2, <2>3, <2>4
  <1> QED  BY <1>1, <1>2 DEF Sound

\* What is sound depends on the graph alone.
LEMMA SoundStable ==
    ASSUME pruned' = pruned, edges' = edges
    PROVE  /\ Sound' = Sound
           /\ \A t \in Types : ParentsOf(t)' = ParentsOf(t)
           /\ \A S : Closed(S)' <=> Closed(S)
           /\ \A S : ClosedBelow(S)' <=> ClosedBelow(S)
           /\ \A c : IsCycle(c)' <=> IsCycle(c)
  BY DEF Sound, Closed, ParentsOf, ClosedBelow, IsCycle

-----------------------------------------------------------------------------
(* The steps.                                                              *)

LEMMA InitHolds ==
    ASSUME Init
    PROVE  IInv
  <1>1. TypeOK
    <2>1. decls \in [Types -> Declaration]
      BY HierarchyAssumption DEF Init
    <2>2. next \in 1..(NumTypes + 1)
      BY HierarchyAssumption DEF Init
    <2>3. edges \in [Types -> Seq(Types)]
      BY DEF Init
    <2>4. phase = "prune" /\ bad = {} /\ pruned = {} /\ good = {} /\ cycles = {}
      BY DEF Init
    <2>5. sorted \in Seq(Types) /\ path \in Seq([tid : Types, cur : Nat]) /\ failing = FALSE
      BY DEF Init
    <2> QED  BY <2>1, <2>2, <2>3, <2>4, <2>5 DEF TypeOK
  <1>3. SearchInv
    BY DEF Init, SearchInv, PathLinked, ParentsDone, FailsForParent, KnownRight, LoopDone,
           PruneFirst
  <1>4. TopSorted /\ BadExplained
    BY DEF Init, TopSorted, BadExplained
  <1> QED  BY <1>1, <1>3, <1>4 DEF IInv

LEMMA PruneKeeps ==
    ASSUME IInv, Prune
    PROVE  IInv'
  <1> USE DEF IInv, SearchInv
  <1> DEFINE new == IF Invalid(next) THEN {next} ELSE {}
  <1>1. /\ bad' = bad \union new /\ pruned' = pruned \union new
        /\ new \subseteq Types /\ next \in Types
    BY DEF Prune
  <1>2. bad = pruned /\ good = {} /\ cycles = {} /\ sorted = << >> /\ path = << >>
    BY DEF PruneFirst, Prune
  <1>3. next' = next + 1 /\ phase = "prune"
        /\ UNCHANGED <<decls, phase, edges, cycles, good, sorted, path, failing>>
    BY DEF Prune
  <1>4. TypeOK'
    <2>1. next' \in 1..(NumTypes + 1)
      BY <1>1, <1>3, HierarchyAssumption DEF Types
    <2> QED  BY <1>1, <1>3, <2>1 DEF TypeOK
  <1>5. PathLinked' /\ ParentsDone' /\ LoopDone' /\ PruneFirst' /\ FailsForParent'
    BY <1>1, <1>2, <1>3 DEF PathLinked, ParentsDone, LoopDone, PruneFirst, FailsForParent, TypeOK
  <1>6. KnownRight'
    <2>1. \A t \in pruned' : t \notin Sound'
      <3> SUFFICES ASSUME NEW t \in pruned'
                   PROVE  \E S \in SUBSET Types : Closed(S)' /\ t \notin S
        BY DEF Sound
      <3>1. PICK P : P = pruned'
        OBVIOUS
      <3> DEFINE S == Types \ P
      <3>2. S \in SUBSET Types /\ t \notin S
        BY <3>1
      <3>3. Closed(S)'
        BY <3>1 DEF Closed
      <3> QED  BY <3>2, <3>3
    <2> QED  BY <1>1, <1>2, <1>3, <2>1 DEF KnownRight
  <1>7. TopSorted'
    BY <1>2, <1>3 DEF TopSorted
  <1>8. BadExplained'
    BY <1>1, <1>2, <1>3 DEF BadExplained, Blamed
  <1> QED  BY <1>4, <1>5, <1>6, <1>7, <1>8

LEMMA BuildGraphKeeps ==
    ASSUME IInv, BuildGraph
    PROVE  IInv'
  <1> USE DEF IInv, SearchInv
  <1>1. bad = pruned /\ good = {} /\ cycles = {} /\ sorted = << >> /\ path = << >>
    BY DEF PruneFirst, BuildGraph
  <1>2. /\ phase' = "search" /\ next' = 1 /\ edges' = [t \in Types |-> Parents(t)]
        /\ UNCHANGED <<decls, bad, pruned, cycles, good, sorted, path, failing>>
    BY DEF BuildGraph
  <1>3. TypeOK'
    <2>1. ASSUME NEW t \in Types PROVE Parents(t) \in Seq(Types)
      <3>1. decls[t].extends \in Seq(Types) /\ decls[t].implements \in Seq(Types)
        BY DEF TypeOK, Declaration
      <3>2. << Object >> \in Seq(Types) /\ << >> \in Seq(Types)
        BY HierarchyAssumption
      <3> QED  BY <3>1, <3>2 DEF Parents
    <2>2. edges' \in [Types -> Seq(Types)]
      BY <1>2, <2>1
    <2>3. next' \in 1..(NumTypes + 1)
      BY <1>2, HierarchyAssumption
    <2>4. TypeOK
      OBVIOUS
    <2> QED  BY <1>2, <2>2, <2>3, <2>4 DEF TypeOK
  <1>4. PathLinked' /\ ParentsDone' /\ FailsForParent' /\ PruneFirst'
    BY <1>1, <1>2 DEF PathLinked, ParentsDone, FailsForParent, PruneFirst, TypeOK
  <1>5. LoopDone'
    BY <1>2 DEF LoopDone
  <1>6. KnownRight'
    <2>1. \A t \in pruned' : t \notin Sound'
      <3> SUFFICES ASSUME NEW t \in pruned'
                   PROVE  \E S \in SUBSET Types : Closed(S)' /\ t \notin S
        BY DEF Sound
      <3> DEFINE S == Types \ pruned
      <3>1. S \in SUBSET Types /\ t \notin S
        BY <1>2
      <3>2. PICK R : R = S
        OBVIOUS
      <3>3. Closed(R)'
        BY <1>2, <3>2 DEF Closed
      <3> QED  BY <3>1, <3>2, <3>3
    <2> QED  BY <1>1, <1>2, <2>1 DEF KnownRight
  <1>7. TopSorted'
    BY <1>1, <1>2 DEF TopSorted
  <1>8. BadExplained'
    BY <1>1, <1>2 DEF BadExplained, Blamed
  <1> QED  BY <1>3, <1>4, <1>5, <1>6, <1>7, <1>8

\* A step of the search that leaves the graph and the order alone.
LEMMA OrderStays ==
    ASSUME TopSorted, UNCHANGED <<edges, good, sorted>>
    PROVE  TopSorted'
  BY DEF TopSorted, ParentsOf

LEMMA KnownStays ==
    ASSUME KnownRight, UNCHANGED <<edges, pruned, good, bad>>
    PROVE  KnownRight'
  BY SoundStable DEF KnownRight

LEMMA ExplanationStays ==
    ASSUME BadExplained, UNCHANGED <<edges, pruned, cycles, bad>>
    PROVE  BadExplained'
  BY SoundStable DEF BadExplained, Blamed

LEMMA StartKeeps ==
    ASSUME IInv, Start
    PROVE  IInv'
  <1> USE DEF IInv, SearchInv
  <1>1. /\ phase = "search" /\ path = << >> /\ next \in Types
        /\ UNCHANGED <<decls, phase, bad, pruned, edges, cycles, good, sorted, failing>>
    BY DEF Start
  <1>2. failing = FALSE /\ next \in Nat /\ NumTypes \in Nat /\ next <= NumTypes
    BY <1>1, HierarchyAssumption DEF TypeOK, Types
  <1>3. TopSorted' /\ KnownRight' /\ BadExplained'
    BY <1>1, OrderStays, KnownStays, ExplanationStays
  <1>4. PruneFirst'
    BY <1>1 DEF PruneFirst
  <1>5. CASE Known(next)
    <2>1. next' = next + 1 /\ path' = path
      BY <1>5 DEF Start
    <2>2. TypeOK'
      BY <1>1, <1>2, <2>1 DEF TypeOK
    <2>3. PathLinked' /\ ParentsDone' /\ FailsForParent'
      BY <1>1, <1>2, <2>1 DEF PathLinked, ParentsDone, FailsForParent
    <2>4. LoopDone'
      BY <1>1, <1>2, <1>5, <2>1 DEF LoopDone, Known
    <2> QED  BY <1>3, <1>4, <2>2, <2>3, <2>4
  <1>6. CASE ~Known(next)
    <2>1. next' = next /\ path' = << Call(next) >>
      BY <1>6 DEF Start
    <2>2. Call(next) = [tid |-> next, cur |-> 0] /\ Call(next) \in Calls
      BY <1>1 DEF Call, Calls
    <2>3. Len(path') = 1 /\ path'[1] = Call(next) /\ path' \in Seq(Calls)
      BY <2>1, <2>2
    <2>4. TypeOK'
      BY <1>1, <1>2, <2>1, <2>3 DEF TypeOK, Calls
    <2>5. next \notin good \union pruned
      BY <1>6 DEF Known, KnownRight
    <2>6. PathLinked' /\ ParentsDone' /\ FailsForParent'
      <3>1. Len(edges[next]) \in Nat
        BY <1>1 DEF TypeOK
      <3>2. \A i \in 1..Len(path') : i = 1
        BY <2>3
      <3>3. PathLinked'
        BY <1>1, <2>2, <2>3, <2>5, <3>1, <3>2 DEF PathLinked
      <3>4. ParentsDone'
        BY <1>1, <2>2, <2>3, <3>2 DEF ParentsDone
      <3>5. FailsForParent'
        BY <1>1, <1>2 DEF FailsForParent
      <3> QED  BY <3>3, <3>4, <3>5
    <2>7. LoopDone'
      BY <1>1, <2>1 DEF LoopDone, Known
    <2> QED  BY <1>3, <1>4, <2>4, <2>6, <2>7
  <1> QED  BY <1>5, <1>6

LEMMA FinishKeeps ==
    ASSUME IInv, Finish
    PROVE  IInv'
  <1> USE DEF IInv, SearchInv
  <1>1. /\ phase = "search" /\ path = << >> /\ next \notin Types /\ phase' = "done"
        /\ UNCHANGED <<decls, next, bad, pruned, edges, cycles, good, sorted, path, failing>>
    BY DEF Finish
  <1>2. TypeOK'
    BY <1>1 DEF TypeOK
  <1>3. TopSorted' /\ KnownRight' /\ BadExplained'
    BY <1>1, OrderStays, KnownStays, ExplanationStays
  <1>4. PathLinked' /\ ParentsDone' /\ FailsForParent' /\ PruneFirst'
    BY <1>1 DEF PathLinked, ParentsDone, FailsForParent, PruneFirst, TypeOK
  <1>5. LoopDone'
    <2>1. next = NumTypes + 1 /\ NumTypes \in Nat
      BY <1>1, HierarchyAssumption DEF TypeOK, Types
    <2>2. \A t \in Types : Known(t)
      BY <1>1, <2>1 DEF LoopDone, Types
    <2> QED  BY <1>1, <2>2 DEF LoopDone, Known
  <1> QED  BY <1>2, <1>3, <1>4, <1>5

LEMMA LoopStays ==
    ASSUME LoopDone, phase = "search", UNCHANGED <<phase, next, edges>>,
           good \subseteq good', bad \subseteq bad'
    PROVE  LoopDone'
  BY DEF LoopDone, Known

LEMMA AtEdgeIs ==
    ASSUME TypeOK, AtEdge
    PROVE  /\ phase = "search" /\ path # << >> /\ failing = FALSE
           /\ Top.cur \in Nat /\ Top.cur < Len(edges[Top.tid])
           /\ Parent = edges[Top.tid][Top.cur + 1]
           /\ Parent \in Types /\ Parent \in ParentsOf(Top.tid)
  <1>1. phase = "search" /\ path # << >> /\ failing = FALSE /\ Top.cur < Len(edges[Top.tid])
    BY DEF AtEdge, TypeOK
  <1>2. Top.cur \in Nat /\ edges[Top.tid] \in Seq(Types)
    BY <1>1, TopInPath
  <1>3. Top.cur + 1 \in DOMAIN edges[Top.tid]
    BY <1>1, <1>2
  <1> QED  BY <1>1, <1>2, <1>3 DEF Parent, ParentsOf

LEMMA ParentBadKeeps ==
    ASSUME IInv, ParentBad
    PROVE  IInv'
  <1> USE DEF IInv, SearchInv
  <1>1. /\ AtEdge /\ Parent \in bad /\ failing' = TRUE
        /\ UNCHANGED <<decls, phase, next, bad, pruned, edges, cycles, good, sorted, path>>
    BY DEF ParentBad
  <1>2. path # << >> /\ phase = "search"
    BY <1>1, AtEdgeIs
  <1>3. TypeOK'
    BY <1>1, <1>2 DEF TypeOK
  <1>4. TopSorted' /\ KnownRight' /\ BadExplained' /\ LoopDone'
    BY <1>1, <1>2, OrderStays, KnownStays, ExplanationStays, LoopStays
  <1>5. PathLinked'
    BY <1>1 DEF PathLinked, Linked
  <1>6. ParentsDone' /\ PruneFirst'
    BY <1>1, <1>2 DEF ParentsDone, PruneFirst
  <1>7. FailsForParent'
    BY <1>1, AtEdgeIs DEF FailsForParent, Top
  <1> QED  BY <1>3, <1>4, <1>5, <1>6, <1>7

\* The caller of a good type goes on: the path p is a part of the old one, and
\* the parent its last call is at is good now.
LEMMA AdvanceKeeps ==
    ASSUME TypeOK, PathLinked, ParentsDone, phase = "search", failing = FALSE,
           UNCHANGED <<phase, edges, pruned, failing>>,
           NEW p \in Seq(Calls), Len(p) <= Len(path),
           \A i \in 1..Len(p) : p[i] = path[i],
           path' = Advanced(p),
           good \subseteq good',
           \A i \in 1..Len(p) : p[i].tid \notin good',
           p # << >> => /\ p[Len(p)].cur < Len(edges[p[Len(p)].tid])
                        /\ edges[p[Len(p)].tid][p[Len(p)].cur + 1] \in good'
    PROVE  PathLinked' /\ ParentsDone' /\ FailsForParent'
  <1>1. /\ path' \in Seq(Calls) /\ Len(path') = Len(p)
        /\ \A i \in 1..Len(p) : path'[i].tid = p[i].tid
        /\ \A i \in 1..Len(p) : i < Len(p) => path'[i] = p[i]
        /\ p # << >> => path'[Len(p)].cur = p[Len(p)].cur + 1
    BY AdvancedIs
  <1>2. Len(p) \in Nat /\ Len(path) \in Nat /\ 1..Len(p) \subseteq 1..Len(path)
    BY DEF TypeOK
  <1>3. \A i \in 1..Len(p) : /\ p[i].tid \in Types /\ p[i].cur \in Nat
                             /\ Len(edges[p[i].tid]) \in Nat
    <2>1. \A i \in 1..Len(p) : p[i] \in Calls
      OBVIOUS
    <2>2. \A i \in 1..Len(p) : p[i].tid \in Types /\ p[i].cur \in Nat
      BY <2>1 DEF Calls
    <2>3. \A t \in Types : Len(edges[t]) \in Nat
      BY DEF TypeOK
    <2> QED  BY <2>2, <2>3
  <1>4. ASSUME NEW i \in 1..Len(p), i < Len(p)
        PROVE  Linked(i)' /\ path'[i].cur <= Len(edges[path'[i].tid])
    <2>1. i + 1 \in 1..Len(p) /\ i < Len(path)
      BY <1>2, <1>4
    <2>2. Linked(i) /\ path[i].cur <= Len(edges[path[i].tid])
      BY <1>2, <2>1 DEF PathLinked
    <2>3. path'[i] = path[i] /\ path'[i + 1].tid = path[i + 1].tid
      BY <1>1, <1>4, <2>1
    <2> QED  BY <2>2, <2>3 DEF Linked
  <1>5. CASE p = << >>
    BY <1>1, <1>5 DEF PathLinked, ParentsDone, FailsForParent
  <1>6. CASE p # << >>
    <2>1. Len(p) \in 1..Len(p)
      BY <1>6
    <2>2. path'[Len(p)].cur <= Len(edges[path'[Len(p)].tid])
      BY <1>1, <1>3, <1>6, <2>1
    <2>3. \A i, j \in 1..Len(path') : path'[i].tid = path'[j].tid => i = j
      BY <1>1, <1>2 DEF PathLinked
    <2>4. \A i \in 1..Len(path') : path'[i].tid \notin good' \union pruned
      BY <1>1, <1>2 DEF PathLinked
    <2>5. \A i \in 1..Len(p) : i = Len(p) \/ i < Len(p)
      BY <1>2
    <2>6. PathLinked'
      BY <1>1, <1>4, <2>2, <2>3, <2>4, <2>5 DEF PathLinked
    <2>7. ASSUME NEW i \in 1..Len(p), NEW k \in 1..path'[i].cur
          PROVE  edges[path'[i].tid][k] \in good'
      <3>1. CASE k \in 1..path[i].cur
        <4>1. edges[path[i].tid][k] \in good
          BY <1>2, <3>1 DEF ParentsDone
        <4> QED  BY <4>1, <1>1
      <3>2. CASE i = Len(p) /\ k = p[i].cur + 1
        BY <1>1, <1>6, <3>2
      <3>3. i < Len(p) => path'[i].cur = path[i].cur
        BY <1>1
      <3>4. i = Len(p) => path'[i].cur = p[i].cur + 1 /\ p[i].cur = path[i].cur
        BY <1>1, <1>6
      <3> QED  BY <3>1, <3>2, <3>3, <3>4, <2>5, <1>3
    <2> QED  BY <1>1, <2>6, <2>7 DEF ParentsDone, FailsForParent
  <1> QED  BY <1>5, <1>6

LEMMA ParentGoodKeeps ==
    ASSUME IInv, ParentGood
    PROVE  IInv'
  <1> USE DEF IInv, SearchInv
  <1>1. /\ AtEdge /\ Parent \in good /\ path' = Advanced(path)
        /\ UNCHANGED <<decls, phase, next, bad, pruned, edges, cycles, good, sorted, failing>>
    BY DEF ParentGood
  <1>2. path # << >> /\ phase = "search" /\ failing = FALSE
    BY <1>1, AtEdgeIs
  <1>3. path \in Seq(Calls)
    BY DEF TypeOK, Calls
  <1>4. TypeOK'
    BY <1>1, <1>2, <1>3, AdvancedIs DEF TypeOK, Calls
  <1>5. TopSorted' /\ KnownRight' /\ BadExplained' /\ LoopDone'
    BY <1>1, <1>2, OrderStays, KnownStays, ExplanationStays, LoopStays
  <1>6. PathLinked' /\ ParentsDone' /\ FailsForParent'
    <2>1. /\ path[Len(path)].cur < Len(edges[path[Len(path)].tid])
          /\ edges[path[Len(path)].tid][path[Len(path)].cur + 1] \in good'
      BY <1>1, AtEdgeIs DEF Top
    <2>2. \A i \in 1..Len(path) : path[i].tid \notin good'
      BY <1>1 DEF PathLinked
    <2>3. Len(path) <= Len(path)
      BY <1>3
    <2> QED  BY <1>1, <1>2, <1>3, <2>1, <2>2, <2>3, AdvanceKeeps
  <1>7. PruneFirst'
    BY <1>1, <1>2 DEF PruneFirst
  <1> QED  BY <1>4, <1>5, <1>6, <1>7

LEMMA ParentNewKeeps ==
    ASSUME IInv, ParentNew
    PROVE  IInv'
  <1> USE DEF IInv, SearchInv
  <1>1. /\ AtEdge /\ Parent \notin bad \union good \union Open
        /\ path' = Append(path, Call(Parent))
        /\ UNCHANGED <<decls, phase, next, bad, pruned, edges, cycles, good, sorted, failing>>
    BY DEF ParentNew
  <1>2. path # << >> /\ phase = "search" /\ failing = FALSE /\ Parent \in Types
    BY <1>1, AtEdgeIs
  <1> DEFINE n == Len(path)
  <1>3. path \in Seq(Calls) /\ n \in Nat /\ n \in 1..n
    BY <1>2, TopInPath DEF TypeOK, Calls
  <1>4. Call(Parent) \in Calls /\ Call(Parent).tid = Parent /\ Call(Parent).cur = 0
    BY <1>2 DEF Call, Calls
  <1>5. /\ path' \in Seq(Calls) /\ Len(path') = n + 1 /\ path'[n + 1] = Call(Parent)
        /\ \A i \in 1..n : path'[i] = path[i]
    BY <1>1, <1>3, <1>4
  <1> HIDE DEF n
  <1>6. TypeOK'
    BY <1>1, <1>2, <1>5 DEF TypeOK, Calls
  <1>7. TopSorted' /\ KnownRight' /\ BadExplained' /\ LoopDone'
    BY <1>1, <1>2, OrderStays, KnownStays, ExplanationStays, LoopStays
  <1>8. \A i \in 1..Len(path') : i \in 1..n \/ i = n + 1
    BY <1>3, <1>5
  <1>9. PathLinked'
    <2>1. \A i \in 1..Len(path') : path'[i].cur <= Len(edges[path'[i].tid])
      <3>1. Len(edges[Parent]) \in Nat
        BY <1>2 DEF TypeOK
      <3> QED  BY <1>4, <1>5, <1>8, <3>1 DEF PathLinked, n
    <2>2. ASSUME NEW i \in 1..Len(path'), i < Len(path')
          PROVE  Linked(i)'
      <3>1. CASE i < n
        <4>1. i \in 1..n /\ i + 1 \in 1..n
          BY <1>3, <1>5, <3>1
        <4>2. Linked(i)
          BY <3>1, <4>1 DEF PathLinked, n
        <4> QED  BY <1>1, <1>5, <4>1, <4>2 DEF Linked
      <3>2. CASE i = n
        <4>1. path'[n] = path[n] /\ path'[n + 1].tid = Parent /\ Top = path[n]
          BY <1>3, <1>4, <1>5 DEF Top, n
        <4> QED  BY <1>1, <3>2, <4>1, AtEdgeIs DEF Linked
      <3> QED  BY <1>3, <1>5, <2>2, <3>1, <3>2
    <2>3. \A i \in 1..n : path[i].tid # Parent
      BY <1>1 DEF Open, n
    <2>4. \A i, j \in 1..Len(path') : path'[i].tid = path'[j].tid => i = j
      BY <1>4, <1>5, <1>8, <2>3 DEF PathLinked, n
    <2>5. \A i \in 1..Len(path') : path'[i].tid \notin good \union pruned
      BY <1>1, <1>4, <1>5, <1>8 DEF PathLinked, KnownRight, n
    <2> QED  BY <1>1, <2>1, <2>2, <2>4, <2>5 DEF PathLinked
  <1>10. ParentsDone'
    <2>1. ASSUME NEW i \in 1..Len(path'), NEW k \in 1..path'[i].cur
          PROVE  edges[path'[i].tid][k] \in good
      BY <1>4, <1>5, <1>8 DEF ParentsDone, n
    <2> QED  BY <1>1, <2>1 DEF ParentsDone
  <1>11. FailsForParent' /\ PruneFirst'
    BY <1>1, <1>2 DEF FailsForParent, PruneFirst
  <1> QED  BY <1>6, <1>7, <1>9, <1>10, <1>11

\* What the calls from the first one of the parent on make is a cycle.
LEMMA PathMakesCycle ==
    ASSUME TypeOK, PathLinked, AtEdge, Parent \in Open
    PROVE  /\ CycleFrom(Parent) \in Seq(Types) /\ IsCycle(CycleFrom(Parent))
           /\ CycleFrom(Parent)[1] = Parent /\ 1 \in 1..Len(CycleFrom(Parent))
  <1>1. PICK start \in DOMAIN path : start = CHOOSE i \in DOMAIN path : path[i].tid = Parent
    BY DEF Open
  <1>2. path[start].tid = Parent
    BY <1>1 DEF Open
  <1>3. /\ path \in Seq(Calls) /\ DOMAIN path = 1..Len(path) /\ Len(path) \in Nat
        /\ Parent \in Types /\ Top = path[Len(path)] /\ Parent \in ParentsOf(Top.tid)
    <2>1. path \in Seq(Calls)
      BY DEF TypeOK, Calls
    <2> QED  BY <2>1, AtEdgeIs DEF Top
  <1>4. PICK n : n = Len(path) - start + 1
    OBVIOUS
  <1>5. /\ n \in Nat /\ n >= 1 /\ start + n - 1 = Len(path)
        /\ start \in Nat /\ start >= 1 /\ start <= Len(path)
    BY <1>1, <1>3, <1>4
  <1> DEFINE c == [i \in 1..n |-> path[start + i - 1].tid]
  <1>6. \A i \in 1..n : start + i - 1 \in 1..Len(path) /\ path[start + i - 1].tid \in Types
    <2>1. \A i \in 1..n : start + i - 1 \in 1..Len(path)
      BY <1>3, <1>5
    <2>2. \A i \in 1..Len(path) : path[i] \in Calls
      BY <1>3
    <2> QED  BY <2>1, <2>2 DEF Calls
  <1>7. c \in Seq(Types) /\ Len(c) = n
    BY <1>5, <1>6
  <1>8. CycleFrom(Parent) = c \o << Parent >>
    BY <1>1, <1>4 DEF CycleFrom
  <1> DEFINE d == c \o << Parent >>
  <1>9. /\ d \in Seq(Types) /\ Len(d) = n + 1 /\ d[n + 1] = Parent
        /\ \A i \in 1..n : d[i] = path[start + i - 1].tid
    BY <1>3, <1>5, <1>7
  <1> HIDE DEF c, d
  <1>10. d[1] = Parent
    <2>1. 1 \in 1..n /\ start + 1 - 1 = start
      BY <1>5
    <2> QED  BY <1>2, <1>9, <2>1
  <1>11. ASSUME NEW i \in 1..n
         PROVE  d[i + 1] \in ParentsOf(d[i])
    <2>1. CASE i = n
      BY <1>3, <1>5, <1>9, <2>1
    <2>2. CASE i < n
      <3>1. PICK k \in 1..Len(path) : k = start + i - 1
        BY <1>6
      <3>2. k < Len(path) /\ start + (i + 1) - 1 = k + 1 /\ i + 1 \in 1..n
        BY <1>3, <1>5, <2>2, <3>1
      <3>3. d[i] = path[k].tid /\ d[i + 1] = path[k + 1].tid
        BY <1>9, <3>1, <3>2
      <3>4. Linked(k)
        BY <3>1, <3>2 DEF PathLinked
      <3>5. edges[path[k].tid] \in Seq(Types) /\ path[k].cur \in Nat
        <4>1. path[k] \in Calls
          BY <1>3, <3>1
        <4> QED  BY <4>1 DEF TypeOK, Calls
      <3>6. path[k].cur + 1 \in DOMAIN edges[path[k].tid]
        BY <3>4, <3>5 DEF Linked
      <3> QED  BY <3>3, <3>4, <3>6 DEF Linked, ParentsOf
    <2> QED  BY <1>5, <2>1, <2>2
  <1>12. IsCycle(d)
    BY <1>5, <1>9, <1>10, <1>11 DEF IsCycle
  <1> QED  BY <1>5, <1>8, <1>9, <1>10, <1>12 DEF d

LEMMA ParentOpenKeeps ==
    ASSUME IInv, ParentOpen
    PROVE  IInv'
  <1> USE DEF IInv, SearchInv
  <1>1. /\ AtEdge /\ Parent \in Open /\ failing' = TRUE
        /\ cycles' = cycles \union {CycleFrom(Parent)} /\ bad' = bad \union {Parent}
        /\ UNCHANGED <<decls, phase, next, pruned, edges, good, sorted, path>>
    BY DEF ParentOpen
  <1>2. path # << >> /\ phase = "search" /\ Parent \in Types
    BY <1>1, AtEdgeIs
  <1>3. PICK c : c = CycleFrom(Parent)
    OBVIOUS
  <1>4. c \in Seq(Types) /\ IsCycle(c) /\ c[1] = Parent /\ 1 \in 1..Len(c)
    BY <1>1, <1>3, PathMakesCycle
  <1>5. TypeOK'
    BY <1>1, <1>2, <1>3, <1>4 DEF TypeOK
  <1>6. TopSorted' /\ LoopDone'
    BY <1>1, <1>2, OrderStays, LoopStays
  <1>7. KnownRight'
    <2>1. Parent \notin Sound
      BY <1>4, UnsoundOnCycle
    <2> QED  BY <1>1, <2>1, SoundStable DEF KnownRight
  <1>8. BadExplained'
    <2>1. Parent \in Blamed' /\ Blamed \subseteq Blamed'
      BY <1>1, <1>3, <1>4 DEF Blamed
    <2>2. \A x \in cycles' : IsCycle(x)'
      BY <1>1, <1>3, <1>4, SoundStable DEF BadExplained
    <2>3. ASSUME NEW S \in SUBSET Types, Blamed' \subseteq S, ClosedBelow(S)'
          PROVE  bad' \subseteq S
      <3>1. ClosedBelow(S)
        BY <1>1, <2>3, SoundStable
      <3> QED  BY <1>1, <2>1, <2>3, <3>1 DEF BadExplained
    <2> QED  BY <2>2, <2>3 DEF BadExplained
  <1>9. PathLinked' /\ ParentsDone' /\ PruneFirst'
    BY <1>1, <1>2 DEF PathLinked, Linked, ParentsDone, PruneFirst
  <1>10. FailsForParent'
    BY <1>1, AtEdgeIs DEF FailsForParent, Top
  <1> QED  BY <1>5, <1>6, <1>7, <1>8, <1>9, <1>10

LEMMA FailKeeps ==
    ASSUME IInv, Fail
    PROVE  IInv'
  <1> USE DEF IInv, SearchInv
  <1>1. /\ phase = "search" /\ failing
        /\ bad' = bad \union {Top.tid} /\ path' = Caller /\ failing' = (Caller # << >>)
        /\ UNCHANGED <<decls, phase, next, pruned, edges, cycles, good, sorted>>
    BY DEF Fail
  <1>2. path # << >>
    BY <1>1 DEF TypeOK
  <1> DEFINE n == Len(path)
  <1>3. /\ n \in Nat \ {0} /\ n \in 1..n /\ Top = path[n] /\ Top.tid \in Types /\ Top.cur \in Nat
        /\ edges[Top.tid] \in Seq(Types)
    BY <1>2, TopInPath
  <1>4. /\ path' \in Seq(Calls) /\ Len(path') = n - 1
        /\ \A i \in 1..(n - 1) : path'[i] = path[i]
    BY <1>1, <1>2, CallerIs
  <1> HIDE DEF n
  <1>5. 1..Len(path') \subseteq 1..n /\ Len(path') \in Nat
    BY <1>3, <1>4
  <1>6. TypeOK'
    BY <1>1, <1>3, <1>4 DEF TypeOK, Calls
  <1>7. PICK p : p = edges[Top.tid][Top.cur + 1]
    OBVIOUS
  <1>8. p \in bad /\ p \in ParentsOf(Top.tid) /\ p \in Types
    <2>1. Top.cur + 1 \in DOMAIN edges[Top.tid]
      BY <1>1, <1>3 DEF FailsForParent
    <2> QED  BY <1>1, <1>3, <1>7, <2>1 DEF FailsForParent, ParentsOf
  <1>9. TopSorted' /\ LoopDone'
    BY <1>1, OrderStays, LoopStays
  <1>10. KnownRight'
    <2>1. Top.tid \notin Sound
      BY <1>3, <1>8, UnsoundBelow DEF KnownRight
    <2> QED  BY <1>1, <2>1, SoundStable DEF KnownRight
  <1>11. BadExplained'
    <2>1. Blamed' = Blamed
      BY <1>1 DEF Blamed
    <2>2. ASSUME NEW S \in SUBSET Types, Blamed \subseteq S, ClosedBelow(S)
          PROVE  bad' \subseteq S
      <3>1. bad \subseteq S
        BY <2>2 DEF BadExplained
      <3>2. Top.tid \in S
        BY <1>3, <1>8, <2>2, <3>1 DEF ClosedBelow
      <3> QED  BY <1>1, <3>1, <3>2
    <2> QED  BY <1>1, <2>1, <2>2, SoundStable DEF BadExplained
  <1>12. PathLinked'
    <2>1. ASSUME NEW i \in 1..Len(path')
          PROVE  /\ path'[i].cur <= Len(edges[path'[i].tid])
                 /\ i < Len(path') => Linked(i)'
                 /\ path'[i].tid \notin good \union pruned
      <3>1. i \in 1..n /\ path'[i] = path[i] /\ i < n
        BY <1>3, <1>4, <1>5
      <3>2. i < Len(path') => path'[i + 1] = path[i + 1]
        BY <1>3, <1>4
      <3> QED  BY <1>1, <3>1, <3>2 DEF PathLinked, Linked, n
    <2>2. \A i, j \in 1..Len(path') : path'[i].tid = path'[j].tid => i = j
      BY <1>4, <1>5 DEF PathLinked, n
    <2> QED  BY <1>1, <2>1, <2>2 DEF PathLinked
  <1>13. ParentsDone'
    BY <1>1, <1>4, <1>5 DEF ParentsDone, n
  <1>14. FailsForParent'
    <2> SUFFICES ASSUME path' # << >>
                 PROVE  /\ Top'.cur < Len(edges[Top'.tid])
                        /\ edges[Top'.tid][Top'.cur + 1] \in bad'
      BY <1>1 DEF FailsForParent
    <2>1. n - 1 \in 1..n /\ n - 1 < n /\ n - 1 + 1 = n /\ n - 1 \in 1..(n - 1)
      BY <1>3, <1>4
    <2>2. Top' = path[n - 1]
      BY <1>4, <2>1 DEF Top
    <2>3. Linked(n - 1)
      BY <2>1 DEF PathLinked, n
    <2> QED  BY <1>1, <1>3, <2>1, <2>2, <2>3 DEF Linked
  <1>15. PruneFirst'
    BY <1>1 DEF PruneFirst
  <1> QED  BY <1>6, <1>9, <1>10, <1>11, <1>12, <1>13, <1>14, <1>15

LEMMA SucceedKeeps ==
    ASSUME IInv, Succeed
    PROVE  IInv'
  <1> USE DEF IInv, SearchInv
  <1>1. /\ phase = "search" /\ path # << >> /\ failing = FALSE
        /\ Top.cur = Len(edges[Top.tid])
        /\ good' = good \union {Top.tid} /\ sorted' = Append(sorted, Top.tid)
        /\ path' = Advanced(Caller)
        /\ UNCHANGED <<decls, phase, next, bad, pruned, edges, cycles, failing>>
    BY DEF Succeed, TypeOK
  <1> DEFINE n == Len(path)
  <1>2. /\ n \in Nat \ {0} /\ n \in 1..n /\ Top = path[n] /\ Top.tid \in Types
        /\ edges[Top.tid] \in Seq(Types)
    BY <1>1, TopInPath
  <1>3. /\ Caller \in Seq(Calls) /\ Len(Caller) = n - 1
        /\ \A i \in 1..(n - 1) : Caller[i] = path[i]
    BY <1>1, CallerIs
  <1> HIDE DEF n
  <1>4. Top.tid \notin good \union pruned
    BY <1>2 DEF PathLinked, n
  <1>5. ParentsOf(Top.tid) \subseteq good
    <2>1. \A k \in 1..Len(edges[Top.tid]) : edges[Top.tid][k] \in good
      BY <1>1, <1>2 DEF ParentsDone, n
    <2> QED  BY <1>2, <2>1 DEF ParentsOf
  <1>6. TypeOK'
    <2>1. path' \in Seq(Calls)
      BY <1>1, <1>3, AdvancedIs
    <2>2. sorted' \in Seq(Types)
      BY <1>1, <1>2 DEF TypeOK
    <2> QED  BY <1>1, <1>2, <2>1, <2>2 DEF TypeOK, Calls
  <1>7. KnownRight'
    <2>1. Top.tid \in Sound
      BY <1>2, <1>4, <1>5, SoundAbove DEF KnownRight
    <2> QED  BY <1>1, <2>1, SoundStable DEF KnownRight
  <1>8. BadExplained' /\ LoopDone'
    BY <1>1, ExplanationStays, LoopStays
  <1>9. TopSorted'
    <2>1. PICK m : m = Len(sorted)
      OBVIOUS
    <2>2. /\ sorted \in Seq(Types) /\ m \in Nat /\ DOMAIN sorted = 1..m
          /\ Len(sorted') = m + 1 /\ DOMAIN sorted' = 1..(m + 1) /\ sorted'[m + 1] = Top.tid
          /\ \A i \in 1..m : sorted'[i] = sorted[i]
      <3>1. sorted \in Seq(Types)
        BY DEF TypeOK
      <3> QED  BY <1>1, <1>2, <2>1, <3>1
    <2>3. \A i \in 1..(m + 1) : i \in 1..m \/ i = m + 1
      BY <2>2
    <2>4. 1..m \subseteq 1..(m + 1) /\ m + 1 \in 1..(m + 1)
      BY <2>2
    <2>5. \A i \in 1..m : sorted[i] \in good
      BY <2>2 DEF TopSorted
    <2>6. good' = {sorted'[i] : i \in DOMAIN sorted'}
      <3>1. good = {sorted[i] : i \in 1..m}
        BY <2>2 DEF TopSorted
      <3> QED  BY <1>1, <2>2, <2>3, <2>4, <3>1
    <2>7. \A i, j \in DOMAIN sorted' : sorted'[i] = sorted'[j] => i = j
      BY <1>4, <2>2, <2>3, <2>5 DEF TopSorted
    <2>8. ASSUME NEW i \in DOMAIN sorted', NEW p \in ParentsOf(sorted'[i])
          PROVE  \E j \in 1..(i - 1) : sorted'[j] = p
      <3>1. CASE i \in 1..m
        <4>1. PICK j \in 1..(i - 1) : sorted[j] = p
          BY <2>2, <2>8, <3>1 DEF TopSorted
        <4>2. j \in 1..m
          BY <2>2, <3>1
        <4> QED  BY <2>2, <4>1, <4>2
      <3>2. CASE i = m + 1
        <4>1. p \in good
          BY <1>5, <2>2, <2>8, <3>2
        <4>2. PICK j \in 1..m : sorted[j] = p
          BY <2>2, <4>1 DEF TopSorted
        <4>3. j \in 1..(i - 1)
          BY <2>2, <3>2
        <4> QED  BY <2>2, <4>2, <4>3
      <3> QED  BY <2>2, <2>3, <3>1, <3>2
    <2>9. \A t : ParentsOf(t)' = ParentsOf(t)
      BY <1>1 DEF ParentsOf
    <2> QED  BY <2>6, <2>7, <2>8, <2>9 DEF TopSorted
  <1>10. PathLinked' /\ ParentsDone' /\ FailsForParent'
    <2>1. Len(Caller) <= Len(path) /\ \A i \in 1..Len(Caller) : Caller[i] = path[i]
      BY <1>2, <1>3 DEF n
    <2>2. \A i \in 1..Len(Caller) : Caller[i].tid \notin good'
      <3>1. \A i \in 1..(n - 1) : i \in 1..n /\ i # n
        BY <1>2
      <3> QED  BY <1>1, <1>2, <1>3, <3>1 DEF PathLinked, n
    <2>3. ASSUME Caller # << >>
          PROVE  LET c == Caller[Len(Caller)]
                 IN  c.cur < Len(edges[c.tid]) /\ edges[c.tid][c.cur + 1] \in good'
      <3>1. n - 1 \in 1..n /\ n - 1 < n /\ n - 1 + 1 = n /\ n - 1 \in 1..(n - 1)
        BY <1>2, <1>3, <2>3
      <3>2. Linked(n - 1)
        BY <3>1 DEF PathLinked, n
      <3> QED  BY <1>1, <1>2, <1>3, <3>1, <3>2 DEF Linked
    <2> QED  BY <1>1, <1>3, <2>1, <2>2, <2>3, AdvanceKeeps
  <1>11. PruneFirst'
    BY <1>1 DEF PruneFirst
  <1> QED  BY <1>6, <1>7, <1>8, <1>9, <1>10, <1>11

LEMMA StepsKeep == IInv /\ [Next]_vars => IInv'
  <1> SUFFICES ASSUME IInv, [Next]_vars
               PROVE  IInv'
    OBVIOUS
  <1>1. CASE UNCHANGED vars
    <2>1. UNCHANGED <<decls, phase, next, bad, pruned, edges, cycles, good, sorted, path, failing>>
      BY <1>1 DEF vars
    <2>2. TopSorted' /\ KnownRight' /\ BadExplained'
      BY <2>1, OrderStays, KnownStays, ExplanationStays DEF IInv, SearchInv
    <2>3. TypeOK'
      BY <2>1 DEF IInv, TypeOK
    <2>4. PathLinked' /\ ParentsDone'
      BY <2>1 DEF IInv, SearchInv, PathLinked, Linked, ParentsDone
    <2>5. FailsForParent' /\ LoopDone' /\ PruneFirst'
      BY <2>1 DEF IInv, SearchInv, FailsForParent, Top, LoopDone, Known, PruneFirst
    <2> QED  BY <2>2, <2>3, <2>4, <2>5 DEF IInv, SearchInv
  <1>2. CASE Next
    BY <1>2, PruneKeeps, BuildGraphKeeps, StartKeeps, FinishKeeps, ParentBadKeeps,
       ParentGoodKeeps, ParentOpenKeeps, ParentNewKeeps, FailKeeps, SucceedKeeps DEF Next
  <1> QED  BY <1>1, <1>2

LEMMA Invariant == Spec => []IInv
  <1>1. Init => IInv
    BY InitHolds
  <1>2. IInv /\ [Next]_vars => IInv'
    BY StepsKeep
  <1> QED  BY <1>1, <1>2, PTL DEF Spec

-----------------------------------------------------------------------------
(* The properties.                                                         *)

\* The search keeps its types whatever the program declares.
THEOREM HierarchyTypeCorrect == Spec => []TypeOK
  <1>1. IInv => TypeOK
    BY DEF IInv
  <1> QED  BY <1>1, Invariant, PTL

\* For every program the order is topological (the comment on top_sort_index).
THEOREM OrderIsTopological == Spec => []TopSorted
  <1>1. IInv => TopSorted
    BY DEF IInv
  <1> QED  BY <1>1, Invariant, PTL

\* For every program the blacklist of VerifyAcyclicGraph is exact.
THEOREM BlacklistIsExact == Spec => []BadExact
  <1>1. IInv => BadExact
    <2> SUFFICES ASSUME IInv, phase = "done"
                 PROVE  bad = Types \ Sound
      BY DEF BadExact
    <2>1. bad \subseteq Types /\ bad \intersect Sound = {} /\ good \subseteq Sound /\ pruned \subseteq bad
      BY DEF IInv, SearchInv, KnownRight, TypeOK
    <2>2. ASSUME NEW t \in Types, t \notin bad
          PROVE  t \in Sound
      <3>1. t \in good \/ edges[t] = << >>
        BY <2>2 DEF IInv, SearchInv, LoopDone, Known
      <3>2. CASE edges[t] = << >>
        <4>1. ParentsOf(t) = {}
          BY <3>2 DEF ParentsOf
        <4> QED  BY <2>1, <2>2, <4>1, SoundAbove
      <3> QED  BY <2>1, <3>1, <3>2
    <2> QED  BY <2>1, <2>2
  <1> QED  BY <1>1, Invariant, PTL

\* For every program every blacklisted type has an error that explains it.
THEOREM BlacklistIsExplained == Spec => []BadExplained
  <1>1. IInv => BadExplained
    BY DEF IInv
  <1> QED  BY <1>1, Invariant, PTL

-----------------------------------------------------------------------------
(* The first two types of the order.                                       *)

RootsPlain ==
    \A t \in {Object, TypeInfo} :
       /\ decls[t].kind = "class" /\ decls[t].extends = << >> /\ decls[t].implements = << >>
       /\ t \notin pruned
RootEdges ==
    phase # "prune" => edges[Object] = << >> /\ edges[TypeInfo] = << Object >>

\* How the search begins, until TypeInfo is in the order.
Stage(p, s) == path = p /\ sorted = s
Begun ==
    phase # "prune" =>
       \/ Stage(<< >>, << >>) /\ phase = "search" /\ next = 1
       \/ Stage(<< Call(TypeInfo) >>, << >>)
       \/ Stage(<< Call(TypeInfo), Call(Object) >>, << >>)
       \/ Stage(<< [Call(TypeInfo) EXCEPT !.cur = 1] >>, << Object >>)
       \/ Len(sorted) >= 2 /\ sorted[1] = Object /\ sorted[2] = TypeInfo

EarlyInv == RootsPlain /\ RootEdges /\ Begun

LEMMA RootsSound ==
    ASSUME IInv, EarlyInv, phase # "prune"
    PROVE  Object \notin bad /\ TypeInfo \notin bad
  <1>1. Object \in Types /\ TypeInfo \in Types
    BY HierarchyAssumption DEF Types
  <1>2. ParentsOf(Object) = {} /\ ParentsOf(TypeInfo) = {Object}
    BY DEF EarlyInv, RootEdges, ParentsOf
  <1>3. Object \in Sound
    BY <1>1, <1>2, SoundAbove DEF EarlyInv, RootsPlain
  <1>4. TypeInfo \in Sound
    BY <1>1, <1>2, <1>3, SoundAbove DEF EarlyInv, RootsPlain
  <1> QED  BY <1>3, <1>4 DEF IInv, SearchInv, KnownRight

LEMMA EarlyInit ==
    ASSUME Init
    PROVE  EarlyInv
  BY HierarchyAssumption DEF Init, EarlyInv, RootsPlain, RootEdges, Begun

LEMMA EarlyBefore ==
    ASSUME IInv, EarlyInv, Prune \/ BuildGraph
    PROVE  EarlyInv'
  <1>1. Object \in Types /\ TypeInfo \in Types /\ Object # TypeInfo
    BY HierarchyAssumption DEF Types
  <1>2. phase = "prune" /\ decls' = decls /\ sorted' = sorted /\ path' = path
        /\ sorted = << >> /\ path = << >> /\ bad = pruned
    BY DEF Prune, BuildGraph, IInv, SearchInv, PruneFirst
  <1>3. CASE Prune
    <2>1. \A t \in {Object, TypeInfo} : ~Invalid(t)
      BY DEF EarlyInv, RootsPlain, Invalid, SomeAre, Repeated
    <2> QED  BY <1>1, <1>2, <1>3, <2>1 DEF Prune, EarlyInv, RootsPlain, RootEdges, Begun
  <1>4. CASE BuildGraph
    <2>1. Parents(Object) = << >> \o << >> /\ Parents(TypeInfo) = << Object >> \o << >>
      BY <1>1, <1>2 DEF EarlyInv, RootsPlain, Parents
    <2>2. Parents(Object) = << >> /\ Parents(TypeInfo) = << Object >>
      BY <2>1
    <2> QED  BY <1>1, <1>2, <1>4, <2>2
             DEF BuildGraph, EarlyInv, RootsPlain, RootEdges, Begun, Stage
  <1> QED  BY <1>3, <1>4

LEMMA AppendOne ==
    ASSUME NEW a, NEW b
    PROVE  Append(<< a >>, b) = << a, b >>
  <1>1. << a >> \in Seq({a, b}) /\ Len(<< a >>) = 1 /\ << a >>[1] = a
    OBVIOUS
  <1>2. PICK s : s = Append(<< a >>, b)
    OBVIOUS
  <1>3. s \in Seq({a, b}) /\ Len(s) = 2 /\ s[1] = a /\ s[2] = b
    BY <1>1, <1>2
  <1>4. PICK t : t = << a, b >>
    OBVIOUS
  <1>5. t \in Seq({a, b}) /\ Len(t) = 2 /\ t[1] = a /\ t[2] = b
    BY <1>4
  <1>6. \A i \in 1..Len(s) : i = 1 \/ i = 2
    BY <1>3
  <1>7. \A i \in 1..Len(s) : s[i] = t[i]
    BY <1>3, <1>5, <1>6
  <1>8. s = t
    BY <1>3, <1>5, <1>7, SeqEqual
  <1> QED  BY <1>2, <1>4, <1>8

LEMMA EarlySearch ==
    ASSUME IInv, EarlyInv, Next, phase = "search"
    PROVE  EarlyInv'
  <1> USE DEF IInv, SearchInv
  <1>1. /\ Object \in Types /\ TypeInfo \in Types /\ Object # TypeInfo /\ TypeInfo = 1
        /\ Object \notin bad /\ TypeInfo \notin bad
        /\ edges[Object] = << >> /\ edges[TypeInfo] = << Object >>
        /\ Len(edges[Object]) = 0 /\ Len(edges[TypeInfo]) = 1
    <2>1. edges[Object] = << >> /\ edges[TypeInfo] = << Object >>
      BY DEF EarlyInv, RootEdges
    <2>2. Len(edges[Object]) = 0 /\ Len(edges[TypeInfo]) = 1
      BY <2>1
    <2> QED  BY <2>1, <2>2, RootsSound, HierarchyAssumption DEF Types
  <1>2. /\ UNCHANGED <<decls, pruned, edges>> /\ phase' # "prune"
        /\ UNCHANGED sorted \/ Succeed
    BY DEF Next, Prune, BuildGraph, Start, Finish, ParentBad, ParentGood, ParentOpen, ParentNew,
           Fail, Succeed
  <1>3. RootsPlain' /\ RootEdges'
    BY <1>1, <1>2 DEF EarlyInv, RootsPlain, RootEdges
  <1>4. Call(TypeInfo) = [tid |-> TypeInfo, cur |-> 0] /\ Call(Object) = [tid |-> Object, cur |-> 0]
    BY DEF Call
  <1>5. CASE Stage(<< >>, << >>) /\ next = 1
    <2>1. good = {} /\ path = << >>
      BY <1>5 DEF TopSorted, Stage
    <2>2. ~Known(TypeInfo)
      BY <1>1, <2>1 DEF Known
    <2>3. Start
      BY <1>1, <1>5, <2>1 DEF Next, Prune, BuildGraph, Finish, ParentBad, ParentGood, ParentOpen,
                              ParentNew, AtEdge, Fail, Succeed, FailsForParent, TypeOK
    <2> QED  BY <1>1, <1>3, <1>5, <2>2, <2>3 DEF Start, Begun, Stage, EarlyInv
  <1>6. CASE Stage(<< Call(TypeInfo) >>, << >>)
    <2>1. /\ good = {} /\ path = << Call(TypeInfo) >>
          /\ Top.tid = TypeInfo /\ Top.cur = 0 /\ Len(path) = 1 /\ path # << >>
      BY <1>4, <1>6 DEF TopSorted, Stage, Top
    <2>2. Parent = Object /\ Open = {TypeInfo}
      BY <1>1, <1>4, <2>1 DEF Parent, Open
    <2>3. ~failing
      BY <1>1, <2>1 DEF FailsForParent
    <2>4. ParentNew
      <3>1. ~Prune /\ ~BuildGraph /\ ~Start /\ ~Finish /\ ~Fail
        BY <2>1, <2>3 DEF Prune, BuildGraph, Start, Finish, Fail
      <3>2. ~ParentBad /\ ~ParentGood /\ ~ParentOpen
        BY <1>1, <2>1, <2>2 DEF ParentBad, ParentGood, ParentOpen
      <3>3. ~Succeed
        <4>1. Succeed => Top.cur = Len(edges[Top.tid])
          BY DEF Succeed
        <4>2. Len(edges[Top.tid]) = 1
          BY <1>1, <2>1
        <4> QED  BY <2>1, <4>1, <4>2
      <3> QED  BY <3>1, <3>2, <3>3 DEF Next
    <2>5. path' = << Call(TypeInfo), Call(Object) >> /\ sorted' = << >>
      <3>1. path' = Append(<< Call(TypeInfo) >>, Call(Object)) /\ sorted' = sorted
        BY <2>1, <2>2, <2>4 DEF ParentNew
      <3> QED  BY <1>6, <3>1, AppendOne DEF Stage
    <2> QED  BY <1>3, <2>5 DEF Begun, Stage, EarlyInv
  <1>7. CASE Stage(<< Call(TypeInfo), Call(Object) >>, << >>)
    <2>1. /\ path = << Call(TypeInfo), Call(Object) >> /\ Top.tid = Object /\ Top.cur = 0
          /\ Len(path) = 2 /\ path # << >> /\ sorted = << >>
      BY <1>4, <1>7 DEF Stage, Top
    <2>2. ~failing /\ ~AtEdge
      BY <1>1, <2>1 DEF FailsForParent, AtEdge
    <2>3. Succeed
      BY <2>1, <2>2 DEF Next, Prune, BuildGraph, Start, Finish, ParentBad, ParentGood,
                        ParentOpen, ParentNew, Fail
    <2>4. sorted' = << Object >>
      BY <2>1, <2>3 DEF Succeed
    <2>5. Caller = << Call(TypeInfo) >>
      <3>1. Caller \in Seq(Calls) /\ Len(Caller) = 1 /\ Caller[1] = Call(TypeInfo)
        <4>1. 1 \in 1..(Len(path) - 1) /\ path[1] = Call(TypeInfo) /\ Len(path) - 1 = 1
          BY <2>1
        <4> QED  BY <2>1, <4>1, CallerIs
      <3> QED  BY <3>1
    <2>6. Advanced(Caller) = << [Call(TypeInfo) EXCEPT !.cur = 1] >>
      BY <1>4, <2>5 DEF Advanced
    <2> QED  BY <1>3, <2>3, <2>4, <2>6 DEF Succeed, Begun, Stage, EarlyInv
  <1>8. CASE Stage(<< [Call(TypeInfo) EXCEPT !.cur = 1] >>, << Object >>)
    <2>1. /\ Top.tid = TypeInfo /\ Top.cur = 1 /\ path # << >> /\ sorted = << Object >>
          /\ ~(Top.cur < Len(edges[Top.tid]))
      <3>1. /\ Top = [Call(TypeInfo) EXCEPT !.cur = 1] /\ path # << >> /\ sorted = << Object >>
        BY <1>8 DEF Stage, Top
      <3>2. Top.tid = TypeInfo /\ Top.cur = 1
        BY <1>4, <3>1
      <3>3. Len(edges[Top.tid]) = 1
        BY <1>1, <3>2
      <3>4. ~(Top.cur < Len(edges[Top.tid]))
        BY <3>2, <3>3
      <3> QED  BY <3>1, <3>2, <3>4
    <2>2. ~failing /\ ~AtEdge
      BY <2>1 DEF FailsForParent, AtEdge
    <2>3. Succeed
      BY <2>1, <2>2 DEF Next, Prune, BuildGraph, Start, Finish, ParentBad, ParentGood,
                        ParentOpen, ParentNew, Fail
    <2>4. sorted' = << Object, TypeInfo >>
      <3>1. sorted' = Append(<< Object >>, TypeInfo)
        BY <2>1, <2>3 DEF Succeed
      <3> QED  BY <3>1, AppendOne
    <2> QED  BY <1>3, <2>4 DEF Begun, EarlyInv
  <1>9. CASE Len(sorted) >= 2 /\ sorted[1] = Object /\ sorted[2] = TypeInfo
    <2>1. sorted' = sorted \/ sorted' = Append(sorted, Top.tid)
      BY <1>2 DEF Succeed
    <2>2. sorted \in Seq(Types) /\ Len(sorted) \in Nat
      BY DEF TypeOK
    <2>3. Len(sorted') >= 2 /\ sorted'[1] = Object /\ sorted'[2] = TypeInfo
      BY <1>9, <2>1, <2>2
    <2> QED  BY <1>3, <2>3 DEF Begun, EarlyInv
  <1> QED  BY <1>5, <1>6, <1>7, <1>8, <1>9 DEF EarlyInv, Begun

LEMMA EarlyKeeps ==
    ASSUME IInv, EarlyInv, [Next]_vars
    PROVE  EarlyInv'
  <1>1. CASE UNCHANGED vars
    BY <1>1 DEF vars, EarlyInv, RootsPlain, RootEdges, Begun, Stage
  <1>2. CASE Next /\ phase = "search"
    BY <1>2, EarlySearch
  <1>3. CASE Next /\ phase # "search"
    BY <1>3, EarlyBefore DEF Next, Start, Finish, ParentBad, ParentGood, ParentOpen, ParentNew,
                             AtEdge, Fail, Succeed
  <1> QED  BY <1>1, <1>2, <1>3

\* For every program TypeInfo is second in the order, right after Object: so that
\* its static initialiser precedes every other's but Object's and System's.
THEOREM TypeInfoIsEarly == Spec => []TypeInfoEarly
  <1>1. Init => EarlyInv
    BY EarlyInit
  <1>2. IInv /\ EarlyInv /\ [Next]_vars => EarlyInv'
    BY EarlyKeeps
  <1>3. IInv /\ EarlyInv => TypeInfoEarly
    <2> SUFFICES ASSUME IInv, EarlyInv, NEW i \in DOMAIN sorted, NEW j \in DOMAIN sorted,
                        sorted[j] = TypeInfo, i < j
                 PROVE  sorted[i] = Object
      BY DEF TypeInfoEarly
    <2>1. sorted \in Seq(Types) /\ Object # TypeInfo /\ i \in Nat /\ i >= 1 /\ j \in Nat
      BY HierarchyAssumption DEF IInv, TypeOK
    <2>2. CASE sorted = << >> \/ sorted = << Object >>
      BY <2>1, <2>2
    <2>3. CASE Len(sorted) >= 2 /\ sorted[1] = Object /\ sorted[2] = TypeInfo
      <3>1. 2 \in DOMAIN sorted
        BY <2>1, <2>3
      <3>2. j = 2
        BY <2>3, <3>1 DEF IInv, TopSorted
      <3> QED  BY <2>1, <2>3, <3>2
    <2> QED  BY <2>2, <2>3 DEF EarlyInv, Begun, Stage, IInv, SearchInv, PruneFirst
  <1> QED  BY <1>1, <1>2, <1>3, Invariant, PTL DEF Spec
=============================================================================
