------------------------- MODULE RuntimeTypesProofs -------------------------
(***************************************************************************)
(* For every program without errors and whatever it asks, InstanceOf never *)
(* throws, and its memo tables and its answers are right.                  *)
(*                                                                         *)
(* The argument starts from the order that TypeHierarchyProofs establishes *)
(* (IInv and EarlyInv): it gives that every type has its parents' objects  *)
(* (TypesMade).  The search is then right because each call in progress    *)
(* knows that the parents it is done with are not below the ancestor it    *)
(* looks for (CallsKnow), and a call that returns says so of the parent    *)
(* its caller is at (ReplyKnows).                                          *)
(***************************************************************************)
EXTENDS RuntimeTypes, TypeHierarchyProofs

-----------------------------------------------------------------------------
(* The hierarchy of the program.                                           *)

LEMMA BelowItself ==
    ASSUME NEW c \in Types
    PROVE  Below(c, c)
  BY DEF Below

LEMMA BelowByParent ==
    ASSUME NEW c \in Types, NEW a \in Types, NEW p \in ParentsOf(c), Below(p, a)
    PROVE  Below(c, a)
  BY DEF Below, Upward

\* A type none of whose parents is below a is not below a either.
LEMMA NotBelowByParents ==
    ASSUME NEW c \in Types, NEW a \in Types, c # a, ParentsOf(c) \subseteq Types,
           \A p \in ParentsOf(c) : ~Below(p, a)
    PROVE  ~Below(c, a)
  <1> DEFINE Without == {S \in SUBSET Types : Upward(S) /\ a \notin S}
  <1> DEFINE U == {c} \union UNION Without
  <1>1. U \in SUBSET Types /\ c \in U /\ a \notin U
    OBVIOUS
  <1>2. \A p \in ParentsOf(c) : p \in UNION Without
    BY DEF Below
  <1>3. Upward(U)
    <2> SUFFICES ASSUME NEW t \in U
                 PROVE  ParentsOf(t) \subseteq U
      BY DEF Upward
    <2>1. CASE t = c
      BY <2>1, <1>2
    <2>2. CASE t # c
      <3>1. PICK S \in Without : t \in S
        BY <2>2
      <3>2. ParentsOf(t) \subseteq S
        BY <3>1 DEF Upward
      <3> QED  BY <3>1, <3>2
    <2> QED  BY <2>1, <2>2
  <1> QED  BY <1>1, <1>3 DEF Below

\* Only Object is without parents, blacklisted types apart.
EdgesFit == phase # "prune" => \A t \in Types : edges[t] = << >> => t = Object \/ t \in bad

Hierarchy == IInv /\ EarlyInv /\ EdgesFit

LEMMA HierarchyInit ==
    ASSUME Init
    PROVE  Hierarchy
  BY InitHolds, EarlyInit DEF Hierarchy, EdgesFit, Init

LEMMA HierarchyKeeps ==
    ASSUME Hierarchy, [Next]_vars
    PROVE  Hierarchy'
  <1>1. IInv' /\ EarlyInv'
    BY StepsKeep, EarlyKeeps DEF Hierarchy
  <1>2. EdgesFit'
    <2>1. CASE BuildGraph
      <3>1. phase' # "prune" /\ bad' = bad /\ edges' = [t \in Types |-> Parents(t)]
        BY <2>1 DEF BuildGraph
      <3>2. ASSUME NEW t \in Types, Parents(t) = << >>, t \notin bad
            PROVE  t = Object
        <4>1. decls[t].extends \in Seq(Types) /\ decls[t].implements \in Seq(Types)
          BY DEF Hierarchy, IInv, TypeOK, Declaration
        <4>2. << Object >> \in Seq(Types) /\ << Object >> # << >>
          BY HierarchyAssumption
        <4>3. PICK first \in Seq(Types) :
                 /\ first = IF decls[t].extends = << >> /\ t # Object THEN << Object >>
                            ELSE decls[t].extends
                 /\ Parents(t) = first \o decls[t].implements
          BY <3>2, <4>1, <4>2 DEF Parents
        <4>4. PICK rest \in Seq(Types) : rest = decls[t].implements
          BY <4>1
        <4>5. Len(first) = 0
          <5>0. first \o rest = << >>
            BY <3>2, <4>3, <4>4
          <5>1. Len(first \o rest) = Len(first) + Len(rest) /\ first \o rest = << >>
            BY <5>0, ConcatProperties
          <5>2. Len(first) \in Nat /\ Len(rest) \in Nat /\ Len(<< >>) = 0
            OBVIOUS
          <5> QED  BY <5>1, <5>2
        <4>6. first = << >>
          BY <4>3, <4>5
        <4> QED  BY <4>2, <4>3, <4>6
      <3> QED  BY <3>1, <3>2 DEF EdgesFit
    <2>2. CASE ~BuildGraph
      <3>1. /\ phase' # "prune" => phase # "prune" /\ edges' = edges
            /\ bad \subseteq bad'
        BY <2>2 DEF Next, vars, Prune, Start, Finish, ParentBad, ParentGood, ParentOpen,
                    ParentNew, Fail, Succeed
      <3> QED  BY <3>1 DEF EdgesFit, Hierarchy
    <2> QED  BY <2>1, <2>2
  <1> QED  BY <1>1, <1>2 DEF Hierarchy

\* What the back end gets when no error was reported: every type is in the order.
LEMMA AllSorted ==
    ASSUME Hierarchy, phase = "done", bad = {}
    PROVE  /\ sorted \in Seq(Types) /\ Len(sorted) \in Nat /\ Len(sorted) >= 2
           /\ sorted[1] = Object /\ sorted[2] = TypeInfo
           /\ \A t \in Types : \E i \in 1..Len(sorted) : sorted[i] = t
           /\ \A t \in Types : ParentsOf(t) \subseteq Types /\ edges[t] \in Seq(Types)
  <1>1. sorted \in Seq(Types) /\ path = << >> /\ \A t \in Types : edges[t] \in Seq(Types)
    BY DEF Hierarchy, IInv, SearchInv, LoopDone, TypeOK
  <1>2. Len(sorted) >= 2 /\ sorted[1] = Object /\ sorted[2] = TypeInfo
    BY <1>1 DEF Hierarchy, EarlyInv, Begun, Stage
  <1>3. good = {sorted[i] : i \in 1..Len(sorted)}
    BY <1>1 DEF Hierarchy, IInv, TopSorted
  <1>4. Object \in good
    BY <1>1, <1>2, <1>3
  <1>5. \A t \in Types : t \in good
    BY <1>4 DEF Hierarchy, EdgesFit, IInv, SearchInv, LoopDone, Known
  <1>6. \A t \in Types : ParentsOf(t) \subseteq Types
    BY ParentsAreTypes DEF Hierarchy, IInv
  <1> QED  BY <1>1, <1>2, <1>3, <1>5, <1>6

-----------------------------------------------------------------------------
(* The invariant.                                                          *)

NotStarted ==
    turn = Idle => /\ made = {} /\ active = << >> /\ reply = None /\ answer = << >>
                   /\ ~initialized

Started ==
    turn # Idle => /\ phase = "done" /\ bad = {} /\ num_types = NumTypes + 1
                   /\ initialized <=> turn > Len(sorted) + 3

TypesMade ==
    /\ \A i \in 1..Len(sorted) : i < turn => sorted[i] \in made
    /\ \A t \in made : parents[t] = edges[t]

CalledBy(k) ==
    /\ active[k].loop \in 1..Len(edges[active[k].child])
    /\ active[k + 1].child = edges[active[k].child][active[k].loop]
    /\ active[k + 1].ancestor = active[k].ancestor

Knows(f) ==
    /\ f.child \in Types /\ f.ancestor \in Types
    /\ f.loop \in 0..(Len(edges[f.child]) + 1)
    /\ f.loop # Entering =>
          /\ initialized /\ f.child # f.ancestor /\ memo[f.child] # NoMap
          /\ \A j \in 1..(f.loop - 1) : ~Below(edges[f.child][j], f.ancestor)

CallsKnow ==
    /\ active # << >> => turn > Len(sorted) + 1
    /\ \A k \in 1..Len(active) : Knows(active[k])
    /\ \A k \in 1..Len(active) : k < Len(active) => CalledBy(k)

ReplyKnows ==
    reply # None =>
       /\ active # << >> /\ Now.loop \in 1..Len(edges[Now.child])
       /\ reply = Yes <=> Below(edges[Now.child][Now.loop], Now.ancestor)

StartInv ==
    /\ Hierarchy /\ StartTypeOK /\ NotStarted /\ Started /\ TypesMade
    /\ CallsKnow /\ ReplyKnows /\ MemoCorrect /\ AnswersRight

Frames == [child : Types \union {Null}, ancestor : Types \union {Null}, loop : Nat]

LEMMA StartHolds ==
    ASSUME StartInit
    PROVE  StartInv
  <1>1. Hierarchy
    BY HierarchyInit DEF StartInit
  <1>2. StartTypeOK
    <2>1. parents \in [Types -> Seq(Types \union {Null})]
      BY DEF StartInit
    <2>2. memo \in [Types -> {NoMap} \union [0..NumTypes -> {0 - 1, 0, 1}]]
      BY DEF StartInit
    <2>3. /\ turn = 0 /\ num_types = 0 /\ made = {} /\ initialized = FALSE
          /\ active = << >> /\ reply = None
      BY DEF StartInit, Idle
    <2>4. active \in Seq(Frames)
      BY <2>3
    <2> QED  BY <2>1, <2>2, <2>3, <2>4 DEF StartTypeOK, Frames
  <1>3. NotStarted /\ Started /\ TypesMade
    <2>1. \A i \in 1..Len(sorted) : ~(i < turn)
      BY DEF StartInit, Init, Idle
    <2> QED  BY <2>1 DEF StartInit, NotStarted, Started, TypesMade, Idle
  <1>4. CallsKnow /\ ReplyKnows
    BY DEF StartInit, CallsKnow, ReplyKnows
  <1>5. MemoCorrect /\ AnswersRight
    BY DEF StartInit, MemoCorrect, AnswersRight
  <1> QED  BY <1>1, <1>2, <1>3, <1>4, <1>5 DEF StartInv

\* The compiler is done when the program starts.
LEMMA CompilingKeeps ==
    ASSUME StartInv, Compiling
    PROVE  StartInv'
  <1>1. phase # "done"
    BY DEF Compiling, Next, Prune, BuildGraph, Start, Finish, ParentBad, ParentGood, ParentOpen,
           ParentNew, AtEdge, Fail, Succeed
  <1>2. turn = Idle
    BY <1>1 DEF StartInv, Started
  <1>3. /\ made = {} /\ active = << >> /\ reply = None /\ answer = << >> /\ ~initialized
        /\ UNCHANGED rtVars
    BY <1>2 DEF StartInv, NotStarted, Compiling
  <1>4. Hierarchy'
    BY HierarchyKeeps DEF StartInv, Compiling
  <1>5. StartTypeOK'
    BY <1>3 DEF StartInv, StartTypeOK, rtVars
  <1>6. NotStarted' /\ Started'
    BY <1>2, <1>3 DEF NotStarted, Started, rtVars
  <1>7. TypesMade'
    <2>1. \A i \in 1..Len(sorted') : ~(i < turn')
      BY <1>2, <1>3 DEF Idle, rtVars
    <2> QED  BY <1>3, <2>1 DEF TypesMade, rtVars
  <1>8. CallsKnow' /\ ReplyKnows' /\ MemoCorrect' /\ AnswersRight'
    BY <1>3 DEF CallsKnow, ReplyKnows, MemoCorrect, AnswersRight, rtVars
  <1> QED  BY <1>4, <1>5, <1>6, <1>7, <1>8 DEF StartInv

\* The program leaves the compiler's data alone.
LEMMA GraphStays ==
    ASSUME Hierarchy, UNCHANGED vars
    PROVE  /\ Hierarchy' /\ sorted' = sorted /\ edges' = edges /\ decls' = decls
           /\ phase' = phase /\ bad' = bad
           /\ \A c, a : Below(c, a)' <=> Below(c, a)
  <1>1. Hierarchy'
    BY HierarchyKeeps
  <1> QED  BY <1>1 DEF vars, Below, Upward, ParentsOf

LEMMA LaunchKeeps ==
    ASSUME StartInv, Launch
    PROVE  StartInv'
  <1>1. /\ phase = "done" /\ pruned = {} /\ cycles = {} /\ turn = 0 /\ turn' = 1
        /\ num_types' = NumTypes + 1
        /\ UNCHANGED <<vars, made, parents, initialized, memo, active, reply, answer>>
    BY DEF Launch, NumberOfTypes, Idle
  <1>2. made = {} /\ active = << >> /\ reply = None /\ answer = << >> /\ ~initialized
    BY <1>1 DEF StartInv, NotStarted, Idle
  <1>3. Hierarchy' /\ UNCHANGED <<sorted, edges, decls, phase, bad>>
    BY <1>1, GraphStays DEF StartInv
  <1>4. bad = {}
    <2>1. Blamed = {} /\ ClosedBelow({}) /\ {} \in SUBSET Types
      BY <1>1 DEF Blamed, ClosedBelow
    <2> QED  BY <2>1 DEF StartInv, Hierarchy, IInv, BadExplained
  <1>5. StartTypeOK'
    BY <1>1, HierarchyAssumption DEF StartInv, StartTypeOK
  <1>6. Len(sorted) \in Nat
    BY DEF StartInv, Hierarchy, IInv, TypeOK
  <1>7. NotStarted' /\ Started'
    BY <1>1, <1>2, <1>3, <1>4, <1>6 DEF NotStarted, Started, Idle
  <1>8. TypesMade'
    BY <1>1, <1>2, <1>3 DEF TypesMade
  <1>9. CallsKnow' /\ ReplyKnows' /\ MemoCorrect' /\ AnswersRight'
    BY <1>1, <1>2 DEF CallsKnow, ReplyKnows, MemoCorrect, AnswersRight
  <1> QED  BY <1>3, <1>5, <1>7, <1>8, <1>9 DEF StartInv

LEMMA InitTypeKeeps ==
    ASSUME StartInv, InitType
    PROVE  StartInv'
  <1> DEFINE t == sorted[turn]
  <1>1. /\ turn # 0 /\ turn <= Len(sorted) /\ turn' = turn + 1 /\ made' = made \union {t}
        /\ parents' = [parents EXCEPT ![t] =
              [i \in 1..Len(edges[t]) |-> IF edges[t][i] \in made THEN edges[t][i] ELSE Null]]
        /\ memo' = [memo EXCEPT ![t] = NoMap]
        /\ UNCHANGED <<vars, num_types, initialized, active, reply, answer>>
    BY DEF InitType, Running, Units, Idle
  <1>2. Hierarchy' /\ UNCHANGED <<sorted, edges, decls, phase, bad>>
        /\ \A c, a : Below(c, a)' <=> Below(c, a)
    BY <1>1, GraphStays DEF StartInv
  <1>3. turn \in Nat /\ turn \in 1..Len(sorted) /\ Len(sorted) \in Nat /\ sorted \in Seq(Types)
    BY <1>1 DEF StartInv, StartTypeOK, Hierarchy, IInv, TypeOK
  <1>4. active = << >> /\ reply = None
    BY <1>1, <1>3 DEF StartInv, CallsKnow, StartTypeOK
  <1>5. t \in Types /\ edges[t] \in Seq(Types) /\ Len(edges[t]) \in Nat
    BY <1>3 DEF StartInv, Hierarchy, IInv, TypeOK
  <1> HIDE DEF t
  <1>6. \A i \in 1..Len(edges[t]) : edges[t][i] \in made
    <2> SUFFICES ASSUME NEW i \in 1..Len(edges[t])
                 PROVE  edges[t][i] \in made
      OBVIOUS
    <2>1. edges[t][i] \in ParentsOf(t)
      BY <1>5 DEF ParentsOf
    <2>2. PICK j \in 1..(turn - 1) : sorted[j] = edges[t][i]
      BY <1>3, <2>1 DEF StartInv, Hierarchy, IInv, TopSorted, t
    <2>3. j \in 1..Len(sorted) /\ j < turn
      BY <1>3
    <2> QED  BY <2>2, <2>3 DEF StartInv, TypesMade
  <1>7. [i \in 1..Len(edges[t]) |-> IF edges[t][i] \in made THEN edges[t][i] ELSE Null] = edges[t]
    BY <1>5, <1>6
  <1>8. parents \in [Types -> Seq(Types \union {Null})]
    BY DEF StartInv, StartTypeOK
  <1>9. parents' = [parents EXCEPT ![t] = edges[t]]
    BY <1>1, <1>7
  <1>18. edges[t] \in Seq(Types \union {Null})
    BY <1>5
  <1>10. /\ parents' \in [Types -> Seq(Types \union {Null})] /\ parents'[t] = edges[t]
         /\ \A u \in Types : u # t => parents'[u] = parents[u]
    BY <1>5, <1>8, <1>9, <1>18
  <1>11. /\ memo' \in [Types -> {NoMap} \union [0..NumTypes -> {0 - 1, 0, 1}]]
         /\ \A u \in Types : memo'[u] = NoMap \/ (u # t /\ memo'[u] = memo[u])
    BY <1>1, <1>5 DEF StartInv, StartTypeOK
  <1>12. StartTypeOK'
    BY <1>1, <1>3, <1>4, <1>5, <1>10, <1>11 DEF StartInv, StartTypeOK, Frames
  <1>13. NotStarted' /\ Started'
    BY <1>1, <1>2, <1>3 DEF StartInv, NotStarted, Started, Idle
  <1>14. TypesMade'
    <2>1. \A i \in 1..Len(sorted) : i < turn + 1 => i < turn \/ i = turn
      BY <1>3
    <2>2. \A i \in 1..Len(sorted) : i < turn' => sorted[i] \in made'
      BY <1>1, <2>1 DEF StartInv, TypesMade, t
    <2>3. \A u \in made' : parents'[u] = edges[u]
      BY <1>1, <1>10 DEF StartInv, TypesMade, StartTypeOK
    <2> QED  BY <1>2, <2>2, <2>3 DEF TypesMade
  <1>15. CallsKnow' /\ ReplyKnows'
    BY <1>1, <1>4 DEF CallsKnow, ReplyKnows
  <1>16. MemoCorrect'
    <2>1. \A u \in made' : memo'[u] # NoMap => u \in made /\ memo'[u] = memo[u]
      BY <1>1, <1>5, <1>11 DEF StartInv, StartTypeOK
    <2> QED  BY <1>2, <2>1 DEF StartInv, MemoCorrect
  <1>17. AnswersRight'
    BY <1>1, <1>2 DEF StartInv, AnswersRight
  <1> QED  BY <1>2, <1>12, <1>13, <1>14, <1>15, <1>16, <1>17 DEF StartInv

\* Where System, Object and TypeInfo come in the order of the static initialisers.
LEMMA FirstStatics ==
    ASSUME StartInv, turn > Len(sorted)
    PROVE  /\ turn \in Nat /\ turn # Idle /\ Len(sorted) \in Nat /\ Len(sorted) >= 2
           /\ Statics \in Seq(Types) /\ Len(Statics) = Len(sorted) + 1
           /\ Statics[1] = System /\ Statics[2] = Object /\ Statics[3] = TypeInfo
           /\ \A k \in 4..Len(Statics) : Statics[k] # TypeInfo
           /\ System # TypeInfo /\ Object # TypeInfo
           /\ begun = turn - Len(sorted) - 1 /\ DOMAIN Statics = 1..Len(Statics)
  <1>1. turn \in Nat /\ sorted \in Seq(Types) /\ Len(sorted) \in Nat
    BY DEF StartInv, StartTypeOK, Hierarchy, IInv, TypeOK
  <1>2. turn # Idle
    BY <1>1 DEF Idle
  <1>3. /\ Len(sorted) >= 2 /\ sorted[1] = Object /\ sorted[2] = TypeInfo
    BY <1>2, AllSorted DEF StartInv, Started
  <1>4. System \in Types /\ System # TypeInfo /\ Object # TypeInfo
    BY RuntimeAssumption, HierarchyAssumption
  <1>5. PICK one : one = << System >>
    OBVIOUS
  <1>10. one \in Seq(Types) /\ Len(one) = 1 /\ one[1] = System
    BY <1>4, <1>5
  <1>6. /\ Statics \in Seq(Types) /\ Len(Statics) = Len(sorted) + 1 /\ Statics[1] = System
        /\ \A k \in 1..Len(sorted) : Statics[k + 1] = sorted[k]
    BY <1>1, <1>5, <1>10 DEF Statics, Units
  <1>7. Statics[2] = Object /\ Statics[3] = TypeInfo
    <2>1. 1 \in 1..Len(sorted) /\ 2 \in 1..Len(sorted) /\ 1 + 1 = 2 /\ 2 + 1 = 3
      BY <1>1, <1>3
    <2> QED  BY <1>3, <1>6, <2>1
  <1>8. ASSUME NEW k \in 4..Len(Statics)
        PROVE  Statics[k] # TypeInfo
    <2>1. k - 1 \in 1..Len(sorted) /\ (k - 1) + 1 = k /\ k - 1 # 2 /\ 2 \in 1..Len(sorted)
      BY <1>1, <1>3, <1>6
    <2>2. sorted[k - 1] # sorted[2]
      BY <1>1, <2>1 DEF StartInv, Hierarchy, IInv, TopSorted
    <2>3. Statics[k] = sorted[k - 1]
      BY <1>6, <2>1
    <2> QED  BY <1>3, <2>2, <2>3
  <1>9. begun = turn - Len(sorted) - 1 /\ DOMAIN Statics = 1..Len(Statics)
    BY <1>6 DEF begun, Units
  <1> QED  BY <1>1, <1>2, <1>3, <1>4, <1>6, <1>7, <1>8, <1>9

\* The rest of _static_init leaves everything but turn and initialized alone.
LEMMA TurnKeeps ==
    ASSUME StartInv, turn > Len(sorted), active = << >>, turn' = turn + 1,
           initialized' \in BOOLEAN, initialized' <=> turn' > Len(sorted) + 3,
           UNCHANGED <<vars, num_types, made, parents, memo, active, reply, answer>>
    PROVE  StartInv'
  <1>1. Hierarchy' /\ UNCHANGED <<sorted, edges, decls, phase, bad>>
        /\ \A c, a : Below(c, a)' <=> Below(c, a)
    BY GraphStays DEF StartInv
  <1>2. turn \in Nat /\ turn # Idle /\ Len(sorted) \in Nat
    BY FirstStatics
  <1>3. reply = None
    BY DEF StartInv, StartTypeOK
  <1>4. StartTypeOK'
    BY <1>2 DEF StartInv, StartTypeOK
  <1>5. NotStarted' /\ Started'
    BY <1>1, <1>2 DEF StartInv, NotStarted, Started, Idle
  <1>6. TypesMade'
    <2>1. \A i \in 1..Len(sorted) : i < turn
      BY <1>2
    <2> QED  BY <1>1, <2>1 DEF StartInv, TypesMade
  <1>7. CallsKnow' /\ ReplyKnows'
    BY <1>3 DEF CallsKnow, ReplyKnows
  <1>8. MemoCorrect' /\ AnswersRight'
    BY <1>1 DEF StartInv, MemoCorrect, AnswersRight
  <1> QED  BY <1>1, <1>4, <1>5, <1>6, <1>7, <1>8 DEF StartInv

LEMMA InitStaticsKeeps ==
    ASSUME StartInv, InitStatics
    PROVE  StartInv'
  <1>1. /\ turn > Len(sorted) /\ active = << >> /\ turn' = turn + 1 /\ begun < Len(Statics)
        /\ initialized' = (initialized \/ Statics[begun + 1] = TypeInfo)
        /\ UNCHANGED <<vars, num_types, made, parents, memo, active, reply, answer>>
    BY DEF InitStatics, Units
  <1>2. /\ turn \in Nat /\ turn # Idle /\ Len(sorted) \in Nat
        /\ Len(Statics) = Len(sorted) + 1 /\ begun = turn - Len(sorted) - 1
        /\ Statics[1] # TypeInfo /\ Statics[2] # TypeInfo /\ Statics[3] = TypeInfo
        /\ \A k \in 4..Len(Statics) : Statics[k] # TypeInfo
    BY <1>1, FirstStatics
  <1>3. initialized \in BOOLEAN /\ (initialized <=> turn > Len(sorted) + 3)
    BY <1>2 DEF StartInv, StartTypeOK, Started
  <1>4. begun + 1 \in 1..Len(Statics) /\ begun + 1 = turn - Len(sorted)
    BY <1>1, <1>2
  <1>5. Statics[begun + 1] = TypeInfo <=> turn = Len(sorted) + 3
    <2>1. begun + 1 = 1 \/ begun + 1 = 2 \/ begun + 1 = 3 \/ begun + 1 \in 4..Len(Statics)
      BY <1>2, <1>4
    <2>2. turn = Len(sorted) + 3 <=> begun + 1 = 3
      BY <1>2, <1>4
    <2>3. Statics[begun + 1] = TypeInfo <=> begun + 1 = 3
      BY <1>2, <2>1
    <2> QED  BY <2>2, <2>3
  <1>6. initialized' <=> turn' > Len(sorted) + 3
    <2>1. turn' > Len(sorted) + 3 <=> turn > Len(sorted) + 3 \/ turn = Len(sorted) + 3
      BY <1>1, <1>2
    <2> QED  BY <1>1, <1>3, <1>5, <2>1
  <1>7. initialized' \in BOOLEAN
    BY <1>1, <1>3
  <1> QED  BY <1>1, <1>6, <1>7, TurnKeeps

LEMMA CallTestKeeps ==
    ASSUME StartInv, CallTest
    PROVE  StartInv'
  <1>1. /\ turn > Len(sorted) /\ active = << >> /\ turn' = turn + 1 /\ begun = Len(Statics)
        /\ initialized' = initialized
        /\ UNCHANGED <<vars, num_types, made, parents, memo, active, reply, answer>>
    BY DEF CallTest, Units
  <1>2. /\ turn \in Nat /\ turn # Idle /\ Len(sorted) \in Nat /\ Len(sorted) >= 2
        /\ Len(Statics) = Len(sorted) + 1 /\ begun = turn - Len(sorted) - 1
    BY <1>1, FirstStatics
  <1>3. initialized \in BOOLEAN /\ (initialized <=> turn > Len(sorted) + 3)
    BY <1>2 DEF StartInv, StartTypeOK, Started
  <1>4. initialized' <=> turn' > Len(sorted) + 3
    BY <1>1, <1>2, <1>3
  <1> QED  BY <1>1, <1>3, <1>4, TurnKeeps

-----------------------------------------------------------------------------
(* The calls of InstanceOf.                                                *)

LEMMA AllMade ==
    ASSUME StartInv, turn > Len(sorted) + 1
    PROVE  /\ made = Types /\ num_types = NumTypes + 1 /\ turn # Idle
           /\ \A t \in Types : /\ parents[t] = edges[t] /\ edges[t] \in Seq(Types)
                               /\ ParentsOf(t) \subseteq Types
  <1>1. turn \in Nat /\ Len(sorted) \in Nat
    BY DEF StartInv, StartTypeOK, Hierarchy, IInv, TypeOK
  <1>2. turn # Idle
    BY <1>1 DEF Idle
  <1>3. phase = "done" /\ bad = {} /\ num_types = NumTypes + 1
    BY <1>2 DEF StartInv, Started
  <1>4. \A i \in 1..Len(sorted) : sorted[i] \in made
    <2>1. \A i \in 1..Len(sorted) : i < turn
      BY <1>1
    <2> QED  BY <2>1 DEF StartInv, TypesMade
  <1>5. /\ \A t \in Types : \E i \in 1..Len(sorted) : sorted[i] = t
        /\ \A t \in Types : ParentsOf(t) \subseteq Types /\ edges[t] \in Seq(Types)
    BY <1>3, AllSorted DEF StartInv
  <1>6. made = Types
    BY <1>4, <1>5 DEF StartInv, StartTypeOK
  <1> QED  BY <1>2, <1>3, <1>5, <1>6 DEF StartInv, TypesMade

LEMMA AskKeeps ==
    ASSUME StartInv, Ask
    PROVE  StartInv'
  <1>1. PICK q \in Questions :
           /\ active = << >> /\ turn > Len(sorted) + 1
           /\ active' = << Frame(ObjectOf(q[1]), ObjectOf(q[2])) >>
           /\ UNCHANGED <<vars, turn, num_types, made, parents, initialized, memo, reply, answer>>
    BY DEF Ask, Units
  <1>2. q[1] \in Types /\ q[2] \in Types
    BY RuntimeAssumption
  <1>3. made = Types /\ turn # Idle
    BY <1>1, AllMade
  <1> DEFINE f == Frame(q[1], q[2])
  <1>4. active' = << f >> /\ f.child = q[1] /\ f.ancestor = q[2] /\ f.loop = 0
    BY <1>1, <1>2, <1>3 DEF ObjectOf, Frame, Entering
  <1>5. f \in Frames
    BY <1>2 DEF Frames, Frame, Entering
  <1> HIDE DEF f
  <1>6. active' \in Seq(Frames) /\ Len(active') = 1 /\ active'[1] = f /\ active' # << >>
    BY <1>4, <1>5
  <1>7. Hierarchy' /\ UNCHANGED <<sorted, edges, decls, phase, bad>>
        /\ \A c, a : Below(c, a)' <=> Below(c, a)
    BY <1>1, GraphStays DEF StartInv
  <1>8. reply = None
    BY <1>1 DEF StartInv, StartTypeOK
  <1>9. StartTypeOK'
    BY <1>1, <1>6, <1>8 DEF StartInv, StartTypeOK, Frames
  <1>10. NotStarted' /\ Started' /\ TypesMade'
    BY <1>1, <1>3, <1>7 DEF StartInv, NotStarted, Started, TypesMade
  <1>11. CallsKnow'
    <2>1. edges[q[1]] \in Seq(Types) /\ Len(edges[q[1]]) \in Nat
      BY <1>1, <1>2, AllMade
    <2>2. Knows(f)'
      BY <1>2, <1>4, <1>7, <2>1 DEF Knows, Entering
    <2>3. \A k \in 1..Len(active') : k = 1
      BY <1>6
    <2> QED  BY <1>1, <1>6, <1>7, <2>2, <2>3 DEF CallsKnow
  <1>12. ReplyKnows' /\ MemoCorrect' /\ AnswersRight'
    BY <1>1, <1>7, <1>8 DEF StartInv, ReplyKnows, MemoCorrect, AnswersRight
  <1> QED  BY <1>7, <1>9, <1>10, <1>11, <1>12 DEF StartInv

MemoTable == [0..NumTypes -> {0 - 1, 0, 1}]

LEMMA InProgress ==
    ASSUME StartInv, active # << >>
    PROVE  /\ active \in Seq(Frames) /\ Len(active) \in Nat \ {0} /\ Len(active) \in 1..Len(active)
           /\ Now = active[Len(active)] /\ Now \in Frames /\ Knows(Now)
           /\ Now.child \in Types /\ Now.ancestor \in Types /\ Now.loop \in Nat
           /\ edges[Now.child] \in Seq(Types) /\ Len(edges[Now.child]) \in Nat
           /\ parents[Now.child] = edges[Now.child]
           /\ ParentsOf(Now.child) \subseteq Types
           /\ \A i \in 1..Len(edges[Now.child]) : /\ edges[Now.child][i] \in Types
                                                  /\ edges[Now.child][i] \in ParentsOf(Now.child)
           /\ made = Types /\ num_types = NumTypes + 1 /\ turn > Len(sorted) + 1 /\ turn # Idle
  <1>1. active \in Seq(Frames)
    BY DEF StartInv, StartTypeOK, Frames
  <1>2. Len(active) \in Nat \ {0} /\ Len(active) \in 1..Len(active)
    BY <1>1
  <1>3. Now = active[Len(active)] /\ Now \in Frames
    BY <1>1, <1>2 DEF Now
  <1>4. Knows(Now) /\ turn > Len(sorted) + 1
    BY <1>2, <1>3 DEF StartInv, CallsKnow
  <1>5. Now.child \in Types /\ Now.ancestor \in Types /\ Now.loop \in Nat
    BY <1>3, <1>4 DEF Knows, Frames
  <1>6. /\ made = Types /\ num_types = NumTypes + 1 /\ turn # Idle
        /\ edges[Now.child] \in Seq(Types) /\ ParentsOf(Now.child) \subseteq Types
        /\ parents[Now.child] = edges[Now.child]
    BY <1>4, <1>5, AllMade
  <1>7. \A i \in 1..Len(edges[Now.child]) : /\ edges[Now.child][i] \in Types
                                            /\ edges[Now.child][i] \in ParentsOf(Now.child)
    BY <1>6 DEF ParentsOf
  <1> QED  BY <1>1, <1>2, <1>3, <1>4, <1>5, <1>6, <1>7

\* What no step of InstanceOf changes.
LEMMA CallLeaves ==
    ASSUME StartInv, active # << >>,
           UNCHANGED <<vars, turn, num_types, made, parents, initialized>>
    PROVE  /\ Hierarchy' /\ UNCHANGED <<sorted, edges, decls, phase, bad>>
           /\ \A c, a : Below(c, a)' <=> Below(c, a)
           /\ NotStarted' /\ Started' /\ TypesMade'
  <1>1. turn # Idle
    BY InProgress
  <1>2. Hierarchy' /\ UNCHANGED <<sorted, edges, decls, phase, bad>>
        /\ \A c, a : Below(c, a)' <=> Below(c, a)
    BY GraphStays DEF StartInv
  <1> QED  BY <1>1, <1>2 DEF StartInv, NotStarted, Started, TypesMade

\* Memo tables are only ever added to and filled.
MemoGrows ==
    /\ memo' \in [Types -> {NoMap} \union MemoTable]
    /\ \A t \in Types : memo[t] # NoMap => memo'[t] # NoMap

\* A call that returns what the hierarchy says; without TypeInfo, to the program.
LEMMA ReturnKeeps ==
    ASSUME StartInv, active # << >>, NEW b \in BOOLEAN,
           initialized => (b <=> Below(Now.child, Now.ancestor)),
           Return(b), MemoGrows, MemoCorrect',
           UNCHANGED <<vars, turn, num_types, made, parents, initialized>>
    PROVE  StartInv'
  <1> DEFINE n == Len(active)
  <1>1. /\ active \in Seq(Frames) /\ n \in Nat \ {0} /\ n \in 1..n /\ Now = active[n]
        /\ Now.child \in Types /\ Now.ancestor \in Types /\ turn > Len(sorted) + 1
    BY InProgress
  <1>2. /\ active' \in Seq(Frames) /\ Len(active') = n - 1
        /\ \A k \in 1..(n - 1) : active'[k] = active[k]
    BY <1>1, AllButLast DEF Return
  <1>3. /\ Hierarchy' /\ UNCHANGED <<sorted, edges, decls, phase, bad>>
        /\ \A c, a : Below(c, a)' <=> Below(c, a)
        /\ NotStarted' /\ Started' /\ TypesMade'
    BY CallLeaves
  <1>4. /\ n = 1 => /\ answer' = << [child |-> Now.child, ancestor |-> Now.ancestor,
                                     is |-> b, asker |-> Asker] >>
                    /\ reply' = None
        /\ n # 1 => reply' = (IF b THEN Yes ELSE No) /\ answer' = answer
    BY DEF Return
  <1>5. reply' \in {None, Yes, No} /\ (active' = << >> => reply' = None)
    BY <1>1, <1>2, <1>4
  <1>6. StartTypeOK'
    BY <1>2, <1>5 DEF StartInv, StartTypeOK, MemoGrows, MemoTable, Frames
  <1>7. CallsKnow'
    <2>1. ASSUME NEW k \in 1..Len(active')
          PROVE  Knows(active[k])' /\ active'[k] = active[k]
      <3>1. k \in 1..n /\ k \in 1..(n - 1) /\ active'[k] = active[k] /\ Knows(active[k])
        BY <1>1, <1>2, <2>1 DEF StartInv, CallsKnow
      <3>2. Knows(active[k])'
        BY <1>3, <3>1 DEF Knows, MemoGrows
      <3> QED  BY <3>1, <3>2
    <2>2. ASSUME NEW k \in 1..Len(active'), k < Len(active')
          PROVE  CalledBy(k)'
      <3>1. k \in 1..n /\ k < n /\ k \in 1..(n - 1) /\ k + 1 \in 1..(n - 1)
        BY <1>1, <1>2, <2>2
      <3>2. CalledBy(k) /\ active'[k] = active[k] /\ active'[k + 1] = active[k + 1]
        BY <1>2, <3>1 DEF StartInv, CallsKnow
      <3> QED  BY <1>3, <3>2 DEF CalledBy
    <2>3. active' # << >> => turn' > Len(sorted') + 1
      BY <1>1, <1>3
    <2>4. \A k \in 1..Len(active') : Knows(active[k])'
      BY <2>1
    <2> QED  BY <2>1, <2>2, <2>3, <2>4 DEF CallsKnow
  <1>8. ReplyKnows' /\ AnswersRight'
    <2>1. CASE n = 1
      <3>1. ReplyKnows'
        BY <1>4, <2>1 DEF ReplyKnows
      <3>2. CASE initialized
        <4>1. \A i \in DOMAIN answer' : /\ answer'[i].child = Now.child /\ answer'[i].is = b
                                        /\ answer'[i].ancestor = Now.ancestor
          BY <1>4, <2>1
        <4>2. b <=> Below(Now.child, Now.ancestor)
          BY <3>2
        <4>3. \A i \in DOMAIN answer' :
                 answer'[i].is <=> Below(answer'[i].child, answer'[i].ancestor)
          BY <4>1, <4>2
        <4> QED  BY <1>3, <3>1, <4>3 DEF AnswersRight
      <3>3. CASE ~initialized
        <4>1. /\ turn \in Nat /\ Len(sorted) \in Nat /\ begun = turn - Len(sorted) - 1
              /\ Len(Statics) = Len(sorted) + 1 /\ DOMAIN Statics = 1..Len(Statics)
              /\ Statics[1] = System /\ Statics[2] = Object /\ Len(sorted) >= 2 /\ turn # Idle
          <5>1. turn \in Nat /\ Len(sorted) \in Nat
            BY DEF StartInv, StartTypeOK, Hierarchy, IInv, TypeOK
          <5>2. turn > Len(sorted)
            BY <1>1, <5>1
          <5> QED  BY <5>2, FirstStatics
        <4>2. begun = 1 \/ begun = 2
          <5>1. ~(turn > Len(sorted) + 3)
            BY <3>3, <4>1 DEF StartInv, Started
          <5> QED  BY <1>1, <4>1, <5>1
        <4>3. Asker \in {System, Object}
          BY <4>1, <4>2 DEF Asker
        <4> QED  BY <1>4, <2>1, <3>1, <4>3 DEF AnswersRight
      <3> QED  BY <3>1, <3>2, <3>3
    <2>2. CASE n # 1
      <3>1. /\ n - 1 \in 1..n /\ n - 1 < n /\ n - 1 \in 1..(n - 1) /\ (n - 1) + 1 = n
            /\ Len(active') = n - 1 /\ n - 1 \in Nat /\ active' # << >>
        BY <1>1, <1>2, <2>2
      <3>2. CalledBy(n - 1) /\ Knows(active[n - 1])
        BY <3>1 DEF StartInv, CallsKnow
      <3>3. Now' = active[n - 1]
        BY <1>2, <3>1 DEF Now
      <3>4. /\ Now'.loop \in 1..Len(edges[Now'.child])
            /\ Now.child = edges[Now'.child][Now'.loop] /\ Now.ancestor = Now'.ancestor
        BY <1>1, <3>1, <3>2, <3>3 DEF CalledBy
      <3>5. initialized
        <4>1. active[n - 1].loop # Entering
          BY <3>2 DEF CalledBy, Entering
        <4> QED  BY <3>2, <4>1 DEF Knows
      <3>6. reply' = Yes <=> Below(Now.child, Now.ancestor)
        BY <1>4, <2>2, <3>5 DEF Yes, No
      <3>7. ReplyKnows'
        BY <1>3, <3>1, <3>4, <3>6 DEF ReplyKnows
      <3>8. AnswersRight'
        BY <1>3, <1>4, <2>2 DEF StartInv, AnswersRight
      <3> QED  BY <3>7, <3>8
    <2> QED  BY <2>1, <2>2
  <1> QED  BY <1>3, <1>6, <1>7, <1>8 DEF StartInv

\* A call that goes on with its loop.
LEMMA LoopKeeps ==
    ASSUME StartInv, active # << >>, NEW m \in 1..(Len(edges[Now.child]) + 1),
           active' = [active EXCEPT ![Len(active)].loop = m],
           initialized, Now.child # Now.ancestor, memo'[Now.child] # NoMap,
           \A j \in 1..(m - 1) : ~Below(edges[Now.child][j], Now.ancestor),
           reply' = None, MemoGrows, MemoCorrect',
           UNCHANGED <<vars, turn, num_types, made, parents, initialized, answer>>
    PROVE  StartInv'
  <1> DEFINE n == Len(active)
  <1>1. /\ active \in Seq(Frames) /\ n \in Nat \ {0} /\ n \in 1..n /\ Now = active[n]
        /\ Now \in Frames /\ Knows(Now) /\ Len(edges[Now.child]) \in Nat
        /\ turn > Len(sorted) + 1
    BY InProgress
  <1>2. PICK f : f = [Now EXCEPT !.loop = m]
    OBVIOUS
  <1>3. /\ f \in Frames /\ f.child = Now.child /\ f.ancestor = Now.ancestor /\ f.loop = m
        /\ m # Entering
    BY <1>1, <1>2 DEF Frames, Entering
  <1>4. /\ active' \in Seq(Frames) /\ Len(active') = n /\ active'[n] = f /\ active' # << >>
        /\ \A k \in 1..n : k # n => active'[k] = active[k]
    BY <1>1, <1>2, <1>3
  <1>5. /\ Hierarchy' /\ UNCHANGED <<sorted, edges, decls, phase, bad>>
        /\ \A c, a : Below(c, a)' <=> Below(c, a)
        /\ NotStarted' /\ Started' /\ TypesMade'
    BY CallLeaves
  <1>6. StartTypeOK'
    BY <1>4 DEF StartInv, StartTypeOK, MemoGrows, MemoTable, Frames
  <1>7. Knows(f)'
    BY <1>1, <1>3, <1>5 DEF Knows
  <1>8. CallsKnow'
    <2>1. ASSUME NEW k \in 1..Len(active')
          PROVE  Knows(active[k])'
      <3>1. CASE k = n
        BY <1>4, <1>7, <3>1
      <3>2. CASE k # n
        <4>1. active'[k] = active[k] /\ Knows(active[k])
          BY <1>4, <2>1, <3>2 DEF StartInv, CallsKnow
        <4> QED  BY <1>5, <4>1 DEF Knows, MemoGrows
      <3> QED  BY <3>1, <3>2
    <2>2. ASSUME NEW k \in 1..Len(active'), k < Len(active')
          PROVE  CalledBy(k)'
      <3>1. k \in 1..n /\ k # n /\ k < n /\ k + 1 \in 1..n
        BY <1>1, <1>4, <2>2
      <3>2. CalledBy(k) /\ active'[k] = active[k]
        BY <1>4, <3>1 DEF StartInv, CallsKnow
      <3>3. active'[k + 1].child = active[k + 1].child /\ active'[k + 1].ancestor = active[k + 1].ancestor
        BY <1>1, <1>3, <1>4, <3>1
      <3> QED  BY <1>5, <3>2, <3>3 DEF CalledBy
    <2>3. turn' > Len(sorted') + 1
      BY <1>1, <1>5
    <2> QED  BY <2>1, <2>2, <2>3 DEF CallsKnow
  <1>9. ReplyKnows' /\ AnswersRight'
    BY <1>5 DEF StartInv, ReplyKnows, AnswersRight
  <1> QED  BY <1>5, <1>6, <1>8, <1>9 DEF StartInv

LEMMA FoundKeeps ==
    ASSUME StartInv, InLoop, NEW b \in BOOLEAN, b <=> Below(Now.child, Now.ancestor), Found(b)
    PROVE  StartInv'
  <1> DEFINE c == Now.child
  <1> DEFINE a == Now.ancestor
  <1>1. active # << >> /\ Now.loop # Entering
    BY DEF InLoop
  <1>2. c \in Types /\ a \in Types /\ made = Types /\ Knows(Now)
    BY <1>1, InProgress
  <1>3. memo[c] # NoMap /\ initialized
    BY <1>1, <1>2 DEF Knows
  <1>4. /\ memo' = [memo EXCEPT ![c][a] = IF b THEN 1 ELSE 0 - 1] /\ Return(b)
        /\ UNCHANGED <<vars, turn, num_types, made, parents, initialized>>
    BY DEF Found
  <1>5. memo \in [Types -> {NoMap} \union MemoTable] /\ a \in 0..NumTypes
    BY <1>2, HierarchyAssumption DEF StartInv, StartTypeOK, MemoTable, Types
  <1>6. memo[c] \in MemoTable
    BY <1>2, <1>3, <1>5
  <1> HIDE DEF c, a
  <1>7. PICK table : table = [memo[c] EXCEPT ![a] = IF b THEN 1 ELSE 0 - 1]
    OBVIOUS
  <1>8. /\ table \in MemoTable /\ table[a] = (IF b THEN 1 ELSE 0 - 1)
        /\ \A x \in 0..NumTypes : x # a => table[x] = memo[c][x]
    BY <1>5, <1>6, <1>7 DEF MemoTable
  <1>9. memo' = [memo EXCEPT ![c] = table]
    BY <1>4, <1>7
  <1>10. /\ memo' \in [Types -> {NoMap} \union MemoTable] /\ memo'[c] = table
         /\ \A u \in Types : u # c => memo'[u] = memo[u]
    BY <1>2, <1>5, <1>8, <1>9
  <1>11. table # NoMap
    <2>1. DOMAIN table = 0..NumTypes /\ 0 \in 0..NumTypes
      BY <1>8, HierarchyAssumption DEF MemoTable
    <2>2. 0 \notin DOMAIN NoMap
      BY DEF NoMap
    <2> QED  BY <2>1, <2>2
  <1>12. MemoGrows
    BY <1>10, <1>11 DEF MemoGrows
  <1>13. \A u, x : Below(u, x)' <=> Below(u, x)
    BY <1>1, <1>4, CallLeaves
  <1>14. b <=> Below(c, a)
    BY DEF c, a
  <1>15. MemoCorrect'
    <2> SUFFICES ASSUME NEW u \in Types, memo'[u] # NoMap, NEW x \in Types
                 PROVE  /\ memo'[u][x] = 1 => Below(u, x)
                        /\ memo'[u][x] = 0 - 1 => ~Below(u, x)
      BY <1>2, <1>4, <1>13 DEF MemoCorrect
    <2>1. x \in 0..NumTypes
      BY HierarchyAssumption DEF Types
    <2>2. CASE u = c /\ x = a
      BY <1>8, <1>10, <1>14, <2>2
    <2>3. CASE u = c /\ x # a
      <3>1. memo'[u][x] = memo[c][x]
        BY <1>8, <1>10, <2>1, <2>3
      <3> QED  BY <1>2, <1>3, <2>3, <3>1 DEF StartInv, MemoCorrect
    <2>4. CASE u # c
      BY <1>2, <1>10, <2>4 DEF StartInv, MemoCorrect
    <2> QED  BY <2>2, <2>3, <2>4
  <1> QED  BY <1>1, <1>4, <1>12, <1>15, ReturnKeeps

\* A step that leaves the memo tables alone.
LEMMA MemoStays ==
    ASSUME StartInv, active # << >>, memo' = memo,
           UNCHANGED <<vars, turn, num_types, made, parents, initialized>>
    PROVE  MemoGrows /\ MemoCorrect'
  <1>1. \A c, a : Below(c, a)' <=> Below(c, a)
    BY CallLeaves
  <1> QED  BY <1>1 DEF StartInv, StartTypeOK, MemoGrows, MemoTable, MemoCorrect

LEMMA AnswerAtOnceKeeps ==
    ASSUME StartInv, AnswerAtOnce
    PROVE  StartInv'
  <1>1. /\ active # << >> /\ Return(TRUE) /\ memo' = memo
        /\ ~initialized \/ Now.child = Now.ancestor
        /\ UNCHANGED <<vars, turn, num_types, made, parents, initialized>>
    BY DEF AnswerAtOnce, Entered
  <1>2. initialized => Below(Now.child, Now.ancestor)
    BY <1>1, InProgress, BelowItself
  <1>3. MemoGrows /\ MemoCorrect'
    BY <1>1, MemoStays
  <1> QED  BY <1>1, <1>2, <1>3, ReturnKeeps

LEMMA LookupKeeps ==
    ASSUME StartInv, Lookup
    PROVE  StartInv'
  <1> DEFINE c == Now.child
  <1> DEFINE a == Now.ancestor
  <1> DEFINE zeros == [t \in 0..(num_types - 1) |-> 0]
  <1>1. /\ active # << >> /\ Now.loop = Entering /\ initialized /\ c # a
        /\ memo' = IF memo[c] = NoMap THEN [memo EXCEPT ![c] = zeros] ELSE memo
        /\ IF Memoised(c, a) # 0 THEN Return(Memoised(c, a) = 1)
           ELSE active' = [active EXCEPT ![Len(active)].loop = 1] /\ UNCHANGED <<reply, answer>>
        /\ UNCHANGED <<vars, turn, num_types, made, parents, initialized>>
    BY DEF Lookup, Searching, Entered, Remembered
  <1>2. /\ c \in Types /\ a \in Types /\ made = Types /\ num_types = NumTypes + 1
        /\ Len(edges[c]) \in Nat
    BY <1>1, InProgress
  <1>3. NumTypes \in Nat /\ Types \subseteq 0..NumTypes /\ 0 \in 0..NumTypes
    BY HierarchyAssumption DEF Types
  <1>4. zeros \in MemoTable /\ \A x \in 0..NumTypes : zeros[x] = 0
    <2>1. 0..(num_types - 1) = 0..NumTypes
      BY <1>2, <1>3
    <2> QED  BY <2>1 DEF MemoTable
  <1>5. memo \in [Types -> {NoMap} \union MemoTable]
    BY DEF StartInv, StartTypeOK, MemoTable
  <1> HIDE DEF zeros, c, a
  <1>6. zeros # NoMap
    <2>1. DOMAIN zeros = 0..NumTypes
      BY <1>4 DEF MemoTable
    <2>2. 0 \notin DOMAIN NoMap
      BY DEF NoMap
    <2> QED  BY <1>3, <2>1, <2>2
  <1>7. /\ memo' \in [Types -> {NoMap} \union MemoTable] /\ memo'[c] # NoMap
        /\ \A u \in Types : memo'[u] = memo[u] \/ (u = c /\ memo'[u] = zeros /\ memo[u] = NoMap)
    <2>1. CASE memo[c] = NoMap
      BY <1>1, <1>2, <1>4, <1>5, <1>6, <2>1
    <2>2. CASE memo[c] # NoMap
      BY <1>1, <1>5, <2>2
    <2> QED  BY <2>1, <2>2
  <1>8. MemoGrows
    BY <1>6, <1>7 DEF MemoGrows
  <1>9. MemoCorrect'
    <2>1. \A u, x : Below(u, x)' <=> Below(u, x)
      BY <1>1, CallLeaves
    <2> SUFFICES ASSUME NEW u \in Types, memo'[u] # NoMap, NEW x \in Types
                 PROVE  /\ memo'[u][x] = 1 => Below(u, x)
                        /\ memo'[u][x] = 0 - 1 => ~Below(u, x)
      BY <1>1, <1>2, <2>1 DEF MemoCorrect
    <2>2. CASE memo'[u] = memo[u]
      BY <1>2, <2>2 DEF StartInv, MemoCorrect
    <2>3. CASE memo'[u] = zeros
      <3>1. memo'[u][x] = 0
        BY <1>3, <1>4, <2>3
      <3> QED  BY <3>1
    <2> QED  BY <1>7, <2>2, <2>3
  <1>10. CASE Memoised(c, a) # 0
    <2>1. memo[c] # NoMap /\ Memoised(c, a) = memo[c][a]
      BY <1>10 DEF Memoised
    <2>2. memo[c] \in MemoTable /\ a \in 0..NumTypes
      BY <1>2, <1>3, <1>5, <2>1
    <2>3. memo[c][a] = 1 \/ memo[c][a] = 0 - 1
      BY <1>10, <2>1, <2>2 DEF MemoTable
    <2>4. (Memoised(c, a) = 1) <=> Below(c, a)
      BY <1>2, <2>1, <2>3 DEF StartInv, MemoCorrect
    <2>5. PICK b \in BOOLEAN : b = (Memoised(c, a) = 1)
      OBVIOUS
    <2>6. Return(b) /\ (b <=> Below(Now.child, Now.ancestor))
      BY <1>1, <1>10, <2>4, <2>5 DEF c, a
    <2> QED  BY <1>1, <1>8, <1>9, <2>6, ReturnKeeps
  <1>11. CASE Memoised(c, a) = 0
    <2>1. 1 \in 1..(Len(edges[Now.child]) + 1) /\ \A j \in 1..(1 - 1) : FALSE
      BY <1>2 DEF c
    <2>2. reply = None
      <3>1. ~(Now.loop \in 1..Len(edges[Now.child]))
        BY <1>1 DEF Entering
      <3> QED  BY <3>1 DEF StartInv, ReplyKnows
    <2>3. Now.child # Now.ancestor /\ memo'[Now.child] # NoMap
      BY <1>1, <1>7 DEF c, a
    <2>4. /\ active' = [active EXCEPT ![Len(active)].loop = 1] /\ reply' = None
          /\ UNCHANGED <<vars, turn, num_types, made, parents, initialized, answer>>
      BY <1>1, <1>11, <2>2
    <2> QED  BY <1>1, <1>8, <1>9, <2>1, <2>3, <2>4, LoopKeeps
  <1> QED  BY <1>10, <1>11

LEMMA NoMoreParentsKeeps ==
    ASSUME StartInv, NoMoreParents
    PROVE  StartInv'
  <1>1. InLoop /\ active # << >> /\ Now.loop # Entering /\ Now.loop > Len(parents[Now.child])
        /\ Found(FALSE)
    BY DEF NoMoreParents, InLoop
  <1>2. /\ Now.child \in Types /\ Now.ancestor \in Types /\ Knows(Now) /\ Now.loop \in Nat
        /\ ParentsOf(Now.child) \subseteq Types /\ Len(edges[Now.child]) \in Nat
        /\ parents[Now.child] = edges[Now.child] /\ edges[Now.child] \in Seq(Types)
    BY <1>1, InProgress
  <1>3. \A j \in 1..Len(edges[Now.child]) : ~Below(edges[Now.child][j], Now.ancestor)
    <2>1. \A j \in 1..Len(edges[Now.child]) : j \in 1..(Now.loop - 1)
      BY <1>1, <1>2
    <2> QED  BY <1>1, <1>2, <2>1 DEF Knows
  <1>4. \A p \in ParentsOf(Now.child) : ~Below(p, Now.ancestor)
    BY <1>2, <1>3 DEF ParentsOf
  <1>5. ~Below(Now.child, Now.ancestor)
    <2>1. Now.child # Now.ancestor
      BY <1>1, <1>2 DEF Knows
    <2> QED  BY <1>2, <1>4, <2>1, NotBelowByParents
  <1> QED  BY <1>1, <1>5, FoundKeeps

LEMMA ParentIsAncestorKeeps ==
    ASSUME StartInv, ParentIsAncestor
    PROVE  StartInv'
  <1>1. /\ InLoop /\ active # << >> /\ Now.loop # Entering
        /\ Now.loop <= Len(parents[Now.child]) /\ parents[Now.child][Now.loop] = Now.ancestor
        /\ Found(TRUE)
    BY DEF ParentIsAncestor, InLoop
  <1>2. /\ Now.child \in Types /\ Now.ancestor \in Types /\ Now.loop \in Nat
        /\ Now.loop \in 1..Len(edges[Now.child])
        /\ \A i \in 1..Len(edges[Now.child]) : edges[Now.child][i] \in ParentsOf(Now.child)
        /\ parents[Now.child] = edges[Now.child]
    BY <1>1, InProgress DEF Entering
  <1>3. Below(Now.ancestor, Now.ancestor) /\ Now.ancestor \in ParentsOf(Now.child)
    BY <1>1, <1>2, BelowItself
  <1>4. Below(Now.child, Now.ancestor)
    BY <1>2, <1>3, BelowByParent
  <1> QED  BY <1>1, <1>4, FoundKeeps

LEMMA AskParentKeeps ==
    ASSUME StartInv, AskParent
    PROVE  StartInv'
  <1> DEFINE n == Len(active)
  <1>1. /\ active # << >> /\ Now.loop # Entering /\ reply = None
        /\ Now.loop <= Len(parents[Now.child])
        /\ active' = Append(active, Frame(parents[Now.child][Now.loop], Now.ancestor))
        /\ UNCHANGED <<vars, turn, num_types, made, parents, initialized, memo, reply, answer>>
    BY DEF AskParent, InLoop
  <1>2. /\ active \in Seq(Frames) /\ n \in Nat \ {0} /\ Now = active[n]
        /\ Now.ancestor \in Types /\ Now.loop \in 1..Len(edges[Now.child])
        /\ edges[Now.child][Now.loop] \in Types /\ parents[Now.child] = edges[Now.child]
        /\ turn > Len(sorted) + 1
    BY <1>1, InProgress DEF Entering
  <1>3. PICK f : f = Frame(edges[Now.child][Now.loop], Now.ancestor)
    OBVIOUS
  <1>4. /\ f \in Frames /\ f.child = edges[Now.child][Now.loop] /\ f.ancestor = Now.ancestor
        /\ f.loop = Entering
    BY <1>2, <1>3 DEF Frames, Frame, Entering
  <1>5. /\ active' \in Seq(Frames) /\ Len(active') = n + 1 /\ active'[n + 1] = f
        /\ active' # << >> /\ \A k \in 1..n : active'[k] = active[k]
    BY <1>1, <1>2, <1>3, <1>4
  <1>6. /\ Hierarchy' /\ UNCHANGED <<sorted, edges, decls, phase, bad>>
        /\ \A c, a : Below(c, a)' <=> Below(c, a)
        /\ NotStarted' /\ Started' /\ TypesMade'
    BY <1>1, CallLeaves
  <1>7. StartTypeOK'
    BY <1>1, <1>5 DEF StartInv, StartTypeOK, Frames
  <1>8. Knows(f)'
    <2>1. Len(edges[f.child]) \in Nat
      BY <1>2, <1>4, AllMade
    <2> QED  BY <1>2, <1>4, <1>6, <2>1 DEF Knows, Entering
  <1>9. CallsKnow'
    <2>1. ASSUME NEW k \in 1..Len(active')
          PROVE  Knows(active[k])'
      <3>1. CASE k = n + 1
        BY <1>5, <1>8, <3>1
      <3>2. CASE k # n + 1
        <4>1. k \in 1..n
          BY <1>2, <1>5, <2>1, <3>2
        <4>2. active'[k] = active[k] /\ Knows(active[k])
          BY <1>5, <4>1 DEF StartInv, CallsKnow
        <4> QED  BY <1>1, <1>6, <4>2 DEF Knows
      <3> QED  BY <3>1, <3>2
    <2>2. ASSUME NEW k \in 1..Len(active'), k < Len(active')
          PROVE  CalledBy(k)'
      <3>1. k \in 1..n /\ active'[k] = active[k]
        BY <1>2, <1>5, <2>2
      <3>2. CASE k = n
        BY <1>2, <1>4, <1>5, <1>6, <3>1, <3>2 DEF CalledBy
      <3>3. CASE k # n
        <4>1. k < n /\ k + 1 \in 1..n
          BY <1>2, <3>1, <3>3
        <4>2. CalledBy(k) /\ active'[k + 1] = active[k + 1]
          BY <1>5, <3>1, <4>1 DEF StartInv, CallsKnow
        <4> QED  BY <1>6, <3>1, <4>2 DEF CalledBy
      <3> QED  BY <3>2, <3>3
    <2>3. turn' > Len(sorted') + 1
      BY <1>1, <1>2, <1>6
    <2> QED  BY <2>1, <2>2, <2>3 DEF CallsKnow
  <1>10. ReplyKnows' /\ MemoCorrect' /\ AnswersRight'
    BY <1>1, <1>6 DEF StartInv, ReplyKnows, MemoCorrect, AnswersRight
  <1> QED  BY <1>6, <1>7, <1>9, <1>10 DEF StartInv

LEMMA ParentIsBelowKeeps ==
    ASSUME StartInv, ParentIsBelow
    PROVE  StartInv'
  <1>1. InLoop /\ active # << >> /\ reply = Yes /\ Found(TRUE)
    BY DEF ParentIsBelow, InLoop
  <1>2. /\ Now.loop \in 1..Len(edges[Now.child])
        /\ Below(edges[Now.child][Now.loop], Now.ancestor)
    BY <1>1 DEF StartInv, ReplyKnows, Yes, None
  <1>3. Below(Now.child, Now.ancestor)
    BY <1>1, <1>2, InProgress, BelowByParent
  <1> QED  BY <1>1, <1>3, FoundKeeps

LEMMA ParentIsNotBelowKeeps ==
    ASSUME StartInv, ParentIsNotBelow
    PROVE  StartInv'
  <1> DEFINE m == Now.loop + 1
  <1>1. /\ active # << >> /\ Now.loop # Entering /\ reply = No /\ reply' = None
        /\ active' = [active EXCEPT ![Len(active)].loop = @ + 1]
        /\ UNCHANGED <<vars, turn, num_types, made, parents, initialized, memo, answer>>
    BY DEF ParentIsNotBelow, InLoop
  <1>2. /\ active \in Seq(Frames) /\ Len(active) \in 1..Len(active) /\ Now = active[Len(active)]
        /\ Knows(Now) /\ Now.loop \in Nat /\ Len(edges[Now.child]) \in Nat
    BY <1>1, InProgress
  <1>3. /\ Now.loop \in 1..Len(edges[Now.child])
        /\ ~Below(edges[Now.child][Now.loop], Now.ancestor)
    BY <1>1 DEF StartInv, ReplyKnows, Yes, No, None
  <1>4. active' = [active EXCEPT ![Len(active)].loop = m]
    BY <1>1, <1>2
  <1>5. m \in 1..(Len(edges[Now.child]) + 1)
    BY <1>2, <1>3
  <1>6. \A j \in 1..(m - 1) : ~Below(edges[Now.child][j], Now.ancestor)
    <2>1. \A j \in 1..(m - 1) : j \in 1..(Now.loop - 1) \/ j = Now.loop
      BY <1>2
    <2> QED  BY <1>1, <1>2, <1>3, <2>1 DEF Knows
  <1>7. initialized /\ Now.child # Now.ancestor /\ memo'[Now.child] # NoMap
    BY <1>1, <1>2 DEF Knows
  <1>8. MemoGrows /\ MemoCorrect'
    BY <1>1, MemoStays
  <1> HIDE DEF m
  <1> QED  BY <1>1, <1>4, <1>5, <1>6, <1>7, <1>8, LoopKeeps

LEMMA StartStepsKeep ==
    ASSUME StartInv, [StartNext]_allVars
    PROVE  StartInv'
  <1>1. CASE UNCHANGED allVars
    <2>1. /\ UNCHANGED vars
          /\ UNCHANGED <<turn, num_types, made, parents, initialized, memo, active, reply, answer>>
      BY <1>1 DEF allVars, rtVars
    <2>2. Hierarchy' /\ UNCHANGED <<sorted, edges, decls, phase, bad>>
          /\ \A c, a : Below(c, a)' <=> Below(c, a)
      BY <2>1, GraphStays DEF StartInv
    <2>3. StartTypeOK'
      BY <2>1 DEF StartInv, StartTypeOK
    <2>4. NotStarted' /\ Started' /\ TypesMade'
      BY <2>1, <2>2 DEF StartInv, NotStarted, Started, TypesMade
    <2>5. CallsKnow'
      BY <2>1, <2>2 DEF StartInv, CallsKnow, Knows, CalledBy
    <2>6. ReplyKnows' /\ MemoCorrect' /\ AnswersRight'
      BY <2>1, <2>2 DEF StartInv, ReplyKnows, Now, MemoCorrect, AnswersRight
    <2> QED  BY <2>2, <2>3, <2>4, <2>5, <2>6 DEF StartInv
  <1>2. CASE StartNext
    <2>1. CASE InstanceOf
      BY <2>1, AnswerAtOnceKeeps, LookupKeeps, NoMoreParentsKeeps, ParentIsAncestorKeeps,
         AskParentKeeps, ParentIsBelowKeeps, ParentIsNotBelowKeeps DEF InstanceOf
    <2> QED  BY <1>2, <2>1, CompilingKeeps, LaunchKeeps, InitTypeKeeps, InitStaticsKeeps,
                CallTestKeeps, AskKeeps DEF StartNext
  <1> QED  BY <1>1, <1>2

LEMMA StartInvHolds == StartSpec => []StartInv
  BY StartHolds, StartStepsKeep, PTL DEF StartSpec

-----------------------------------------------------------------------------
(* The theorems.                                                           *)

\* Every value of the start of a program and of InstanceOf has its type; in
\* particular every memo table has an entry for every type id.
THEOREM StartTypeCorrect == StartSpec => []StartTypeOK
  BY StartInvHolds, PTL DEF StartInv

\* Whatever the program and its questions, InstanceOf never meets a parent whose
\* TypeInfo was not made, nor an id outside of a memo table.
THEOREM InstanceOfNeverThrows == StartSpec => []NeverThrows
  <1>1. StartInv => NeverThrows
    <2> SUFFICES ASSUME StartInv, Searching
                 PROVE  Now.child \in made /\ Now.ancestor \in made /\ Now.ancestor < num_types
      BY DEF NeverThrows
    <2>1. active # << >>
      BY DEF Searching, Entered
    <2>2. Now.child \in Types /\ Now.ancestor \in Types /\ made = Types /\ num_types = NumTypes + 1
      BY <2>1, InProgress
    <2> QED  BY <2>2, HierarchyAssumption DEF Types
  <1> QED  BY <1>1, StartInvHolds, PTL

\* Whatever was asked before, what InstanceOf has memoised is the hierarchy's.
THEOREM MemoIsCorrect == StartSpec => []MemoCorrect
  BY StartInvHolds, PTL DEF StartInv

\* Every class but System and Object gets the hierarchy's answers.
THEOREM AnswersAreRight == StartSpec => []AnswersRight
  BY StartInvHolds, PTL DEF StartInv
=============================================================================
