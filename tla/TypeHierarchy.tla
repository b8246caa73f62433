---------------------------- MODULE TypeHierarchy ----------------------------
(***************************************************************************)
(* The class hierarchy (TypeInfoMapBuilder, src/types/type_info_map.cpp).  *)
(*                                                                         *)
(* The declared types extend and implement each other in any way a program *)
(* can write.  PruneInvalidGraphEdges blacklists the types with a parent   *)
(* of the wrong kind or named twice, IntroduceImplicitGraphEdges makes     *)
(* Object the parent of those that extend nothing, and VerifyAcyclicGraph  *)
(* blacklists every type on a cycle or below a blacklisted one and puts    *)
(* the others in a topological order.  That order is what the tables of    *)
(* members, the object layouts and the start of the program follow.        *)
(*                                                                         *)
(* The search is recursive; path holds its active calls.                   *)
(***************************************************************************)
EXTENDS Naturals, Sequences

CONSTANTS
    NumTypes,  \* how many types the files declare
    Object,
    TypeInfo,  \* the class of the run-time library whose objects stand for types
    Programs   \* the declarations of a program: Types -> Declaration

\* Type ids are given in the order of the files.
Types == 1..NumTypes
Declaration == [kind : {"class", "interface"}, extends : Seq(Types), implements : Seq(Types)]

\* Nothing precedes the run-time library's TypeInfo; neither it nor Object names
\* a parent.
ASSUME HierarchyAssumption ==
    /\ NumTypes \in Nat /\ TypeInfo = 1 /\ Object \in Types \ {TypeInfo}
    /\ \A d \in Programs : d \in [Types -> Declaration]
    /\ \A d \in Programs : \A t \in {Object, TypeInfo} :
          d[t] = [kind |-> "class", extends |-> << >>, implements |-> << >>]

VARIABLES
    decls,   \* the program's declarations
    phase,   \* prune, search, done
    next,    \* where the loop over the types is
    bad,     \* bad_types: the blacklisted types
    pruned,  \* those of them an error of PruneInvalidGraphEdges names
    edges,   \* the parents of every type that was not blacklisted at first
    cycles,  \* the cycles reported
    good,    \* the types known to be sound
    sorted,  \* the same, in topological order
    path,    \* the calls of fn in progress: the type, and how many edges are done
    failing  \* fn has just returned false

vars == <<decls, phase, next, bad, pruned, edges, cycles, good, sorted, path, failing>>

Init ==
    /\ decls \in Programs
    /\ phase = "prune"
    /\ next = 1
    /\ bad = {} /\ pruned = {} /\ cycles = {} /\ good = {}
    /\ edges = [t \in Types |-> << >>]
    /\ sorted = << >>
    /\ path = << >>
    /\ failing = FALSE

-----------------------------------------------------------------------------
(* PruneInvalidGraphEdges.                                                 *)

Repeated(list, skipped) ==
    \E i, j \in DOMAIN list : i < j /\ list[i] = list[j] /\ list[i] \notin skipped
SomeAre(kind, list, skipped) ==
    \E i \in DOMAIN list : decls[list[i]].kind = kind /\ list[i] \notin skipped

\* A class's bad interfaces are passed over, those found bad so far.
Invalid(t) ==
    IF decls[t].kind = "interface"
    THEN SomeAre("class", decls[t].extends, {}) \/ Repeated(decls[t].extends, {})
    ELSE \/ SomeAre("interface", decls[t].extends, {})
         \/ SomeAre("class", decls[t].implements, bad)
         \/ Repeated(decls[t].implements, bad)

Prune ==
    /\ phase = "prune" /\ next \in Types
    /\ next' = next + 1
    /\ LET new == IF Invalid(next) THEN {next} ELSE {}
       IN  bad' = bad \union new /\ pruned' = pruned \union new
    /\ UNCHANGED <<decls, phase, edges, cycles, good, sorted, path, failing>>

\* IntroduceImplicitGraphEdges, and the edges of the combined graph.
Parents(t) ==
    IF t \in bad THEN << >>
    ELSE (IF decls[t].extends = << >> /\ t # Object THEN << Object >> ELSE decls[t].extends)
         \o decls[t].implements

BuildGraph ==
    /\ phase = "prune" /\ next \notin Types
    /\ phase' = "search"
    /\ next' = 1
    /\ edges' = [t \in Types |-> Parents(t)]
    /\ UNCHANGED <<decls, bad, pruned, cycles, good, sorted, path, failing>>

-----------------------------------------------------------------------------
(* VerifyAcyclicGraph.                                                     *)

Top == path[Len(path)]
Open == {path[i].tid : i \in DOMAIN path}
Call(t) == [tid |-> t, cur |-> 0]
Caller == SubSeq(path, 1, Len(path) - 1)

\* The caller of a good type goes on to its next edge.
Advanced(p) ==
    IF p = << >> THEN p ELSE [p EXCEPT ![Len(p)].cur = @ + 1]

\* The loop over the edges: fn does nothing for a type that is known, and a type
\* without edges is not met here.
Known(t) == t \in good \union bad \/ edges[t] = << >>

Start ==
    /\ phase = "search" /\ path = << >> /\ next \in Types
    /\ IF Known(next) THEN next' = next + 1 /\ UNCHANGED path
       ELSE path' = << Call(next) >> /\ UNCHANGED next
    /\ UNCHANGED <<decls, phase, bad, pruned, edges, cycles, good, sorted, failing>>

Finish ==
    /\ phase = "search" /\ path = << >> /\ next \notin Types
    /\ phase' = "done"
    /\ UNCHANGED <<decls, next, bad, pruned, edges, cycles, good, sorted, path, failing>>

AtEdge ==
    /\ phase = "search" /\ path # << >> /\ ~failing
    /\ Top.cur < Len(edges[Top.tid])
Parent == edges[Top.tid][Top.cur + 1]

ParentBad ==
    /\ AtEdge /\ Parent \in bad
    /\ failing' = TRUE
    /\ UNCHANGED <<decls, phase, next, bad, pruned, edges, cycles, good, sorted, path>>

ParentGood ==
    /\ AtEdge /\ Parent \in good \ bad
    /\ path' = Advanced(path)
    /\ UNCHANGED <<decls, phase, next, bad, pruned, edges, cycles, good, sorted, failing>>

\* The calls from the first one of the parent on are a cycle.
CycleFrom(t) ==
    LET start == CHOOSE i \in DOMAIN path : path[i].tid = t
    IN  [i \in 1..(Len(path) - start + 1) |-> path[start + i - 1].tid] \o << t >>

\* Mutant: the cycle is not reported.
CycleNotReported ==
    /\ AtEdge /\ Parent \in Open \ (bad \union good)
    /\ bad' = bad \union {Parent}
    /\ failing' = TRUE
    /\ UNCHANGED <<decls, phase, next, pruned, edges, cycles, good, sorted, path>>

ParentOpen ==
    /\ AtEdge /\ Parent \in Open \ (bad \union good)
    /\ cycles' = cycles \union {CycleFrom(Parent)}
    /\ bad' = bad \union {Parent}
    /\ failing' = TRUE
    /\ UNCHANGED <<decls, phase, next, pruned, edges, good, sorted, path>>

\* Mutant: a type is put in the order before its parents, when it is met.
NewSortedFirst ==
    /\ AtEdge /\ Parent \notin bad \union good \union Open
    /\ path' = Append(path, Call(Parent))
    /\ sorted' = Append(sorted, Parent)
    /\ UNCHANGED <<decls, phase, next, bad, pruned, edges, cycles, good, failing>>

ParentNew ==
    /\ AtEdge /\ Parent \notin bad \union good \union Open
    /\ path' = Append(path, Call(Parent))
    /\ UNCHANGED <<decls, phase, next, bad, pruned, edges, cycles, good, sorted, failing>>

\* Mutant: the caller of a bad type goes on to its next edge.
FailOnlyHere ==
    /\ phase = "search" /\ failing
    /\ bad' = bad \union {Top.tid}
    /\ path' = Advanced(Caller)
    /\ failing' = FALSE
    /\ UNCHANGED <<decls, phase, next, pruned, edges, cycles, good, sorted>>

\* Mutant: ok is shared by the calls, and never set again.
FailOnward ==
    /\ phase = "search" /\ failing
    /\ bad' = bad \union {Top.tid}
    /\ path' = Caller
    /\ UNCHANGED <<decls, phase, next, pruned, edges, cycles, good, sorted, failing>>

\* Mutant: a bad type stays on the path.
FailStaysOpen ==
    /\ phase = "search" /\ failing
    /\ bad' = bad \union {Top.tid}
    /\ failing' = (Caller # << >>)
    /\ UNCHANGED <<decls, phase, next, pruned, edges, cycles, good, sorted, path>>

\* fn returns false, for its caller to do the same.
Fail ==
    /\ phase = "search" /\ failing
    /\ bad' = bad \union {Top.tid}
    /\ path' = Caller
    /\ failing' = (Caller # << >>)
    /\ UNCHANGED <<decls, phase, next, pruned, edges, cycles, good, sorted>>

Succeed ==
    /\ phase = "search" /\ path # << >> /\ ~failing
    /\ Top.cur = Len(edges[Top.tid])
    /\ good' = good \union {Top.tid}
    /\ sorted' = Append(sorted, Top.tid)
    /\ path' = Advanced(Caller)
    /\ UNCHANGED <<decls, phase, next, bad, pruned, edges, cycles, failing>>

Next ==
    \/ Prune \/ BuildGraph
    \/ Start \/ Finish
    \/ ParentBad \/ ParentGood \/ ParentOpen \/ ParentNew
    \/ Fail \/ Succeed

Spec == Init /\ [][Next]_vars /\ WF_vars(Next)

-----------------------------------------------------------------------------
(* Correctness.                                                            *)

TypeOK ==
    /\ decls \in [Types -> Declaration]
    /\ phase \in {"prune", "search", "done"}
    /\ next \in 1..(NumTypes + 1)
    /\ bad \subseteq Types /\ pruned \subseteq Types /\ good \subseteq Types
    /\ edges \in [Types -> Seq(Types)]
    /\ \A c \in cycles : c \in Seq(Types)
    /\ sorted \in Seq(Types)
    /\ path \in Seq([tid : Types, cur : Nat])
    /\ failing \in BOOLEAN
    /\ failing => path # << >>

ParentsOf(t) == {edges[t][i] : i \in DOMAIN edges[t]}

\* The types above c, itself among them.
Upward(S) == \A t \in S : ParentsOf(t) \subseteq S
Below(c, a) == \A S \in SUBSET Types : c \in S /\ Upward(S) => a \in S

\* Whatever order the types are met in, every type in the order comes after all
\* the types it extends and implements, and is there once.  (The comment on
\* TypeInfo::top_sort_index; the tables of members, the layouts and the type
\* initialisers of the program are built in this order, each from its parents'.)
TopSorted ==
    /\ good = {sorted[i] : i \in DOMAIN sorted}
    /\ \A i, j \in DOMAIN sorted : sorted[i] = sorted[j] => i = j
    /\ \A i \in DOMAIN sorted : \A p \in ParentsOf(sorted[i]) :
          \E j \in 1..(i - 1) : sorted[j] = p

\* The types whose ancestors can be built bottom up: none was blacklisted at
\* first, and none is above itself.
Closed(S) == \A t \in Types \ pruned : ParentsOf(t) \subseteq S => t \in S
Sound == {t \in Types : \A S \in SUBSET Types : Closed(S) => t \in S}

\* The search blacklists exactly the types on a cycle or below a bad one, however
\* cycles overlap and whichever type it started from.
BadExact == phase = "done" => bad = Types \ Sound

\* Every blacklisted type is at or below one that an error names, pruned or on a
\* reported cycle, and every cycle reported is one of the program: no type is
\* lost without an error that explains it.
IsCycle(c) ==
    /\ Len(c) > 1 /\ c[1] = c[Len(c)]
    /\ \A i \in 1..(Len(c) - 1) : c[i + 1] \in ParentsOf(c[i])
Blamed == pruned \union UNION {{c[i] : i \in DOMAIN c} : c \in cycles}
ClosedBelow(S) == \A t \in Types : ParentsOf(t) \intersect S # {} => t \in S
BadExplained ==
    /\ \A c \in cycles : IsCycle(c)
    /\ \A S \in SUBSET Types : Blamed \subseteq S /\ ClosedBelow(S) => bad \subseteq S

\* Only Object comes before TypeInfo, so that no class's static initialiser but
\* those of Object and System runs while TypeInfo.initialized is still false.
TypeInfoEarly ==
    \A i, j \in DOMAIN sorted : sorted[j] = TypeInfo /\ i < j => sorted[i] = Object

\* The search ends, whatever the cycles.
Terminates == <>(phase = "done")
=============================================================================
