---------------------------- MODULE ObjectLayout ----------------------------
(***************************************************************************)
(* Object layouts and dispatch tables (OffsetTable,                        *)
(* src/backend/common/offset_table.cpp, and the tables and calls           *)
(* src/backend/i386/writer.cpp writes from it).                            *)
(*                                                                         *)
(* The module continues MemberTables for the programs without errors.      *)
(* Class by class in topological order, fields get offsets behind those of *)
(* the class above and methods a place in the vtable, that of the method   *)
(* they override if there is one.  The methods of interfaces have one      *)
(* place per signature, in the itables of all classes.                     *)
(***************************************************************************)
EXTENDS MemberTables

WordSize == 4                \* ptr_size
VtableOverhead == 2 * WordSize

VARIABLES
    stage,           \* tables, fields, methods, interfaces, done, threw
    place,           \* how many types the loop is done with
    type_sizes,      \* of the classes laid out
    field_offsets,   \* class -> its fields, in the order declared -> offset
    next_offset,     \* starting_offsets: where the vtables of classes end
    method_offsets,  \* method id -> offset and kind, for the methods laid out
    vtables,         \* class -> the methods, each its owner and id
    itables          \* class -> the same with offsets

\* The run-time library's Object has methods that are dispatched.
ASSUME LayoutAssumption ==
    \A b \in Bodies : \E m \in b[Object].methods : ~m.static /\ m.sig # Constructor

layoutVars == <<stage, place, type_sizes, field_offsets, next_offset, method_offsets,
                vtables, itables>>

LayoutInit ==
    /\ TablesInit
    /\ stage = "tables" /\ place = 0
    /\ type_sizes = [t \in Types |-> 0]
    /\ field_offsets = [t \in Types |-> << >>]
    /\ next_offset = [t \in Types |-> 0]
    /\ method_offsets = << >>
    /\ vtables = [t \in Types |-> {}]
    /\ itables = [t \in Types |-> {}]

TypeChecking == TablesNext /\ UNCHANGED layoutVars

IsClass(t) == decls[t].kind = "class"

\* main goes on to the back end if there are no errors.
StartLayout ==
    /\ stage = "tables" /\ Accepted
    /\ stage' = "fields"
    /\ UNCHANGED <<vars, tableVars, place, type_sizes, field_offsets, next_offset,
                   method_offsets, vtables, itables>>

\* OffsetTable::Build sorts the types; the loops skip interfaces.
InLoop(now) == stage = now /\ place < Len(sorted)
Current == sorted[place + 1]
AtClass(now) == InLoop(now) /\ IsClass(Current)

SkipInterface(now) ==
    /\ InLoop(now) /\ ~IsClass(Current)
    /\ place' = place + 1
    /\ UNCHANGED <<vars, tableVars, stage, type_sizes, field_offsets, next_offset,
                   method_offsets, vtables, itables>>

\* extends has one element, but for Object, which has none.
Extends(t) == edges[t][1]
Root(t) == edges[t] = << >>

EndLoop(now, then) ==
    /\ stage = now /\ place = Len(sorted)
    /\ stage' = then /\ place' = 0
    /\ UNCHANGED <<vars, tableVars, type_sizes, field_offsets, next_offset, method_offsets,
                   vtables, itables>>

-----------------------------------------------------------------------------
(* BuildTypeSizesAndFieldOffsets.                                          *)

ByteSizeFrom == << 1, 1, 2, 2, 4, 4 >>
SizeOf(t, i) == ByteSizeFrom[bodies[t].fields[i]]
Bytes(t, fields) ==
    LET Many(size) == Cardinality({i \in fields : SizeOf(t, i) = size})
    IN  Many(1) + 2 * Many(2) + 4 * Many(4)

\* Mutant: small fields first.
BeforeAscending(t, i) ==
    LET class == bodies[t].fields
    IN  {j \in DOMAIN class : class[j] < class[i] \/ (class[j] = class[i] /\ j < i)}

\* Large fields first, fields of the same class in the order declared.
Before(t, i) ==
    LET class == bodies[t].fields
    IN  {j \in DOMAIN class : class[j] > class[i] \/ (class[j] = class[i] /\ j < i)}

RoundUp(size) == IF size % WordSize = 0 THEN size ELSE size + WordSize - (size % WordSize)

ParentSize(t) == IF Root(t) THEN 0 ELSE type_sizes[Extends(t)]

LayFields ==
    /\ AtClass("fields")
    /\ LET t == Current
           fields == DOMAIN bodies[t].fields
       IN  /\ field_offsets' = [field_offsets EXCEPT ![t] =
                 [i \in fields |-> ParentSize(t) + Bytes(t, Before(t, i))]]
           /\ type_sizes' = [type_sizes EXCEPT ![t] = RoundUp(ParentSize(t) + Bytes(t, fields))]
    /\ place' = place + 1
    /\ UNCHANGED <<vars, tableVars, stage, next_offset, method_offsets, vtables, itables>>

FieldsLaid == EndLoop("fields", "methods")

-----------------------------------------------------------------------------
(* BuildClassMethodOffsets.                                                *)

Dispatched(t) == {m \in tables[t] : ~m.static /\ m.sig # Constructor}
OwnMethods(t) == {m \in Dispatched(t) : m.owner = t}

\* Mutant: overriding methods get places of their own, too.
AllNew(t) == OwnMethods(t)

NewMethods(t) == {m \in OwnMethods(t) : m.parent = NoMethod}
Entry(m) == [owner |-> m.owner, mid |-> m.mid]
HasOffset(mid) == mid \in DOMAIN method_offsets

FirstOffset(t) == IF Root(t) THEN VtableOverhead ELSE next_offset[Extends(t)]

OffsetIn(t, m) ==
    IF m \in NewMethods(t)
    THEN [at |-> FirstOffset(t) + WordSize * Cardinality({n \in NewMethods(t) : n.mid < m.mid}),
          kind |-> "class"]
    ELSE method_offsets[m.parent]

\* map::at throws for a method without an offset: as the parent of one to lay
\* out, or when the vtable is sorted.
Missing(t) ==
    \/ \E m \in OwnMethods(t) \ NewMethods(t) : ~HasOffset(m.parent)
    \/ /\ Cardinality(Dispatched(t)) > 1
       /\ \E m \in Dispatched(t) \ OwnMethods(t) : ~HasOffset(m.mid)

LayMethods ==
    /\ AtClass("methods") /\ ~Missing(Current)
    /\ LET t == Current
           mids == {m.mid : m \in OwnMethods(t)}
       IN  /\ method_offsets' = [mid \in DOMAIN method_offsets \union mids |->
                 IF HasOffset(mid) THEN method_offsets[mid]
                 ELSE OffsetIn(t, CHOOSE m \in OwnMethods(t) : m.mid = mid)]
           /\ next_offset' = [next_offset EXCEPT ![t] =
                 FirstOffset(t) + WordSize * Cardinality(NewMethods(t))]
           /\ vtables' = [vtables EXCEPT ![t] = {Entry(m) : m \in Dispatched(t)}]
    /\ place' = place + 1
    /\ UNCHANGED <<vars, tableVars, stage, type_sizes, field_offsets, itables>>

\* The exception ends the compiler.
Throw ==
    /\ AtClass("methods") /\ Missing(Current)
    /\ stage' = "threw"
    /\ UNCHANGED <<vars, tableVars, place, type_sizes, field_offsets, next_offset,
                   method_offsets, vtables, itables>>

MethodsLaid == EndLoop("methods", "interfaces")

-----------------------------------------------------------------------------
(* BuildIfaceMethodOffsets.                                                *)

Interfaces == {sorted[i] : i \in DOMAIN sorted} \ {t \in Types : IsClass(t)}

\* What interfaces have from Object has a place in the vtables.
InterfaceSigs ==
    {m.sig : m \in {n \in UNION {tables[t] : t \in Interfaces} : ~HasOffset(n.mid)}}
ItableOffset(sig) == WordSize * Cardinality({s \in InterfaceSigs : s < sig})

\* The methods that interfaces declare.
InterfaceMethods ==
    {m \in UNION {tables[t] : t \in Interfaces} :
        m.owner \in Interfaces /\ m.sig \in InterfaceSigs}

LayInterfaces ==
    /\ stage = "interfaces"
    /\ LET declared == InterfaceMethods
       IN  method_offsets' =
              [mid \in DOMAIN method_offsets \union {m.mid : m \in declared} |->
                 IF HasOffset(mid) THEN method_offsets[mid]
                 ELSE [at |-> ItableOffset((CHOOSE m \in declared : m.mid = mid).sig),
                       kind |-> "interface"]]
    /\ itables' = [t \in Types |->
          IF t \in Interfaces THEN {}
          ELSE {[at |-> ItableOffset(m.sig), entry |-> Entry(m)] :
                  m \in {n \in tables[t] : n.sig \in InterfaceSigs}}]
    /\ stage' = "done"
    /\ UNCHANGED <<vars, tableVars, place, type_sizes, field_offsets, next_offset, vtables>>

LayoutNext ==
    \/ TypeChecking
    \/ StartLayout
    \/ SkipInterface("fields") \/ LayFields \/ FieldsLaid
    \/ SkipInterface("methods") \/ LayMethods \/ Throw \/ MethodsLaid
    \/ LayInterfaces

LayoutSpec == LayoutInit /\ [][LayoutNext]_<<vars, tableVars, layoutVars>>

-----------------------------------------------------------------------------
(* The tables and calls the writer writes.                                 *)

\* The vtable is sorted by offset and written word after word.
VtableWord(c, offset) ==
    {e \in vtables[c] :
       LET lower == {f \in vtables[c] : method_offsets[f.mid].at < method_offsets[e.mid].at}
       IN  offset = VtableOverhead + WordSize * Cardinality(lower)}

\* Mutant: the gaps of the itable are not filled.
ItableUnpadded(c, offset) ==
    {i.entry : i \in {e \in itables[c] :
       offset = WordSize * Cardinality({f \in itables[c] : f.at < e.at})}}

ItableWord(c, offset) == {i.entry : i \in {e \in itables[c] : e.at = offset}}

\* What a call of a method finds in an object of class c.
DynamicCall(c, mid) ==
    IF method_offsets[mid].kind = "class" THEN VtableWord(c, method_offsets[mid].at)
    ELSE ItableWord(c, method_offsets[mid].at)

-----------------------------------------------------------------------------
(* Correctness.                                                            *)

\* In an object of any class, no two fields share a byte, those of all the classes
\* above it among them, and each lies inside the object and is aligned to its
\* size.  (The order of ExtractSimpleFields and RoundUpToMultipleOf.)
FieldsApart ==
    stage = "methods" =>
       \A c \in Types : IsClass(c) =>
          \A d, e \in {t \in Types : IsClass(t) /\ Below(c, t)} :
             \A i \in DOMAIN bodies[d].fields, j \in DOMAIN bodies[e].fields :
                LET first == field_offsets[d][i]
                    size == SizeOf(d, i)
                IN  /\ first % size = 0 /\ first + size <= type_sizes[c]
                    /\ \/ <<d, i>> = <<e, j>>
                       \/ first + size <= field_offsets[e][j]
                       \/ field_offsets[e][j] + SizeOf(e, j) <= first

\* The declaration of a signature that an object of class c runs: that of a class
\* above it which no other such class below it has, too.
Declares(t, sig) == \E m \in bodies[t].methods : m.sig = sig
Runs(c, d, sig) ==
    /\ IsClass(d) /\ Below(c, d) /\ Declares(d, sig)
    /\ \A e \in Types : IsClass(e) /\ Below(c, e) /\ Below(e, d) /\ Declares(e, sig) => e = d

\* Whatever a class inherits, overrides and implements, and through whichever of
\* its classes and interfaces a method is called, the call finds the one
\* implementation the class has, which is not abstract.  (DynamicCall,
\* src/backend/i386/writer.cpp; the comments of BuildIfaceMethodOffsets.)
DispatchRight ==
    stage = "done" =>
       \A c \in Types : IsClass(c) /\ ~bodies[c].abstract =>
          \A t \in Types : Below(c, t) =>
             \A m \in Dispatched(t) :
                \E d \in Types :
                   /\ Runs(c, d, m.sig)
                   /\ DynamicCall(c, m.mid) =
                         {Entry(n) : n \in {o \in OwnMethods(d) : o.sig = m.sig}}
                   /\ \A n \in bodies[d].methods : n.sig = m.sig => ~n.abstract

\* The compiler fails to lay a program out for one reason only: an abstract class
\* that leaves a method of an interface to the classes below it.
FailsOnlyForAbstract ==
    stage = "threw" =>
       /\ bodies[Current].abstract
       /\ \E i \in Interfaces : \E m \in bodies[i].methods :
             Below(Current, i) /\ \A d \in Types : ~Runs(Current, d, m.sig)

\* The program "abstract classes are allowed not to implement any methods from an
\* interface" is compiled like any other.
\* (src/third_party/cs444/assignment_testcases/a2/J1_hierachyCheck28/Main.java.)
LayoutSucceeds == stage # "threw"
=============================================================================
