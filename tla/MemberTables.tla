---------------------------- MODULE MemberTables ----------------------------
(***************************************************************************)
(* The tables of methods (TypeInfoMapBuilder::BuildMethodTable and         *)
(* MakeResolvedMethodTable, src/types/type_info_map.cpp).                  *)
(*                                                                         *)
(* The module continues TypeHierarchy: in topological order, every type    *)
(* gets the methods it declares once, and then those of each parent, one   *)
(* after the other: a method it has not is inherited, one it has must be   *)
(* fit to override the parent's.                                           *)
(***************************************************************************)
EXTENDS TypeHierarchy, FiniteSets

CONSTANTS
    NumSigs,  \* how many signatures of methods there are
    Bodies,   \* what the types of a program declare: Types -> Body
    Name(_)   \* the name of a signature; some are overloads of each other

\* In the order of MethodSignature: constructors come last.  Of these only the one
\* without parameters matters.
Constructor == NumSigs + 1
Signatures == 1..Constructor
Method == [sig : Signatures, returns : Nat, static : BOOLEAN, protected : BOOLEAN,
           final : BOOLEAN, abstract : BOOLEAN]
\* BOOL, BYTE, SHORT, CHAR, INT and PTR.
SizeClass == 1..6
Body == [final : BOOLEAN, abstract : BOOLEAN, methods : SUBSET Method, fields : Seq(SizeClass)]

\* Two methods of a type with the same signature are duplicates.  The run-time
\* library's Object is not abstract.
ASSUME MembersAssumption ==
    /\ NumSigs \in Nat
    /\ \A b \in Bodies : b \in [Types -> Body] /\ ~b[Object].abstract

\* The parser reads one type after the "extends" of a class, and no "implements"
\* of an interface.
ASSUME ParserAssumption ==
    \A d \in Programs : \A t \in Types :
       /\ d[t].kind = "class" => Len(d[t].extends) <= 1
       /\ d[t].kind = "interface" => d[t].implements = << >>

NoMethod == 0  \* kUnassignedMethodId
MethodInfo == [mid : Nat, owner : Types, sig : Signatures, returns : Nat, static : BOOLEAN,
               protected : BOOLEAN, final : BOOLEAN, abstract : BOOLEAN, parent : Nat]

VARIABLES
    bodies,     \* the program's
    at,         \* the place in the order of the type whose table is built
    step,       \* begin, parent, method: where its construction is
    par,        \* which parent it is at
    todo,       \* the signatures of the parent that are left
    own,        \* new_good_methods
    bad_names,  \* new_bad_methods
    empty,      \* has_empty_constructor
    cur_mid,    \* the next method id
    tables,     \* the methods of the types that are done
    bad_methods,  \* the names their tables blacklist
    no_empty,   \* parent_bad_types
    errors      \* the kinds of errors reported

tableVars == <<bodies, at, step, par, todo, own, bad_names, empty, cur_mid, tables,
               bad_methods, no_empty, errors>>

\* What the weeder lets a class and a method be, and an interface have.
Writable(t, body) ==
    /\ ~(body.abstract /\ body.final)
    /\ \A m \in body.methods :
          /\ Cardinality({mod \in {"static", "final", "abstract"} : m[mod]}) <= 1
          /\ m.sig = Constructor => ~m.static /\ ~m.final /\ ~m.abstract
    /\ decls[t].kind = "interface" =>
          /\ body.fields = << >>
          /\ \A m \in body.methods : m.sig # Constructor /\ ~m.static /\ ~m.protected /\ ~m.final

TablesInit ==
    /\ Init
    /\ bodies \in {b \in Bodies : \A t \in Types : Writable(t, b[t])}
    /\ at = 1 /\ step = "begin" /\ par = 1 /\ todo = {}
    /\ own = {} /\ bad_names = {} /\ empty = FALSE
    /\ cur_mid = 1
    /\ tables = [t \in Types |-> {}]
    /\ bad_methods = [t \in Types |-> {}]
    /\ no_empty = {}
    /\ errors = {}

Sorting == Next /\ UNCHANGED tableVars

-----------------------------------------------------------------------------
(* BuildMethodTable.                                                       *)

Tabling == phase = "done" /\ at <= Len(sorted)
This == sorted[at]

Single(t) == {m \in bodies[t].methods : \A n \in bodies[t].methods : n.sig = m.sig => n = m}
Duplicated(t) == bodies[t].methods \ Single(t)

\* FixMods makes the methods of an interface abstract; they are public.
Info(t, m) ==
    [mid |-> cur_mid + Cardinality({n \in Single(t) : n.sig < m.sig}), owner |-> t,
     sig |-> m.sig, returns |-> m.returns, static |-> m.static, protected |-> m.protected,
     final |-> m.final, abstract |-> m.abstract \/ decls[t].kind = "interface",
     parent |-> NoMethod]

DeclareMethods ==
    /\ Tabling /\ step = "begin"
    /\ own' = {Info(This, m) : m \in Single(This)}
    /\ bad_names' = {Name(m.sig) : m \in Duplicated(This)}
    /\ errors' = errors \union (IF Duplicated(This) = {} THEN {} ELSE {"Duplicate"})
    /\ cur_mid' = cur_mid + Cardinality(Single(This))
    /\ step' = "parent" /\ par' = 1
    /\ UNCHANGED <<vars, bodies, at, todo, empty, tables, bad_methods, no_empty>>

-----------------------------------------------------------------------------
(* MakeResolvedMethodTable.  (Its early return for broken parents is not   *)
(* met: a type in the order has no parent that is not.)                    *)

AtParent == Tabling /\ step = "parent" /\ par <= Len(edges[This])
FromParent == edges[This][par]

FinalParent ==
    /\ AtParent /\ bodies[FromParent].final
    /\ errors' = errors \union {"ParentFinal"}
    /\ par' = par + 1
    /\ UNCHANGED <<vars, bodies, at, step, todo, own, bad_names, empty, cur_mid, tables,
                   bad_methods, no_empty>>

EnterParent ==
    /\ AtParent /\ ~bodies[FromParent].final
    /\ step' = "method"
    /\ todo' = {m.sig : m \in tables[FromParent]}
    /\ empty' = FALSE
    /\ UNCHANGED <<vars, bodies, at, par, own, bad_names, cur_mid, tables, bad_methods,
                   no_empty, errors>>

AtMethod == Tabling /\ step = "method" /\ todo # {}
Sig == CHOOSE s \in todo : \A r \in todo : s <= r
With(table, s) == {m \in table : m.sig = s}
Theirs == CHOOSE m \in tables[FromParent] : m.sig = Sig
Mine == CHOOSE m \in own : m.sig = Sig

MethodDone == todo' = todo \ {Sig}
OnlyTable == UNCHANGED <<vars, bodies, at, step, par, bad_names, empty, cur_mid, tables,
                         bad_methods, no_empty, errors>>

SkipConstructor ==
    /\ AtMethod /\ Sig = Constructor
    /\ empty' = TRUE
    /\ MethodDone
    /\ UNCHANGED <<vars, bodies, at, step, par, own, bad_names, cur_mid, tables, bad_methods,
                   no_empty, errors>>

SkipBad ==
    /\ AtMethod /\ Sig # Constructor /\ Name(Sig) \in bad_names
    /\ MethodDone /\ OnlyTable /\ UNCHANGED own

Resolving == AtMethod /\ Sig # Constructor /\ Name(Sig) \notin bad_names

Inherit ==
    /\ Resolving /\ With(own, Sig) = {}
    /\ own' = own \union {Theirs}
    /\ MethodDone /\ OnlyTable

InheritedTwice ==
    /\ Resolving /\ With(own, Sig) # {} /\ Mine.mid = Theirs.mid
    /\ MethodDone /\ OnlyTable /\ UNCHANGED own

Meeting == Resolving /\ With(own, Sig) # {} /\ Mine.mid # Theirs.mid

\* Mutant: a method the type declares itself counts, too.
AbstractTwice == Theirs.abstract /\ Mine.abstract

\* What the two methods may not be to each other, in the order of the checks.
BothAbstract == Mine.owner # This /\ Theirs.abstract /\ Mine.abstract
ReturnsDiffer == Mine.returns # Theirs.returns
OneIsStatic == Mine.static \/ Theirs.static
LowersVisibility == ~Theirs.protected /\ Mine.protected /\ ~BothAbstract
OverridesFinal == Theirs.final

Clash(error) ==
    /\ errors' = errors \union {error}
    /\ bad_names' = bad_names \union {Name(Sig)}
    /\ MethodDone
    /\ UNCHANGED <<vars, bodies, at, step, par, own, empty, cur_mid, tables, bad_methods, no_empty>>

ReturnError == Meeting /\ ReturnsDiffer /\ Clash("DifferingReturnType")
StaticError == Meeting /\ ~ReturnsDiffer /\ OneIsStatic /\ Clash("StaticMethodOverride")
VisibilityError ==
    /\ Meeting /\ ~ReturnsDiffer /\ ~OneIsStatic
    /\ LowersVisibility
    /\ Clash("LowerVisibility")
FinalError ==
    /\ Meeting /\ ~ReturnsDiffer /\ ~OneIsStatic /\ ~LowersVisibility
    /\ OverridesFinal
    /\ Clash("OverrideFinalMethod")

\* Mutant: the methods of interfaces count as overridden, too.
OverridesAny(mine, theirs) ==
    [mine EXCEPT !.protected = mine.protected /\ ~(BothAbstract /\ ~theirs.protected),
                 !.parent = theirs.mid]

\* A protected abstract method that an interface has, too, becomes public.
Overriding(mine, theirs) ==
    [mine EXCEPT !.protected = mine.protected /\ ~(BothAbstract /\ ~theirs.protected),
                 !.parent = IF decls[FromParent].kind = "class" THEN theirs.mid ELSE mine.parent]

Override ==
    /\ Meeting /\ ~ReturnsDiffer /\ ~OneIsStatic /\ ~LowersVisibility /\ ~OverridesFinal
    /\ own' = (own \ {Mine}) \union {Overriding(Mine, Theirs)}
    /\ MethodDone /\ OnlyTable

LeaveParent ==
    /\ Tabling /\ step = "method" /\ todo = {}
    /\ LET lacking == ~empty /\ decls[FromParent].kind = "class" /\ FromParent \notin no_empty
       IN  /\ no_empty' = IF lacking THEN no_empty \union {FromParent} ELSE no_empty
           /\ errors' = IF lacking THEN errors \union {"ParentClassEmptyConstructor"} ELSE errors
    /\ bad_names' = bad_names \union bad_methods[FromParent]
    /\ step' = "parent" /\ par' = par + 1
    /\ UNCHANGED <<vars, bodies, at, todo, own, empty, cur_mid, tables, bad_methods>>

EndType ==
    /\ Tabling /\ step = "parent" /\ par > Len(edges[This])
    /\ LET needed == /\ decls[This].kind = "class" /\ ~bodies[This].abstract
                     /\ \E m \in own : m.abstract
       IN  errors' = IF needed THEN errors \union {"NeedAbstractClass"} ELSE errors
    /\ tables' = [tables EXCEPT ![This] = own]
    /\ bad_methods' = [bad_methods EXCEPT ![This] = bad_names]
    /\ at' = at + 1 /\ step' = "begin"
    /\ UNCHANGED <<vars, bodies, par, todo, own, bad_names, empty, cur_mid, no_empty>>

ResolveMethod ==
    \/ SkipConstructor \/ SkipBad \/ Inherit \/ InheritedTwice
    \/ ReturnError \/ StaticError \/ VisibilityError \/ FinalError \/ Override

BuildTables ==
    DeclareMethods \/ FinalParent \/ EnterParent \/ ResolveMethod \/ LeaveParent \/ EndType

TablesNext == Sorting \/ BuildTables

TablesSpec == TablesInit /\ [][TablesNext]_<<vars, tableVars>>

-----------------------------------------------------------------------------
(* Correctness.                                                            *)

\* No error was reported for the program.
Accepted == phase = "done" /\ at > Len(sorted) /\ errors = {} /\ pruned = {} /\ cycles = {}

\* However the types are related, and not only for a type and its direct parents:
\* in an accepted program all methods of a signature that a type has from anywhere
\* above it return the same type, none is hidden by or hides a static one, and
\* none overrides a final one or is less visible than one it overrides.  (The
\* errors of MakeResolvedMethodTable, src/types/method_table_test.cpp.)
AcceptedIsLegal ==
    Accepted =>
       \A t \in Types : \A d, e \in Types : Below(t, d) /\ Below(t, e) /\ d # e =>
          \A m \in bodies[d].methods, n \in bodies[e].methods :
             m.sig = n.sig /\ m.sig # Constructor =>
                /\ m.returns = n.returns
                /\ ~m.static /\ ~n.static
                /\ Below(d, e) => ~n.final /\ (m.protected => n.protected)
=============================================================================
