---------------------------- MODULE RuntimeTypes ----------------------------
(***************************************************************************)
(* How the compiled program starts (Writer::WriteStaticInit, the           *)
(* initialisers of src/ir/ir_generator.cpp) and answers instanceof         *)
(* (TypeInfo.InstanceOf, src/runtime/__joos_internal__/TypeInfo.java).     *)
(*                                                                         *)
(* The module continues TypeHierarchy: if the search reported no error,    *)
(* the program first makes an object for every type, in topological order, *)
(* with its parents' objects in an array, and then runs the static         *)
(* initialisers.  They and the methods they call ask which types are below *)
(* which; InstanceOf searches the parents and memoises what it finds.      *)
(***************************************************************************)
EXTENDS TypeHierarchy

CONSTANTS
    System,     \* java.lang.System, whose static initialiser runs first
    Questions,  \* the pairs of types, child and ancestor, that the program asks about
    Null

ASSUME RuntimeAssumption ==
    /\ System \in Types \ {Object, TypeInfo} /\ Null \notin Types
    /\ \A d \in Programs : d[System].kind = "class"
    /\ Questions \subseteq Types \X Types

VARIABLES
    turn,         \* how many calls of _static_init were made; Idle before it runs
    num_types,    \* TypeInfo.num_types
    made,         \* the types whose static field holds their TypeInfo
    parents,      \* TypeInfo.parents of these
    initialized,  \* TypeInfo.initialized
    memo,         \* TypeInfo.ancestor_map, NoMap for null
    active,       \* the calls of InstanceOf in progress; loop is i + 1 in its loop
    reply,        \* what the call that just ended returned
    answer        \* the last question and what the program was told; empty before it

rtVars == <<turn, num_types, made, parents, initialized, memo, active, reply, answer>>
allVars == <<vars, rtVars>>

Idle == 0
NoMap == << >>
None == "none"
Yes == "yes"
No == "no"
Entering == 0

StartInit ==
    /\ Init
    /\ turn = Idle /\ num_types = 0 /\ made = {}
    /\ parents = [t \in Types |-> << >>]
    /\ initialized = FALSE
    /\ memo = [t \in Types |-> NoMap]
    /\ active = << >> /\ reply = None /\ answer = << >>

Compiling == Next /\ UNCHANGED rtVars

-----------------------------------------------------------------------------
(* _static_init.                                                           *)

\* Mutant: the number of types for the largest type id.
HighestTypeId == NumTypes
NumberOfTypes == NumTypes + 1

\* CompilerMain goes on to the back end if no error was reported.
Launch ==
    /\ phase = "done" /\ pruned = {} /\ cycles = {}
    /\ turn = Idle
    /\ turn' = 1
    /\ num_types' = NumberOfTypes
    /\ UNCHANGED <<vars, made, parents, initialized, memo, active, reply, answer>>

\* Mutant: the units are left in the order of the files.
FileOrder == [i \in 1..NumTypes |-> i]
Units == sorted

Running == turn # Idle

\* The type initialiser copies the parents' objects from their static fields.
InitType ==
    /\ Running /\ turn <= Len(Units)
    /\ LET t == Units[turn]
       IN  /\ made' = made \union {t}
           /\ parents' = [parents EXCEPT ![t] =
                 [i \in 1..Len(edges[t]) |-> IF edges[t][i] \in made THEN edges[t][i] ELSE Null]]
           /\ memo' = [memo EXCEPT ![t] = NoMap]
    /\ turn' = turn + 1
    /\ UNCHANGED <<vars, num_types, initialized, active, reply, answer>>

\* Static initialisers are those of the classes, System's before the others';
\* begun is the place of the one that runs in Statics.
Statics == << System >> \o Units
Skipped(k) == k \in 2..Len(Statics) /\ (decls[Statics[k]].kind = "interface" \/ Statics[k] = System)
begun == turn - Len(Units) - 1

\* TypeInfo's initialiser sets one field and asks nothing.
InitStatics ==
    /\ Running /\ active = << >>
    /\ turn > Len(Units) /\ begun < Len(Statics)
    /\ turn' = turn + 1
    /\ initialized' = (initialized \/ Statics[begun + 1] = TypeInfo)
    /\ UNCHANGED <<vars, num_types, made, parents, memo, active, reply, answer>>

\* _static_init returns, and main calls the entry point.
CallTest ==
    /\ Running /\ active = << >>
    /\ turn > Len(Units) /\ begun = Len(Statics)
    /\ turn' = turn + 1
    /\ UNCHANGED <<vars, num_types, made, parents, initialized, memo, active, reply, answer>>

\* The class whose static initialiser is running, Null once it is the entry point.
Asker == IF begun \in DOMAIN Statics THEN Statics[begun] ELSE Null

-----------------------------------------------------------------------------
(* InstanceOf.                                                             *)

Now == active[Len(active)]
Frame(child, ancestor) == [child |-> child, ancestor |-> ancestor, loop |-> Entering]
ObjectOf(t) == IF t \in made THEN t ELSE Null

\* A cast, an instanceof or the store of a reference in an array asks.
Ask ==
    /\ Running /\ active = << >> /\ turn > Len(Units) + 1
    /\ ~Skipped(begun)
    /\ \E q \in Questions : active' = << Frame(ObjectOf(q[1]), ObjectOf(q[2])) >>
    /\ UNCHANGED <<vars, turn, num_types, made, parents, initialized, memo, reply, answer>>

\* The call in progress returns b, to the call below or to the program.
Return(b) ==
    /\ active' = SubSeq(active, 1, Len(active) - 1)
    /\ IF Len(active) = 1
       THEN /\ answer' = << [child |-> Now.child, ancestor |-> Now.ancestor, is |-> b, asker |-> Asker] >>
            /\ reply' = None
       ELSE reply' = (IF b THEN Yes ELSE No) /\ UNCHANGED answer

Entered == Running /\ active # << >> /\ Now.loop = Entering

AnswerAtOnce ==
    /\ Entered
    /\ ~initialized \/ Now.child = Now.ancestor
    /\ Return(TRUE)
    /\ UNCHANGED <<vars, turn, num_types, made, parents, initialized, memo>>

Searching == Entered /\ initialized /\ Now.child # Now.ancestor

Memoised(child, ancestor) == IF memo[child] = NoMap THEN 0 ELSE memo[child][ancestor]

\* Mutant: whatever is remembered is taken for yes.
RememberedAny(found) == found # 0
Remembered(found) == found = 1

Lookup ==
    /\ Searching
    /\ LET found == Memoised(Now.child, Now.ancestor)
       IN  /\ memo' = IF memo[Now.child] = NoMap
                      THEN [memo EXCEPT ![Now.child] = [t \in 0..(num_types - 1) |-> 0]] ELSE memo
           /\ IF found # 0 THEN Return(Remembered(found))
              ELSE active' = [active EXCEPT ![Len(active)].loop = 1] /\ UNCHANGED <<reply, answer>>
    /\ UNCHANGED <<vars, turn, num_types, made, parents, initialized>>

InLoop == Running /\ active # << >> /\ Now.loop # Entering

\* The answer is memoised and returned.
Found(b) ==
    /\ memo' = [memo EXCEPT ![Now.child][Now.ancestor] = IF b THEN 1 ELSE 0 - 1]
    /\ Return(b)
    /\ UNCHANGED <<vars, turn, num_types, made, parents, initialized>>

NoMoreParents ==
    /\ InLoop /\ reply = None /\ Now.loop > Len(parents[Now.child])
    /\ Found(FALSE)

ParentIsAncestor ==
    /\ InLoop /\ reply = None /\ Now.loop <= Len(parents[Now.child])
    /\ parents[Now.child][Now.loop] = Now.ancestor
    /\ Found(TRUE)

AskParent ==
    /\ InLoop /\ reply = None /\ Now.loop <= Len(parents[Now.child])
    /\ parents[Now.child][Now.loop] # Now.ancestor
    /\ active' = Append(active, Frame(parents[Now.child][Now.loop], Now.ancestor))
    /\ UNCHANGED <<vars, turn, num_types, made, parents, initialized, memo, reply, answer>>

ParentIsBelow ==
    /\ InLoop /\ reply = Yes
    /\ Found(TRUE)

\* Mutant: the answer of the last parent asked is the answer.
LastParentDecides ==
    /\ InLoop /\ reply = No
    /\ Found(FALSE)

\* Mutant: i is not advanced.
AskSameParent ==
    /\ InLoop /\ reply = No
    /\ reply' = None
    /\ UNCHANGED <<vars, turn, num_types, made, parents, initialized, memo, active, answer>>

ParentIsNotBelow ==
    /\ InLoop /\ reply = No
    /\ reply' = None
    /\ active' = [active EXCEPT ![Len(active)].loop = @ + 1]
    /\ UNCHANGED <<vars, turn, num_types, made, parents, initialized, memo, answer>>

InstanceOf ==
    \/ AnswerAtOnce \/ Lookup
    \/ NoMoreParents \/ ParentIsAncestor \/ AskParent \/ ParentIsBelow \/ ParentIsNotBelow

StartNext == Compiling \/ Launch \/ InitType \/ InitStatics \/ CallTest \/ Ask \/ InstanceOf

StartSpec == StartInit /\ [][StartNext]_allVars /\ WF_allVars(InstanceOf)

-----------------------------------------------------------------------------
(* Correctness.                                                            *)

StartTypeOK ==
    /\ turn \in Nat /\ num_types \in Nat
    /\ made \subseteq Types
    /\ parents \in [Types -> Seq(Types \union {Null})]
    /\ initialized \in BOOLEAN
    /\ memo \in [Types -> {NoMap} \union [0..NumTypes -> {0 - 1, 0, 1}]]
    /\ active \in Seq([child : Types \union {Null}, ancestor : Types \union {Null}, loop : Nat])
    /\ reply \in {None, Yes, No}
    /\ active = << >> => reply = None

\* No search meets a parent whose object was not made yet, nor a type number
\* outside of a memo table, where InstanceOf throws: the comment in
\* ProgramIRGenerator, "Guaranteed to be filled because of static type
\* initialization being done in topsort order".
NeverThrows ==
    Searching => Now.child \in made /\ Now.ancestor \in made /\ Now.ancestor < num_types

\* Whatever was asked before, and in whichever order, a memo table holds answers
\* that are right: also those it got in the middle of a search for another type.
MemoCorrect ==
    \A c \in made : memo[c] # NoMap =>
       \A a \in Types : /\ memo[c][a] = 1 => Below(c, a)
                        /\ memo[c][a] = 0 - 1 => ~Below(c, a)

\* Every question of a class other than System and Object is answered by the
\* hierarchy of the program; only these two ask before TypeInfo is initialised.
AnswersRight ==
    \A i \in DOMAIN answer : answer[i].asker \notin {System, Object} =>
       (answer[i].is <=> Below(answer[i].child, answer[i].ancestor))

\* InstanceOf ends.
Answered == active # << >> ~> active = << >>
=============================================================================
