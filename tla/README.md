# A verification of joosc

joosc compiles Joos, a subset of Java 1.3, to i386 assembly.  It is a sequential
program of a dozen passes over one syntax tree; nothing in it runs concurrently and
it persists nothing.  What is hard about it is agreement: between what one pass
computes and another relies on, between the text of generated code and what the
code does on its stack and heap, and between an optimised representation and the
simple idea it stands for.  This directory models the passes where that agreement
is far from obvious, checks it with TLC on small instances, and proves part of it
with TLAPS for all instances.

Paths below are relative to `src/`.  `PROJECT.json` maps every definition that models
code to the lines it models.

## 1. The system

| Component | State it keeps | Operations | What makes it correct |
|---|---|---|---|
| Lexer (`lexer/`) | a cursor and a lexing state | one function per state | tokens cover the file; literals and escapes have their values |
| Parser (`parser/`) | none (functional; results carry the remaining tokens) | one function per production, operator precedence | trees follow the grammar; precedence and associativity |
| Weeder (`weeder/`) | none | one visitor per rule | exactly the rule violations are reported |
| Type names (`types/typeset.cpp`, `decl_resolver.cpp`) | packages, types, imports per file, a cache of lookups in wildcard imports | build the indices, report clashes, look up in four scopes | every name means what the language says; every clash and failure is reported, none without a cause |
| Class hierarchy and member tables (`types/type_info_map.cpp`) | blacklists, the combined graph, the topological order, a table of methods and fields per type | prune, add Object, search for cycles, sort; merge the parents' members into each type's; look up fields and calls and check access | exactly the broken types are blacklisted and explained; the order has parents first; no illegal override survives; the member found is the one that is meant, and may be used |
| Local scopes (`types/symbol_table.cpp`) | one map, one undo log, lengths of scopes, an id counter, a declaration mark | enter, leave, declare start/end, resolve | lexical scoping; ids identify variables; CHECKs hold |
| Type checker (`types/typechecker.cpp`, `typechecker_utils.cpp`) | the symbol table and the current member's context | one rewriter per node; what has an error is dropped | what is accepted cannot go wrong; what is rejected had to be |
| Constant folding (`types/constant_folding.cpp`) | the ids of strings | one rewriter per node | values kept; every constant folded; every string numbered |
| Reachability and field order (`types/dataflow_visitor.cpp`) | whether the end of a statement is reached; the field being initialised | one visitor per statement; one for initialisers | a method is rejected exactly if it has a statement no run reaches or a run without its value; no field is read before its initialiser |
| IR generation (`ir/`) | stream of operations; Mems with lexical lifetimes; what is assigned | one visitor per node; StreamBuilder | streams mean what the program means; last-in first-out Mems |
| Object layout (`backend/common/offset_table.cpp`) | offsets of fields and methods, vtables, itables | four loops over the sorted types | fields apart; calls reach the right implementation |
| i386 writer (`backend/i386/writer.cpp`) | a stack map and a current offset per method; frame descriptors | one writer per IR operation; vtables, statics, `_joos_throw`, `_static_init` | code does what the operation says; frames linked; the unwinder ends |
| Start of the program | registers, statics | `_start`, `_static_init` | types' objects made before they are used |
| Run-time library (`runtime/__joos_internal__/`) | a memo table per TypeInfo | InstanceOf, string operations, stack traces | answers are those of the hierarchy |
| Driver (`joosc.cpp`) | the stage | run the passes, stop at errors, write the files | nothing is generated for a wrong program |
| AST, files, errors, containers (`ast/`, `base/`) | data | - | - |

### How they interact

`CompilerMain` calls the passes one after the other; each gets the whole program and
returns a rewritten one, with errors appended to a list that stops the pipeline.
`TypeInfoMap` is built once, before method bodies are checked, and then shared
read-only by the type checker, the IR generator, the offset table and the writer.
The type checker talks to the symbol table through two guard objects, so scopes and
declarations nest like its calls.  The IR generator talks to `StreamBuilder`; its
Mems are C++ objects whose destructors emit `DEALLOC_MEM`, so the order of
destructors is part of the code's output.  The writer reads the stream one operation
at a time.  The generated code calls three things the compiler also supplies:
`_static_init`, `_joos_throw`, and the Joos class `TypeInfo`, which the generated code
itself initialises.

### What is hard

No threads, messages or crashes; the hazards listed in `PROJECT.json` are others.

* *Long sequences of legal calls.*  The undo log and the map of the symbol table; the
  offsets of temporaries across nested calls; the merge of one parent's methods after
  another's; the flags nested statements hand back to the visitor of the outer one.
* *Agreement of two representations.*  Offsets counted by method id and words counted
  by position; type ids and lengths of memo tables; the text of a stream and its jumps.
* *Orders.*  Which types are met first in the search for cycles; what a destructor
  emits last; evaluation order; which static initialiser runs first; layout offsets
  that are needed before they are given; whether a name is first tried as a variable, a field
  or a type.
* *Stale and partial answers.*  The memo of InstanceOf, filled in the middle of other
  searches; slots that are reused; a declaration mark left over; a cache of names shared by files and
  passes; types that turn out to be in error after their heirs copied their members; the rest of a
  statement of which a part was dropped.
* *Numbers.*  Widths 1, 2 and 4 in slots of 4; wrap-around of folded arithmetic;
  negative offsets for parameters.
* *Termination.*  A search along cyclic declarations; the unwinder; the loops that code
  is generated for.

## 2. The modules

```
ScopeEnv  <=  SymbolTable --- MCSymbolTable --- SymbolTableProofs
Activations <= CallStack --- MCCallStack --- CallStackProofs
Joos --- StreamBuilder --- IrGen, FuncWriter  (pure operators)
     \-- JoosSemantics                        (the meaning of a method)
     \-- Codegen (INSTANCEs the three)        EXTENDS: MCCodegen
     \-- ConstantFolding --- Dataflow --- DataflowProofs
                              \-- MCDataflow (EXTENDS MCConstantFolding too)
ControlFlow --- Dataflow
Scoping --- TypeNames --- MCTypeNames, TypeNamesProofs
TypeIds --- TypeInfoMap --- TypeChecker       EXTENDS: MCTypeChecker
     \-- Execution (INSTANCEd by TypeChecker)
TypeHierarchy --- TypeHierarchyProofs, MCTypeHierarchy
     \-- RuntimeTypes --- RuntimeTypesProofs, MCRuntimeTypes
     \-- MemberTables --- ObjectLayout --- MCObjectLayout, ObjectLayoutProofs
ProofLemmas (induction over sets of numbers, sequences; used by the proofs)
```

(`A <= B`: B is shown to implement A.  The two refinement mappings stand in the MC modules, where
TLC checks them, and the proofs extend these.)

**SymbolTable** is `types/symbol_table.cpp`: the fields of the class are the variables, its
methods the actions, called as the type checker's guards call them.  A failed CHECK sets
`failed`.  **ScopeEnv** is what it promises: a stack of environments, copied on
entry and forgotten on exit.

**CallStack** is the run-time stack of the generated code, word by word: the temporaries
below ebp that esp does not move for, argument passing, `push stackframe`, call, the
prologue and epilogue, stores through addresses of variables, and `_joos_throw`'s
loop.  Each action is one IR operation's instructions, and a word that code outside the
module may write, or that is dead, is overwritten with `Junk`.  **Activations** promises
calls with cells of their own and a printed chain of call sites, with no addresses.

**IrGen** (`ir/ir_generator.cpp`) and **StreamBuilder** (`ir/stream_builder.cpp`, `mem_impl.cpp`)
compute the stream for a method; **FuncWriter** gives its Mems slots and checks widths
(`writer.cpp`); **Codegen** runs the instructions, one IR operation per step, on a
memory of bytes in which unwritten bytes are absent.  **JoosSemantics** is
the meaning of the method by the language's evaluation rules, and knows nothing of
streams or memory.

**TypeNames** is `TypeSetBuilder::Build` and `TypeSet::Get` with its cache, and the lookups of
the three passes that ask, in their order: `VerifyTypeSet`, the declarations
(`DeclResolver`) and the bodies (`TypeChecker`); one step builds, one looks a name up.  **Scoping** is what a
name means by the rules of the language: a type of this file, a single import, a type of
this package, exactly one of the imports on demand.

**TypeChecker** is every rewriter of the pass of that name, one statement per step, with its symbol
table as a map (the undo log is SymbolTable's concern); a rewriter returns a tree, or
`Pruned` with errors.  **TypeInfoMap** is what it asks of the member tables: fields and
their hiding, methods, access, ancestors, and the entries of types in error.  **TypeIds** are the
kinds of types.  **Execution** is what may happen when accepted code runs: the values an expression
may have when fields, variables and elements hold any value of their type, and where it goes wrong.
It knows the declarations of a program and nothing of tables or errors.

**ConstantFolding** is the pass of that name, with strings as sequences of character codes.  A program is the
sequence of its expressions in the order in which the visitor is done with them, operands first and named by
their places; a step rewrites one.  Syntax trees stand in these modules as such sequences, so that recursion
over a tree is a function on places, which the proofs can reason about.  **Dataflow** runs after it, on the same class: the visitor
that looks for unreachable statements and missing returns, one method per step, and the one that looks for
fields read before they are initialised, one field per step.  **ControlFlow** gives the runs of a
body of which every condition that is not constant may go either way: points (the start and the end of each statement,
and the return), the edges between them, and what can be reached along edges.

**TypeHierarchy** is `ValidateExtendsImplementsGraph`: the pruning loop, the implicit
parent, and the recursive search with its call stack in `path`, one recursive event per
action.

**MemberTables** is `BuildMethodTable` and `MakeResolvedMethodTable`: for each type in order,
its own methods, then each parent's, one method of the parent per action, with every
error the code reports.  (`TypeInfoMap` makes the same tables at once: its worlds have none of these errors, except
members declared twice and parents that cannot be extended.)  **ObjectLayout** continues it, for programs without
errors, with `OffsetTable::Build` and the words the writer emits: each loop over the sorted types takes a class per step,
and passes over interfaces (`SkipInterface`).

**RuntimeTypes** continues TypeHierarchy for programs without errors: `_static_init` makes
a TypeInfo for each type in order and runs the static initialisers; these ask
`instanceof` questions, and `TypeInfo.InstanceOf` searches and memoises, its recursion in
`active`.

## 3. The runs

All use two workers and finish in at most about a minute and a half.

| Run | Properties | Shows |
|---|---|---|
| `symbol_table` | TypeOK, NoCheckFails, VisibleIdsDistinct, UndoLogConsistent, ImplementsScopeEnv | Under any nesting of blocks, redeclarations and shadowed parameters, the map and log stay consistent and the table is lexical scoping. |
| `call_stack` | TypeOK, FramesLinked, SlotsDisjoint, ImplementsActivations, OperandsMatch, ThrowExits | Calls keep frames linked and live slots apart; the code implements activations; each operation reads and writes the operands it names; every uncaught exception exits having printed the whole chain. |
| `codegen` | CompilerAccepts, ReadsDefined, OutcomeAgrees, Terminates | Compiled methods end with the same value or exception, calls and heap as their meaning, on every path reading only what was written. |
| `type_names` | NamesRight, BuildErrorsExact, FailuresExplained | Whatever was looked up before, a name gets the type it means in its file or an error, and errors are reported for exactly the clashes; a lookup fails in silence only where the cache repeats a failure whose error was thrown away. |
| `type_checking` | AcceptedIsSound, RejectionsJustified | A member without errors cannot go wrong whatever its variables and fields hold; a member with errors would go wrong, or breaks a rule on its text. |
| `last_phase` | MeaningPreserved, ConstantsFold, StringsHaveIds, RejectsExactly, ErrorsRight, FieldOrderExact | Folding changes no value and no exception and leaves no constant expression and no string without an id; with its conditions folded, a method is rejected exactly if a run falls off its end or a statement is never executed, and an initialiser exactly where it reads a field without a value. |
| `type_hierarchy` | TypeOK, TopSorted, BadExact, BadExplained, Terminates | Exactly the types at or below a cycle or an invalid declaration are blacklisted, each at or below one an error names; the rest are sorted. |
| `program_start` | StartTypeOK, NeverThrows, MemoCorrect, AnswersRight, Answered | InstanceOf never throws, ends, and memoises and answers the truth, whatever is asked in whatever order. |
| `object_layout` | AcceptedIsLegal, FieldsApart, DispatchRight, FailsOnlyForAbstract | Accepted programs obey the overriding rules between all related types, fields never overlap, every call through any class or interface reaches the receiver's one implementation; the layout fails only as `abstract_class` shows. |

Three runs show the code disagree with a comment or a test of the repository
(`findings` in `PROJECT.json` quote them); section 5 lists further differences the runs leave out:

| Run | Violated | What happens |
|---|---|---|
| `implicit_widening` | CompilerAccepts | `int i = b;` for a byte b type checks and then fails a CHECK in the writer. |
| `negative_cast` | MeaningPreserved | `(byte)-2 + 7` is folded with the byte as 254. |
| `abstract_class` | LayoutSucceeds | An abstract class that leaves an interface's method undeclared ends the compiler with `std::out_of_range`. |

Each property of a passing run has a mutant in `PROJECT.json`: a plausible bug, defined
next to the definition it changes, under which the same run finds the property violated.

### Bounds, and why they are enough

* `symbol_table`: 3 names, up to 2 parameters, 4 ids, 4 open scopes.  The log and the map
  only compare names, so three give a shadowing, a sibling and an
  outer name at once; four scopes give a middle one with neighbours.
* `call_stack`: up to 3 activations of 2 temporaries and 2 parameters on 14 words, 2
  values and 2 call sites.  Three frames are the first with a middle frame, two of each
  sort the first with an order; the stack is the least that holds three frames and what
  `_joos_throw` needs (`Reserve` = 3).
* `codegen`: about 2,400 pairs of a method and an input; a byte has `Radix` = 4 values
  (an int 256), so that wrap-around and sign extension occur with small
  numbers.  Every operator meets operands with effects and ones that see those effects,
  and every statement meets a way out of it.  Arrays have at most two elements; the heap
  ends at `HeapEnd` = 145, which no method reaches.
* `last_phase`: `Radix` = 16, so that a char holds the codes of digits and letters;
  about 3,200 programs of one or two expressions, each operator between two operands of
  each sort, with variables of type int, boolean and String; 8,486 classes in all.  The others have a method, once with a value to return and once
  without, of every combination of two nested statements with constant and variable conditions, or two fields with
  initialisers that read, assign or take as objects themselves, the other field, and inherited fields of the same names.
* `type_names`: 2,511 programs of `java.lang`, a library of two packages with a type name in
  common and one that `java.lang` has too, and one or two files of the user: every pair of nine
  imports, every sequence of three uses out of seven, and clashes of types, packages
  and imports.  Two lookups are the first that can disagree through the cache, the third
  sees what the second left.
* `type_checking`: 18,947 members in two worlds.  The sound one has three packages, a chain
  of three classes across them with protected and hidden members, an interface and its heir, an abstract class
  and two heirs, and arrays: every class and interface has heirs that the others have not, so
  that a relation between two types is never there by accident.  Every operator, cast, `instanceof`, index and
  declaration stands between operands of all types; every member is looked up in all
  types, from five classes.  The other world has a cycle and a class below it, a class that cannot
  be extended and its heir, and members declared twice.
* `type_hierarchy`: TypeInfo, Object and three types with 21 declarations each (9,261
  programs): self-cycles, cycles of two and three, overlapping ones, ones met through
  another's descendants, repeated parents and parents of the wrong kind.
* `program_start`: ten programs of six types (chains, diamonds, interfaces met twice,
  types declared before or after their parents, two with errors); six questions, asked
  any number of times.
* `object_layout`: 3,560 programs: six hierarchies of three types, bodies out of ten for
  classes and four for interfaces, with overloads, abstract, static, final and protected
  methods, methods with another type, duplicates, and a redeclared method of Object.
  642 of the programs are accepted, and every kind of error is met.

### Fairness

* `call_stack`: `WF_vars(Unwind)`.  Once `_joos_throw` runs, the processor goes on with its
  loop.  Nothing is assumed of methods, which may run for ever.
* `codegen`: `WF_vars(Next)`: the compiler, and then the processor, go on.  The methods'
  own loops end, for the inputs given.
* `type_hierarchy`: `WF_vars(Next)`: the compiler goes on.  `program_start`:
  `WF(InstanceOf)`: a call in progress goes on; that there is another question is not assumed.

`CHECK_DEADLOCK FALSE` stands where the system stops: a program that ended,
a compilation that is done.  `symbol_table` is checked for deadlock, since a table can always be
destroyed and another made.

## 4. What is proved

The proofs hold for all values of the constants that satisfy the assumptions named with
them: any names, bounds, stack sizes, numbers of types, programs, bodies and questions.

**SymbolTableProofs** (`BoundsAssumption`; `NamesAssumption`: no identifier is empty).  The inductive invariant is
the conjunction of the four checked invariants: `TypeOK`, `VisibleIdsDistinct`, `UndoLogConsistent`, `NoCheckFails`.
None is inductive alone.  The CHECKs of LeaveScope hold because the saved lengths
cut the log exactly; a name is erased safely because the log holds it once and the map
has it; ids stay distinct because all are below the counter.  `PopScopePreserves` is the heart: the
log without the last scope's segment is a log of the outer scopes.  With it, leaving a scope restores
the environment it was entered with, and the table implements ScopeEnv (`TableIsLexicallyScoped`): the environments are
the map restricted to each prefix of the log.

**CallStackProofs** (`StackAssumption`).  `TypeOK` and `FramesLinked` are strengthened with
`FramesApart` (each frame lies wholly below its caller's live temporaries, with room for the unwinder),
`CallsPending` (what a suspended call adds to esp when it ends), `AddressesHold` (a temporary that
holds an address points at a live slot of its own method) and `UnwinderPlaced` (the frame it is at, and that it printed
the call sites of all frames above).  Without
`AddressesHold`, an assignment through a pointer could overwrite a saved ebp; without `CallsPending`,
a return would not restore esp.  `SlotsDisjoint` follows from `FramesApart`.  From the same invariant every
step maps to one of Activations or to a stutter (`StackImplementsActivations`): what an activation sees of its cells
(`View`) changes only where its own operation writes.  `OperandsMatch`, an action property, says that it writes the
cells its operands name.

**TypeHierarchyProofs** (`HierarchyAssumption`).  The invariant says how the calls on the path are linked,
that the parents each call is done with are good, that a call about to fail has a bad parent, and `KnownRight`: good types are
`Sound` and bad ones are not.  `Sound` is the least set closed under "not pruned and all parents in it",
so a cycle is unsound by exhibiting a closed set without it.  When the loop is over every type
is known, which gives `BadExact`.  A second invariant (`RootsPlain`, `RootEdges`, `Begun`) gives
`TypeInfoEarly`: only Object precedes TypeInfo in the order.

**RuntimeTypesProofs** (also `RuntimeAssumption`).  `StartInv` takes the invariants above through the start
of the program: in a program without errors all types are sorted, so when a type's object is made its parents' are
(`TypesMade`).  During a search each call knows which parents are not below the ancestor (`CallsKnow`), and
a reply concerns the parent its caller is at (`ReplyKnows`); with these, what is memoised is
right, and therefore the answers.

**ObjectLayoutProofs**, first part: the member tables (also `MembersAssumption`: bodies are what the parser makes, and the library's Object is not
abstract; `ParserAssumption`: a class names at most one type after `extends`, an interface none after `implements`).  The code
compares a type's methods with its direct parents' entries only; `TablesAreLegal` says that this is enough for all types
above.  The invariant adds what the ids mean (`MidsInv`) and, for a program without errors so far, that the table of each
type done has, for every method of every type above it, an entry that `Covers` it: the method itself or one that may
take its place (`TypeDone`), and the same of the part of the table that is there while a type is at work (`TypeBegun`).
The deciding case is `InheritedTwice`, where two parents' entries of one signature meet.

**ObjectLayoutProofs**, second part: the layout (also `LayoutAssumption`: the library's Object has a dispatched method).  `FieldsLieApart` goes class by
class along the order: the fields of the classes above end where the own ones begin, and words, half-words and
bytes follow each other (`ClassLaid`).  For calls, `DInv` says of the tables that an entry of a class comes from the lowest class above
that declares the method, and names the entry of the class above as its parent; `MethodsInv` says of the layout
that the methods of a class laid out fill the slots of its vtable, one each, and have in it the slots they have in the
classes above (`VtableLaid`); `ItablesInv` gives interfaces one place per signature.  Together:
`DispatchFindsImplementation`.  `ThrowsOnlyForAbstract` says that the exception of run `abstract_class` is the only way the
layout can fail.

**TypeNamesProofs** (`ProgramsAssumption`: no identifier is empty, and every name has parts; `PredefsAssumption`:
`java.lang.String` has a package; `BuiltinAssumption`: built-in types have valid ids).  `IndexInv` says, phase by phase, what each
index holds in terms of the declarations alone.  The list of all types is one that has each declaration in its place, blacklisted or
not (`Lists`), through both blacklists; dropping neighbours with equal names leaves one entry per name (`Indexed`),
because every type with a name that occurs twice has been blacklisted by then; each file's scope, and each package's, is then what the rules of
Scoping give (`FileScopeRight`, `PkgScopeRight`).  With it, `BuildErrorsAreExact`.  For lookups the invariant is `NamesInv`: what the cache remembers of a
file and a name is what a search of that file's imports on demand would find now (`Remembers`), and the work left is lookups of
names of the program.  `NamesAreRight` follows, through `GetRight` for a lookup and `TryPrefixesRight` for an expression's prefixes.
`ExplainedInv` adds that a failure the cache remembers had its error when it was made, reported or thrown away; with it, `FailuresAreExplained`.
The folds of the community modules are unfolded as what they are, functions on finite sets, by induction over a set of numbers.

**DataflowProofs** (`ProgramsAssumption`, `ClassesAssumption`: programs and classes are well-typed, and the parts of each
expression and statement come before it, as the type checker leaves them; `ValuationsAssumption`: variables hold something; `RadixAssumption`).
Folding and the two visitors, for expressions and statements of any size and depth.

* *Existence.*  `Meanings`, `Visits`, `OrderErrors`, `Reads` and `ReachedIn` are functions defined by recursion on places.  That
  there is such a function is proved for each (`MeaningsExist`, `VisitsExist`, ...) by induction on how many places it is
  defined for, over sets of numbers.
* *Folding.*  `FoldInv` says of every expression rewritten so far: its type is the original's, its operands are there, it is a
  literal exactly if the language calls it constant, and then the literal of that value, in the range of its type; otherwise it has the same
  value or exception.  Preserving it needs, of each operator, that folding the literals of two values gives the literal of what the
  operator gives (`VisitMeans` and the lemmas before it), and of numbers that narrowing puts a value in its type's range.  Part of
  it holds only of programs that folding gets right: `FoldsRight` excludes `&`, `|` and `^` of constants, and casts of
  constants to byte and short that change the value, no more (section 5; `negative_cast` shows that something must be excluded).
  That strings have ids (`EveryStringHasAnId`) needs no such condition.
* *The order of fields.*  Errors and reads are compared place by place; the ids of a class's own fields are in the order of
  its members, so "not before the current field" is "without a value yet" (`FieldOrderIsExact`).
* *Runs.*  `Runs` iterates as often as there are points.  `RunsAre` shows that this is enough: the sets grow, there are
  `Longest` points at most, so two neighbours are equal, and the result is the least set that has the start and is closed under the edges.
* *Reachability.*  Where the visitor says that something is not reached, the points it allows are a closed set (`VisitsJustified`);
  where it reports nothing, every statement within the one visited is started by a run, and ended if the visitor says it can be
  (`VisitsAccept`).  What is `Within` a statement is the least set of places closed under parts.  Both go by induction on the place of the
  statement, and within a block on the statements before.  A statement is reported only once along a path (`mayEmit`), so
  completeness is claimed of bodies without errors only, which is what `RejectsExactly` asks.  The conditions of loops are
  decided by the visitor as the language's constants decide them because of `FoldInv` (`ConditionsDecide`): the two parts meet there.

**ProofLemmas**.  The induction theorems of the library take a predicate as an operator, which the provers cannot
instantiate.  Where induction over numbers is needed it is stated over a set of them (`SetInduction`), from the
existence of a least one (`LeastNumber`).

Model-checked only: liveness (`ThrowExits`, `Terminates`, `Answered`), which the prover does not reach; and code
generation and type checking (`CompilerAccepts`, `ReadsDefined`, `OutcomeAgrees`, `AcceptedIsSound`, `RejectionsJustified`), which are
recursive over syntax trees with RECURSIVE operators, beyond the provers in that form.

## 5. What is not modelled

* The lexer and the parser, the weeder's checks of one node at a time, and the driver's
  sequence of passes: see the plan.  Files, error texts, AST printing: input, output and layout.
* In `TypeHierarchy` the type of arrays of Object, a fixed class; in `MemberTables` wrong names
  of constructors (`has_bad_constructor`), native methods, and the early return for a broken
  parent, which the order makes unreachable.
* In `TypeNames`, dimensions of arrays.  `FailuresExplained` and `NamesRight` say less than one would
  like in two cases.  A lookup that a pass makes and throws the errors of away (`TypeSet::TryGet`, and the first part
  of a qualified name at `typeset.cpp` 502) leaves its failure in the cache of wildcard imports (548, 595), and a
  later lookup of that simple name in the file fails without any error.  So `"a"; java x;` in a body is accepted and
  its second statement dropped: resolving `java.lang.String` has cached that `java` is no type.  This is a defect of the code, and
  `FailuresExplained` exempts it, and nothing besides: the answer must come from the cache, an error about its name in
  that file must have been met and thrown away before, and a declared type may not fail to find itself.  Of types
  declared twice, and of the files of clashing imports, `NamesRight` says nothing: the build has reported them.
* In `Dataflow`, `return; while(false){}` gets an error about a missing return beside the one about
  the unreachable statement: `ErrorsRight` lets a needless one pass if the method has another.
* In `TypeInfoMap` and `TypeChecker`: types in error are those in or below a cycle, and those
  below a class without an empty constructor; of other errors in declarations only members declared twice occur, which no
  member that is checked names.  Arrays of arrays are not in Joos.  The branch for programs without
  a String is not reachable, since `VerifyTypeSet` asks for it.
* What the type checking run leaves out because the code differs from the language.  `true == null` and
  `TypeName == ref` fail a CHECK in `IsComparable` (`typechecker_utils.cpp` 215); `null.f` and
  `null.m()` fail one in `LookupTypeInfo` (`type_info_map.h` 247).  `TypeA == TypeA`, `TypeA = TypeA` and `TypeName + "s"` are
  accepted (the comment at `typechecker.cpp` 521 knows of names in place of values).
* What `RejectionsJustified` does not hold against the checker: casts, `instanceof` and comparisons of a class and
  an interface it does not implement, which it rejects although an heir of the class may; errors that follow from an earlier error about the same operand; a second error about `new X()` where `X()` was declared twice;
  and, since a type in error loses its package, errors about its protected members.
* In `Codegen`, other methods: a call is noted and answers what `Joos.Result` says.  `CallStack` shows
  that a call leaves the caller's slots alone.
* Methods the codegen run leaves out because the code is known to differ, or the model's memory has no
  room: MIN_VALUE / -1 (idiv traps); null or out-of-bounds targets with an effectful right-hand side
  (`a[2] = new B(o)` throws before the right-hand side is evaluated, against the comment in MovToAddr,
  `writer.cpp` 491); stores of references in a null array (the store check, `writer.cpp` 962, faults before the null check);
  implicit widening (a run of its own); casts of a byte to a char (the upper byte is what `ah` held);
  null stored in an array of references; an array element as the left operand of string
  addition (the generator leaves the array's Mem unset, and aborts); casts of Object to an array type
  whose object is a primitive array; `instanceof int[]` of an int array (an unresolved label); lengths
  above 2.
* Expressions the folding run leaves out, and `FoldsRight` excludes: `&`, `|` and `^` of two constant booleans (folded to
  false), negative casts to byte and short (a run of their own).  MIN_VALUE / -1 traps in the compiler itself
  (`constant_folding.cpp` 181): in the model the pass ends there (`Traps`).  Casts that may fail, and expressions that the
  pass leaves as they are, stand in it as names.

## 6. Plan

Done, in this order, the most important behaviour first: scopes, the run-time stack, code
generation, folding, the hierarchy, the start of the program, member tables and layout; then type
names, reachability and field order, and the type checker with fields and access.

What is left to model is small or mostly data: operator precedence and the casts of the parser
(`FixPrecedence`), escapes and literals of the lexer, the initialisers of fields and the calls of parents' constructors in
the IR.

Proved, in this order: scopes, the run-time stack, the hierarchy, the start of the program, member tables, layout, type
names, folding, the order of fields, and reachability.  What is left to prove is code generation and type checking.  Both need what was
done for folding: trees as sequences with the parts of a node before it, recursive functions on places instead of recursive
operators, and their existence proved first.  For the type checker, soundness is then an induction on places with the
tables' correctness as its hypothesis; for code generation, the induction is over the stream that each place
contributes, with the invariant of CallStack's slots for the words in memory.
