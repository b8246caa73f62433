------------------------------ MODULE TypeNames ------------------------------
(***************************************************************************)
(* Type names: TypeSetBuilder::Build and TypeSet::Get                      *)
(* (types/typeset.cpp), and the lookups the passes make in their order:    *)
(* VerifyTypeSet (types/types.cpp), DeclResolver (types/decl_resolver.cpp) *)
(* and the TypeChecker (types/typechecker.cpp).                            *)
(*                                                                         *)
(* The sorted vectors that Get searches are functions here; FileIds are    *)
(* the places of the units in the program, so the vectors come out sorted. *)
(* TypeIds are the code's: 1 for errors, 16 and up for declared types.     *)
(* Errors are records of their kind, the file and the name.  A type is a   *)
(* name, the names it extends or implements, and its members; a member has *)
(* the names of its declaration and the uses of its initialiser or body.   *)
(* Dimensions of arrays are left out: an array is looked up by its element.*)
(***************************************************************************)
EXTENDS Naturals, Sequences, FiniteSets, SequencesExt

CONSTANTS
  Programs,    \* the programs, sequences of compilation units
  Predefs,     \* the qualified names VerifyTypeSet asks for
  BuiltinIds,  \* the TypeId of each built-in name
  JavaLang,
  JavaLangString,
  NoAnswer

Identifier == STRING \ {""}

QualifiedName == Seq(Identifier) \ {<<>>}

\* StringLit is a name that is always the same.
UseInBody ==
  [kind : {"type", "name"}, name : QualifiedName]
  \cup [kind : {"string"}, name : {JavaLangString}]

MemberDecl == [isField : BOOLEAN, types : Seq(QualifiedName), uses : Seq(UseInBody)]

TypeDecl == [name : Identifier, supers : Seq(QualifiedName), members : Seq(MemberDecl)]

CompUnit ==
  [package : QualifiedName \cup {<<>>},
   imports : Seq([onDemand : BOOLEAN, name : QualifiedName]),
   types : Seq(TypeDecl)]

\* What the parser makes: no identifier is empty.
ASSUME ProgramsAssumption == Programs \subseteq Seq(CompUnit)

ASSUME PredefsAssumption ==
  /\ Predefs \in Seq(QualifiedName)
  /\ JavaLangString \in QualifiedName /\ Len(JavaLangString) > 1

VARIABLES
  program,
  phase,
  allTypes,    \* all_types: each declaration with its TypeId
  allPkgs,     \* all_pkgs
  qualIndex,   \* qual_name_index_: TypeIds by qualified name
  fileScope,   \* comp_unit_scope_: TypeIds by file and simple name
  pkgScope,    \* pkg_scope_: TypeIds by package and simple name
  wildcards,   \* wildcard_imports_
  cache,       \* wildcard_lookup_cache_
  errors,
  work,        \* the lookups still to be made
  pruned,      \* the types and members that were dropped from the tree
  answer,      \* the last lookup, what it returned, and whether the cache had it
  hushed       \* the errors that were thrown away

vars == <<program, phase, allTypes, allPkgs, qualIndex, fileScope, pkgScope,
          wildcards, cache, errors, work, pruned, answer, hushed>>

index == <<allTypes, allPkgs, qualIndex, fileScope, pkgScope, wildcards>>

S == INSTANCE Scoping

ErrorBase == 1
FirstRefTypeBase == 16

IsValid(tid) == tid > ErrorBase

ASSUME BuiltinAssumption ==
  \A n \in DOMAIN BuiltinIds : BuiltinIds[n] \in Nat /\ IsValid(BuiltinIds[n])

NoFile == 0   \* fid_ = -1: a lookup outside of any file

Err(kind, f, name) == [kind |-> kind, file |-> f, name |-> name]

\* The dotted name of a type.  In the unnamed package it begins with a dot.
LongName(pkg, n) == IF pkg = <<>> THEN <<"", n>> ELSE Append(pkg, n)

-----------------------------------------------------------------------------
(***************************************************************************)
(* TypeSetBuilder                                                          *)
(***************************************************************************)
Dotted(name) == Prefixes(name) \ {<<>>}

\* All declarations in the order of files.
Declarations ==
  FlattenSeq([f \in DOMAIN program |->
    [i \in DOMAIN program[f].types |->
       [file |-> f, pkg |-> program[f].package, name |-> program[f].types[i].name]]])

ExtractTypesAndPackages ==
  /\ phase = "extract"
  /\ allTypes' = [i \in DOMAIN Declarations |->
                    [file |-> Declarations[i].file,
                     pkg |-> Declarations[i].pkg,
                     name |-> Declarations[i].name,
                     long |-> LongName(Declarations[i].pkg, Declarations[i].name),
                     tid |-> FirstRefTypeBase + i - 1]]
  /\ allPkgs' = UNION {Dotted(program[f].package) : f \in DOMAIN program}
  /\ phase' = "collisions"
  /\ UNCHANGED <<program, qualIndex, fileScope, pkgScope, wildcards, cache,
                 errors, work, pruned, answer, hushed>>

Blacklist(types, names) ==
  [i \in DOMAIN types |->
     IF types[i].long \in names THEN [types[i] EXCEPT !.tid = ErrorBase] ELSE types[i]]

LongNames(types) == {types[i].long : i \in DOMAIN types}

\* The names declared both as a type and as a package.
Collisions == LongNames(allTypes) \cap allPkgs

CheckTypePackageCollision ==
  /\ phase = "collisions"
  /\ errors' = errors \cup {Err("TypeAndPackage", NoFile, n) : n \in Collisions}
  /\ allTypes' = Blacklist(allTypes, Collisions)
  /\ phase' = "qualified"
  /\ UNCHANGED <<program, allPkgs, qualIndex, fileScope, pkgScope, wildcards,
                 cache, work, pruned, answer, hushed>>

\* Mutant of BadNames: the types are compared in the order of files.
BadNeighbours ==
  {allTypes[i].long : i \in {j \in 2..Len(allTypes) : allTypes[j].long = allTypes[j - 1].long}}

\* The names that several types have.
BadNames ==
  {n \in LongNames(allTypes) :
     Cardinality({i \in DOMAIN allTypes : allTypes[i].long = n}) > 1}

\* Like std::unique, only neighbours are compared.
DropAdjacent(types) ==
  FoldLeft(LAMBDA kept, t :
             IF kept # <<>> /\ Last(kept).long = t.long THEN kept ELSE Append(kept, t),
           <<>>, types)

BuildQualifiedNameIndex ==
  /\ phase = "qualified"
  /\ errors' = errors \cup {Err("DuplicateType", NoFile, n) : n \in BadNames}
  /\ LET types == Blacklist(allTypes, BadNames)
     IN  /\ qualIndex' = [n \in LongNames(types) |->
                            types[CHOOSE i \in DOMAIN types : types[i].long = n].tid]
         /\ allTypes' = DropAdjacent(types)
  /\ phase' = "imports"
  /\ UNCHANGED <<program, allPkgs, fileScope, pkgScope, wildcards, cache, work,
                 pruned, answer, hushed>>

\* must_resolve
MustResolve(name) == IF name \in DOMAIN qualIndex THEN qualIndex[name] ELSE ErrorBase

ImportsOf(f, onDemand) ==
  {program[f].imports[i].name :
     i \in {j \in DOMAIN program[f].imports : program[f].imports[j].onDemand = onDemand}}

\* The pairs of a simple name and a TypeId that f imports or declares; pairs
\* that are equal have been dropped.
FileTypes(f) ==
  {<<Last(name), MustResolve(name)>> : name \in ImportsOf(f, FALSE)}
  \cup {<<program[f].types[i].name,
          MustResolve(LongName(program[f].package, program[f].types[i].name))>> :
        i \in DOMAIN program[f].types}

Ids(pairs, n) == {p[2] : p \in {q \in pairs : q[1] = n}}

\* The scope of one file; a name with several types is blacklisted.
ScopeOf(f) ==
  LET pairs == FileTypes(f)
  IN  [k \in {<<f, p[1]>> : p \in pairs} |->
         IF Cardinality(Ids(pairs, k[2])) = 1
           THEN CHOOSE tid \in Ids(pairs, k[2]) : TRUE
           ELSE ErrorBase]

ImportErrors(f) ==
  {Err("UnknownPackage", f, name) : name \in ImportsOf(f, TRUE) \ allPkgs}
  \cup {Err("UnknownImport", f, name) : name \in ImportsOf(f, FALSE) \ DOMAIN qualIndex}
  \cup {Err("DuplicateType", f, <<p[1]>>) :
          p \in {q \in FileTypes(f) : Cardinality(Ids(FileTypes(f), q[1])) > 1}}

WildcardsOf(f) ==
  {<<f, pkg>> : pkg \in {JavaLang} \cup (ImportsOf(f, TRUE) \cap allPkgs)}

Merge(fs, g(_)) ==   \* the union of functions with disjoint domains
  [k \in UNION {DOMAIN g(f) : f \in fs} |-> g(CHOOSE f \in fs : k \in DOMAIN g(f))[k]]

ResolveImports ==
  /\ phase = "imports"
  /\ fileScope' = Merge(DOMAIN program, ScopeOf)
  /\ wildcards' = UNION {WildcardsOf(f) : f \in DOMAIN program}
  /\ errors' = errors \cup UNION {ImportErrors(f) : f \in DOMAIN program}
  /\ phase' = "packages"
  /\ UNCHANGED <<program, allTypes, allPkgs, qualIndex, pkgScope, cache, work,
                 pruned, answer, hushed>>

-----------------------------------------------------------------------------
(***************************************************************************)
(* The lookups of the passes, in their order.  A task is one lookup, of a  *)
(* type or one of its members (0: the type itself).                        *)
(***************************************************************************)
Task(pass, kind, f, i, m, name) ==
  [pass |-> pass, kind |-> kind, file |-> f, type |-> i, member |-> m, name |-> name]

Tasks(pass, kind, f, i, m, names) ==
  [k \in DOMAIN names |-> Task(pass, kind, f, i, m, names[k])]

PerMember(f, i, g(_)) == FlattenSeq([m \in DOMAIN program[f].types[i].members |-> g(m)])

PerType(g(_, _)) ==
  FlattenSeq([f \in DOMAIN program |->
    FlattenSeq([i \in DOMAIN program[f].types |-> g(f, i)])])

\* DeclResolver: the type itself, what it extends and implements, and the
\* types in the declarations of its members.
DeclTasks ==
  PerType(LAMBDA f, i :
    LET type == program[f].types[i]
    IN  <<Task("decl", "own", f, i, 0, <<type.name>>)>>
        \o Tasks("decl", "super", f, i, 0, type.supers)
        \o PerMember(f, i, LAMBDA m :
             Tasks("decl", "member", f, i, m, type.members[m].types)))

\* TypeChecker: again the type itself and the types of fields, and the names
\* in initialisers and bodies.
CheckTasks ==
  PerType(LAMBDA f, i :
    LET type == program[f].types[i]
    IN  <<Task("check", "own", f, i, 0, <<type.name>>)>>
        \o PerMember(f, i, LAMBDA m :
             LET member == type.members[m]
             IN  (IF member.isField THEN Tasks("check", "member", f, i, m, member.types)
                                    ELSE <<>>)
                 \o [k \in DOMAIN member.uses |->
                       Task("check", member.uses[k].kind, f, i, m, member.uses[k].name)]))

VerifyTasks ==
  [k \in DOMAIN Predefs |-> Task("verify", "predef", NoFile, 0, 0, Predefs[k])]

ResolvePkgScope ==
  /\ phase = "packages"
  /\ pkgScope' = [k \in {<<t.pkg, t.name>> : t \in ToSet(allTypes)} |->
                    (CHOOSE t \in ToSet(allTypes) : <<t.pkg, t.name>> = k).tid]
  /\ work' = VerifyTasks
  /\ phase' = "verify"
  /\ UNCHANGED <<program, allTypes, allPkgs, qualIndex, fileScope, wildcards,
                 cache, errors, pruned, answer, hushed>>

-----------------------------------------------------------------------------
(***************************************************************************)
(* TypeSet.  A lookup returns a TypeId, the errors it reports, those it    *)
(* threw away, and the cache as it leaves it.                              *)
(***************************************************************************)
Result(tid, errs, lost, found) ==
  [tid |-> tid, errors |-> errs, lost |-> lost, cache |-> found]

\* TryGet: the errors of a lookup are thrown away.
Quiet(r) == Result(r.tid, {}, r.lost \cup r.errors, r.cache)

Extend(f, g) == [x \in DOMAIN f \cup DOMAIN g |-> IF x \in DOMAIN f THEN f[x] ELSE g[x]]

\* LookupInPkgScope in each wildcard import of f.
Matches(f, n) ==
  {w \in wildcards : w[1] = f /\ <<w[2], n>> \in DOMAIN pkgScope}

\* Mutant of WildcardLookup: the cache is keyed by the name only.
WildcardLookupForAll(f, n, known) ==
  LET found == Matches(f, n)
      tid == IF Cardinality(found) = 1
               THEN LET w == CHOOSE w \in found : TRUE IN pkgScope[<<w[2], n>>]
               ELSE ErrorBase
      errs == IF found = {} THEN {Err("UnknownTypename", f, <<n>>)}
              ELSE IF Cardinality(found) > 1 THEN {Err("AmbiguousType", f, <<n>>)}
              ELSE {}
  IN  Result(tid, errs, {}, Extend(known, [k \in (DOMAIN program) \X {n} |-> tid]))

WildcardLookup(f, n, known) ==
  LET found == Matches(f, n)
      tid == IF Cardinality(found) = 1
               THEN LET w == CHOOSE w \in found : TRUE IN pkgScope[<<w[2], n>>]
               ELSE ErrorBase
      errs == IF found = {} THEN {Err("UnknownTypename", f, <<n>>)}
              ELSE IF Cardinality(found) > 1 THEN {Err("AmbiguousType", f, <<n>>)}
              ELSE {}
  IN  Result(tid, errs, {}, Extend(known, [k \in {<<f, n>>} |-> tid]))

GetSimple(f, n, known) ==
  IF n \in DOMAIN BuiltinIds THEN Result(BuiltinIds[n], {}, {}, known)
  ELSE IF f = NoFile THEN Result(ErrorBase, {Err("UnknownTypename", f, <<n>>)}, {}, known)
  ELSE IF <<f, n>> \in DOMAIN fileScope THEN Result(fileScope[<<f, n>>], {}, {}, known)
  ELSE IF <<program[f].package, n>> \in DOMAIN pkgScope
    THEN Result(pkgScope[<<program[f].package, n>>], {}, {}, known)
  ELSE IF <<f, n>> \in DOMAIN known THEN Result(known[<<f, n>>], {}, {}, known)
  ELSE WildcardLookup(f, n, known)

\* The first part of a qualified name is looked up too, without its errors,
\* when the name itself was found.
GetQualified(f, name, known) ==
  IF name \notin DOMAIN qualIndex
    THEN Result(ErrorBase, {Err("UnknownTypename", f, name)}, {}, known)
  ELSE IF qualIndex[name] = ErrorBase THEN Result(ErrorBase, {}, {}, known)
  ELSE LET first == Quiet(GetSimple(f, name[1], known))
       IN  IF IsValid(first.tid)
             THEN Result(ErrorBase, {Err("TypeWithTypePrefix", f, name)}, first.lost, first.cache)
             ELSE Result(qualIndex[name], {}, first.lost, first.cache)

Get(f, name, known) ==
  IF Len(name) = 1 THEN GetSimple(f, name[1], known) ELSE GetQualified(f, name, known)

\* The names TypeChecker::RewriteNameExpr tries until one is a type.
TryPrefixes(f, name, known) ==
  FoldLeft(LAMBDA r, n :
             IF IsValid(r.tid) THEN r
             ELSE LET next == Quiet(Get(f, SubSeq(name, 1, n), r.cache))
                  IN  Result(next.tid, {}, r.lost \cup next.lost, next.cache),
           Result(ErrorBase, {}, {}, known), [n \in DOMAIN name |-> n])

-----------------------------------------------------------------------------
Init ==
  /\ program \in Programs
  /\ phase = "extract"
  /\ allTypes = <<>>
  /\ allPkgs = {}
  /\ qualIndex = <<>>
  /\ fileScope = <<>>
  /\ pkgScope = <<>>
  /\ wildcards = {}
  /\ cache = <<>>
  /\ errors = {}
  /\ work = <<>>
  /\ pruned = {}
  /\ answer = NoAnswer
  /\ hushed = {}

\* The parts of the tree a task belongs to.  DeclResolver looks up every type of
\* a member before it drops it.
Owners(t) ==
  {<<t.file, t.type, 0>>}
  \cup (IF t.pass = "check" THEN {<<t.file, t.type, t.member>>} ELSE {})

\* The next task, of the kind given, in a part of the tree that is still there.
Doing(kind) ==
  /\ phase \in {"verify", "decl", "check"}
  /\ work # <<>>
  /\ Head(work).kind = kind
  /\ Owners(Head(work)) \cap pruned = {}

Finish(res, reported, dropped) ==
  /\ cache' = res.cache
  /\ errors' = errors \cup reported
  /\ hushed' = hushed \cup res.lost
  /\ pruned' = pruned \cup dropped
  /\ LET t == Head(work)
     IN  answer' = [kind |-> t.kind, file |-> t.file, name |-> t.name, tid |-> res.tid,
                    cached |-> Len(t.name) = 1 /\ <<t.file, t.name[1]>> \in DOMAIN cache]
  /\ work' = Tail(work)
  /\ UNCHANGED <<program, phase, index>>

\* VerifyTypeSet
Verify ==
  /\ Doing("predef")
  /\ LET t == Head(work)
         res == Quiet(Get(t.file, t.name, cache))
     IN  Finish(res,
                IF IsValid(res.tid) THEN {} ELSE {Err("MissingPredef", NoFile, t.name)},
                {})

\* The type being declared; a broken one is dropped.
Own ==
  /\ Doing("own")
  /\ LET t == Head(work)
         res == Quiet(Get(t.file, t.name, cache))
     IN  Finish(res, {}, IF IsValid(res.tid) THEN {} ELSE {<<t.file, t.type, 0>>})

\* Mutant of Super: TryGet for Get, as in Own.
SuperUnreported ==
  /\ Doing("super")
  /\ LET t == Head(work)
     IN  Finish(Quiet(Get(t.file, t.name, cache)), {}, {})

Super ==
  /\ Doing("super")
  /\ LET t == Head(work)
         res == Get(t.file, t.name, cache)
     IN  Finish(res, res.errors, {})

\* ResolveType in a member's declaration; without its types it is dropped.
Member ==
  /\ Doing("member")
  /\ LET t == Head(work)
         res == Get(t.file, t.name, cache)
     IN  Finish(res, res.errors,
                IF IsValid(res.tid) THEN {} ELSE {<<t.file, t.type, t.member>>})

\* TypeChecker::MustResolveType in a body.  Without a type the statement is
\* dropped and the rest of the body goes on.
LocalType ==
  /\ Doing("type")
  /\ LET t == Head(work)
         res == Get(t.file, t.name, cache)
     IN  Finish(res, res.errors, {})

\* A name that is neither a variable nor a field of the type.
NameExpr ==
  /\ Doing("name")
  /\ LET t == Head(work)
         res == TryPrefixes(t.file, t.name, cache)
     IN  Finish(res,
                IF IsValid(res.tid) THEN {} ELSE {Err("UndefinedReference", t.file, t.name)},
                {})

\* JavaLangType("String")
StringLit ==
  /\ Doing("string")
  /\ LET t == Head(work)
         res == Quiet(Get(t.file, JavaLangString, cache))
     IN  Finish(res,
                IF IsValid(res.tid) THEN {} ELSE {Err("NoString", t.file, t.name)},
                {})

\* Nothing is looked up in a part of the tree that was dropped.
Skip ==
  /\ phase \in {"decl", "check"}
  /\ work # <<>>
  /\ Owners(Head(work)) \cap pruned # {}
  /\ work' = Tail(work)
  /\ UNCHANGED <<program, phase, index, cache, errors, pruned, answer, hushed>>

\* TypecheckProgram: the next pass.  Without the predefined types there is none.
NextPass ==
  /\ phase \in {"verify", "decl", "check"}
  /\ work = <<>>
  /\ phase' = CASE phase = "verify" /\ ~\E e \in errors : e.kind = "MissingPredef" -> "decl"
                [] phase = "decl" -> "check"
                [] OTHER -> "done"
  /\ work' = CASE phase' = "decl" -> DeclTasks
               [] phase' = "check" -> CheckTasks
               [] OTHER -> <<>>
  /\ answer' = NoAnswer
  /\ UNCHANGED <<program, index, cache, errors, pruned, hushed>>

Next ==
  \/ ExtractTypesAndPackages \/ CheckTypePackageCollision
  \/ BuildQualifiedNameIndex \/ ResolveImports \/ ResolvePkgScope
  \/ Verify \/ Own \/ Super \/ Member \/ LocalType \/ NameExpr \/ StringLit
  \/ Skip \/ NextPass

Spec == Init /\ [][Next]_vars

-----------------------------------------------------------------------------
Built == phase \in {"verify", "decl", "check", "done"}

\* The declaration that has a TypeId.
Declared(tid) ==
  {t \in S!Types(program) :
     \E e \in ToSet(allTypes) :
       e.tid = tid /\ e.file = t[1] /\ e.name = S!SimpleName(program, t)}

\* What the language says a name means where it was looked up.
MeaningAt(f, name) ==
  IF f = NoFile THEN S!Called(program, name) ELSE S!Meaning(program, f, name)

\* A name in an expression means its first prefix that is a type.
FirstTypePrefix(f, name) ==
  LET types == {n \in DOMAIN name : Cardinality(MeaningAt(f, SubSeq(name, 1, n))) = 1}
  IN  IF types = {} THEN {}
      ELSE MeaningAt(f, SubSeq(name, 1, CHOOSE n \in types : \A k \in types : n <= k))

AnswerMeans ==
  IF answer.kind = "name" THEN FirstTypePrefix(answer.file, answer.name)
                          ELSE MeaningAt(answer.file, answer.name)

\* Every lookup of the passes answers what the scoping rules say: the one
\* type a name means, through the scope of the file, of the package and of
\* the imports on demand, in whatever order and however often the names of a
\* file were looked up before, so whatever the cache holds by then; and it
\* fails when a name means no type or several.  In a program with broken declarations a
\* simple name may fail instead, but is never another type.
NamesRight ==
  answer # NoAnswer /\ Head(answer.name) \notin DOMAIN BuiltinIds =>
    IF S!LegalDeclarations(program)
      THEN IF Cardinality(AnswerMeans) = 1
             THEN Declared(answer.tid) = AnswerMeans
             ELSE ~IsValid(answer.tid)
      ELSE IsValid(answer.tid) /\ Len(answer.name) = 1 => Declared(answer.tid) = AnswerMeans

BuildErrors ==
  {e \in errors : e.kind \in {"TypeAndPackage", "DuplicateType", "UnknownPackage", "UnknownImport"}}

\* Building the type set reports an error for exactly the programs whose
\* declarations and imports are illegal, although several indices are built
\* one from the other and duplicates are dropped in three of them; and exactly the types
\* declared twice or with the name of a package are blacklisted.
BuildErrorsExact ==
  Built =>
    /\ BuildErrors = {} <=> S!LegalDeclarations(program)
    /\ \A t \in S!Types(program) :
         qualIndex[LongName(S!Package(program, t), S!SimpleName(program, t))] = ErrorBase
           <=> t \in S!Twice(program) \cup S!Clashing(program)

\* No pass drops a part of a legal program in silence: a lookup that fails has an
\* error about its name in its file, and a type never fails to find itself.  There is one exception,
\* of the code's own making: the cache of the wildcard imports gives a simple
\* name's failure again without its error, also when the error of the lookup
\* that filled it was thrown away.  Whoever asks first must still have met that
\* error, in the same file.
FailuresExplained ==
  /\ answer # NoAnswer
  /\ S!LegalDeclarations(program)
  /\ ~IsValid(answer.tid)
  => LET IsAbout(e) == e.file = answer.file /\ e.name = answer.name
     IN  \/ \E e \in errors : IsAbout(e)
         \/ answer.cached /\ answer.kind # "own" /\ \E e \in hushed : IsAbout(e)
=============================================================================
