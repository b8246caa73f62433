------------------------------- MODULE Scoping -------------------------------
(***************************************************************************)
(* What a type name means in a program, by the rules of the language on    *)
(* packages, imports and scopes, as sets of the types a name may denote.   *)
(* It is what TypeNames, the model of types/typeset.cpp, is checked        *)
(* against; it knows nothing of indices, blacklists or caches.             *)
(*                                                                         *)
(* A program is a sequence of compilation units, a qualified name the      *)
(* sequence of its parts, the unnamed package the empty sequence.  A type  *)
(* is the pair of its file and its place there.                            *)
(***************************************************************************)
EXTENDS Naturals, Sequences, FiniteSets

CONSTANT JavaLang   \* the package every file imports on demand

Types(prog) == UNION {{f} \X DOMAIN prog[f].types : f \in DOMAIN prog}

SimpleName(prog, t) == prog[t[1]].types[t[2]].name

Package(prog, t) == prog[t[1]].package

FullName(prog, t) == Append(Package(prog, t), SimpleName(prog, t))

\* A package exists when a file is in it or in a package below it.
Packages(prog) ==
  UNION {{SubSeq(prog[f].package, 1, n) : n \in 1..Len(prog[f].package)} :
         f \in DOMAIN prog}

InPackage(prog, pkg, n) ==
  {t \in Types(prog) : Package(prog, t) = pkg /\ SimpleName(prog, t) = n}

\* Types of the unnamed package have no name that an import could use.
Called(prog, name) ==
  {t \in Types(prog) : Package(prog, t) # <<>> /\ FullName(prog, t) = name}

SingleImports(prog, f) ==
  {prog[f].imports[i].name :
     i \in {j \in DOMAIN prog[f].imports : ~prog[f].imports[j].onDemand}}

DemandImports(prog, f) ==
  {prog[f].imports[i].name :
     i \in {j \in DOMAIN prog[f].imports : prog[f].imports[j].onDemand}}

\* The types whose declarations or imports in f give them the simple name n.
InFile(prog, f, n) ==
  {t \in Types(prog) :
     /\ SimpleName(prog, t) = n
     /\ \/ t[1] = f
        \/ Package(prog, t) # <<>> /\ FullName(prog, t) \in SingleImports(prog, f)}

OnDemand(prog, f, n) ==
  UNION {InPackage(prog, pkg, n) :
           pkg \in {JavaLang} \cup (DemandImports(prog, f) \cap Packages(prog))}

\* The file's scope shadows the package's, and that the imports on demand.
Simple(prog, f, n) ==
  LET file == InFile(prog, f, n)
      pkg == InPackage(prog, prog[f].package, n)
  IN  IF file # {} THEN file ELSE IF pkg # {} THEN pkg ELSE OnDemand(prog, f, n)

\* A qualified name must not begin with the name of a type in scope.
Meaning(prog, f, name) ==
  IF Len(name) = 1 THEN Simple(prog, f, name[1])
  ELSE IF Cardinality(Simple(prog, f, name[1])) = 1 THEN {}
  ELSE Called(prog, name)

(***************************************************************************)
(* The rules a program's declarations and imports must obey.               *)
(***************************************************************************)
Twice(prog) ==
  {t \in Types(prog) :
     Cardinality(InPackage(prog, Package(prog, t), SimpleName(prog, t))) > 1}

Clashing(prog) ==
  {t \in Types(prog) :
     Package(prog, t) # <<>> /\ FullName(prog, t) \in Packages(prog)}

LegalImports(prog, f) ==
  /\ DemandImports(prog, f) \subseteq Packages(prog)
  /\ \A name \in SingleImports(prog, f) : Called(prog, name) # {}
  /\ \A t \in Types(prog) : Cardinality(InFile(prog, f, SimpleName(prog, t))) < 2

LegalDeclarations(prog) ==
  /\ Twice(prog) = {}
  /\ Clashing(prog) = {}
  /\ \A f \in DOMAIN prog : LegalImports(prog, f)
=============================================================================
