----------------------------- MODULE MCTypeNames -----------------------------
(***************************************************************************)
(* The programs TypeNames is checked with: java.lang with Object and       *)
(* String, a library of packages p and q, and a file that uses them.       *)
(***************************************************************************)
EXTENDS TypeNames

JavaLangPkg == <<"java", "lang">>
StringName == <<"java", "lang", "String">>
ObjectName == <<"java", "lang", "Object">>
PredefNames == <<ObjectName, StringName>>
BuiltinTids == [void |-> 4, int |-> 9]

Unit(pkg, imports, types) == [package |-> pkg, imports |-> imports, types |-> types]
Class(n) == [name |-> n, supers |-> <<>>, members |-> <<>>]
Import(name) == [onDemand |-> FALSE, name |-> name]
ImportAll(pkg) == [onDemand |-> TRUE, name |-> pkg]
Use(kind, name) == [kind |-> kind, name |-> name]
Field(t, uses) == [isField |-> TRUE, types |-> <<t>>, uses |-> uses]
Method(types, uses) == [isField |-> FALSE, types |-> types, uses |-> uses]

JavaLangUnit == Unit(JavaLangPkg, <<>>, <<Class("Object"), Class("String")>>)
Library ==
  <<JavaLangUnit, Unit(<<"p">>, <<>>, <<Class("A"), Class("B")>>),
    Unit(<<"q">>, <<>>, <<Class("A"), Class("String")>>)>>

Packs == {<<>>, <<"p">>, <<"q">>}

\* Every pair of imports, in every package, before the same uses.
Imports ==
  {Import(<<"p", "A">>), Import(<<"q", "A">>), Import(<<"p", "C">>), Import(<<"A">>),
   Import(<<"q", "String">>), ImportAll(<<"p">>), ImportAll(<<"q">>), ImportAll(<<"r">>),
   ImportAll(JavaLangPkg)}

ImportLists == {<<>>} \cup {<<i>> : i \in Imports} \cup (Imports \X Imports)

ImportingMain(pkg, imports, n) ==
  Unit(pkg, imports,
    <<[name |-> n, supers |-> <<<<"A">>>>,
       members |-> <<Field(<<"B">>, <<Use("string", StringName)>>),
                     Method(<<<<"void">>, <<"p", "A">>, <<"String">>>>,
                            <<Use("name", <<"p", "B", "f">>), Use("type", <<"p">>)>>)>>]>>)

ImportPrograms ==
  {Append(Library, ImportingMain(pkg, imports, n)) :
     pkg \in Packs, imports \in ImportLists, n \in {"A", "C", "p"}}

\* Every sequence of three uses in a body.
Uses ==
  {Use("type", <<"java">>), Use("type", <<"A">>), Use("type", <<"q", "A">>),
   Use("type", <<"p">>), Use("name", <<"q", "A", "f">>),
   Use("name", <<"A", "f">>), Use("string", StringName)}

UsingMain(n, imports, uses) ==
  Unit(<<>>, imports, <<[name |-> n, supers |-> <<>>, members |-> <<Method(<<<<"int">>>>, uses)>>]>>)

UsePrograms ==
  {Append(Library, UsingMain(n, imports, uses)) :
     n \in {"C", "java"}, imports \in {<<ImportAll(<<"p">>)>>, <<ImportAll(<<"p">>), ImportAll(<<"q">>)>>},
     uses \in Uses \X Uses \X Uses}

\* Two files of uses, which share the cache.
TwoFiles ==
  {Library \o <<UsingMain("C", <<ImportAll(<<"p">>)>>, <<u, v>>),
                UsingMain("D", <<ImportAll(<<"q">>)>>, <<v>>)>> :
     u \in Uses, v \in Uses}

\* Broken libraries: types declared twice, next to each other and apart, types with the
\* names of packages, and no String.
Extra ==
  {<<Unit(<<"p">>, <<>>, <<Class("B"), Class("C")>>)>>,
   <<Unit(<<"p">>, <<>>, <<Class("C"), Class("C")>>)>>,
   <<Unit(<<"p">>, <<>>, <<Class("q"), Class("C")>>), Unit(<<"p", "q">>, <<>>, <<Class("A")>>)>>,
   <<Unit(<<"p", "A", "r">>, <<>>, <<Class("A")>>)>>,
   <<Unit(<<>>, <<>>, <<Class("p"), Class("B")>>)>>}

BrokenPrograms ==
  {(IF first THEN extra \o Library ELSE Library \o extra)
     \o <<ImportingMain(pkg, <<i>>, "C")>> :
     first \in BOOLEAN, extra \in Extra, pkg \in Packs, i \in Imports}
  \cup {<<Unit(JavaLangPkg, <<>>, <<Class("Object")>>), ImportingMain(<<>>, <<>>, "A")>>}

AllPrograms == ImportPrograms \cup UsePrograms \cup TwoFiles \cup BrokenPrograms
=============================================================================
