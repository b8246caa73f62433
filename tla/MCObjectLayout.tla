--------------------------- MODULE MCObjectLayout ---------------------------
(***************************************************************************)
(* Programs for ObjectLayout: TypeInfo, Object and three types in six      *)
(* shapes, each with one of a dozen bodies.  Signatures 1 and 2 are        *)
(* overloads; 3 is the signature of a public method of Object.             *)
(***************************************************************************)
EXTENDS ObjectLayout, TLC

Class(extends, implements) ==
    [kind |-> "class", extends |-> extends, implements |-> implements]
Interface(extends) == [kind |-> "interface", extends |-> extends, implements |-> << >>]
Plain == Class(<< >>, << >>)

\* A class above a class above an interface; a class and an interface; two
\* interfaces beside each other, one above the other, and one that no class has;
\* three classes, the lowest first.
UserTypes == {
    << Interface(<< >>), Class(<< >>, << 3 >>), Class(<< 4 >>, << >>) >>,
    << Class(<< >>, << >>), Interface(<< >>), Class(<< 3 >>, << 4 >>) >>,
    << Interface(<< >>), Interface(<< >>), Class(<< >>, << 3, 4 >>) >>,
    << Interface(<< 4 >>), Interface(<< >>), Class(<< >>, << 3 >>) >>,
    << Interface(<< >>), Interface(<< >>), Class(<< >>, << 4 >>) >>,
    << Class(<< 4 >>, << >>), Class(<< 5 >>, << >>), Plain >> }
SomePrograms == {<< Plain, Plain >> \o user : user \in UserTypes}

Named(sig) == << "f", "f", "g", "new" >>[sig]

Public(sig) == [sig |-> sig, returns |-> 1, static |-> FALSE, protected |-> FALSE,
                final |-> FALSE, abstract |-> FALSE]
Ctor == [Public(Constructor) EXCEPT !.returns = 0]
Static(sig) == [Public(sig) EXCEPT !.static = TRUE]
Final(sig) == [Public(sig) EXCEPT !.final = TRUE]
Protected(sig) == [Public(sig) EXCEPT !.protected = TRUE]
Abstract(m) == [m EXCEPT !.abstract = TRUE]
Other(sig) == [Public(sig) EXCEPT !.returns = 2]

Members(methods, fields) ==
    [final |-> FALSE, abstract |-> FALSE, methods |-> methods, fields |-> fields]
AbstractClass(methods, fields) == [Members(methods, fields) EXCEPT !.abstract = TRUE]
FinalClass(methods) == [Members(methods, << >>) EXCEPT !.final = TRUE]

ClassBodies == {
    Members({Ctor}, << 5, 2 >>),
    Members({Ctor, Public(1)}, << 1, 6, 3 >>),
    Members({Ctor, Public(2), Public(3)}, << >>),
    Members({Public(1), Static(2)}, << 3, 4 >>),
    Members({Ctor, Protected(1), Final(2)}, << 1 >>),
    Members({Ctor, Other(1), Public(2)}, << >>),
    Members({Ctor, Public(2), Other(2)}, << >>),
    AbstractClass({Ctor}, << 4, 1 >>),
    AbstractClass({Ctor, Abstract(Protected(1)), Abstract(Public(2))}, << 1 >>),
    FinalClass({Ctor, Public(1)}) }
InterfaceBodies == {
    Members({}, << >>), Members({Public(1)}, << >>), Members({Public(2), Public(3)}, << >>),
    Members({Other(1)}, << >>) }

SomeBodies ==
    {<< Members({Ctor}, << 6 >>), Members({Ctor, Public(3)}, << >>), a, b, c >> :
       a \in ClassBodies \union InterfaceBodies, b \in ClassBodies \union InterfaceBodies,
       c \in ClassBodies}
=============================================================================
