---------------------------- MODULE MCRuntimeTypes ----------------------------
(***************************************************************************)
(* Programs for RuntimeTypes: chains, diamonds and an interface met twice, *)
(* declared before or after the types they are above; and two programs     *)
(* with errors, which never start.                                         *)
(***************************************************************************)
EXTENDS RuntimeTypes, TLC

Class(extends, implements) ==
    [kind |-> "class", extends |-> extends, implements |-> implements]
Interface(extends) == [kind |-> "interface", extends |-> extends, implements |-> << >>]
Plain == Class(<< >>, << >>)

UserTypes == {
    << Interface(<< >>), Interface(<< 4 >>), Class(<< >>, << 5 >>) >>,
    << Interface(<< >>), Interface(<< 4 >>), Class(<< >>, << 4, 5 >>) >>,
    << Interface(<< >>), Interface(<< >>), Class(<< >>, << 5, 4 >>) >>,
    << Class(<< 5 >>, << >>), Class(<< 6 >>, << >>), Plain >>,
    << Class(<< 6 >>, << 5 >>), Interface(<< >>), Class(<< >>, << 5 >>) >>,
    << Plain, Interface(<< >>), Class(<< 4 >>, << 5 >>) >>,
    << Interface(<< 5, 6 >>), Interface(<< 6 >>), Interface(<< >>) >>,
    << Plain, Class(<< 4 >>, << >>), Plain >>,
    << Class(<< 6 >>, << >>), Class(<< 4 >>, << >>), Class(<< 5 >>, << >>) >>,
    << Plain, Interface(<< 4 >>), Class(<< >>, << 5 >>) >> }

SomePrograms == {<< Plain, Plain, Plain >> \o user : user \in UserTypes}
SomeQuestions == {<< 6, 4 >>, << 6, 5 >>, << 4, 6 >>, << 5, 4 >>, << 6, 2 >>, << 4, 1 >>}
=============================================================================
