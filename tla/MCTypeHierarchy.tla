--------------------------- MODULE MCTypeHierarchy ---------------------------
(***************************************************************************)
(* Programs for TypeHierarchy: TypeInfo, Object and three types that may   *)
(* extend and implement each other, themselves included.                   *)
(***************************************************************************)
EXTENDS TypeHierarchy, TLC

Class(extends, implements) ==
    [kind |-> "class", extends |-> extends, implements |-> implements]
Interface(extends) == [kind |-> "interface", extends |-> extends, implements |-> << >>]

User == 3..5

\* A type with no parent, with one, and with two in an order that makes the
\* search go up, down or round.
UserTypes ==
    {Class(<< >>, << >>), Interface(<< >>), Class(<< Object >>, << 4 >>), Interface(<< Object >>)}
    \union {Class(<< t >>, << >>) : t \in User}
    \union {Class(<< >>, << t >>) : t \in {3, 5}}
    \union {Interface(<< t >>) : t \in User}
    \union {Interface(l) : l \in {<< 3, 3 >>, << 4, 5 >>, << 5, 3 >>, << 5, 4 >>}}
    \union {Class(<< >>, << 5, 4 >>), Class(<< 4 >>, << 5 >>), Class(<< >>, << 3, 3 >>),
             Class(<< 5 >>, << 3, 4 >>), Class(<< >>, << 4, 3 >>)}

AllPrograms ==
    {(1 :> Class(<< >>, << >>)) @@ (2 :> Class(<< >>, << >>)) @@
     (3 :> a) @@ (4 :> b) @@ (5 :> c) : a \in UserTypes, b \in UserTypes, c \in UserTypes}
=============================================================================
