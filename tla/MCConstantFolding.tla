-------------------------- MODULE MCConstantFolding --------------------------
(***************************************************************************)
(* Expressions for ConstantFolding: every operator between two operands,   *)
(* each a literal, a variable or one operation on those, and pairs of       *)
(* expressions that share strings.  They are written as trees.             *)
(***************************************************************************)
EXTENDS ConstantFolding

N == Name(kInt, 1)
F == Name(kBool, 2)
S == Name(String, 3)
Valued ==
    {(1 :> n) @@ (2 :> b) @@ (3 :> IF n = 0 THEN NullReference ELSE Reference(<< 50 >>, "held")) :
        n \in {0, -3}, b \in 0..1}

Num(n) == Lit(kInt, n)
a == << 97 >>
True == Lit(kBool, 1)
False == Lit(kBool, 0)
MaxInt == Modulus(4) \div 2 - 1

Ints == {Num(0), Num(2), Num(7), Num(MaxInt), Lit(kChar, 97)}
IntOperands ==
    Ints \union {N, Unary("SUB", Num(2)), Unary("SUB", N), Unary("SUB", Lit(kChar, 97)),
                 Binary("ADD", Num(MaxInt), Num(7)), Binary("SUB", Num(2), Num(7)),
                 Binary("DIV", Num(7), Num(0)), Unary("SUB", Num(1)),
                 Binary("SUB", Unary("SUB", Num(MaxInt)), Num(1)), Binary("MUL", N, Binary("ADD", Num(2), Num(2)))}
Bools == {True, False}
BoolOperands ==
    Bools \union {F, Unary("NOT", True), Unary("NOT", F), Binary("LT", Num(2), N),
                  Binary("EQ", Binary("MOD", Num(2), Num(0)), Num(2))}
Strings == {Lit(String, << >>), Lit(String, a), Lit(String, << 50 >>)}
StringOperands ==
    Strings \union {Binary("ADD", Lit(String, a), Num(2)), Binary("ADD", N, Lit(String, a)),
                    Binary("ADD", Lit(String, << >>), Unary("SUB", Num(2))), Null, S}

\* The operators of booleans and the casts that folding gets right.
BoolOps == {"AND", "OR", "EQ", "NEQ"}
Casts ==
    {Cast(kInt, e) : e \in IntOperands} \union {Cast(kChar, e) : e \in IntOperands}
    \union {Cast(t, Num(n)) : t \in {kByte, kShort}, n \in {0, 7, Modulus(2) + 2}}
    \union {Cast(t, N) : t \in {kByte, kShort}} \union {Cast(String, s) : s \in Strings}
    \union {Cast(kBool, b) : b \in BoolOperands}

Expressions ==
    {Binary(op, l, r) : op \in {"ADD", "SUB", "MUL", "DIV", "MOD", "LT", "LE", "GT", "GE", "EQ", "NEQ"},
                        l \in IntOperands, r \in IntOperands}
    \union {Binary(op, l, r) : op \in BoolOps, l \in BoolOperands, r \in BoolOperands}
    \union {Binary(op, l, r) : op \in {"BAND", "BOR", "XOR"}, l \in BoolOperands, r \in {F, Unary("NOT", F)}}
    \union {Binary(op, l, r) : op \in {"EQ", "NEQ"}, l \in StringOperands, r \in StringOperands}
    \union {Binary("ADD", l, r) : l \in StringOperands \ {Null},
                                  r \in StringOperands \union BoolOperands \union IntOperands}
    \union Casts \union {Binary("ADD", c, Num(2)) : c \in {c \in Casts : IsNumeric(c.tid)}}
    \union IntOperands \union BoolOperands \union {Unary("NOT", Unary("NOT", b)) : b \in BoolOperands}

\* The expressions of a tree in the order in which the visitor is done with them,
\* the first at place n + 1.
RECURSIVE Visited(_, _)
Visited(e, n) ==
    CASE e.k \in {"lit", "name"} -> << e >>
      [] e.k \in {"unary", "cast"} ->
           LET operand == Visited(e.e, n)
           IN  Append(operand, [e EXCEPT !.e = n + Len(operand)])
      [] e.k = "binary" ->
           LET left == Visited(e.l, n)
               right == Visited(e.r, n + Len(left))
           IN  left \o Append(right, [e EXCEPT !.l = n + Len(left), !.r = n + Len(left \o right)])
ProgramOf(trees) == FoldLeft(LAMBDA p, e : p \o Visited(e, Len(p)), << >>, trees)

Correct ==
    {ProgramOf(<< e >>) : e \in Expressions}
    \union {ProgramOf(<< s, t >>) : s \in StringOperands, t \in StringOperands}

\* None of these is one that folding gets wrong.
ASSUME CorrectFoldsRight == \A p \in Correct : FoldsRight(p)

\* The others: casts of a negative number to a byte or a short.
NegativeCasts ==
    {ProgramOf(<< Binary("ADD", Cast(t, Unary("SUB", Num(n))), Num(7)) >>) : t \in {kByte, kShort}, n \in {2, 7}}
=============================================================================
