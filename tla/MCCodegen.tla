------------------------------ MODULE MCCodegen ------------------------------
(***************************************************************************)
(* Methods and inputs for Codegen.  Every method has the parameters below; *)
(* its input varies the ones it is about.                                  *)
(***************************************************************************)
EXTENDS Codegen

A == Type("A")
X == Name(kInt, 100)
Y == Name(kInt, 101)
P == Name(kBool, 102)
Q == Name(kBool, 103)
B == Name(kByte, 104)
H == Name(kShort, 105)
C == Name(kChar, 106)
Ints == Name(ArrayOf("int"), 107)
As == Name(ArrayOf("A"), 108)
O == Name(Object, 109)
Bytes == Name(ArrayOf("byte"), 110)
Self == This(A)
Parameters ==
    << [vid |-> 1, tid |-> A] >> \o
    [i \in 1..11 |-> LET all == << X, Y, P, Q, B, H, C, Ints, As, O, Bytes >>
                     IN  [vid |-> all[i].vid, tid |-> all[i].tid]]

\* The objects there are: a string, an A, a B and an array of each sort.
Heap == << NewObject("String"),
           [NewObject("A") EXCEPT !.cells.f = 7, !.cells.b = -1],
           NewObject("B"),
           [NewArrayObject(kInt, 2) EXCEPT !.cells[0] = 5, !.cells[1] = -6],
           [NewArrayObject(A, 2) EXCEPT !.cells[0] = 2],
           [NewArrayObject(kByte, 2) EXCEPT !.cells[0] = -2],
           NewArrayObject(Type("B"), 1) >>
Args == (1 :> 2) @@ (100 :> 1) @@ (101 :> 2) @@ (102 :> 0) @@ (103 :> 1) @@
        (104 :> -2) @@ (105 :> -8) @@ (106 :> 15) @@ (107 :> 4) @@ (108 :> 5) @@
        (109 :> 0) @@ (110 :> 6)
Input(args) == [args |-> args @@ Args, heap |-> Heap, statics |-> [s |-> 3, t |-> 1]]

\* The inputs of a method of each family.
Numbers == {Input((100 :> v[1]) @@ (101 :> v[2])) : v \in
              {<<1, 2>>, <<0, 1>>, <<-1, 0>>, <<-128, 3>>, <<127, 127>>, <<1, -3>>}}
Truths == {Input((102 :> u) @@ (103 :> v)) : u \in 0..1, v \in 0..1}
Narrows == {Input((104 :> -2) @@ (105 :> -8) @@ (106 :> 15)),
            Input((104 :> 1) @@ (105 :> 7) @@ (106 :> 8))}
References == {Input((109 :> r) @@ (100 :> n)) : r \in {0, 2, 3, 5}, n \in {0, 1}}
Arrays == {Input((107 :> a) @@ (108 :> s) @@ (100 :> n)) : a \in {0, 4}, s \in {0, 5}, n \in -1..2}
StoresAt(ns) ==
    {Input((108 :> s) @@ (109 :> r) @@ (100 :> n)) : s \in {5, 7}, r \in {2, 3}, n \in ns}
Counts == {Input((100 :> n) @@ (102 :> u)) : n \in {-1, 0, 2}, u \in 0..1}

CasesOf(ret, body, inputs) == {[method |-> Method(Parameters, ret, body), input |-> in] : in \in inputs}
Returning(es, inputs) == UNION {CasesOf(e.tid, Return(e), inputs) : e \in es}
Doing(bodies, inputs) == UNION {CasesOf(kInt, Block(<< b, Return(X) >>), inputs) : b \in bodies}

\* Operands with an effect, or that see one.
Noted(e) == CallExpr(e.tid, StaticRef,
                     CASE e.tid = kInt -> "int" [] e.tid = kBool -> "bool" [] OTHER -> "id", << e >>)
IntOperands == {X, Noted(Y), Assign(X, Y), Index(kInt, Ints, X), Field(kInt, Self, "f"),
                Assign(Field(kInt, Self, "f"), X)}
BoolOperands == {P, Noted(Q), Assign(P, Q), Unary("NOT", P)}

IntPrograms ==
    {Binary(op, l, r) : op \in {"ADD", "SUB", "MUL", "DIV", "MOD"}, l \in IntOperands, r \in IntOperands}
    \union {Binary(op, l, r) : op \in {"LT", "LE", "GT", "GE", "EQ", "NEQ"},
                               l \in {X, Noted(X)}, r \in {Y, Assign(X, Y)}}
    \union {Unary("SUB", e) : e \in IntOperands}
NestedPrograms ==
    {Binary(op, Binary("MUL", Noted(X), Assign(X, Y)), Binary("SUB", X, r)) :
        op \in {"ADD", "DIV", "GE"}, r \in IntOperands}
    \union {CallExpr(kInt, base, "int", << B, C, Q, H, O, Binary("ADD", C, Noted(X)) >>) :
               base \in {StaticRef, Self}}
    \union {Index(kInt, Ints, Index(kInt, Ints, Binary("MOD", Noted(Y), Lit(kInt, 2))))}
BoolPrograms ==
    {Binary(op, l, r) : op \in {"AND", "OR", "BAND", "BOR", "XOR", "EQ", "NEQ"},
                        l \in BoolOperands, r \in BoolOperands}
    \union {Binary("OR", Binary("AND", Noted(P), Noted(Q)), Noted(Unary("NOT", Q)))}

NarrowPrograms ==
    {Binary(op, l, r) : op \in {"ADD", "MUL", "LT", "GE", "EQ"}, l \in {B, C, X}, r \in {B, H, C}}
    \union {Cast(t, e) : t \in {kByte, kShort, kInt}, e \in {B, H, C, Assign(H, Cast(kShort, C))}}
    \union {Cast(kChar, e) : e \in {H, C, Binary("ADD", C, H)}}
    \union {Cast(kInt, e) : e \in {Index(kByte, Bytes, X), StaticField(kByte, "t"),
                                   Field(kByte, Self, "b"),
                                   Assign(Index(kByte, Bytes, X), Cast(kByte, H)),
                                   Assign(StaticField(kByte, "t"), B),
                                   Assign(Field(kByte, Self, "b"), B)}}

S == CallExpr(String, StaticRef, "StringOps.str", << O >>)
ReferencePrograms ==
    {InstanceOfExpr(O, t) : t \in {A, Type("B"), Object, ArrayOf("A"), ArrayOf("B"), ArrayOf("int")}}
    \union {InstanceOfExpr(As, t) : t \in {Object, ArrayOf("A"), ArrayOf("B")}}
    \union {Cast(t, O) : t \in {A, Type("B"), ArrayOf("Object")}}
    \union {Cast(Type("B"), Self), Cast(Object, As)}
    \union {Field(kInt, Cast(A, O), "f"), Assign(Field(kInt, Cast(A, O), "f"), X),
            Assign(Field(Object, Self, "g"), O), Assign(O, Self),
            Binary("EQ", O, Null), Binary("NEQ", O, Self),
            CallExpr(kInt, Cast(A, O), "int", << Noted(X) >>),
            NewClass(A, "ctor", << Noted(X) >>), Field(Object, NewClass(Type("B"), "ctor", << O >>), "g")}
    \union {Binary("ADD", S, e) : e \in {X, P, O, C, Binary("ADD", S, Noted(X))}}
    \union {Binary("ADD", Noted(Y), S)}
ArrayPrograms ==
    {Index(kInt, Ints, Noted(X)), Index(A, As, X), Field(kInt, Index(A, As, X), "f"),
     Assign(Index(kInt, Ints, Assign(X, Lit(kInt, 1))), Binary("ADD", X, Index(kInt, Ints, X))),
     NewArray(kInt, X), NewArray(A, Noted(X)), Index(kInt, NewArray(kInt, X), Lit(kInt, 0))}
PlainStores == {Assign(Index(A, As, X), Cast(A, O)), Assign(Index(A, As, X), Self)}
EffectiveStores ==
    {Assign(Index(A, As, X), Assign(Index(A, As, Lit(kInt, 0)), Self)),
     Assign(Index(A, As, X), NewClass(Type("B"), "ctor", << O >>))}

\* Statements: the variables of nested blocks, and ways out of loops.
I == Name(kInt, 200)
J == Name(kInt, 201)
K == Name(kBool, 202)
Set(v, e) == ExprStmt(Assign(v, e))
One == Lit(kInt, 1)
Bump(v) == Set(v, Binary("ADD", v, One))
Statements ==
    {If(P, Set(X, Y), Set(X, Noted(Y))),
     If(P, Return(Y), Empty),
     If(Binary("LT", X, Y), If(P, Set(X, One), Empty), Block(<< LocalDecl(kInt, 200, X), Bump(I) >>)),
     Block(<< LocalDecl(kInt, 200, X), LocalDecl(kBool, 202, P),
              Block(<< LocalDecl(kInt, 201, Binary("ADD", I, Y)), Set(I, J) >>),
              LocalDecl(kInt, 203, Noted(I)), If(K, Set(X, Name(kInt, 203)), Set(X, I)) >>),
     While(Binary("GT", X, Lit(kInt, 0)),
           Block(<< LocalDecl(kInt, 200, Binary("SUB", X, One)), Set(X, Noted(I)) >>)),
     While(Binary("AND", Binary("LE", X, Y), Binary("NEQ", Noted(X), Y)),
           Block(<< Bump(X), If(P, Return(X), Empty) >>)),
     For(LocalDecl(kInt, 200, Lit(kInt, 0)), Binary("LT", I, X), Bump(I),
         Block(<< LocalDecl(kInt, 201, Binary("MUL", I, Y)), ExprStmt(Noted(J)) >>)),
     For(LocalDecl(kInt, 200, Lit(kInt, 0)), Ir!Always, Bump(I),
         If(Binary("GE", I, X), Return(I), Empty)),
     For(Empty, Binary("LT", X, Y), Empty,
         For(LocalDecl(kBool, 202, Lit(kBool, 0)), Unary("NOT", K), Set(K, Lit(kBool, 1)), Bump(X))),
     Block(<< ExprStmt(NewClass(A, "ctor", << X >>)), ExprStmt(CallExpr(kInt, Self, "int", << X >>)),
              Set(Field(kInt, Self, "f"), Y), Set(X, Field(kInt, Self, "f")) >>)}

Accepted ==
    Returning(IntPrograms \union NestedPrograms, Numbers) \union Returning(BoolPrograms, Truths)
    \union Returning(NarrowPrograms, Narrows) \union Returning(ReferencePrograms, References)
    \union Returning(ArrayPrograms, Arrays) \union Returning(PlainStores, StoresAt({0, 2}))
    \union Returning(EffectiveStores, StoresAt({0}))
    \union Doing(Statements, Counts)

-----------------------------------------------------------------------------
\* A byte is assigned to an int, which the code accepts and does not compile.
Widenings == Doing({Block(<< LocalDecl(kInt, 200, B), Set(X, I) >>)}, Narrows)
=============================================================================
