----------------------------- MODULE MCDataflow -----------------------------
(***************************************************************************)
(* The classes Dataflow is checked with: every method body of two levels   *)
(* of statements, with conditions that are constants of the language,      *)
(* written in several ways, or not; every pair of initialisers of two      *)
(* fields, the second of which may hide an inherited one; and, for folding *)
(* alone, classes with the expressions of MCConstantFolding and no members. *)
(***************************************************************************)
EXTENDS Dataflow, MCConstantFolding

None == 0
VariableCond == Name(kBool, 1)

\* A constant true and a constant false that need folding, and two conditions
\* that no constant expression is.
CondTrees ==
  <<Binary("LT", Num(1), Binary("ADD", Num(1), Num(1))),
    Unary("NOT", Binary("EQ", Lit(String, <<97>>), Lit(String, <<97>>))),
    Binary("OR", Lit(kBool, 1), VariableCond),
    Binary("EQ", Binary("DIV", Num(1), Num(0)), Num(1))>>

Conds == ProgramOf(CondTrees)

\* The place of each.
CondAt == [c \in 0..4 |-> Len(ProgramOf(SubSeq(CondTrees, 1, c)))]

Simple == [k |-> "simple"]
Ret == [k |-> "return"]
Block2(stmts) == [k |-> "block", stmts |-> stmts]
If2(then, else) == [k |-> "if", then |-> then, else |-> else]
Loop(cond, body) == [k |-> "loop", cond |-> cond, body |-> body]

\* The nodes of a tree in the order in which a visitor is done with them, the first
\* at place n + 1.  Those of several trees, and the place of the last of each:
RECURSIVE Placed(_, _)
PlacedAll(trees, n) ==
  FoldLeft(LAMBDA p, t : LET nodes == p.nodes \o Placed(t, n + Len(p.nodes))
                         IN  [nodes |-> nodes, at |-> Append(p.at, n + Len(nodes))],
           [nodes |-> <<>>, at |-> <<>>], trees)
Placed(t, n) ==
  LET parts == CASE t.k = "block" -> t.stmts
                 [] t.k = "if" -> <<t.then, t.else>>
                 [] t.k = "loop" -> <<t.body>>
                 [] t.k = "field" -> <<t.base>>
                 [] t.k = "assign" -> <<t.lhs, t.rhs>>
                 [] t.k = "op" -> t.args
                 [] OTHER -> <<>>
      p == PlacedAll(parts, n)
      node == CASE t.k = "block" -> [t EXCEPT !.stmts = p.at]
                [] t.k = "if" -> [t EXCEPT !.then = p.at[1], !.else = p.at[2]]
                [] t.k = "loop" -> [t EXCEPT !.body = p.at[1], !.cond = CondAt[@]]
                [] t.k = "field" -> [t EXCEPT !.base = p.at[1]]
                [] t.k = "assign" -> [t EXCEPT !.lhs = p.at[1], !.rhs = p.at[2]]
                [] t.k = "op" -> [t EXCEPT !.args = p.at]
                [] OTHER -> t
  IN  Append(p.nodes, node)

Leaves == {Simple, Ret}
Blocks(stmts) == {Block2(<<s>>) : s \in stmts} \cup {Block2(<<s, t>>) : s \in stmts, t \in stmts}
Compound(stmts, conds) ==
  {If2(s, t) : s \in stmts, t \in stmts} \cup {Loop(c, s) : c \in conds, s \in stmts}

Inner == Leaves \cup Blocks(Leaves) \cup Compound(Leaves, {None, 1, 2, 3})
Outer == Inner \cup Compound(Inner, {1, 2, 4}) \cup Blocks(Inner)

Bodies2 ==
  {Block2(<<>>)} \cup Blocks(Inner)
  \cup {Block2(<<s, Simple>>) : s \in Outer} \cup {Block2(<<Ret, s, Simple>>) : s \in Inner}
  \cup {Block2(<<s, t, Ret>>) : s \in Inner, t \in Inner}

MethodOf(body, isVoid) == [k |-> "method", isVoid |-> isVoid, body |-> Placed(body, 0)]

\* Each body is one of a class's methods twice: with a value to return and without.
MethodClasses ==
  {[inherited |-> <<>>, exprs |-> Conds,
    members |-> <<MethodOf(b, FALSE), MethodOf(b, TRUE)>>] : b \in Bodies2}
  \cup {[inherited |-> <<>>, exprs |-> Conds, members |-> <<MethodOf(Simple, FALSE)>>]}

-----------------------------------------------------------------------------
Access(base, name) == [k |-> "field", base |-> base, name |-> name]
ExplicitThis == [k |-> "this", implicit |-> FALSE]
Op(args) == [k |-> "op", args |-> args]
AssignTo(lhs, rhs) == [k |-> "assign", lhs |-> lhs, rhs |-> rhs]

\* p is inherited, and q too when b is what the class names it.
Simples(names) == {Access(ImplicitThis, n) : n \in names}
Targets(names) ==
  Simples(names)
  \cup {Access(ExplicitThis, n) : n \in names}
  \cup {Access(t, n) : t \in Simples(names), n \in names}
  \cup {Op(<<t, u>>) : t \in Simples(names), u \in Simples(names)}
Values == {Op(<<>>)}
Initialisers(names) ==
  Values \cup Targets(names)
  \cup {AssignTo(t, u) : t \in Targets(names), u \in Values \cup Simples(names)}
  \cup {AssignTo(t, AssignTo(u, v)) : t \in Simples(names), u \in Simples(names), v \in Simples(names)}

FieldOf(name, isStatic, val) ==
  [k |-> "field", name |-> name, isStatic |-> isStatic, val |-> Placed(val, 0)]

Inherited(name) == [k |-> "field", name |-> name, isStatic |-> FALSE]

Names == {"p", "a", "b"}
FieldClasses ==
  {[inherited |-> <<Inherited("p"), Inherited("b")>>,
    exprs |-> <<>>,
    members |-> <<FieldOf("s", TRUE, Op(<<>>)), FieldOf("a", FALSE, v),
                  MethodOf(Block2(<<>>), TRUE), FieldOf("b", FALSE, w)>>] :
     v \in Initialisers(Names), w \in Targets(Names)}

FoldedClasses == {[inherited |-> <<>>, exprs |-> p, members |-> <<>>] : p \in Programs}

AllClasses == MethodClasses \cup FieldClasses \cup FoldedClasses
=============================================================================
