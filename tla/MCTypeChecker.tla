--------------------------- MODULE MCTypeChecker ---------------------------
(***************************************************************************)
(* Members for TypeChecker: every operator, conversion, access and call    *)
(* between two operands of all sorts of types, in classes of three         *)
(* packages, and statements of these; in a world without errors and in one *)
(* with types in error and members declared twice.                         *)
(***************************************************************************)
EXTENDS TypeChecker

FieldOf(name, tid) == [name |-> name, tid |-> tid, static |-> FALSE, protected |-> FALSE]
MethodOf(name, params, ret) ==
  [isConstructor |-> FALSE, name |-> name, params |-> params, ret |-> ret,
   static |-> FALSE, protected |-> FALSE, abstract |-> FALSE]
Static(m) == [m EXCEPT !.static = TRUE]
Protected(m) == [m EXCEPT !.protected = TRUE]
Abstract(m) == [m EXCEPT !.abstract = TRUE]
Constructor(name, params) == [MethodOf(name, params, Ref(name)) EXCEPT !.isConstructor = TRUE]

Class(name, package, parents, fields, methods) ==
  [name |-> name, kind |-> "class", abstract |-> FALSE, package |-> package, parents |-> parents,
   fields |-> fields, methods |-> methods, broken |-> FALSE]
Interface(name, package, parents, methods) ==
  [Class(name, package, parents, <<>>, methods) EXCEPT !.kind = "interface"]

TObject == Ref("Object")
TA == Ref("A")
TB == Ref("B")
TString == Ref("String")

Library ==
  <<Class("Object", "lang", <<>>, <<>>,
          <<Constructor("Object", <<>>), MethodOf("hash", <<>>, kInt),
            Protected(MethodOf("dup", <<>>, TObject))>>),
    Interface("Serializable", "lang", <<"Object">>, <<>>),
    Interface("Cloneable", "lang", <<"Object">>, <<>>),
    Class("array", "", <<"Object", "Serializable", "Cloneable">>, <<FieldOf("length", kInt)>>, <<>>)>>

\* Every class and interface has heirs that the others have not.
SoundWorld ==
  Library \o
  <<Class("String", "lang", <<"Object", "Serializable">>, <<>>, <<Constructor("String", <<>>)>>),
    Interface("I", "p", <<"Object">>, <<Abstract(MethodOf("im", <<TA>>, TA))>>),
    Class("A", "p", <<"Object">>,
          <<Protected(FieldOf("f", kInt)), FieldOf("g", TA), Static(Protected(FieldOf("s", Ref("byte"))))>>,
          <<Constructor("A", <<>>), Protected(Constructor("A", <<kInt>>)), Protected(MethodOf("m", <<>>, kInt)),
            Static(MethodOf("k", <<TA>>, kBool)), Static(Protected(MethodOf("k", <<>>, kBool))),
            MethodOf("v", <<>>, kVoid)>>),
    Class("P", "p", <<"Object", "Cloneable">>, <<>>, <<Constructor("P", <<>>)>>),
    Class("B", "q", <<"A">>, <<Protected(FieldOf("f", kBool))>>,
          <<Constructor("B", <<>>), Protected(MethodOf("m", <<>>, kInt))>>),
    Interface("G", "q", <<"I">>, <<>>),
    Class("C", "r", <<"B", "G">>, <<>>,
          <<Protected(Constructor("C", <<>>)), MethodOf("im", <<TA>>, TA)>>),
    Class("D", "q", <<"Object", "G">>, <<>>, <<Constructor("D", <<TB>>), MethodOf("im", <<TA>>, TA)>>),
    [Class("F", "p", <<"Object", "I">>, <<>>, <<Constructor("F", <<>>)>>) EXCEPT !.abstract = TRUE],
    Class("E", "p", <<"F">>, <<>>, <<Constructor("E", <<>>), MethodOf("im", <<TA>>, TA)>>),
    Class("H", "p", <<"F">>, <<>>, <<Constructor("H", <<>>), MethodOf("im", <<TA>>, TA)>>)>>

\* X is in a cycle, and Y extends it.  L cannot be extended, but M extends it.
BrokenWorld ==
  Library \o
  <<Class("String", "lang", <<"Object", "Serializable">>, <<>>, <<Constructor("String", <<>>)>>),
    Class("A", "p", <<"Object">>, <<FieldOf("f", kInt), FieldOf("f", kBool), FieldOf("g", TA)>>,
          <<Constructor("A", <<>>), MethodOf("m", <<>>, kInt), MethodOf("m", <<>>, kBool),
            Protected(MethodOf("k", <<>>, kInt))>>),
    Class("B", "p", <<"A">>, <<>>, <<Constructor("Bad", <<>>)>>),
    Class("L", "p", <<"Object">>, <<Protected(FieldOf("h", kInt))>>,
          <<Constructor("L", <<kInt>>), Protected(MethodOf("k", <<>>, kInt))>>),
    Class("M", "p", <<"L">>, <<>>, <<Constructor("M", <<>>)>>),
    [Class("X", "p", <<>>, <<>>, <<Constructor("X", <<>>)>>) EXCEPT !.broken = TRUE],
    [Class("Y", "p", <<"X">>, <<FieldOf("h", kInt)>>, <<Constructor("Y", <<>>)>>) EXCEPT !.broken = TRUE]>>

AllWorlds == [sound |-> SoundWorld, broken |-> BrokenWorld]

-----------------------------------------------------------------------------
Decl(name, tid) == [k |-> "decl", name |-> name, type |-> tid]
Simple(n) == Name(<<n>>)
LitOf(tid) == [k |-> "lit", tid |-> tid]

SoundVars ==
  <<Decl("bo", kBool), Decl("by", Ref("byte")), Decl("ch", kChar), Decl("sh", Ref("short")), Decl("in", kInt),
    Decl("ob", TObject), Decl("st", TString), Decl("ser", Ref("Serializable")), Decl("i", Ref("I")),
    Decl("a", TA), Decl("b", TB), Decl("c", Ref("C")), Decl("d", Ref("D")), Decl("g2", Ref("G")),
    Decl("f2", Ref("F")), Decl("e", Ref("E")), Decl("obs", ArrayOf("Object")), Decl("is", ArrayOf("I")),
    Decl("as", ArrayOf("A")), Decl("bs", ArrayOf("B")), Decl("ins", ArrayOf("int")), Decl("bys", ArrayOf("byte"))>>

BrokenVars ==
  <<Decl("in", kInt), Decl("bo", kBool), Decl("a", TA), Decl("b", TB), Decl("x", Ref("X")), Decl("y", Ref("Y")),
    Decl("l", Ref("L")), Decl("m", Ref("M")), Decl("ob", TObject), Decl("xs", ArrayOf("X")), Decl("ys", ArrayOf("Y")), Decl("ser", Ref("Serializable"))>>

Call(base, args) == [k |-> "call", base |-> base, args |-> args]
Bin(op, l, r) == [k |-> "binary", op |-> op, l |-> l, r |-> r]
CastTo(tid, e) == [k |-> "cast", type |-> tid, e |-> e]
IsA(e, tid) == [k |-> "instanceof", e |-> e, type |-> tid]
Un(op, e) == [k |-> "unary", op |-> op, e |-> e]
Paren(e) == [k |-> "paren", e |-> e]
At(base, index) == [k |-> "index", base |-> base, index |-> index]
New(tid, args) == [k |-> "new", type |-> tid, args |-> args]
NewArray(tid, len) == [k |-> "newarray", type |-> tid, len |-> len]
Stmt(e) == [k |-> "expr", e |-> e]
Local(tid, e) == [k |-> "decl", name |-> "z", type |-> tid, e |-> e]
Return(e) == [k |-> "return", e |-> e]
Block(stmts) == [k |-> "block", stmts |-> stmts]
If(cond, then) == [k |-> "if", cond |-> cond, then |-> then, else |-> [k |-> "empty"]]
While(cond, body) == [k |-> "while", cond |-> cond, body |-> body]
For(init, cond, update, body) == [k |-> "for", init |-> init, cond |-> cond, update |-> update, body |-> body]

\* Operands with their types.
Atom(e, tid) == [e |-> e, tid |-> tid]
VarAtoms(decls) == {Atom(Simple(d.name), d.type) : d \in ToSet(decls)}
TypeAtom == Atom(Simple("A"), kType)
VoidAtom == Atom(Call(FieldDeref(Simple("a"), "v"), <<>>), kVoid)
Atoms ==
  VarAtoms(SoundVars) \cup {TypeAtom, VoidAtom, Atom(LitOf(kNull), kNull), Atom(This, TA),
                            Atom([k |-> "string"], TString)}
BrokenAtoms == VarAtoms(BrokenVars) \cup {Atom(Simple("u"), kError), Atom(LitOf(kNull), kNull)}

\* Operands the checker stops at with a failed CHECK, or takes a type's name for: see
\* the README.
Checked(op, l, r) ==
  CASE op = "EQ" -> /\ kType \notin {l.tid, r.tid}
                    /\ \/ \E t \in {l.tid, r.tid} : IsNumeric(t) \/ t = kVoid \/ t = kError
                       \/ l.tid = r.tid
                       \/ IsReference(l.tid) /\ IsReference(r.tid)
    [] op = "ADD" -> {kType, TString} \cap {l.tid, r.tid} # {kType, TString}
    [] op = "ASSG" -> /\ l.e.k = "name" \/ l.e.k = "field" \/ l.e.k = "index"
                      /\ ~(l.tid = kType /\ r.tid = kType)
    [] OTHER -> TRUE

Binaries(atoms, ops) ==
  {Bin(p[1], p[2].e, p[3].e) : p \in {q \in ops \X atoms \X atoms : Checked(q[1], q[2], q[3])}}
Conversions(atoms, tids) ==
  UNION {{CastTo(t, a.e), IsA(a.e, t)} : a \in atoms, t \in tids}
Accesses(bases, names) == {FieldDeref(b, n) : b \in bases, n \in names}
Calls(bases, names, args) == {Call(FieldDeref(b, n), s) : b \in bases, n \in names, s \in args}
Exprs(es) == {a.e : a \in es}

MethodsOver(w, callers, statics, types, params, stmts) ==
  [world |-> w, callers |-> callers, statics |-> statics, kind |-> "method", types |-> types,
   params |-> params, bodies |-> stmts]
FieldsOver(w, callers, statics, types, vals) ==
  [world |-> w, callers |-> callers, statics |-> statics, kind |-> "field", types |-> types,
   params |-> <<>>, bodies |-> vals]
Ones(elems) == {<<e>> : e \in elems}

SoundTypes == {v.type : v \in ToSet(SoundVars)}
Bases == Exprs({a \in Atoms : a.tid # kNull}) \cup {Simple("B"), Name(<<"q", "B">>), Simple("zz"), New(TB, <<>>)}
ArgLists == {<<>>, <<Simple("a")>>, <<Simple("b")>>, <<Simple("in"), Simple("in")>>, <<Simple("A")>>}
Callers == {"A", "P", "B", "C", "E"}
FieldNames == {"f", "g", "s", "length", "zz"}

\* One statement each, in class A.
InA ==
  {Stmt(e) : e \in Binaries(Atoms, {"ASSG", "OR", "LT", "EQ", "ADD", "SUB"})
                   \cup Conversions(Atoms, SoundTypes)
                   \cup {At(a.e, b.e) : a \in Atoms, b \in Atoms}
                   \cup {Un(op, a.e) : op \in {"SUB", "NOT"}, a \in Atoms}
                   \cup {NewArray(t, a.e) : t \in {kInt, TA}, a \in Atoms} \cup {NewArray(TA, NoExpr)}}
  \cup {Local(t, a.e) : t \in SoundTypes, a \in Atoms}

\* The members of each class, used in each.
Members ==
  Accesses(Bases, FieldNames) \cup Calls(Bases, {"m", "k", "v", "im", "hash", "dup"}, ArgLists)
  \cup {Name(<<n>>) : n \in FieldNames} \cup {Call(Simple(n), <<>>) : n \in {"m", "v", "zz"}}
  \cup {Name(<<n, m>>) : n \in {"a", "g", "f", "as"}, m \in {"g", "f", "length"}}
  \cup {Name(<<"a", "g", "f">>), Call(Name(<<"a", "g", "m">>), <<>>)}
  \cup {New(Ref(t), s) : t \in {"Object", "A", "B", "C", "D", "E", "F", "I"},
                         s \in {<<>>, <<Simple("in")>>, <<Simple("b")>>, <<VoidAtom.e>>}}
Uses == {Stmt(e) : e \in Members} \cup
        {Stmt(Bin("ASSG", l, r)) : l \in Accesses(Exprs(VarAtoms(SoundVars)), FieldNames),
                                   r \in {Simple("by"), Simple("b")}}

\* Expressions of expressions.
Deep ==
  LET inner == {At(Simple("as"), Simple("by")), FieldDeref(At(Simple("bs"), Simple("in")), "g"),
                CastTo(TB, Simple("ob")), Paren(Simple("b")), Paren(TypeAtom.e), Paren(VoidAtom.e),
                Bin("ADD", Simple("st"), LitOf(kNull)), Bin("ASSG", At(Simple("as"), LitOf(kInt)), Simple("b")),
                Call(FieldDeref(Simple("i"), "im"), <<Simple("a")>>), Un("NOT", Bin("LT", Simple("by"), Simple("ch"))),
                Bin("ADD", Simple("by"), Simple("ch")), CastTo(Ref("byte"), Simple("in")),
                At(NewArray(kChar, LitOf(kInt)), LitOf(kChar)), Bin("AND", Simple("bo"), LitOf(kBool))}
  IN  {Local(t, e) : t \in SoundTypes, e \in inner}
      \cup {Stmt(Bin(op, l, r)) : op \in {"SUB", "XOR", "GE"}, l \in inner, r \in inner}
      \cup {Stmt(Call(FieldDeref(e, "im"), <<d>>)) : e \in inner, d \in inner}

Statements ==
  LET es == {Simple("bo"), Simple("in"), Simple("zz"), Simple("z"), NoExpr, VoidAtom.e}
      leaves == {[k |-> "empty"], Stmt(Bin("ASSG", Simple("by"), Simple("in"))), Return(NoExpr), Return(Simple("by"))}
      conds == es \ {NoExpr}
  IN  {If(e, s) : e \in conds, s \in leaves} \cup {While(e, s) : e \in conds, s \in leaves}
      \cup {For(i, e, u, s) : i \in {[k |-> "empty"], Local(kBool, Simple("bo")), Local(kInt, Simple("zz"))},
                              e \in es, u \in es, s \in leaves}
      \cup {Block(<<s, Local(kInt, e), t>>) : s \in leaves, e \in {Simple("in"), Simple("z"), Simple("bo")},
                                              t \in leaves \cup {Stmt(Bin("SUB", Simple("z"), Simple("z")))}}

\* Two statements: what the first declares, or fails to, the second uses.
Sequences2 ==
  {<<s, t>> : s \in {Local(kInt, Simple("in")), Local(kError, LitOf(kNull)), Local(TB, Simple("zz")),
                     Block(<<Local(TB, LitOf(kNull))>>)},
              t \in {Stmt(Bin("SUB", Simple("z"), LitOf(kInt))), Local(TA, Simple("b")), Stmt(Call(Simple("v"), <<>>)),
                     Stmt(Bin("ASSG", Simple("z"), LitOf(kNull))), Stmt(Name(<<"z", "g">>))}}

SoundFamilies ==
  <<MethodsOver("sound", {"A"}, {FALSE}, {kVoid}, SoundVars, Ones(InA)),
    MethodsOver("sound", {"A"}, {FALSE}, {kVoid}, SoundVars, Ones(Deep)),
    MethodsOver("sound", {"A"}, {FALSE}, {kVoid}, SoundVars, Ones(Statements)),
    MethodsOver("sound", {"A"}, {FALSE}, {kVoid}, SoundVars, Sequences2),
    MethodsOver("sound", Callers, {FALSE}, {kVoid}, SoundVars, Ones(Uses)),
    MethodsOver("sound", {"B"}, {TRUE}, {kVoid}, SoundVars, Ones({Stmt(e) : e \in Members})),
    MethodsOver("sound", {"A"}, {FALSE}, SoundTypes, SoundVars, Ones({Return(a.e) : a \in Atoms} \cup {Return(NoExpr)})),
    FieldsOver("sound", {"A", "B"}, BOOLEAN, {kInt, TA, kBool, kError},
               Ones({LitOf(kInt), LitOf(kChar), This, Simple("f"), Simple("g"), Name(<<"A", "s">>), New(TB, <<>>)}))>>

\* The variable u has no type.
BrokenBodies ==
  {Stmt(e) : e \in Binaries(BrokenAtoms, {"ASSG", "OR", "LT", "EQ", "ADD"})
                   \cup Conversions(BrokenAtoms, {a.tid : a \in BrokenAtoms} \ {kNull})
                   \cup {At(a.e, b.e) : a \in BrokenAtoms, b \in BrokenAtoms}
                   \cup {Un(op, a.e) : op \in {"SUB", "NOT"}, a \in BrokenAtoms}
                   \cup {NewArray(t, a.e) : t \in {kInt, TA}, a \in BrokenAtoms}
                   \cup Accesses(Exprs({a \in BrokenAtoms : a.tid # kNull}), {"f", "g", "h", "zz"})
                   \cup Calls(Exprs({a \in BrokenAtoms : a.tid # kNull}), {"m", "k", "hash", "zz"}, {<<>>, <<Simple("u")>>})
                   \cup {New(t, s) : t \in {TA, TB, Ref("X"), Ref("Y"), Ref("L"), Ref("M"), TObject, kError}, s \in {<<>>, <<Simple("u")>>}}
                   \cup {[k |-> "string"], Bin("ADD", [k |-> "string"], Simple("in")), Name(<<"p", "A", "zz">>)}}
  \cup {Local(t, a.e) : t \in {a.tid : a \in BrokenAtoms} \ {kNull}, a \in BrokenAtoms}
  \cup {If(Simple("u"), [k |-> "empty"]), While(Simple("u"), [k |-> "empty"])}

BrokenFamilies ==
  <<MethodsOver("broken", {"A"}, {FALSE}, {kVoid}, BrokenVars,
                {<<[Local(kError, LitOf(kNull)) EXCEPT !.name = "u"], s>> : s \in BrokenBodies}),
    MethodsOver("broken", {"X", "Y", "L", "M"}, {FALSE}, {kInt}, BrokenVars \o <<Decl("in", kBool)>>, {<<Return(Simple("ob"))>>}),
    FieldsOver("broken", {"X", "Y", "L", "M", "A"}, {FALSE}, {kInt, TA, Ref("X"), TObject},
               Ones({LitOf(kInt), This, Simple("g"), FieldDeref(This, "h"),
                     Call(FieldDeref(New(TA, <<>>), "k"), <<>>), FieldDeref(New(TA, <<>>), "zz"), New(Ref("Y"), <<>>)}))>>

AllFamilies == SoundFamilies \o BrokenFamilies
=============================================================================
