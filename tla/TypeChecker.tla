---------------------------- MODULE TypeChecker ----------------------------
(***************************************************************************)
(* The type checker (types/typechecker.cpp and typechecker_utils.cpp),     *)
(* which rewrites the members of all types one after the other: a name     *)
(* becomes a local variable, an access of a field or a type, every         *)
(* expression gets its type, an access or a call its member; what is not   *)
(* allowed is reported and dropped, with all it is a part of.              *)
(*                                                                         *)
(* A unit is one member, [world, caller, static, kind, type, params, body]: *)
(* a method or constructor with its statements, or a field with its        *)
(* initialiser as the body.  A member declared twice, which the tables     *)
(* do not have, is left out.  A type that cannot be resolved is kError: TypeNames is    *)
(* about which those are, SymbolTable about local variables and scopes.    *)
(***************************************************************************)
EXTENDS TypeInfoMap

CONSTANT Families   \* of units [world, callers, statics, kind, types, params, bodies]

VARIABLES
  unit,    \* the member
  phase,   \* start, body or done
  env,     \* the local variables in scope: name |-> type
  trees,   \* the statements rewritten so far, or the field's initialiser
  errors,  \* the errors reported so far
  lost     \* whether some part has been dropped

vars == <<unit, phase, env, trees, errors, lost>>

-----------------------------------------------------------------------------
(***************************************************************************)
(* What a rewrite leaves.  Only trees of kind pruned are null pointers.    *)
(***************************************************************************)
Pruned == [k |-> "pruned"]
IsPruned(r) == r.tree.k = "pruned"

Tree(t) == [tree |-> t, errs |-> {}, lost |-> FALSE]
Prune(errs) == [tree |-> Pruned, errs |-> errs, lost |-> TRUE]
PruneFor(kind, about) == Prune({Error(kind, about)})

\* The result r, with what became of the parts rewritten before.
Having(parts, r) ==
  [r EXCEPT !.errs = @ \cup UNION {parts[i].errs : i \in DOMAIN parts},
            !.lost = @ \/ \E i \in DOMAIN parts : parts[i].lost]

\* Goes on with r only if none of the parts was dropped.
After(parts, r) ==
  Having(parts, IF \E i \in DOMAIN parts : IsPruned(parts[i]) THEN Prune({}) ELSE r)

-----------------------------------------------------------------------------
(***************************************************************************)
(* typechecker_utils.cpp                                                   *)
(***************************************************************************)
TypeNode(tid) == [k |-> "typenode", tid |-> tid]
MustResolveType(tid) == IF IsValid(tid) THEN Tree(TypeNode(tid)) ELSE PruneFor("UnknownType", <<>>)

TheString(map) ==
  IF \E t \in ToSet(map.types) : t.name = "String" THEN Ref("String") ELSE kError

IsPrimitiveWidening(lhs, rhs) ==
  <<lhs, rhs>> \in {<<Ref("short"), Ref("byte")>>, <<kInt, Ref("byte")>>,
                    <<kInt, Ref("short")>>, <<kInt, kChar>>}

\* Between different types of numbers, all that is not widening.
IsPrimitiveNarrowing(lhs, rhs) ==
  IsNumeric(lhs) /\ IsNumeric(rhs) /\ lhs # rhs /\ ~IsPrimitiveWidening(lhs, rhs)

IsReferenceWidening(map, lhs, rhs) ==
  /\ IsReference(lhs) /\ IsReference(rhs)
  /\ lhs # kNull
  /\ rhs = kNull \/ IsAncestor(map, rhs, lhs)

\* All fields on an array are final.
IsFinal(tree) == tree.k = "field" /\ IsArray(tree.base.tid)

IsAssignable(map, lhs, rhs) ==
  LET l == Ref(lhs[1])
      r == Ref(rhs[1])
  IN  \/ lhs = rhs
      \/ /\ IsArray(lhs) /\ lhs[2] = rhs[2]
         /\ ~IsPrimitive(l) /\ ~IsPrimitive(r)
         /\ IsReferenceWidening(map, l, r)
      \/ /\ ~(IsArray(lhs) /\ lhs[2] = rhs[2])
         /\ IsPrimitiveWidening(lhs, rhs) \/ IsReferenceWidening(map, lhs, rhs)

\* Mutant of IsCastable: references may only be cast downwards.
IsCastableDown(map, lhs, rhs) ==
  \/ lhs = rhs
  \/ IsPrimitiveWidening(lhs, rhs) \/ IsPrimitiveNarrowing(lhs, rhs)
  \/ IsReference(lhs) /\ IsReference(rhs) /\ IsAssignable(map, rhs, lhs)

IsCastable(map, lhs, rhs) ==
  \/ lhs = rhs
  \/ IsPrimitiveWidening(lhs, rhs) \/ IsPrimitiveNarrowing(lhs, rhs)
  \/ /\ IsReference(lhs) /\ IsReference(rhs)
     /\ IsAssignable(map, lhs, rhs) \/ IsAssignable(map, rhs, lhs)

\* That neither is a reference though none is a number fails a CHECK.
IsComparable(map, lhs, rhs) ==
  \/ lhs = rhs
  \/ IsNumeric(lhs) /\ IsNumeric(rhs)
  \/ /\ ~IsNumeric(lhs) /\ ~IsNumeric(rhs)
     /\ Assert(IsReference(lhs) /\ IsReference(rhs), "IsComparable")
     /\ kNull \in {lhs, rhs} \/ IsAssignable(map, lhs, rhs) \/ IsAssignable(map, rhs, lhs)

-----------------------------------------------------------------------------
(***************************************************************************)
(* Expressions.  The context c is [map, caller, static, env, declaring]:     *)
(* declaring is the variable whose initialiser the expression is in.       *)
(***************************************************************************)
RECURSIVE Rewrite(_, _)

RewriteAll(c, es) == [i \in DOMAIN es |-> Rewrite(c, es[i])]
TreesOf(results) == [i \in DOMAIN results |-> results[i].tree]
TypesOf(results) == [i \in DOMAIN results |-> results[i].tree.tid]

NotA(expected, tids) ==
  Prune({Error("TypeMismatch", <<expected, t>>) : t \in tids})

ArrayIndexExpr(c, e) ==
  LET base == Rewrite(c, e.base)
      index == Rewrite(c, e.index)
      b == base.tree.tid
      i == index.tree.tid
  IN  After(<<base, index>>,
        CASE ~IsNumeric(i) -> NotA(kInt, {i})
          [] IsNumeric(i) /\ ~IsArray(b) -> PruneFor("IndexNonArray", <<b>>)
          [] OTHER -> Tree([k |-> "index", base |-> base.tree, index |-> index.tree,
                            tid |-> <<b[1], b[2] - 1>>]))

\* A binary expression whose operands have types, none of them void.
Typed(c, op, l, r) ==
  LET node(tid) == Tree([k |-> "binary", op |-> op, l |-> l, r |-> r, tid |-> tid])
      tids == {l.tid, r.tid}
  IN  CASE op = "ASSG" ->
             IF IsFinal(l) THEN PruneFor("AssignFinal", <<l.base.tid>>)
             ELSE IF ~IsAssignable(c.map, l.tid, r.tid) THEN PruneFor("Unassignable", <<l.tid, r.tid>>)
             ELSE node(l.tid)
        [] op \in {"AND", "OR", "BAND", "BOR", "XOR"} ->
             IF tids = {kBool} THEN node(kBool) ELSE NotA(kBool, tids \ {kBool})
        [] op \in {"LT", "LE", "GT", "GE"} ->
             IF \A t \in tids : IsNumeric(t) THEN node(kBool)
             ELSE NotA(kInt, {t \in tids : ~IsNumeric(t)})
        [] op \in {"EQ", "NEQ"} ->
             IF IsComparable(c.map, l.tid, r.tid) THEN node(kBool)
             ELSE PruneFor("Incomparable", <<l.tid, r.tid>>)
        [] op = "ADD" /\ IsValid(TheString(c.map)) /\ TheString(c.map) \in tids -> node(TheString(c.map))
        [] OTHER ->
             IF \A t \in tids : IsNumeric(t) THEN node(kInt)
             ELSE NotA(kInt, {t \in tids : ~IsNumeric(t)})

BinExpr(c, e) ==
  LET lhs == Rewrite(c, e.l)
      rhs == Rewrite(c, e.r)
      tids == <<lhs.tree.tid, rhs.tree.tid>>
  IN  After(<<lhs, rhs>>,
        CASE kError \in ToSet(tids) -> Prune({})
          [] kError \notin ToSet(tids) /\ kVoid \in ToSet(tids) -> PruneFor("VoidInExpr", <<>>)
          [] OTHER -> Typed(c, e.op, lhs.tree, rhs.tree))

UnaryExpr(c, e) ==
  LET rhs == Rewrite(c, e.e)
      t == rhs.tree.tid
      node(tid) == Tree([k |-> "unary", op |-> e.op, e |-> rhs.tree, tid |-> tid])
  IN  After(<<rhs>>,
        CASE ~IsValid(t) -> Prune({})
          [] IsValid(t) /\ e.op = "SUB" -> IF IsNumeric(t) THEN node(kInt) ELSE NotA(kInt, {t})
          [] IsValid(t) /\ e.op = "NOT" -> IF t = kBool THEN node(kBool) ELSE NotA(kBool, {t}))

CastExpr(c, e) ==
  LET casted == Rewrite(c, e.e)
      type == MustResolveType(e.type)
      t == casted.tree.tid
  IN  After(<<casted, type>>,
        CASE ~IsValid(t) -> Prune({})
          [] IsValid(t) /\ ~IsCastable(c.map, e.type, t) -> PruneFor("IncompatibleCast", <<e.type, t>>)
          [] OTHER -> Tree([k |-> "cast", e |-> casted.tree, tid |-> e.type]))

InstanceOfExpr(c, e) ==
  LET lhs == Rewrite(c, e.e)
      rhs == MustResolveType(e.type)
      t == lhs.tree.tid
  IN  After(<<lhs, rhs>>,
        CASE ~IsValid(t) -> Prune({})
          [] IsValid(t) /\ (IsPrimitive(t) \/ IsPrimitive(e.type)) -> PruneFor("InstanceOfPrimitive", <<t, e.type>>)
          [] ~IsPrimitive(t) /\ ~IsPrimitive(e.type) /\ IsValid(t) /\ ~IsCastable(c.map, t, e.type) ->
               PruneFor("IncompatibleInstanceOf", <<t, e.type>>)
          [] OTHER -> Tree([k |-> "instanceof", e |-> lhs.tree, type |-> e.type, tid |-> kBool]))

\* A type in parentheses is no expression.
ParenExpr(c, e) ==
  LET nested == Rewrite(c, e.e)
  IN  After(<<nested>>, IF nested.tree.tid = kType THEN PruneFor("TypeInParens", <<>>) ELSE Tree(nested.tree))

StringLitExpr(c, e) ==
  IF IsValid(TheString(c.map)) THEN Tree([k |-> "lit", tid |-> TheString(c.map)])
  ELSE PruneFor("NoString", <<>>)

ThisExpr(c, e) ==
  IF c.static THEN PruneFor("ThisInStaticMember", <<>>)
  ELSE Tree([k |-> "this", tid |-> Ref(c.caller)])

NewArrayExpr(c, e) ==
  LET elem == MustResolveType(e.type)
      len == IF e.len = NoExpr THEN Tree(NoExpr) ELSE Rewrite(c, e.len)
  IN  Having(<<elem, len>>,
        IF IsPruned(elem) THEN Prune({})
        ELSE IF ~IsPruned(len) /\ len.tree # NoExpr /\ ~IsNumeric(len.tree.tid) THEN NotA(kInt, {len.tree.tid})
        ELSE Tree([k |-> "newarray", len |-> IF IsPruned(len) THEN NoExpr ELSE len.tree,
                   tid |-> <<e.type[1], e.type[2] + 1>>]))

-----------------------------------------------------------------------------
(***************************************************************************)
(* Names and members.                                                      *)
(***************************************************************************)
Name(parts) == [k |-> "name", parts |-> parts]
FieldDeref(base, name) == [k |-> "field", base |-> base, name |-> name]

\* ImplicitThis.
This == [k |-> "this"]

SplitQualifiedToFieldDerefs(base, parts, n) ==
  FoldLeft(FieldDeref, base, SubSeq(parts, n + 1, Len(parts)))

\* The type a qualified name is the name of.
TryGet(map, parts) ==
  LET named == {t \in ToSet(map.types) : Last(parts) = t.name /\ Front(parts) \in {<<>>, <<t.package>>}}
  IN  IF named = {} THEN kError ELSE Ref((CHOOSE t \in named : TRUE).name)

NameExpr(c, e) ==
  LET first == e.parts[1]
      field == ResolveAccess(c.map, c.caller, "INSTANCE", Ref(c.caller), first)
      types == {n \in DOMAIN e.parts : IsValid(TryGet(c.map, SubSeq(e.parts, 1, n)))}
      n == CHOOSE n \in types : \A m \in types : n <= m
      StaticRef == [k |-> "type", tid |-> kType, ref |-> TryGet(c.map, SubSeq(e.parts, 1, n))]
      Local == [k |-> "local", name |-> first, tid |-> c.env[first]]
  IN  CASE first = c.declaring -> PruneFor("VariableInitializerSelfReference", <<>>)
        [] first # c.declaring /\ first \in DOMAIN c.env ->
             Rewrite(c, SplitQualifiedToFieldDerefs(Local, e.parts, 1))
        [] first \notin DOMAIN c.env /\ field.found ->
             Rewrite(c, SplitQualifiedToFieldDerefs(FieldDeref(This, first), e.parts, 1))
        [] first \notin DOMAIN c.env /\ ~field.found /\ types # {} ->
             Rewrite(c, SplitQualifiedToFieldDerefs(StaticRef, e.parts, n))
        [] OTHER -> Prune(field.errs)

\* What a member is looked up in: a type's own members or an object's.
Context(base) == IF base.k = "type" THEN "STATIC" ELSE "INSTANCE"
Callee(base) == IF base.k = "type" THEN base.ref ELSE base.tid

FieldDerefExpr(c, e) ==
  LET base == Rewrite(c, e.base)
      t == base.tree.tid
      callee == Callee(base.tree)
      access == ResolveAccess(c.map, c.caller, Context(base.tree), callee, e.name)
  IN  After(<<base>>,
        CASE IsPrimitive(t) -> PruneFor("MemberAccessOnPrimitive", <<t>>)
          [] ~IsPrimitive(t) /\ ~IsValid(callee) -> Prune({})
          [] callee = kVoid -> PruneFor("VoidInExpr", <<>>)
          [] OTHER ->
               IF ~access.found THEN Prune(access.errs)
               ELSE Tree([k |-> "field", base |-> base.tree, name |-> e.name, member |-> access.member,
                          tid |-> access.member.info.tid]))

\* A simple name is called on this, a qualified one on what it begins with.
CallExpr(c, e) ==
  LET name == e.base.parts
      deref == IF e.base.k = "field" THEN e.base
               ELSE IF Len(name) > 1 THEN FieldDeref(Name(Front(name)), Last(name))
               ELSE FieldDeref(This, name[1])
      lhs == Rewrite(c, deref.base)
      args == RewriteAll(c, e.args)
      t == lhs.tree.tid
      callee == Callee(lhs.tree)
      call == ResolveCall(c.map, c.caller, Context(lhs.tree), callee, TypesOf(args), deref.name)
  IN  After(<<lhs>> \o args,
        CASE t = kVoid -> PruneFor("VoidInExpr", <<>>)
          [] IsPrimitive(t) -> PruneFor("MemberAccessOnPrimitive", <<t>>)
          [] t # kVoid /\ ~IsPrimitive(t) /\ ~IsValid(callee) -> Prune({})
          [] OTHER ->
               IF ~call.found THEN Prune(call.errs)
               ELSE Tree([k |-> "call", base |-> lhs.tree, args |-> TreesOf(args), member |-> call.member,
                          tid |-> call.member.info.ret]))

NewClassExpr(c, e) ==
  LET type == MustResolveType(e.type)
      args == RewriteAll(c, e.args)
      tinfo == LookupTypeInfo(c.map, e.type)
      call == ResolveCall(c.map, c.caller, "CONSTRUCTOR", e.type, TypesOf(args), tinfo.name)
  IN  After(<<type>> \o args,
        IF ~tinfo.valid THEN Prune({})
        ELSE IF ~call.found THEN Prune(call.errs)
        ELSE Tree([k |-> "new", args |-> TreesOf(args), member |-> call.member, tid |-> e.type]))

Rewrite(c, e) ==
  CASE e.k \in {"lit", "local", "type"} -> Tree(e)
    [] e.k = "string" -> StringLitExpr(c, e)
    [] e.k = "name" -> NameExpr(c, e)
    [] e.k = "this" -> ThisExpr(c, e)
    [] e.k = "field" -> FieldDerefExpr(c, e)
    [] e.k = "index" -> ArrayIndexExpr(c, e)
    [] e.k = "call" -> CallExpr(c, e)
    [] e.k = "new" -> NewClassExpr(c, e)
    [] e.k = "newarray" -> NewArrayExpr(c, e)
    [] e.k = "binary" -> BinExpr(c, e)
    [] e.k = "unary" -> UnaryExpr(c, e)
    [] e.k = "cast" -> CastExpr(c, e)
    [] e.k = "instanceof" -> InstanceOfExpr(c, e)
    [] e.k = "paren" -> ParenExpr(c, e)

-----------------------------------------------------------------------------
(***************************************************************************)
(* Statements.  The context has the type of the method as well.            *)
(***************************************************************************)
RECURSIVE RewriteStmt(_, _)

\* The variables in scope after a statement: a variable is declared even if its
\* type cannot be resolved.
Declared(scope, s) ==
  IF s.k = "decl" /\ s.name \notin DOMAIN scope THEN scope @@ (s.name :> s.type) ELSE scope
In(c, scope) == [c EXCEPT !.env = scope]

LocalDeclStmt(c, s) ==
  LET type == MustResolveType(s.type)
      isNew == s.name \notin DOMAIN c.env
      expr == Rewrite([c EXCEPT !.env = Declared(c.env, s), !.declaring = IF isNew THEN s.name ELSE ""], s.e)
      declared == [Tree(NoExpr) EXCEPT !.errs = IF isNew THEN {} ELSE {Error("DuplicateVarDecl", <<>>)}]
  IN  After(<<type, declared, expr>>,
        CASE ~IsValid(expr.tree.tid) -> Prune({})
          [] IsValid(expr.tree.tid) /\ ~IsAssignable(c.map, s.type, expr.tree.tid) ->
               PruneFor("Unassignable", <<s.type, expr.tree.tid>>)
          [] OTHER -> Tree([s EXCEPT !.e = expr.tree]))

ReturnStmt(c, s) ==
  LET expr == Rewrite(c, s.e)
  IN  IF c.ret = kVoid THEN IF s.e = NoExpr THEN Tree(s) ELSE PruneFor("ReturnInVoidMethod", <<>>)
      ELSE IF s.e = NoExpr THEN PruneFor("EmptyReturnInNonVoidMethod", <<>>)
      ELSE After(<<expr>>,
             CASE ~IsValid(expr.tree.tid) -> Prune({})
               [] IsValid(expr.tree.tid) /\ ~IsAssignable(c.map, c.ret, expr.tree.tid) ->
                    PruneFor("Unassignable", <<c.ret, expr.tree.tid>>)
               [] OTHER -> Tree([s EXCEPT !.e = expr.tree]))

\* A statement that is dropped leaves the block without it.
BlockStmt(c, s) ==
  LET scope[i \in 0..Len(s.stmts)] == IF i = 0 THEN c.env ELSE Declared(scope[i - 1], s.stmts[i])
      stmts == [i \in DOMAIN s.stmts |-> RewriteStmt(In(c, scope[i - 1]), s.stmts[i])]
  IN  Having(stmts, Tree([s EXCEPT !.stmts = SelectSeq(TreesOf(stmts), LAMBDA t : t # Pruned)]))

Condition(cond, r) ==
  IF cond.tree.k \notin {"pruned", "none"} /\ cond.tree.tid # kBool THEN NotA(kBool, {cond.tree.tid}) ELSE r

IfStmt(c, s) ==
  LET cond == Rewrite(c, s.cond)
      then == RewriteStmt(c, s.then)
      else == RewriteStmt(c, s.else)
  IN  After(<<cond, then, else>>,
        Condition(cond, Tree([k |-> "if", cond |-> cond.tree, then |-> then.tree, else |-> else.tree])))

WhileStmt(c, s) ==
  LET cond == Rewrite(c, s.cond)
      body == RewriteStmt(c, s.body)
  IN  After(<<cond, body>>, Condition(cond, Tree([k |-> "while", cond |-> cond.tree, body |-> body.tree])))

\* A condition or an update that is dropped is as one left out.
ForStmt(c, s) ==
  LET inside == In(c, Declared(c.env, s.init))
      init == RewriteStmt(c, s.init)
      Optional(e) == IF e = NoExpr THEN Tree(e) ELSE Rewrite(inside, e)
      Kept(r) == IF IsPruned(r) THEN NoExpr ELSE r.tree
      cond == Optional(s.cond)
      update == Optional(s.update)
      body == RewriteStmt(inside, s.body)
  IN  Having(<<cond, update>>,
        After(<<init, body>>,
          Condition(cond, Tree([k |-> "for", init |-> init.tree, cond |-> Kept(cond),
                                update |-> Kept(update), body |-> body.tree]))))

ExprStmt(c, s) == LET expr == Rewrite(c, s.e) IN After(<<expr>>, Tree([s EXCEPT !.e = expr.tree]))

RewriteStmt(c, s) ==
  CASE s.k = "empty" -> Tree(s)
    [] s.k = "expr" -> ExprStmt(c, s)
    [] s.k = "decl" -> LocalDeclStmt(c, s)
    [] s.k = "return" -> ReturnStmt(c, s)
    [] s.k = "block" -> BlockStmt(c, s)
    [] s.k = "if" -> IfStmt(c, s)
    [] s.k = "while" -> WhileStmt(c, s)
    [] s.k = "for" -> ForStmt(c, s)

-----------------------------------------------------------------------------
Init ==
  /\ \E i \in DOMAIN Families :
       LET f == Families[i]
       IN  \E c \in f.callers, s \in f.statics, t \in f.types, b \in f.bodies :
             unit = [world |-> f.world, caller |-> c, static |-> s, kind |-> f.kind, type |-> t,
                     params |-> f.params, body |-> b]
  /\ phase = "start"
  /\ env = <<>> /\ trees = <<>> /\ errors = {} /\ lost = FALSE

Map == Build[unit.world]

Here == [map |-> Map, caller |-> unit.caller, static |-> unit.static, env |-> env, declaring |-> ""]

Record(r) ==
  /\ trees' = Append(trees, r.tree)
  /\ errors' = errors \cup r.errs
  /\ lost' = (lost \/ r.lost)

\* The initialiser is rewritten first; a type in error has no table to put the field in.
FieldDecl ==
  /\ phase = "start" /\ unit.kind = "field"
  /\ LET type == MustResolveType(unit.type)
         val == Rewrite(Here, unit.body[1])
     IN  Record(After(<<type, val>>,
           IF ~IsAssignable(Map, unit.type, val.tree.tid) THEN PruneFor("Unassignable", <<unit.type, val.tree.tid>>)
           ELSE IF ~LookupTypeInfo(Map, Ref(unit.caller)).valid THEN Prune({})
           ELSE Tree(val.tree)))
  /\ phase' = "done"
  /\ UNCHANGED <<unit, env>>

\* The method of a type in error is dropped before its body is looked at.
EnterMethod ==
  /\ phase = "start" /\ unit.kind = "method"
  /\ env' = FoldLeft(Declared, env, unit.params)
  /\ errors' = {Error("DuplicateVarDecl", <<>>) :
                  i \in {j \in DOMAIN unit.params : \E k \in 1..(j - 1) : unit.params[k].name = unit.params[j].name}}
  /\ IF LookupTypeInfo(Map, Ref(unit.caller)).valid
       THEN phase' = "body" /\ UNCHANGED lost
       ELSE phase' = "done" /\ lost' = TRUE
  /\ UNCHANGED <<unit, trees>>

\* The next statement of the body.
CheckStmt ==
  /\ phase = "body" /\ Len(trees) < Len(unit.body)
  /\ LET s == unit.body[Len(trees) + 1]
     IN  /\ Record(RewriteStmt(Here @@ [ret |-> unit.type], s))
         /\ env' = Declared(env, s)
  /\ UNCHANGED <<unit, phase>>

LeaveMethod ==
  /\ phase = "body" /\ Len(trees) = Len(unit.body)
  /\ phase' = "done" /\ env' = <<>>
  /\ UNCHANGED <<unit, trees, errors, lost>>

Next == FieldDecl \/ EnterMethod \/ CheckStmt \/ LeaveMethod

Spec == Init /\ [][Next]_vars

-----------------------------------------------------------------------------
Run == INSTANCE Execution

World == Run!Facts[unit.world]
Code == [w |-> World, caller |-> unit.caller, static |-> unit.static]

\* The earlier phases had nothing to report of the world.
Proper(map) ==
  /\ map.inError = {}
  /\ \A t \in ToSet(map.types) : /\ OwnTable(t, t.fields).bad = {}
                                 /\ OwnTable(t, t.methods).bad = {}

\* A member without errors has all its parts, and nothing goes wrong when it runs,
\* whatever its variables and the fields, elements and results it gets hold: every
\* expression has a value of the type it was given, what is stored is of the type of
\* the place, each access finds its member in the object and each call a body to run,
\* and protected members of another package are only used on the class's own objects.
AcceptedIsSound ==
  errors = {} /\ Proper(Map) =>
    /\ ~lost
    /\ \A i \in DOMAIN trees :
         IF unit.kind = "method" THEN ~Run!GoesWrong(Code, trees[i], unit.type)
         ELSE Run!Wrong \notin Run!OfType(World, Run!Eval(Code, trees[i]), unit.type)

\* Some value of one type is of the other, null aside.
Overlap(w, t, u) == (Run!Values(w, t) \cap Run!Values(w, u)) \ {Run!Null} # {}

\* Conversions between a class and an interface it does not implement, though an
\* heir of it may, are rejected all the same.
ClassAndInterface(w, t, u) ==
  /\ {t[1], u[1]} \cap NotReferences = {}
  /\ Run!Declaration(w, t[1]).kind # Run!Declaration(w, u[1]).kind

\* No supertype declares such a member, and nothing is unknown about them.
NoneDeclared(w, tid, Declares(_)) ==
  \A s \in w.supers[Run!ClassOf(tid)] :
    ~Run!Declaration(w, s).broken /\ ~Declares(Run!Declaration(w, s))

Justified(w, e) ==
  LET kind == e[1]
      a == e[2]
  IN  CASE kind = "TypeMismatch" -> ~(Run!Values(w, a[2]) \subseteq Run!Values(w, a[1]))
        [] kind = "Unassignable" -> ~(Run!Values(w, a[2]) \subseteq Run!Values(w, a[1]))
        [] kind = "IndexNonArray" -> ~IsArray(a[1])
        [] kind = "AssignFinal" -> IsArray(a[1])
        [] kind = "Incomparable" ->
             \/ ClassAndInterface(w, a[1], a[2])
             \/ /\ ~Overlap(w, a[1], a[2])
                /\ IsNumeric(a[1]) => ~IsNumeric(a[2])
        [] kind \in {"IncompatibleCast", "IncompatibleInstanceOf"} ->
             \/ ClassAndInterface(w, a[1], a[2])
             \/ /\ ~Overlap(w, a[1], a[2])
                /\ IsNumeric(a[1]) => ~IsNumeric(a[2])
                /\ IsReference(a[1]) => a[2] # kNull
        [] kind = "InstanceOfPrimitive" -> \E t \in {a[1], a[2]} : ~IsReference(t)
        [] kind = "MemberAccessOnPrimitive" -> ~IsReference(a[1])
        [] kind = "UndefinedReference" ->
             NoneDeclared(w, a[1], LAMBDA d : \E i \in DOMAIN d.fields : d.fields[i].name = a[2])
        [] kind = "UndefinedMethod" /\ ~a[2].isConstructor ->
             NoneDeclared(w, a[1], LAMBDA d : \E i \in DOMAIN d.methods : Signature(d.methods[i]) = a[2])
        [] kind = "UndefinedMethod" /\ a[2].isConstructor ->
             ~\E m \in ToSet(Run!Declaration(w, a[1][1]).methods) : Signature(m) = a[2]
        [] kind = "NewAbstractClass" -> ~Run!Instantiable(Run!Declaration(w, a[1][1]))
        [] kind \in {"StaticFieldOnInstance", "InstanceFieldOnStatic"} ->
             LET f == Run!FieldFrom(w, Run!ClassOf(a[1]), a[2])
             IN  f[1].info.static = (kind = "StaticFieldOnInstance")
        [] kind \in {"InstanceMethodOnStatic", "StaticMethodOnInstance"} ->
             LET m == Run!MethodFrom(w, Run!ClassOf(a[1]), a[2])
             IN  m[1].info.static = (kind = "InstanceMethodOnStatic")
        [] kind = "Permission" -> \/ a[2] = "CONSTRUCTOR" /\ ~Run!MayConstruct(w, a[3], a[1])
                                  \/ a[2] = "STATIC" /\ ~Run!MayUseStatic(w, a[3], a[1])
                                  \/ a[2] = "INSTANCE" /\ \E v \in Run!Values(w, a[4]) \ {Run!Null} :
                                       ~Run!MayUseOf(w, a[3], a[1], v.class)
        [] kind = "ThisInStaticMember" -> unit.static
        [] kind = "NoString" -> ~IsValid(TheString(Map))
        [] OTHER -> TRUE

\* What is said of a part without a type follows from the error about its type.
FollowUp(e) ==
  /\ Error("UnknownType", <<>>) \in errors
  /\ \/ e[1] \in {"TypeMismatch", "IndexNonArray"} /\ kError \in ToSet(e[2])
     \/ e[1] = "UndefinedMethod" /\ kError \in ToSet(e[2][2].params)

\* What is rejected had to be: some value of the one type is not of the other, none
\* of them could pass the cast or be equal, no supertype declares the member, some
\* object of that type is not the caller's to use.  A type in error or a member
\* declared twice leads to no further errors, except that such a type has lost its
\* package: its initialisers, and others that use what its heirs inherit, are
\* strangers to it.
RejectionsJustified ==
  \A e \in errors :
    \/ FollowUp(e)
    \/ Justified(World, e)
    \/ /\ e[1] = "Permission"
       /\ \E t \in {unit.caller, e[2][1].owner} : ~LookupTypeInfo(Map, Ref(t)).valid
=============================================================================
