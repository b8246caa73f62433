------------------------------ MODULE Dataflow ------------------------------
(***************************************************************************)
(* The last phase of TypecheckProgram (types/types.cpp): ConstantFold, and *)
(* then the DataflowVisitor (types/dataflow_visitor.cpp), which goes       *)
(* through the members of a class: FieldOrderVisitor for the initialiser   *)
(* of a field, ReachabilityVisitor for a method.                           *)
(*                                                                         *)
(* The expressions the pass folds are the class's conditions; a loop's     *)
(* condition is a place in that sequence.  For and while are one kind      *)
(* of statement, "loop"; expressions, declarations and the empty statement *)
(* are "simple".  A field's initialiser consists of accesses of fields,    *)
(* assignments, uses of `this' and other operations on such operands.      *)
(*                                                                         *)
(* A method's body is the sequence of its statements, and an initialiser   *)
(* the sequence of its expressions, in the order in which a visitor is     *)
(* done with them: the parts of each, given by their places, come before   *)
(* it, and the last is the whole.  So recursion over a tree is a function  *)
(* on the places of its nodes.                                             *)
(***************************************************************************)
EXTENDS ConstantFolding, ControlFlow

CONSTANTS
  DataflowClasses,  \* the classes [inherited, exprs, members]
  NoCond            \* the condition a `for' leaves out

VARIABLES
  class,
  reports           \* for each member visited, the errors appended to the list

dataflowVars == <<original, folded, strings, class, reports>>

-----------------------------------------------------------------------------
(***************************************************************************)
(* Classes as the passes before leave them.                                *)
(***************************************************************************)
ImplicitThis == [k |-> "this", implicit |-> TRUE]

PartsOf(s) ==
  CASE s.k = "block" -> Range(s.stmts)
    [] s.k = "if" -> {s.then, s.else}
    [] s.k = "loop" -> {s.body}
    [] OTHER -> {}

\* The statement at place i; the conditions are booleans (TypeChecker).
IsStatement(s, i, exprs) ==
  \/ s.k \in {"simple", "return"}
  \/ s.k = "block" /\ s.stmts \in Seq(1..(i - 1)) /\ IsInjective(s.stmts)
  \/ s.k = "if" /\ s.then \in 1..(i - 1) /\ s.else \in 1..(i - 1) /\ s.then # s.else
  \/ /\ s.k = "loop" /\ s.body \in 1..(i - 1)
     /\ s.cond = NoCond \/ (s.cond \in DOMAIN exprs /\ exprs[s.cond].tid = kBool)

\* Each statement but the last is a part of one other.
IsBody(body, exprs) ==
  /\ body \in Seq(Range(body)) /\ body # <<>>
  /\ \A i \in DOMAIN body : IsStatement(body[i], i, exprs)
  /\ \A i, j \in DOMAIN body : PartsOf(body[i]) \cap PartsOf(body[j]) # {} => i = j
  /\ \A i \in 1..(Len(body) - 1) : \E j \in DOMAIN body : i \in PartsOf(body[j])

\* The expression at place i.
IsOperation(e, i) ==
  \/ e.k = "this"
  \/ e.k = "field" /\ e.base \in 1..(i - 1)
  \/ e.k = "assign" /\ e.lhs \in 1..(i - 1) /\ e.rhs \in 1..(i - 1)
  \/ e.k = "op" /\ e.args \in Seq(1..(i - 1))

IsInitialiser(tree) ==
  /\ tree \in Seq(Range(tree)) /\ tree # <<>>
  /\ \A i \in DOMAIN tree : IsOperation(tree[i], i)

\* A class has no two fields of a name; a simple name that is an access by the
\* implicit `this' is that of a field of an object.
IsClass(c) ==
  /\ c.exprs \in Seq(Range(c.exprs)) /\ WellTypedProgram(c.exprs)
  /\ c.members \in Seq(Range(c.members)) /\ c.inherited \in Seq(Range(c.inherited))
  /\ \A i \in DOMAIN c.inherited : c.inherited[i].k = "field"
  /\ \A i, j \in DOMAIN c.members :
        LET m == c.members[i]
            other == c.members[j]
        IN  /\ m.k = "method" => IsBody(m.body, c.exprs)
            /\ m.k = "field" => IsInitialiser(m.val)
            /\ m.k = "field" /\ other.k = "field" /\ m.name = other.name => i = j
            /\ m.k = "field" /\ other.k = "field" =>
                 \A e \in Range(m.val) :
                    e.k = "field" /\ m.val[e.base] = ImplicitThis /\ e.name = other.name => ~other.isStatic
  /\ \A i \in DOMAIN c.members : c.members[i].k = "field" =>
        LET tree == c.members[i].val
        IN  \A e \in Range(tree) : e.k = "field" /\ tree[e.base] = ImplicitThis =>
               \E f \in Range(c.inherited) \cup Range(c.members) : f.k = "field" /\ f.name = e.name

ASSUME ClassesAssumption == \A c \in DataflowClasses : IsClass(c)

-----------------------------------------------------------------------------
Error(kind, pos) == [kind |-> kind, pos |-> pos]

-----------------------------------------------------------------------------
(***************************************************************************)
(* ReachabilityVisitor: its two flags, and the errors so far.  A nested    *)
(* visitor starts with the flags of the outer one and shares its errors.   *)
(***************************************************************************)
IsConstantBool(cond, want) ==
  /\ IsConst(folded[cond])
  /\ folded[cond].constant = Lit(kBool, Truth(want))

\* Before the statement at place i is visited.
CheckReachable(v, i) ==
  IF ~v.reachable /\ v.mayEmit
    THEN [v EXCEPT !.mayEmit = FALSE, !.unreachable = @ \cup {i}]
    ELSE v

CannotEnter(s) == s.cond # NoCond /\ IsConstantBool(s.cond, FALSE)
Infinite(s) == s.cond = NoCond \/ IsConstantBool(s.cond, TRUE)

\* In what follows visit[i] is what a visit of the statement at place i makes of
\* the visitor.

\* After the first k statements of a block.
AfterStmts(visit, v, stmts) ==
  LET after[k \in 0..Len(stmts)] ==
        IF k = 0 THEN v ELSE visit[stmts[k]][CheckReachable(after[k - 1], stmts[k])]
  IN  after

VisitBlock(visit, v, s) == [AfterStmts(visit, v, s.stmts)[Len(s.stmts)] EXCEPT !.mayEmit = TRUE]

\* Mutant of VisitIf: the second branch is visited by the visitor of the first.
VisitIfInOne(visit, v, s) ==
  LET then == visit[s.then][v]
      else == visit[s.else][then]
  IN  [v EXCEPT !.reachable = then.reachable \/ else.reachable, !.unreachable = else.unreachable]

VisitIf(visit, v, s) ==
  LET then == visit[s.then][v]
      else == visit[s.else][[v EXCEPT !.unreachable = then.unreachable]]
  IN  [v EXCEPT !.reachable = then.reachable \/ else.reachable, !.unreachable = else.unreachable]

\* Mutant of VisitLoop: what follows is reached as the end of the body is.
VisitLoopOnce(visit, v, s) ==
  IF CannotEnter(s)
    THEN [v EXCEPT !.reachable = TRUE,
                   !.unreachable = CheckReachable([v EXCEPT !.reachable = FALSE], s.body).unreachable]
  ELSE LET nested == visit[s.body][v]
       IN  [v EXCEPT !.reachable = ~Infinite(s) /\ nested.reachable, !.unreachable = nested.unreachable]

\* The body of a loop that is never entered is not visited.
VisitLoop(visit, v, s) ==
  IF CannotEnter(s)
    THEN [v EXCEPT !.reachable = TRUE,
                   !.unreachable = CheckReachable([v EXCEPT !.reachable = FALSE], s.body).unreachable]
  ELSE [v EXCEPT !.reachable = @ /\ ~Infinite(s), !.unreachable = visit[s.body][v].unreachable]

Visit(visit, v, s) ==
  CASE s.k = "block" -> VisitBlock(visit, v, s)
    [] s.k = "return" -> [v EXCEPT !.reachable = FALSE]
    [] s.k = "if" -> VisitIf(visit, v, s)
    [] s.k = "loop" -> VisitLoop(visit, v, s)
    [] s.k = "simple" -> v

\* Visitors of a body: unreachable are the statements reported.
Visitors(body) == [reachable : BOOLEAN, mayEmit : BOOLEAN, unreachable : SUBSET (DOMAIN body)]

Visits(body) ==
  LET visit[i \in DOMAIN body] == [v \in Visitors(body) |-> Visit(visit, v, body[i])] IN visit

\* The visitor at the end of a method's body.
AtEnd(body) == Visits(body)[Len(body)][[reachable |-> TRUE, mayEmit |-> TRUE, unreachable |-> {}]]

\* An abstract or native method has no body but the empty statement.
MethodErrors(m) ==
  IF m.body[Len(m.body)].k # "block" THEN {}
  ELSE LET v == AtEnd(m.body)
       IN  {Error("UnreachableCode", i) : i \in v.unreachable}
           \cup (IF v.reachable /\ ~m.isVoid THEN {Error("MethodNeedsReturn", 0)} ELSE {})

-----------------------------------------------------------------------------
(***************************************************************************)
(* FieldOrderVisitor.  Ids are given to the inherited fields first, then   *)
(* to the class's own in the order of the source.                          *)
(***************************************************************************)
IsOwn(fid) == fid > Len(class.inherited)
FieldAt(fid) == IF IsOwn(fid) THEN class.members[fid - Len(class.inherited)] ELSE class.inherited[fid]

\* The ids of the fields of that name: methods take ids here too, but only the
\* order of ids matters.  A field hides the inherited ones of its name.
FieldIds(name) ==
  {fid \in 1..(Len(class.inherited) + Len(class.members)) :
     FieldAt(fid).k = "field" /\ FieldAt(fid).name = name}
FieldIdOf(name) == Max(FieldIds(name))

\* An access of the class's own field by its simple name.
InOrder(e, tree, cur) ==
  LET fid == FieldIdOf(e.name)
  IN  (tree[e.base] = ImplicitThis /\ IsOwn(fid) /\ ~FieldAt(fid).isStatic) => fid < cur

\* Mutant of AssignErrors: all of the target is left out.
AssignErrorsRightOnly(errors, tree, e) == errors[e.rhs]

\* A field that is assigned to may be anywhere; not so the object it is in.
AssignErrors(errors, tree, e) ==
  LET lhs == tree[e.lhs]
  IN  (IF lhs.k = "field" THEN errors[lhs.base] ELSE errors[e.lhs]) \cup errors[e.rhs]

\* The accesses reported in the expression at place i, errors being those in its
\* operands.
Ordered(errors, tree, i, cur) ==
  LET e == tree[i]
  IN  CASE e.k = "this" -> {}
        [] e.k = "field" -> (IF InOrder(e, tree, cur) THEN {} ELSE {i}) \cup errors[e.base]
        [] e.k = "assign" -> AssignErrors(errors, tree, e)
        [] e.k = "op" -> UNION {errors[e.args[k]] : k \in DOMAIN e.args}

OrderErrors(tree, cur) == LET errors[i \in DOMAIN tree] == Ordered(errors, tree, i, cur) IN errors

FieldErrors(m) ==
  {Error("FieldOrder", i) : i \in OrderErrors(m.val, FieldIdOf(m.name))[Len(m.val)]}

-----------------------------------------------------------------------------
DataflowInit ==
  /\ class \in DataflowClasses
  /\ original = class.exprs
  /\ folded = <<>>
  /\ strings = <<>>
  /\ reports = <<>>

Fold == ConstantFold /\ UNCHANGED <<class, reports>>

\* The next member, once all of the program is folded.
Visiting(kind) ==
  /\ Len(folded) = Len(original)
  /\ Len(reports) < Len(class.members)
  /\ class.members[Len(reports) + 1].k = kind

VisitField ==
  /\ Visiting("field")
  /\ reports' = Append(reports, FieldErrors(class.members[Len(reports) + 1]))
  /\ UNCHANGED <<original, folded, strings, class>>

VisitMethod ==
  /\ Visiting("method")
  /\ reports' = Append(reports, MethodErrors(class.members[Len(reports) + 1]))
  /\ UNCHANGED <<original, folded, strings, class>>

DataflowNext == Fold \/ VisitField \/ VisitMethod

DataflowSpec == DataflowInit /\ [][DataflowNext]_dataflowVars

-----------------------------------------------------------------------------
\* The language's constants, whatever folding made of them.
AlwaysIs(cond, want) ==
  IF cond = NoCond THEN want
  ELSE \A env \in Valuations : Meanings(original, env)[cond] = Meaning(TRUE, Gives(Truth(want)))

\* What the condition of each loop of a body may be.
Outcomes(body) == [i \in DOMAIN body |-> {b \in BOOLEAN : body[i].k = "loop" => ~AlwaysIs(body[i].cond, ~b)}]

Reported(m, kind) == {e.pos : e \in {x \in reports[m] : x.kind = kind}}

Bodies ==
  {m \in DOMAIN reports :
     LET member == class.members[m] IN member.k = "method" /\ member.body[Len(member.body)].k = "block"}

\* A method is rejected exactly when some run of it could fall off its end
\* without the value it owes, or it has a statement that no run executes,
\* whatever constants its loops' conditions fold to: the code generator puts nothing
\* after the body of such a method, and control would go on into the next one.
RejectsExactly ==
  \A m \in Bodies :
    LET body == class.members[m].body
    IN  reports[m] = {} <=> /\ NeverExecuted(body, Outcomes(body)) = {}
                            /\ class.members[m].isVoid \/ ~FallsOffEnd(body, Outcomes(body))

\* Each error is right: a statement reported is one that no run executes, and
\* a value is missed where a run falls off the end, or in a method that is
\* rejected for other statements after which a loop counts as reachable again.
ErrorsRight ==
  \A m \in Bodies :
    LET body == class.members[m].body
    IN  /\ Reported(m, "UnreachableCode") \subseteq NeverExecuted(body, Outcomes(body))
        /\ Reported(m, "MethodNeedsReturn") # {}
             => FallsOffEnd(body, Outcomes(body)) \/ Reported(m, "UnreachableCode") # {}

\* The accesses by which the evaluation of each expression of an initialiser reads
\* fields of the new object by their simple names.
ReadsOf(reads, tree, i) ==
  LET e == tree[i]
  IN  CASE e.k = "this" -> {}
        [] e.k = "op" -> UNION {reads[e.args[k]] : k \in DOMAIN e.args}
        [] e.k = "field" -> reads[e.base] \cup (IF tree[e.base] = ImplicitThis THEN {i} ELSE {})
        [] e.k = "assign" ->
             reads[e.rhs] \cup (IF tree[e.lhs].k = "field" THEN reads[tree[e.lhs].base] ELSE reads[e.lhs])
Reads(tree) == LET reads[i \in DOMAIN tree] == ReadsOf(reads, tree, i) IN reads

\* The class's own fields that have no value yet when the initialiser of
\* member m is evaluated.
Unready(m) ==
  {class.members[i].name : i \in {j \in m..Len(class.members) : class.members[j].k = "field"}}

\* An initialiser is rejected exactly where it reads a field of the new object
\* before that field's own initialiser has been evaluated; assigning is
\* allowed, reading a field of what is assigned to is not, and the name may be
\* one that the class's parent has as well.
FieldOrderExact ==
  \A m \in DOMAIN reports :
    LET member == class.members[m]
    IN  member.k = "field" =>
          Reported(m, "FieldOrder") = {i \in Reads(member.val)[Len(member.val)] : member.val[i].name \in Unready(m)}
=============================================================================
