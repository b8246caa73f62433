---------------------------- MODULE JoosSemantics ----------------------------
(***************************************************************************)
(* What a method means: the abstract specification of compiled code.  It   *)
(* follows the evaluation order of the Java language, of which Joos is a   *)
(* subset: operands left to right, an assignment's target before its       *)
(* right-hand side and both before any check of the target.  A reference   *)
(* is 0 or the number of an object in the heap.                            *)
(*                                                                         *)
(* A configuration c holds the variables, the heap, the static fields, the *)
(* calls made of other methods, the value of the expression just evaluated *)
(* and how the method ended, if it did.                                    *)
(***************************************************************************)
EXTENDS Joos, SequencesExt

TheString == 1   \* the object every string addition hands back

Start(input) ==
    [env |-> input.args, heap |-> input.heap, statics |-> input.statics,
     out |-> << >>, val |-> 0, end |-> "none"]

Going(c) == c.end = "none"
Raise(c, exception) == [c EXCEPT !.end = exception]
Give(c, v) == [c EXCEPT !.val = v]

RECURSIVE Evaluated(_, _), Executed(_, _)

\* An expression or a statement, unless the method has ended.
Eval(e, c) == IF Going(c) THEN Evaluated(e, c) ELSE c
Exec(s, c) == IF Going(c) THEN Executed(s, c) ELSE c

\* Evaluate left to right, keeping the values.
RECURSIVE EvalRest(_, _)
EvalRest(es, done) ==
    IF es = << >> THEN done
    ELSE LET d == Eval(Head(es), done.c)
         IN  EvalRest(Tail(es), [c |-> d, vals |-> Append(done.vals, d.val)])
EvalAll(es, c) == EvalRest(es, [c |-> c, vals |-> << >>])

Calling(c, mid, args) ==
    Give([c EXCEPT !.out = Append(@, [mid |-> mid, args |-> args])],
         Result(mid, args, TheString))

\* String conversion of both operands, then concatenation.
Conversion(t) == IF IsReference(t) THEN "StringOps.str" ELSE "String.valueOf"
Concatenation(e, c, l, r) ==
    Calling(Calling(Calling(c, Conversion(e.l.tid), << l >>),
                    Conversion(e.r.tid), << r >>),
            "String.concat", << TheString, TheString >>)

EvalBinary(e, c) ==
    LET both == EvalAll(<< e.l, e.r >>, c)
        l == both.vals[1]
        r == both.vals[2]
    IN  IF ~Going(both.c) THEN both.c
        ELSE IF e.op \in {"DIV", "MOD"} /\ r = 0 THEN Raise(both.c, "ARITHMETIC")
        ELSE IF e.tid = String THEN Concatenation(e, both.c, l, r)
        ELSE Give(both.c, Operation(e.op, l, r))

EvalShortCircuit(e, c) ==
    LET l == Eval(e.l, c)
    IN  IF Going(l) /\ l.val = Truth(e.op = "AND") THEN Eval(e.r, l) ELSE l

OutOfBounds(c, array, i) == i \notin DOMAIN c.heap[array].cells

\* Whether a value may be stored in an array: null, or an element's type.
StoreAllowed(c, array, v) ==
    \/ IsPrimitive(c.heap[array].type)
    \/ v = 0
    \/ Belongs(c.heap[v], c.heap[array].type)

EvalAssign(e, c) ==
    LET target == e.l
        parts == IF target.k = "field" THEN << target.base >>
                 ELSE IF target.k = "index" THEN << target.array, target.index >>
                 ELSE << >>
        all == EvalAll(parts \o << e.r >>, c)
        d == all.c
        v == Last(all.vals)
        o == all.vals[1]
    IN  IF ~Going(d) THEN d
        ELSE CASE target.k = "name" -> [d EXCEPT !.env[target.vid] = v]
               [] target.k = "static" -> [d EXCEPT !.statics[target.fid] = v]
               [] target.k = "field" ->
                    IF o = 0 THEN Raise(d, "NPE")
                    ELSE [d EXCEPT !.heap[o].cells[target.fid] = v]
               [] target.k = "index" ->
                    IF o = 0 THEN Raise(d, "NPE")
                    ELSE IF OutOfBounds(d, o, all.vals[2]) THEN Raise(d, "OOBE")
                    ELSE IF ~StoreAllowed(d, o, v) THEN Raise(d, "ASE")
                    ELSE [d EXCEPT !.heap[o].cells[all.vals[2]] = v]

EvalCast(e, c) ==
    LET d == Eval(e.e, c)
    IN  IF ~Going(d) THEN d
        ELSE IF IsPrimitive(e.tid) THEN Give(d, Narrow(d.val, e.tid))
        ELSE IF d.val = 0 \/ Belongs(d.heap[d.val], e.tid) THEN d
        ELSE Raise(d, "CCE")

EvalCall(e, c) ==
    LET static == e.base.k = "static_ref"
        all == EvalAll((IF static THEN << >> ELSE << e.base >>) \o e.args, c)
    IN  IF ~Going(all.c) THEN all.c
        ELSE IF ~static /\ all.vals[1] = 0 THEN Raise(all.c, "NPE")
        ELSE Calling(all.c, e.mid, all.vals)

Allocate(c, o) == Give([c EXCEPT !.heap = Append(@, o)], Len(c.heap) + 1)

EvalNewArray(e, c) ==
    LET d == Eval(e.e, c)
    IN  IF ~Going(d) THEN d
        ELSE IF d.val < 0 THEN Raise(d, "NASE")
        ELSE Allocate(d, NewArrayObject(e.elem, d.val))

EvalNewClass(e, c) ==
    LET made == Allocate(c, NewObject(e.tid.base))
        all == EvalAll(e.args, made)
    IN  IF ~Going(all.c) THEN all.c
        ELSE Give(Calling(all.c, e.mid, << made.val >> \o all.vals), made.val)

Evaluated(e, c) ==
    CASE e.k = "lit" -> Give(c, e.value)
      [] e.k = "name" -> Give(c, c.env[e.vid])
      [] e.k = "this" -> Give(c, c.env[1])
      [] e.k = "static" -> Give(c, c.statics[e.fid])
      [] e.k = "field" ->
           LET d == Eval(e.base, c)
           IN  IF ~Going(d) THEN d ELSE IF d.val = 0 THEN Raise(d, "NPE")
               ELSE Give(d, d.heap[d.val].cells[e.fid])
      [] e.k = "index" ->
           LET all == EvalAll(<< e.array, e.index >>, c)
               o == all.vals[1]
           IN  IF ~Going(all.c) THEN all.c ELSE IF o = 0 THEN Raise(all.c, "NPE")
               ELSE IF OutOfBounds(all.c, o, all.vals[2]) THEN Raise(all.c, "OOBE")
               ELSE Give(all.c, all.c.heap[o].cells[all.vals[2]])
      [] e.k = "unary" ->
           LET d == Eval(e.e, c)
           IN  Give(d, IF e.op = "SUB" THEN Narrow(-d.val, kInt) ELSE 1 - d.val)
      [] e.k = "binary" /\ e.op \in {"AND", "OR"} -> EvalShortCircuit(e, c)
      [] e.k = "binary" /\ e.op = "ASSG" -> EvalAssign(e, c)
      [] e.k = "binary" /\ e.op \notin {"AND", "OR", "ASSG"} -> EvalBinary(e, c)
      [] e.k = "cast" -> EvalCast(e, c)
      [] e.k = "instanceof" ->
           LET d == Eval(e.e, c)
           IN  Give(d, Truth(d.val # 0 /\ Going(d) /\ Belongs(d.heap[d.val], e.type)))
      [] e.k = "call" -> EvalCall(e, c)
      [] e.k = "new_array" -> EvalNewArray(e, c)
      [] e.k = "new_class" -> EvalNewClass(e, c)

ExecAll(stmts, c) == FoldLeft(LAMBDA d, s : Exec(s, d), c, stmts)

RECURSIVE Loop(_, _, _, _)
Loop(cond, body, update, c) ==
    LET d == Eval(cond, c)
    IN  IF ~Going(d) \/ d.val = 0 THEN d
        ELSE Loop(cond, body, update, ExecAll(<< body, update >>, d))

Executed(s, c) ==
    CASE s.k = "block" -> ExecAll(s.stmts, c)
      [] s.k = "expr" -> Eval(s.e, c)
      [] s.k = "local" ->
           LET d == Eval(s.e, c) IN [d EXCEPT !.env = (s.vid :> d.val) @@ @]
      [] s.k = "if" ->
           LET d == Eval(s.cond, c)
           IN  Exec(IF d.val = 1 THEN s.then ELSE s.else, d)
      [] s.k = "while" -> Loop(s.cond, s.body, Empty, c)
      [] s.k = "for" -> Loop(s.cond, s.body, s.update, Exec(s.init, c))
      [] s.k = "return" ->
           LET d == Eval(s.e, c) IN IF Going(d) THEN Raise(d, "return") ELSE d

\* How method m runs with an input.
Run(m, input) == Exec(m.body, Start(input))
=============================================================================
