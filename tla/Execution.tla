----------------------------- MODULE Execution -----------------------------
(***************************************************************************)
(* What may happen when checked code runs: the values every expression may *)
(* have, wherever the objects it meets come from, and where it goes wrong. *)
(* This is what the type checker, the module TypeChecker, is checked       *)
(* against; it looks members up in the declarations of a world and at run  *)
(* time, in the class of the object at hand.                               *)
(*                                                                         *)
(* A value is a number, a truth value, null or an object of some class or  *)
(* array.  Fields, variables and elements hold any value of their type,    *)
(* as long as nothing else is ever put into them: if it is, or an operator *)
(* meets a value it is not defined for, or a member does not exist or is   *)
(* not for this class to use, the code goes Wrong.  Exceptions end it.     *)
(***************************************************************************)
EXTENDS TypeIds, Integers, FiniteSets, SequencesExt, TLC

Wrong == [k |-> "wrong"]
Null == [k |-> "null"]
Nothing == [k |-> "void"]
TypeItself == [k |-> "type"]
Truth == [k |-> "bool"]
Number(n) == [k |-> "num", n |-> n]
Object(class) == [k |-> "obj", class |-> class]

\* The least and the greatest number of each type.
Least == [byte |-> -128, char |-> 0, short |-> -32768, int |-> -2147483647]
Greatest == [byte |-> 127, char |-> 65535, short |-> 32767, int |-> 2147483647]
Numbers == {Number(f[t]) : f \in {Least, Greatest}, t \in Numeric}

-----------------------------------------------------------------------------
Declaration(w, t) == w.types[TypeNamed(w.types, t)]

\* A type and all it extends or implements.
Supers(types) ==
  LET Up[i \in DOMAIN types] == {types[i].name} \cup UNION {Up[TypeNamed(types, p)] : p \in ToSet(types[i].parents)}
  IN  [t \in {types[i].name : i \in DOMAIN types} |-> Up[TypeNamed(types, t)]]

\* Of a broken type nothing is known.
Extends(w, t, above) == above \in w.supers[t] \/ \E s \in w.supers[t] : Declaration(w, s).broken

Belongs(w, class, tid) ==
  \/ class = tid
  \/ /\ IsArray(class) /\ IsArray(tid)
     /\ class[1] \notin NotReferences /\ tid[1] \notin NotReferences
     /\ Extends(w, class[1], tid[1])
  \/ /\ ~IsArray(tid) /\ tid[1] \notin NotReferences
     /\ Extends(w, IF IsArray(class) THEN "array" ELSE class[1], tid[1])

IsOf(w, v, tid) ==
  CASE v.k = "num" -> IsNumeric(tid) /\ v.n \in Least[tid[1]]..Greatest[tid[1]]
    [] v.k = "bool" -> tid = kBool
    [] v.k = "null" -> IsReference(tid)
    [] v.k = "obj" -> Belongs(w, v.class, tid)
    [] v.k = "void" -> tid = kVoid
    [] v.k = "type" -> tid = kType

Instantiable(type) == type.kind = "class" /\ ~type.abstract /\ type.name # "array"

Objects(w) ==
  {Object(Ref(t.name)) : t \in {u \in ToSet(w.types) : Instantiable(u)}}
  \cup {Object(ArrayOf(t)) : t \in Primitives \cup (DOMAIN w.supers \ {"array"})}

Everything(w) == Numbers \cup Objects(w) \cup {Null, Nothing, Truth, TypeItself}

\* A world w with what is known of it: [types, supers, values].
Facts ==
  [name \in DOMAIN Worlds |->
    LET w == [types |-> Worlds[name], supers |-> Supers(Worlds[name])]
        tids == {Ref(t) : t \in NotReferences \cup DOMAIN w.supers} \cup {ArrayOf(t) : t \in Primitives \cup DOMAIN w.supers}
    IN  [values |-> [tid \in tids |-> {v \in Everything(w) : IsOf(w, v, tid)}]] @@ w]

Values(w, tid) == w.values[tid]

-----------------------------------------------------------------------------
(***************************************************************************)
(* Members.  A class's first parent is the class it extends.               *)
(***************************************************************************)
RECURSIVE Chain(_, _)
Chain(w, t) ==
  LET type == Declaration(w, t)
  IN  <<type>> \o (IF type.parents = <<>> THEN <<>> ELSE Chain(w, type.parents[1]))

\* The first declaration up the chain from t that fits; << >> if there is none.
Nearest(w, t, MembersOf(_), Fits(_)) ==
  LET chain == Chain(w, t)
      at == {i \in DOMAIN chain : \E m \in ToSet(MembersOf(chain[i])) : Fits(m)}
      i == CHOOSE i \in at : \A j \in at : i <= j
  IN  IF at = {} THEN <<>>
      ELSE <<[owner |-> chain[i].name, info |-> CHOOSE m \in ToSet(MembersOf(chain[i])) : Fits(m)]>>

FieldFrom(w, t, name) == Nearest(w, t, LAMBDA d : d.fields, LAMBDA f : f.name = name)
MethodFrom(w, t, sig) ==
  Nearest(w, t, LAMBDA d : d.methods,
          LAMBDA m : ~m.isConstructor /\ m.name = sig.name /\ m.params = sig.params)

ClassOf(tid) == IF IsArray(tid) THEN "array" ELSE tid[1]

SamePackage(w, t, u) == Declaration(w, t).package = Declaration(w, u).package

\* Code of the caller may use m of an object of this class, or m of a class.
MayUseOf(w, caller, m, class) ==
  \/ ~m.info.protected \/ SamePackage(w, m.owner, caller)
  \/ Extends(w, caller, m.owner) /\ Extends(w, ClassOf(class), caller)
MayUseStatic(w, caller, m) ==
  ~m.info.protected \/ SamePackage(w, m.owner, caller) \/ Extends(w, caller, m.owner)
MayConstruct(w, caller, m) == ~m.info.protected \/ SamePackage(w, m.owner, caller)

-----------------------------------------------------------------------------
(***************************************************************************)
(* Expressions.  The code x is [w, caller, static].                        *)
(***************************************************************************)
RECURSIVE Outcomes(_, _)

\* The outcomes that are what the checker promised.
Eval(x, e) == {IF v # Wrong /\ IsOf(x.w, v, e.tid) THEN v ELSE Wrong : v \in Outcomes(x, e)}

\* For each value v of e that Expected holds of, what F makes of it.
Then(x, e, Expected(_), F(_)) ==
  UNION {IF v # Wrong /\ Expected(v) THEN F(v) ELSE {Wrong} : v \in Eval(x, e)}

IsNumber(v) == v.k = "num"
IsTruth(v) == v.k = "bool"
IsReferred(v) == v.k \in {"null", "obj"}
IsArrayOrNull(v) == v = Null \/ (v.k = "obj" /\ IsArray(v.class))
IsValue(v) == IsReferred(v) \/ IsNumber(v) \/ IsTruth(v)

OfType(w, vs, tid) == {IF v # Wrong /\ IsOf(w, v, tid) THEN v ELSE Wrong : v \in vs}
All(w, ok, tid) == IF ok THEN Values(w, tid) ELSE {Wrong}

\* A static field is read in the class that declares it.
StaticField(x, e) ==
  LET meant == FieldFrom(x.w, e.base.ref[1], e.name)
  IN  All(x.w, /\ meant = <<e.member>> /\ e.member.info.static
               /\ MayUseStatic(x.w, x.caller, e.member), e.member.info.tid)

\* The field meant is the one seen from the type of the base; the object has it if
\* its class is below.
FieldOf(x, e, v) ==
  IF v = Null THEN {}
  ELSE All(x.w, /\ FieldFrom(x.w, ClassOf(e.base.tid), e.name) = <<e.member>>
                /\ ~e.member.info.static
                /\ Extends(x.w, ClassOf(v.class), e.member.owner)
                /\ MayUseOf(x.w, x.caller, e.member, v.class), e.member.info.tid)

Element(x, e, v) ==
  IF v = Null THEN {} ELSE Then(x, e.index, IsNumber, LAMBDA i : Values(x.w, Ref(v.class[1])))

\* What is stored must fit; an array checks that at run time if it holds references.
Stored(x, e) ==
  CASE e.l.k = "local" -> OfType(x.w, Eval(x, e.r), e.l.tid)
    [] e.l.k = "field" ->
         IF e.l.member.owner = "array" \/ Wrong \in Eval(x, e.l) THEN {Wrong}
         ELSE OfType(x.w, Eval(x, e.r), e.l.member.info.tid)
    [] e.l.k = "index" ->
         Then(x, e.l.base, IsArrayOrNull, LAMBDA a :
           IF a = Null THEN {}
           ELSE Then(x, e.l.index, IsNumber, LAMBDA i :
                  IF IsPrimitive(Ref(a.class[1])) THEN OfType(x.w, Eval(x, e.r), Ref(a.class[1]))
                  ELSE Then(x, e.r, IsReferred, LAMBDA v :
                         {u \in {v} : IsOf(x.w, u, Ref(a.class[1]))})))
    [] e.l.k = "type" -> {Wrong}

\* Operands of == are of one sort.
Comparable(u, v) ==
  \/ IsNumber(u) /\ IsNumber(v)
  \/ IsTruth(u) /\ IsTruth(v)
  \/ IsReferred(u) /\ IsReferred(v)

Operands(x, e, Expected(_), result) ==
  Then(x, e.l, Expected, LAMBDA u : Then(x, e.r, Expected, LAMBDA v : result))

OutcomesOfBinary(x, e) ==
  CASE e.op = "ASSG" -> Stored(x, e)
    [] e.op \in {"AND", "OR", "BAND", "BOR", "XOR"} -> Operands(x, e, IsTruth, {Truth})
    [] e.op \in {"LT", "LE", "GT", "GE"} -> Operands(x, e, IsNumber, {Truth})
    [] e.op \in {"EQ", "NEQ"} ->
         Then(x, e.l, IsValue, LAMBDA u :
           Then(x, e.r, LAMBDA v : Comparable(u, v), LAMBDA v : {Truth}))
    [] e.op = "ADD" /\ Ref("String") \in {e.l.tid, e.r.tid} ->
         Operands(x, e, IsValue, {Object(Ref("String"))})
    [] OTHER -> Operands(x, e, IsNumber, Values(x.w, kInt))

Casted(w, v, tid) ==
  CASE v.k = "num" -> IF IsNumeric(tid) THEN Values(w, tid) ELSE {Wrong}
    [] v.k = "bool" -> IF tid = kBool THEN {v} ELSE {Wrong}
    [] v.k = "null" -> {v}
    [] v.k = "obj" -> IF IsOf(w, v, tid) THEN {v} ELSE {}

\* Some argument cannot be what its parameter holds.
BadArgs(x, e) ==
  \/ Len(e.args) # Len(e.member.info.params)
  \/ \E i \in DOMAIN e.args : Wrong \in OfType(x.w, Eval(x, e.args[i]), e.member.info.params[i])

Returned(w, m) == IF m.info.ret = kVoid THEN {Nothing} ELSE Values(w, m.info.ret)

StaticCall(x, e) ==
  IF /\ MethodFrom(x.w, e.base.ref[1], e.member.info) = <<e.member>>
     /\ e.member.info.static /\ MayUseStatic(x.w, x.caller, e.member)
  THEN Returned(x.w, e.member)
  ELSE {Wrong}

\* The object's own class has the code to run.
Dispatched(x, e, v) ==
  IF v = Null THEN {}
  ELSE LET run == MethodFrom(x.w, IF IsArray(v.class) THEN "Object" ELSE v.class[1], e.member.info)
       IN  IF /\ run # <<>>
              /\ ~run[1].info.static /\ ~run[1].info.abstract
              /\ MayUseOf(x.w, x.caller, e.member, v.class)
           THEN Returned(x.w, run[1])
           ELSE {Wrong}

Constructed(x, e) ==
  LET type == Declaration(x.w, e.tid[1])
  IN  IF /\ Instantiable(type)
         /\ e.member.info \in {m \in ToSet(type.methods) : m.isConstructor}
         /\ MayConstruct(x.w, x.caller, [e.member EXCEPT !.owner = type.name])
      THEN {Object(e.tid)} ELSE {Wrong}

Outcomes(x, e) ==
  CASE e.k = "lit" -> IF e.tid = Ref("String") THEN {Object(e.tid)} ELSE Values(x.w, e.tid)
    [] e.k = "local" -> Values(x.w, e.tid)
    [] e.k = "type" -> {TypeItself}
    [] e.k = "this" -> IF x.static THEN {Wrong} ELSE Values(x.w, Ref(x.caller)) \ {Null}
    [] e.k = "field" /\ e.base.k = "type" -> StaticField(x, e)
    [] e.k = "field" /\ e.base.k # "type" -> Then(x, e.base, IsReferred, LAMBDA v : FieldOf(x, e, v))
    [] e.k = "index" -> Then(x, e.base, IsArrayOrNull, LAMBDA v : Element(x, e, v))
    [] e.k = "binary" -> OutcomesOfBinary(x, e)
    [] e.k = "unary" /\ e.op = "SUB" -> Then(x, e.e, IsNumber, LAMBDA v : Values(x.w, kInt))
    [] e.k = "unary" /\ e.op = "NOT" -> Then(x, e.e, IsTruth, LAMBDA v : {v})
    [] e.k = "cast" -> Then(x, e.e, IsValue, LAMBDA v : Casted(x.w, v, e.tid))
    [] e.k = "instanceof" ->
         IF IsReference(e.type) THEN Then(x, e.e, IsReferred, LAMBDA v : {Truth}) ELSE {Wrong}
    [] e.k = "call" ->
         IF BadArgs(x, e) THEN {Wrong}
         ELSE IF e.base.k = "type" THEN StaticCall(x, e)
         ELSE Then(x, e.base, IsReferred, LAMBDA v : Dispatched(x, e, v))
    [] e.k = "new" -> IF BadArgs(x, e) THEN {Wrong} ELSE Constructed(x, e)
    [] e.k = "newarray" ->
         IF e.len = NoExpr THEN {Object(e.tid)}
         ELSE Then(x, e.len, IsNumber, LAMBDA v : {Object(e.tid)})

-----------------------------------------------------------------------------
(***************************************************************************)
(* Statements of a method that returns a value of type ret.                *)
(***************************************************************************)
\* The expressions a statement evaluates, with the type each value must be of.
Needs(s, ret) ==
  {d \in CASE s.k = "expr" -> {[e |-> s.e, tid |-> s.e.tid]}
           [] s.k = "decl" -> {[e |-> s.e, tid |-> s.type]}
           [] s.k = "return" -> {[e |-> s.e, tid |-> ret]}
           [] s.k \in {"if", "while"} -> {[e |-> s.cond, tid |-> kBool]}
           [] s.k = "for" -> {[e |-> s.cond, tid |-> kBool]}
                             \cup {[e |-> e, tid |-> e.tid] : e \in {s.update} \ {NoExpr}}
           [] OTHER -> {} : d.e # NoExpr}

Parts(s) ==
  CASE s.k = "block" -> ToSet(s.stmts)
    [] s.k = "if" -> {s.then, s.else}
    [] s.k = "while" -> {s.body}
    [] s.k = "for" -> {s.init, s.body}
    [] OTHER -> {}

RECURSIVE GoesWrong(_, _, _)
GoesWrong(x, s, ret) ==
  \/ s.k = "return" /\ (ret = kVoid) # (s.e = NoExpr)
  \/ \E d \in Needs(s, ret) : Wrong \in OfType(x.w, Eval(x, d.e), d.tid)
  \/ \E part \in Parts(s) : GoesWrong(x, part, ret)
=============================================================================
