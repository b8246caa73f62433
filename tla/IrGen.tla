-------------------------------- MODULE IrGen --------------------------------
(***************************************************************************)
(* The IR generator: MethodIRGenerator of src/ir/ir_generator.cpp.         *)
(*                                                                         *)
(* Visit(e, p, c) is the sequence of calls of the stream builder for node e *)
(* of the method's syntax tree; p is the node's place in the tree, which   *)
(* makes the names of its Mems and labels unique.  The context c is what   *)
(* WithResultIn sets: where the result goes, whether it is the address of  *)
(* the variable that is wanted (lvalue), and where an array expression     *)
(* also leaves its array for the store check.  The Mems of a C++ block are *)
(* allocated where the block begins.                                       *)
(***************************************************************************)
EXTENDS StreamBuilder

Into(res) == [res |-> res, array |-> Dummy, lvalue |-> FALSE]
AddressInto(res, array) == [res |-> res, array |-> array, lvalue |-> TRUE]

Variable(vid, t) == Local(<< <<vid>>, "var" >>, SizeClassFrom(t))
kVarImplicitThis == 1

RECURSIVE Visit(_, _, _), VisitStmt(_, _)

\* The i-th part of the node at p.
Part(e, p, i, c) == Visit(e, p \o <<i>>, c)
Value(e, p, i, mem) == Part(e, p, i, Into(mem))
Stmt(s, p, i) == VisitStmt(s, p \o <<i>>)

\* Casts and instanceof go past the check of a null reference.
SkipNull(p, mem, l) ==
    LET null_mem == Temp(<<p, "null_mem">>, "PTR")
        is_null == Temp(<<p, "is_null">>, "BOOL")
    IN  Holding(<< null_mem, is_null >>,
          Const(null_mem, 0) \o Eq(is_null, null_mem, mem) \o JmpIf(l, is_null))

InstanceOf(dst, src, to, from) ==
    Op("INSTANCE_OF", dst, << src >>, [dst |-> to, src |-> from])

CheckedCast(e, p, c, expr_mem) ==
    LET instanceof == Temp(<<p, "instanceof">>, "BOOL")
        l == <<p, "short_circuit">>
    IN  SkipNull(p, expr_mem, l) \o
        Holding(<< instanceof >>,
          InstanceOf(instanceof, expr_mem, e.tid, e.e.tid) \o
          Op("CAST_EXCEPTION_IF_FALSE", Dummy, << instanceof >>, NoArg)) \o
        EmitLabel(l) \o Mov(c.res, expr_mem)

CastExpr(e, p, c) ==
    LET expr_mem == Temp(<<p, "expr_mem">>, SizeClassFrom(e.e.tid))
        convert == IF IsPrimitiveWidening(e.tid, e.e.tid) THEN "EXTEND" ELSE "TRUNCATE"
    IN  IF e.tid = e.e.tid THEN Part(e.e, p, 1, c)
        ELSE Holding(<< expr_mem >>,
               Value(e.e, p, 1, expr_mem) \o
               IF IsReference(e.e.tid) \/ IsReference(e.tid)
               THEN CheckedCast(e, p, c, expr_mem)
               ELSE Op(convert, c.res, << expr_mem >>, NoArg))

UnaryExpr(e, p, c) ==
    LET rhs == Temp(<<p, "rhs">>, IF e.op = "SUB" THEN "INT" ELSE "BOOL")
    IN  Holding(<< rhs >>,
          Value(e.e, p, 1, rhs) \o
          Op(IF e.op = "SUB" THEN "NEG" ELSE "NOT", c.res, << rhs >>, NoArg))

\* && and ||: the left operand's Mem becomes the answer.
ShortCircuit(e, p, c) ==
    LET lhs == Local(<<p, "lhs">>, SizeClassFrom(e.l.tid))
        rhs == Temp(<<p, "rhs">>, SizeClassFrom(e.r.tid))
        not_lhs == Local(<<p, "not_lhs">>, "BOOL")
        l == <<p, "short_circuit">>
    IN  Holding(<< lhs, rhs >>,
          Value(e.l, p, 1, lhs) \o
          (IF e.op = "AND"
           THEN Holding(<< not_lhs >>, Not(not_lhs, lhs) \o JmpIf(l, not_lhs))
           ELSE JmpIf(l, lhs)) \o
          Value(e.r, p, 2, rhs) \o Mov(lhs, rhs) \o
          EmitLabel(l) \o Mov(c.res, lhs))

\* The Mem an array element's array is kept in for the store check.
ArrayRvalue(e, p) ==
    IF e.l.k = "index" /\ ~IsPrimitive(e.tid)
    THEN << Temp(<<p, "lhs_rvalue">>, "PTR") >> ELSE << >>

Assignment(e, p, c) ==
    LET lhs == Temp(<<p, "lhs">>, "PTR")
        rhs == Temp(<<p, "rhs">>, SizeClassFrom(e.r.tid))
        array == ArrayRvalue(e, p)
    IN  Holding(<< lhs, rhs >> \o array,
          Part(e.l, p, 1,
               AddressInto(lhs, IF array = << >> THEN Dummy ELSE array[1])) \o
          Value(e.r, p, 2, rhs) \o
          (IF array = << >> THEN << >>
           ELSE Op("CHECK_ARRAY_STORE", Dummy, << array[1], rhs >>, NoArg)) \o
          Op("MOV_TO_ADDR", lhs, << rhs >>, NoArg) \o
          IF IsValid(c.res) THEN Mov(c.res, rhs) ELSE << >>)

StringOf(dst, src) ==
    StaticCall(dst, IF src.size = "PTR" THEN "StringOps.str" ELSE "String.valueOf", << src >>)

StringAddition(p, c, lhs, rhs) ==
    LET lhs_str == Temp(<<p, "lhs_str">>, "PTR")
        rhs_str == Temp(<<p, "rhs_str">>, "PTR")
    IN  Holding(<< lhs_str, rhs_str >>,
          StringOf(lhs_str, lhs) \o StringOf(rhs_str, rhs) \o
          DynamicCall(c.res, lhs_str, "String.concat", << rhs_str >>))

\* PromoteToInt: a narrow operand is extended into a Mem of its own.
IsNarrow(mem) == mem.size \notin {"PTR", "BOOL", "INT"}

Arithmetic(e, p, c, lhs, rhs) ==
    LET lhs_int == IF IsNarrow(lhs) THEN Temp(<<p, "lhs_int">>, "INT") ELSE lhs
        rhs_int == IF IsNarrow(rhs) THEN Temp(<<p, "rhs_int">>, "INT") ELSE rhs
        extends == (IF IsNarrow(lhs) THEN << << lhs_int, lhs >> >> ELSE << >>) \o
                   (IF IsNarrow(rhs) THEN << << rhs_int, rhs >> >> ELSE << >>)
    IN  Holding([i \in DOMAIN extends |-> extends[i][1]],
          FlattenSeq([i \in DOMAIN extends |->
                        Op("EXTEND", extends[i][1], << extends[i][2] >>, NoArg)]) \o
          BinOp(e.op, c.res, lhs_int, rhs_int, <<p, "tmp">>))

BinExpr(e, p, c) ==
    LET lhs == Temp(<<p, "lhs">>, SizeClassFrom(e.l.tid))
        rhs == Temp(<<p, "rhs">>, SizeClassFrom(e.r.tid))
    IN  IF e.op \in {"AND", "OR"} THEN ShortCircuit(e, p, c)
        ELSE IF e.op = "ASSG" THEN Assignment(e, p, c)
        ELSE Holding(<< lhs, rhs >> \o ArrayRvalue(e, p),
               Value(e.l, p, 1, lhs) \o Value(e.r, p, 2, rhs) \o
               IF e.tid = String THEN StringAddition(p, c, lhs, rhs)
               ELSE Arithmetic(e, p, c, lhs, rhs))

-----------------------------------------------------------------------------

FieldDerefExpr(e, p, c) ==
    LET op == IF c.lvalue THEN "FIELD_ADDR" ELSE "FIELD_DEREF"
        tmp == Temp(<<p, "tmp">>, "PTR")
    IN  IF e.k = "static" THEN Op(op, c.res, << Dummy >>, e.fid)
        ELSE Holding(<< tmp >>,
               Value(e.base, p, 1, tmp) \o Op(op, c.res, << tmp >>, e.fid))

ArrayIndexExpr(e, p, c) ==
    LET array == Temp(<<p, "array">>, "PTR")
        index == Temp(<<p, "index">>, "INT")
        elemsize == SizeClassFrom(e.tid)
    IN  Holding(<< array, index >>,
          Value(e.array, p, 1, array) \o Value(e.index, p, 2, index) \o
          (IF c.lvalue /\ IsValid(c.array) THEN Mov(c.array, array) ELSE << >>) \o
          Op(IF c.lvalue THEN "ARRAY_ADDR" ELSE "ARRAY_DEREF",
             c.res, << array, index >>, elemsize))

NameExpr(e, c) ==
    LET local == Variable(e.vid, e.tid)
    IN  Op(IF c.lvalue THEN "MOV_ADDR" ELSE "MOV", c.res, << local >>, NoArg)

ArgMem(args, p, i) == Temp(<<p \o <<i>>, "arg">>, SizeClassFrom(args[i].tid))
ArgMems(args, p) == [i \in DOMAIN args |-> ArgMem(args, p, i)]
VisitArgs(args, p) ==
    FlattenSeq([i \in DOMAIN args |-> Value(args[i], p, i, ArgMem(args, p, i))])

CallExpr_(e, p, c) ==
    LET this_ptr == Temp(<<p, "this_ptr">>, "PTR")
        args == ArgMems(e.args, p)
    IN  IF e.base.k = "static_ref"
        THEN Holding(args, VisitArgs(e.args, p) \o StaticCall(c.res, e.mid, args))
        ELSE Holding(<< this_ptr >> \o args,
               Value(e.base, p, 0, this_ptr) \o VisitArgs(e.args, p) \o
               DynamicCall(c.res, this_ptr, e.mid, args))

NewArrayExpr(e, p, c) ==
    LET size == Temp(<<p, "size">>, "INT")
        array_mem == Temp(<<p, "array_mem">>, "PTR")
    IN  Holding(<< size, array_mem >>,
          Value(e.e, p, 1, size) \o
          Op("ALLOC_ARRAY", array_mem, << size >>, e.elem) \o Mov(c.res, array_mem))

NewClassExpr(e, p, c) ==
    LET this_mem == Temp(<<p, "this_mem">>, "PTR")
        args == ArgMems(e.args, p)
    IN  Holding(<< this_mem >> \o args,
          Op("ALLOC_HEAP", this_mem, << >>, e.tid.base) \o VisitArgs(e.args, p) \o
          StaticCall(Dummy, e.mid, << this_mem >> \o args) \o
          IF IsValid(c.res) THEN Mov(c.res, this_mem) ELSE << >>)

\* Mutant: the answer for null is left unwritten.
InstanceOfUnset(e, p, c) ==
    LET lhs == Temp(<<p, "lhs">>, "PTR")
        tmp == Local(<<p, "tmp">>, "BOOL")
        l == <<p, "short_circuit">>
    IN  Holding(<< lhs, tmp >>,
          Value(e.e, p, 1, lhs) \o
          SkipNull(p, lhs, l) \o InstanceOf(tmp, lhs, e.type, e.e.tid) \o
          EmitLabel(l) \o Mov(c.res, tmp))

InstanceOfExpr_(e, p, c) ==
    LET lhs == Temp(<<p, "lhs">>, "PTR")
        tmp == Local(<<p, "tmp">>, "BOOL")
        l == <<p, "short_circuit">>
    IN  Holding(<< lhs, tmp >>,
          Value(e.e, p, 1, lhs) \o Const(tmp, 0) \o
          SkipNull(p, lhs, l) \o InstanceOf(tmp, lhs, e.type, e.e.tid) \o
          EmitLabel(l) \o Mov(c.res, tmp))

Visit(e, p, c) ==
    CASE e.k = "lit" -> Const(c.res, e.value)
      [] e.k = "name" -> NameExpr(e, c)
      [] e.k = "this" -> Mov(c.res, Variable(kVarImplicitThis, e.tid))
      [] e.k \in {"field", "static"} -> FieldDerefExpr(e, p, c)
      [] e.k = "index" -> ArrayIndexExpr(e, p, c)
      [] e.k = "unary" -> UnaryExpr(e, p, c)
      [] e.k = "binary" -> BinExpr(e, p, c)
      [] e.k = "cast" -> CastExpr(e, p, c)
      [] e.k = "instanceof" -> InstanceOfExpr_(e, p, c)
      [] e.k = "call" -> CallExpr_(e, p, c)
      [] e.k = "new_array" -> NewArrayExpr(e, p, c)
      [] e.k = "new_class" -> NewClassExpr(e, p, c)

-----------------------------------------------------------------------------

\* The Mems of the variables a block declares die with the map's entries, last
\* one first.
Locals(stmts) ==
    FlattenSeq([i \in DOMAIN stmts |->
        IF stmts[i].k = "local" THEN << Variable(stmts[i].vid, stmts[i].t) >> ELSE << >>])

\* Mutant: they die in the order of their declarations.
BlockErasesInOrder(s, p) ==
    FlattenSeq([i \in DOMAIN s.stmts |-> Stmt(s.stmts[i], p, i)]) \o
    [i \in DOMAIN Locals(s.stmts) |-> DeallocMem(Locals(s.stmts)[i])]

BlockStmt(s, p) ==
    FlattenSeq([i \in DOMAIN s.stmts |-> Stmt(s.stmts[i], p, i)]) \o
    DeallocAll(Locals(s.stmts))

LocalDeclStmt(s, p) ==
    LET local == Variable(s.vid, s.t)
    IN  << AllocMem(local) >> \o Value(s.e, p, 1, local)

\* The condition of an if, a while or a for, and the jump when it is false.
Unless(cond, p, l, rest) ==
    LET cond_mem == Temp(<<p, "cond">>, "BOOL")
        not_cond == Temp(<<p, "not_cond">>, "BOOL")
    IN  Holding(<< cond_mem, not_cond >>,
          Value(cond, p, 1, cond_mem) \o Not(not_cond, cond_mem) \o
          JmpIf(l, not_cond) \o rest)

IfStmt(s, p) ==
    LET begin_false == <<p, "begin_false">>
        after_if == <<p, "after_if">>
    IN  Unless(s.cond, p, begin_false,
          Stmt(s.then, p, 2) \o Jmp(after_if) \o
          EmitLabel(begin_false) \o Stmt(s.else, p, 3) \o
          EmitLabel(after_if))

WhileStmt(s, p) ==
    LET loop_begin == <<p, "loop_begin">>
        loop_end == <<p, "loop_end">>
    IN  EmitLabel(loop_begin) \o
        Unless(s.cond, p, loop_end,
          Stmt(s.body, p, 2) \o Jmp(loop_begin) \o EmitLabel(loop_end))

\* A for statement without a condition or an update has Always, or Empty.
Always == Lit(kBool, 1)

\* Mutant: the update is left out.
ForWithoutUpdate(s, p) ==
    LET loop_begin == <<p, "loop_begin">>
        loop_end == <<p, "loop_end">>
    IN  Stmt(s.init, p, 0) \o EmitLabel(loop_begin) \o
        (IF s.cond = Always THEN << >> ELSE Unless(s.cond, p, loop_end, << >>)) \o
        Stmt(s.body, p, 2) \o
        Jmp(loop_begin) \o EmitLabel(loop_end) \o DeallocAll(Locals(<< s.init >>))

ForStmt(s, p) ==
    LET loop_begin == <<p, "loop_begin">>
        loop_end == <<p, "loop_end">>
    IN  Stmt(s.init, p, 0) \o EmitLabel(loop_begin) \o
        (IF s.cond = Always THEN << >> ELSE Unless(s.cond, p, loop_end, << >>)) \o
        Stmt(s.body, p, 2) \o Stmt(s.update, p, 3) \o
        Jmp(loop_begin) \o EmitLabel(loop_end) \o DeallocAll(Locals(<< s.init >>))

ReturnStmt(s, p) ==
    LET ret == Temp(<<p, "ret">>, SizeClassFrom(s.e.tid))
    IN  Holding(<< ret >>,
          Value(s.e, p, 1, ret) \o Op("RET", Dummy, << ret >>, NoArg))

VisitStmt(s, p) ==
    CASE s.k = "block" -> BlockStmt(s, p)
      [] s.k = "expr" -> Value(s.e, p, 1, Dummy)
      [] s.k = "local" -> LocalDeclStmt(s, p)
      [] s.k = "if" -> IfStmt(s, p)
      [] s.k = "while" -> WhileStmt(s, p)
      [] s.k = "for" -> ForStmt(s, p)
      [] s.k = "return" -> ReturnStmt(s, p)

\* MethodDecl: the parameters' Mems are there from the start and never given up.
Params(m) == [i \in DOMAIN m.params |-> Variable(m.params[i].vid, m.params[i].tid)]
GenerateIR(m) == Build(Params(m), Stmt(m.body, << >>, 2))
=============================================================================
