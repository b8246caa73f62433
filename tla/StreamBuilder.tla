---------------------------- MODULE StreamBuilder ----------------------------
(***************************************************************************)
(* The streams of IR operations (src/ir/stream_builder.cpp).               *)
(*                                                                         *)
(* The IR generator calls the builder while it walks a method's syntax     *)
(* tree.  A call here is a record of the operation it asks for.  A         *)
(* temporary's Mem lives as long as the C++ variable that holds it, and    *)
(* its destructor deallocates it: Holding is a block of such variables,    *)
(* destroyed in the reverse order of their declarations.  Build plays the  *)
(* calls through the builder, whose CHECKs end the compiler.               *)
(***************************************************************************)
EXTENDS Joos, SequencesExt, FiniteSets

\* A Mem: a name in place of its id, which no other Mem of the method has.
Dummy == [name |-> << >>, size |-> "BOOL", immutable |-> TRUE]
Temp(name, size) == [name |-> name, size |-> size, immutable |-> TRUE]
Local(name, size) == [name |-> name, size |-> size, immutable |-> FALSE]
IsValid(mem) == mem # Dummy

Call(op, dst, srcs, arg) == [op |-> op, dst |-> dst, srcs |-> srcs, arg |-> arg]
Op(op, dst, srcs, arg) == << Call(op, dst, srcs, arg) >>
NoArg == "none"

AllocMem(mem) == Call("ALLOC_MEM", mem, << >>, NoArg)
DeallocMem(mem) == Call("DEALLOC_MEM", mem, << >>, NoArg)
AllocAll(mems) == [i \in DOMAIN mems |-> AllocMem(mems[i])]
DeallocAll(mems) == [i \in DOMAIN mems |-> DeallocMem(mems[Len(mems) + 1 - i])]
Holding(mems, calls) == AllocAll(mems) \o calls \o DeallocAll(mems)

\* Operations that are not simply Op(...) of their operands.
Const(mem, value) == Op("CONST", mem, << >>, [size |-> mem.size, value |-> value])
Mov(dst, src) == Op("MOV", dst, << src >>, NoArg)
Not(dst, src) == Op("NOT", dst, << src >>, NoArg)
Eq(dst, lhs, rhs) == Op("EQ", dst, << lhs, rhs >>, NoArg)
EmitLabel(l) == Op("LABEL", Dummy, << >>, l)
Jmp(l) == Op("JMP", Dummy, << >>, l)
JmpIf(l, cond) == Op("JMP_IF", Dummy, << cond >>, l)
StaticCall(dst, mid, args) == Op("STATIC_CALL", dst, args, mid)
DynamicCall(dst, this, mid, args) == Op("DYNAMIC_CALL", dst, << this >> \o args, mid)

\* Mutant: the operands keep their order.
GtKeepsOrder(dst, lhs, rhs) == Op("LT", dst, << lhs, rhs >>, NoArg)
Gt(dst, lhs, rhs) == Op("LT", dst, << rhs, lhs >>, NoArg)
Geq(dst, lhs, rhs) == Op("LEQ", dst, << rhs, lhs >>, NoArg)
Neq(dst, lhs, rhs, name) ==
    LET tmp == Temp(name, "BOOL")
    IN  Holding(<< tmp >>, Eq(tmp, lhs, rhs) \o Not(dst, tmp))

\* BinExpr's operator.
BinOp(op, dst, lhs, rhs, name) ==
    CASE op = "GT" -> Gt(dst, lhs, rhs)
      [] op = "GE" -> Geq(dst, lhs, rhs)
      [] op = "NEQ" -> Neq(dst, lhs, rhs, name)
      [] op = "LE" -> Op("LEQ", dst, << lhs, rhs >>, NoArg)
      [] op = "BAND" -> Op("AND", dst, << lhs, rhs >>, NoArg)
      [] op = "BOR" -> Op("OR", dst, << lhs, rhs >>, NoArg)
      [] OTHER -> Op(op, dst, << lhs, rhs >>, NoArg)

-----------------------------------------------------------------------------

\* The operations that SetAssigned their destination.  MOV_TO_ADDR's is only
\* the address.
NoResult == {"MOV_TO_ADDR", "LABEL", "JMP", "JMP_IF", "RET", "CHECK_ARRAY_STORE",
             "CAST_EXCEPTION_IF_FALSE"}
Calls == {"STATIC_CALL", "DYNAMIC_CALL"}

\* The builder: the Mems that exist, those not written yet, and the stream; ok
\* is lost with the first CHECK that fails.
Built(params) ==
    [live |-> {params[i].name : i \in DOMAIN params}, unassigned |-> {},
     ops |-> << >>, ok |-> TRUE]

AssertAssigned(b, mems) ==
    \A i \in DOMAIN mems : mems[i].name \in b.live \ b.unassigned

SetAssigned(b, mem) ==
    /\ mem.name \in b.live
    /\ mem.immutable => mem.name \in b.unassigned

\* The Mem of a missing `this' of a static field is the dummy one.
Sources(c) == IF c.op \in {"FIELD_DEREF", "FIELD_ADDR"} /\ ~IsValid(c.srcs[1])
              THEN << >> ELSE c.srcs
Writes(c) ==
    c.op \notin NoResult /\ (c.op \in Calls => IsValid(c.dst))

AppendOp(b, c) == [b EXCEPT !.ops = Append(@, c)]

Play(b, c) ==
    CASE c.op = "ALLOC_MEM" ->
            [AppendOp(b, c) EXCEPT !.live = @ \union {c.dst.name},
                                   !.unassigned = @ \union {c.dst.name}]
      [] c.op = "DEALLOC_MEM" ->
            [AppendOp(b, c) EXCEPT !.live = @ \ {c.dst.name},
                                   !.ok = @ /\ c.dst.name \notin b.unassigned]
      [] OTHER ->
            [AppendOp(b, c) EXCEPT
                !.unassigned = IF Writes(c) THEN @ \ {c.dst.name} ELSE @,
                !.ok = @ /\ AssertAssigned(b, Sources(c))
                         /\ (Writes(c) => SetAssigned(b, c.dst))
                         /\ (c.op = "MOV_TO_ADDR" => c.dst.name \in b.live)]

Build(params, calls) == FoldLeft(Play, Built(params), calls)
=============================================================================
