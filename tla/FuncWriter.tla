----------------------------- MODULE FuncWriter -----------------------------
(***************************************************************************)
(* How FuncWriter (src/backend/i386/writer.cpp) turns a stream into code:   *)
(* it gives every Mem an offset from ebp, checks the widths of each        *)
(* operation's operands, and writes the operation's instructions with the  *)
(* registers of those widths.  Here the code is the list of the operations *)
(* with their operands' slots; what the instructions do is in Codegen.tla. *)
(***************************************************************************)
EXTENDS StreamBuilder

\* stack_map's entries.
StackEntry(size, offset) == [size |-> size, offset |-> offset]
NoEntry == StackEntry("BOOL", 0)

\* SetupParams: above the saved ebp, the return address and the stack frame.
SetupParams(params) ==
    [stack_map |-> [n \in {params[i].name : i \in DOMAIN params} |->
                       LET i == CHOOSE i \in DOMAIN params : params[i].name = n
                       IN  StackEntry(params[i].size, -12 - 4 * (i - 1))],
     stack |-> << >>, cur_offset |-> 0, code |-> << >>, ok |-> TRUE]

\* The CHECKs on the sizes of an operation's operands.
SizesOk(op, dst, srcs, arg) ==
    CASE op = "CONST" -> dst = arg.size
      [] op \in {"ALLOC_HEAP", "MOV_ADDR", "MOV_TO_ADDR", "FIELD_ADDR"} -> dst = "PTR"
      [] op = "ALLOC_ARRAY" -> dst = "PTR" /\ srcs = << "INT" >>
      [] op = "MOV" -> srcs = << dst >>
      [] op = "ARRAY_DEREF" -> srcs = << "PTR", "INT" >>
      [] op = "ARRAY_ADDR" -> dst = "PTR" /\ srcs = << "PTR", "INT" >>
      [] op \in {"ADD", "SUB", "MUL", "DIV", "MOD"} -> dst = "INT" /\ srcs = << "INT", "INT" >>
      [] op \in {"LT", "LEQ"} -> dst = "BOOL" /\ srcs = << "INT", "INT" >>
      [] op = "EQ" -> /\ dst = "BOOL" /\ srcs[1] = srcs[2]
                      /\ srcs[1] \in {"BOOL", "INT", "PTR"}
      [] op = "NOT" -> dst = "BOOL" /\ srcs = << "BOOL" >>
      [] op = "NEG" -> dst = "INT" /\ srcs = << "INT" >>
      [] op \in {"AND", "OR", "XOR"} -> dst = "BOOL" /\ srcs = << "BOOL", "BOOL" >>
      [] op = "INSTANCE_OF" -> dst = "BOOL"
      [] op \in {"JMP_IF", "CAST_EXCEPTION_IF_FALSE"} -> srcs = << "BOOL" >>
      [] op = "CHECK_ARRAY_STORE" -> srcs = << "PTR", "PTR" >>
      [] OTHER -> TRUE

Entry(w, mem) == IF IsValid(mem) THEN w.stack_map[mem.name] ELSE NoEntry
Instruction(w, c) ==
    [op |-> c.op, dst |-> Entry(w, c.dst),
     srcs |-> [i \in DOMAIN c.srcs |-> Entry(w, c.srcs[i])],
     wanted |-> IsValid(c.dst), arg |-> c.arg, used |-> w.cur_offset]
Emit(w, c) == [w EXCEPT !.code = Append(@, Instruction(w, c))]

AllocSlot(w, c) ==
    LET entry == StackEntry(c.dst.size, w.cur_offset)
        slot == [w EXCEPT !.stack_map = (c.dst.name :> entry) @@ @,
                          !.stack = Append(@, c.dst.name),
                          !.cur_offset = @ + 4,
                          !.ok = @ /\ c.dst.name \notin DOMAIN w.stack_map]
    IN  Emit(slot, c)

\* Only the last one allocated may go.
DeallocSlot(w, c) ==
    LET gone == [w EXCEPT !.stack_map = [n \in DOMAIN @ \ {c.dst.name} |-> @[n]],
                          !.stack = Front(@), !.cur_offset = @ - 4]
    IN  IF w.stack # << >> /\ Last(w.stack) = c.dst.name
        THEN Emit([gone EXCEPT !.ok = w.ok], [c EXCEPT !.dst = Dummy])
        ELSE [w EXCEPT !.ok = FALSE]

\* One operation, unless a CHECK already failed.
WriteOp(w, c) ==
    IF ~w.ok THEN w
    ELSE IF c.op = "ALLOC_MEM" THEN AllocSlot(w, c)
    ELSE IF c.op = "DEALLOC_MEM" THEN DeallocSlot(w, c)
    ELSE LET i == Instruction(w, c)
             sizes == [j \in DOMAIN i.srcs |-> i.srcs[j].size]
         IN  [Emit(w, c) EXCEPT !.ok = @ /\ SizesOk(c.op, i.dst.size, sizes, c.arg)]

WriteFunc(params, ops) == FoldLeft(WriteOp, SetupParams(params), ops)
=============================================================================
