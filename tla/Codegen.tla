------------------------------- MODULE Codegen -------------------------------
(***************************************************************************)
(* Compiling a method and running the code.                                *)
(*                                                                         *)
(* The compiler generates the method's IR (IrGen, StreamBuilder) and       *)
(* writes it out (FuncWriter); a failed CHECK aborts it.  Then the code    *)
(* runs, one IR operation's instructions at a time.  Registers do not      *)
(* survive an operation, so its state is the memory: the method's slots    *)
(* around ebp, the static fields and the heap.  A byte outside the domain  *)
(* of memory was never written; instructions may copy it, but nothing may  *)
(* compute with it, and the model stops where something would.  Calls of   *)
(* other methods leave the slots alone (CallStack.tla shows why) and are   *)
(* noted in out.                                                           *)
(***************************************************************************)
EXTENDS Joos, SequencesExt, FiniteSets

CONSTANTS
    Cases,      \* methods to compile, each with what it runs with
    Ebp,        \* where the method's frame is
    HeapEnd     \* bound: the end of the memory malloc may hand out

ASSUME MemoryAssumption == Ebp \in Nat /\ HeapEnd \in Nat /\ HeapEnd < Ebp

Ir == INSTANCE IrGen
Writer == INSTANCE FuncWriter
Meaning == INSTANCE JoosSemantics

VARIABLES
    method,  \* the method compiled
    input,   \* what it runs with: arguments, heap, static fields
    status,  \* compiling, running; returned, exception; aborted, fault
    code,    \* what FuncWriter wrote
    pc,
    memory,  \* address -> byte
    brk,     \* the end of the heap
    allocs,  \* the addresses of the objects, in the order of their allocation
    out,     \* the calls of other methods
    result   \* the value returned, or the exception

vars == <<method, input, status, code, pc, memory, brk, allocs, out, result>>

-----------------------------------------------------------------------------
(* Memory.                                                                 *)

Digit(v, i) == (v \div Modulus(i)) % Radix
Store(m, a, n, v) == [x \in a..(a + n - 1) |-> Digit(v, x - a)] @@ m
Without(m, a, n) == [x \in DOMAIN m \ (a..(a + n - 1)) |-> m[x]]
IsDefined(a, n) == a..(a + n - 1) \subseteq DOMAIN memory
Value4(m, a) == m[a] + Radix * m[a + 1] + Modulus(2) * m[a + 2] + Modulus(3) * m[a + 3]
LoadFrom(m, a, n) ==
    CASE n = 1 -> m[a] [] n = 2 -> m[a] + Radix * m[a + 1] [] OTHER -> Value4(m, a)
Load(a, n) == LoadFrom(memory, a, n)

\* mov: n bytes, written or not.
Copied(dst, src, n) ==
    LET known == {i \in 0..(n - 1) : src + i \in DOMAIN memory}
    IN  [x \in {dst + i : i \in known} |-> memory[src + (x - dst)]] @@ Without(memory, dst, n)

StackOffset(offset) == IF offset >= 0 THEN Ebp - (offset + 4) ELSE Ebp - offset
Slot(entry) == StackOffset(entry.offset)
Width(entry) == ByteSizeFrom(entry.size)
HasValue(entry) == IsDefined(Slot(entry), Width(entry))
Unsigned(entry) == Load(Slot(entry), Width(entry))
SignedInt(entry) == Signed(Unsigned(entry), 4)

\* What the words of a class's table, of an array's and of a type stand for.
Types == << "Object", "String", "A", "B", "Array", "bool", "byte", "short", "char", "int" >>
TypeWord(base) == CHOOSE i \in DOMAIN Types : Types[i] = base
ArrayVtable == Len(Types) + 1
ClassOf(vptr) == IF vptr = ArrayVtable THEN "Array" ELSE Types[vptr]
StaticAddress == [s |-> 4, t |-> 8]
HeapStart == 12

\* An object as malloc and the code that calls it leave it.
ObjectSize(o) ==
    IF o.array THEN ArrayOverhead + Cardinality(DOMAIN o.cells) * ByteSizeFrom(SizeClassFrom(o.type))
    ELSE SizeOf(o.type.base)
Header(a, o) ==
    IF o.array
    THEN [x \in a..(a + 11) |->
            IF x < a + 4 THEN Digit(ArrayVtable, x - a)
            ELSE IF x < a + 8 THEN Digit(Cardinality(DOMAIN o.cells), x - (a + 4))
            ELSE Digit(TypeWord(o.type.base), x - (a + 8))]
    ELSE [x \in a..(a + 3) |-> Digit(TypeWord(o.type.base), x - a)]
CellAddress(a, o, c) ==
    IF o.array THEN a + ArrayOverhead + c * ByteSizeFrom(SizeClassFrom(o.type))
    ELSE a + FieldOffset[c]
CellType(o, c) == IF o.array THEN o.type ELSE Fields[c]
Zeroed(a, o) == Header(a, o) @@ [x \in a..(a + ObjectSize(o) - 1) |-> 0]

\* References are addresses here and numbers of objects in JoosSemantics.
ToWord(t, v, addresses) ==
    IF IsReference(t) /\ v # 0 THEN addresses[v] ELSE v % Modulus(ByteSizeFrom(SizeClassFrom(t)))
FromWord(t, w) ==
    IF IsPrimitive(t) THEN Narrow(w, t)
    ELSE IF w = 0 THEN 0
    ELSE IF \E k \in DOMAIN allocs : allocs[k] = w
         THEN CHOOSE k \in DOMAIN allocs : allocs[k] = w
         ELSE -1

-----------------------------------------------------------------------------
(* Compilation.                                                            *)

\* The addresses of the input's objects, one after the other.
Addresses(heap) ==
    [k \in DOMAIN heap |->
        FoldLeft(LAMBDA a, o : a + ObjectSize(o), HeapStart, SubSeq(heap, 1, k - 1))]

\* The memory the method is entered with: its arguments, the static fields and
\* the objects it can reach.
Entered(m, in) ==
    LET at == Addresses(in.heap)
        object(k) ==
            FoldLeft(LAMBDA n, c : Store(n, CellAddress(at[k], in.heap[k], c),
                                         ByteSizeFrom(SizeClassFrom(CellType(in.heap[k], c))),
                                         ToWord(CellType(in.heap[k], c), in.heap[k].cells[c], at)),
                     Zeroed(at[k], in.heap[k]), SetToSeq(DOMAIN in.heap[k].cells))
        argument(i) ==
            LET t == m.params[i].tid
            IN  Store(<< >>, Ebp + 12 + 4 * (i - 1), ByteSizeFrom(SizeClassFrom(t)),
                      ToWord(t, in.args[m.params[i].vid], at))
        static(f) == Store(<< >>, StaticAddress[f], ByteSizeFrom(SizeClassFrom(Statics[f])),
                           in.statics[f])
        parts == [k \in DOMAIN in.heap |-> object(k)] \o
                 [i \in DOMAIN m.params |-> argument(i)] \o << static("s"), static("t") >>
    IN  FoldLeft(LAMBDA a, b : b @@ a, << >>, parts)

Init ==
    /\ \E case \in Cases : method = case.method /\ input = case.input
    /\ status = "compiling"
    /\ code = << >>
    /\ pc = 1
    /\ memory = Entered(method, input)
    /\ allocs = Addresses(input.heap)
    /\ brk = FoldLeft(LAMBDA a, o : a + ObjectSize(o), HeapStart, input.heap)
    /\ out = << >>
    /\ result = 0

\* CompilerBackend: generate a method's IR, then write its code.
Backend(m) ==
    LET stream == Ir!GenerateIR(m)
        writer == Writer!WriteFunc(Ir!Params(m), stream.ops)
    IN  [ok |-> stream.ok /\ writer.ok, code |-> writer.code]
Compiled == [m \in {case.method : case \in Cases} |-> Backend(m)]

Compile ==
    /\ status = "compiling"
    /\ status' = IF Compiled[method].ok THEN "running" ELSE "aborted"
    /\ code' = Compiled[method].code
    /\ UNCHANGED <<method, input, pc, memory, brk, allocs, out, result>>

-----------------------------------------------------------------------------
(* The instructions of one operation.                                      *)

cur == code[pc]
At(ops) == status = "running" /\ cur.op \in ops
Jumps(l) == CHOOSE n \in DOMAIN code : code[n].op = "LABEL" /\ code[n].arg = l

Going(next) ==
    /\ pc' = next
    /\ UNCHANGED <<method, input, status, code, brk, allocs, out, result>>
Continue == Going(pc + 1)
Ends(how, value) ==
    /\ status' = how
    /\ result' = value
    /\ UNCHANGED <<method, input, code, pc, memory, brk, allocs, out>>
Throw(exception) == Ends("exception", exception)

\* The operands an operation computes with, as against those it only moves; of
\* the value returned, the caller reads as much as the method's type has.
Computes ==
    CASE cur.op \in {"MOV", "MOV_ADDR"} -> << >>
      [] cur.op = "MOV_TO_ADDR" -> << cur.dst >>
      [] cur.op \in {"FIELD_DEREF", "FIELD_ADDR"} /\ cur.srcs[1] = Writer!NoEntry -> << >>
      [] cur.op = "RET" -> << [cur.srcs[1] EXCEPT !.size = SizeClassFrom(method.ret)] >>
      [] OTHER -> cur.srcs
Defined == \A n \in DOMAIN Computes : HasValue(Computes[n])
Runs(ops) == At(ops) /\ Defined

Src(n) == Unsigned(cur.srcs[n])
Num(n) == SignedInt(cur.srcs[n])
Writes(v) ==
    /\ memory' = Store(memory, Slot(cur.dst), Width(cur.dst), v)
    /\ Continue

\* A new temporary's slot holds nothing of its own; labels are places.
NoInstruction ==
    /\ Runs({"ALLOC_MEM", "DEALLOC_MEM", "LABEL"})
    /\ memory' = IF cur.op = "ALLOC_MEM" THEN Without(memory, Slot(cur.dst), 4) ELSE memory
    /\ Continue

Const == Runs({"CONST"}) /\ Writes(cur.arg.value)

Mov ==
    /\ Runs({"MOV"})
    /\ memory' = Copied(Slot(cur.dst), Slot(cur.srcs[1]), Width(cur.dst))
    /\ Continue

MovAddr == Runs({"MOV_ADDR"}) /\ Writes(Slot(cur.srcs[1]))

\* The source's width decides how much is written.
MovToAddr ==
    /\ Runs({"MOV_TO_ADDR"})
    /\ LET address == Unsigned(cur.dst)
       IN  IF address = 0 THEN Throw("NPE")
           ELSE /\ memory' = Copied(address, Slot(cur.srcs[1]), Width(cur.srcs[1]))
                /\ Continue

\* lea, or mov in the destination's width.
Access(address, addr) ==
    IF addr THEN Writes(address)
    ELSE /\ memory' = Copied(Slot(cur.dst), address, Width(cur.dst))
         /\ Continue

FieldAccess ==
    /\ Runs({"FIELD_DEREF", "FIELD_ADDR"})
    /\ LET addr == cur.op = "FIELD_ADDR"
       IN  IF cur.srcs[1] = Writer!NoEntry THEN Access(StaticAddress[cur.arg], addr)
           ELSE IF Src(1) = 0 THEN Throw("NPE")
           ELSE Access(Src(1) + FieldOffset[cur.arg], addr)

\* The address of an element of a null array is null, for MovToAddr to find.
ArrayAccess ==
    /\ Runs({"ARRAY_DEREF", "ARRAY_ADDR"})
    /\ LET array == Src(1)
           addr == cur.op = "ARRAY_ADDR"
       IN  IF array = 0 THEN IF addr THEN Writes(0) ELSE Throw("NPE")
           ELSE IF Num(2) < 0 \/ Num(2) >= Signed(Load(array + ArrayLengthOffset, 4), 4)
           THEN Throw("OOBE")
           ELSE Access(array + ArrayOverhead + ByteSizeFrom(cur.arg) * Num(2), addr)

Arithmetic ==
    /\ Runs({"ADD", "SUB", "MUL", "NEG"})
    /\ Writes(CASE cur.op = "ADD" -> Src(1) + Src(2)
                [] cur.op = "SUB" -> Src(1) - Src(2)
                [] cur.op = "MUL" -> Src(1) * Src(2)
                [] cur.op = "NEG" -> -Src(1))

\* idiv traps when the quotient does not fit.
DivMod ==
    /\ Runs({"DIV", "MOD"})
    /\ IF Num(2) = 0 THEN Throw("ARITHMETIC")
       ELSE IF Signed(Quotient(Num(1), Num(2)), 4) # Quotient(Num(1), Num(2)) THEN Ends("fault", 0)
       ELSE Writes(IF cur.op = "DIV" THEN Quotient(Num(1), Num(2)) ELSE Remainder(Num(1), Num(2)))


Relation ==
    /\ Runs({"LT", "LEQ", "EQ"})
    /\ Writes(Truth(CASE cur.op = "LT" -> Num(1) < Num(2)
                      [] cur.op = "LEQ" -> Num(1) <= Num(2)
                      [] cur.op = "EQ" -> Src(1) = Src(2)))

\* On the lowest bit, the only one a boolean uses.
BoolOp ==
    /\ Runs({"AND", "OR", "XOR", "NOT"})
    /\ Writes(CASE cur.op = "AND" -> Src(1) * Src(2)
                [] cur.op = "OR" -> Truth(Src(1) + Src(2) > 0)
                [] cur.op = "XOR" -> (Src(1) + Src(2)) % 2
                [] cur.op = "NOT" -> 1 - Src(1))

\* movsx, or movzx for a char.
ExtendSigned(entry) == Signed(Unsigned(entry), Width(entry))
Extend ==
    /\ Runs({"EXTEND"})
    /\ Writes(IF cur.srcs[1].size = "CHAR" THEN Src(1) ELSE ExtendSigned(cur.srcs[1]))

\* A wider destination gets what the register held above the source.
Truncate ==
    /\ Runs({"TRUNCATE"})
    /\ LET n == IF Width(cur.dst) < Width(cur.srcs[1]) THEN Width(cur.dst) ELSE Width(cur.srcs[1])
           low == Copied(Slot(cur.dst), Slot(cur.srcs[1]), n)
       IN  memory' = Without(low, Slot(cur.dst) + n, Width(cur.dst) - n)
    /\ Continue

Jmp ==
    /\ Runs({"JMP", "JMP_IF"})
    /\ Going(IF cur.op = "JMP" \/ Src(1) # 0 THEN Jumps(cur.arg) ELSE pc + 1)
    /\ UNCHANGED memory

\* _joos_malloc zeroes what it returns; the code adds the object's header.
Allocates(o) ==
    /\ brk + ObjectSize(o) <= HeapEnd
    /\ memory' = Store(Zeroed(brk, o) @@ memory, Slot(cur.dst), 4, brk)
    /\ brk' = brk + ObjectSize(o)
    /\ allocs' = Append(allocs, brk)
    /\ pc' = pc + 1
    /\ UNCHANGED <<method, input, status, code, out, result>>

AllocHeap == Runs({"ALLOC_HEAP"}) /\ Allocates(NewObject(cur.arg))

AllocArray ==
    /\ Runs({"ALLOC_ARRAY"})
    /\ IF Num(1) < 0 THEN Throw("NASE") ELSE Allocates(NewArrayObject(cur.arg, Num(1)))

\* TypeInfo.InstanceOf of the type behind a pointer; only a class has one.
IsTypeInfo(word) == word \in DOMAIN Types /\ Types[word] \in Classes
InstanceOfImpl(to, word) == IsSubclass(Types[word], to)
TypeInfoOf(address) == TypeWord(ClassOf(Load(address, 4)))
ElemType(address) == Load(address + ElemTypeOffset, 4)

\* The checks FuncWriter::InstanceOf writes for each pair of static types.
InstanceOf ==
    /\ Runs({"INSTANCE_OF"})
    /\ LET to == cur.arg.dst
           array == Load(Src(1), 4) = ArrayVtable
       IN  IF to.ndims = 0 /\ cur.arg.src.ndims > 0 THEN Writes(1)
           ELSE IF Src(1) = 0 THEN Ends("fault", 0)
           ELSE IF to.ndims = 0 THEN Writes(Truth(InstanceOfImpl(to.base, TypeInfoOf(Src(1)))))
           ELSE IF cur.arg.src.ndims = 0 /\ ~array THEN Writes(0)
           ELSE IF cur.arg.src.ndims = 0 /\ IsPrimitive(Type(to.base))
           THEN Writes(Truth(ElemType(Src(1)) = TypeWord(to.base)))
           ELSE IF ~IsTypeInfo(ElemType(Src(1))) THEN Ends("fault", 0)
           ELSE Writes(Truth(InstanceOfImpl(to.base, ElemType(Src(1)))))

CastExceptionIfFalse ==
    /\ Runs({"CAST_EXCEPTION_IF_FALSE"})
    /\ IF Src(1) = 0 THEN Throw("CCE") ELSE memory' = memory /\ Continue

CheckArrayStore ==
    /\ Runs({"CHECK_ARRAY_STORE"})
    /\ IF Src(1) = 0 \/ Src(2) = 0 THEN Ends("fault", 0)
       ELSE IF InstanceOfImpl(Types[ElemType(Src(1))], TypeInfoOf(Src(2)))
       THEN memory' = memory /\ Continue
       ELSE Throw("ASE")

\* A call: the callee's answer comes back in eax.  The types of the arguments
\* are the callee's, of the widths the caller passes.
Argument(n) ==
    LET size == cur.srcs[n].size
    IN  CASE size = "PTR" -> FromWord(Object, Src(n))
          [] size = "CHAR" -> Src(n)
          [] size = "BOOL" -> Src(n)
          [] OTHER -> ExtendSigned(cur.srcs[n])
Call ==
    /\ Runs({"STATIC_CALL", "DYNAMIC_CALL"})
    /\ LET args == [n \in DOMAIN cur.srcs |-> Argument(n)]
           value == Result(cur.arg, args, Meaning!TheString)
       IN  IF cur.op = "DYNAMIC_CALL" /\ Src(1) = 0 THEN Throw("NPE")
           ELSE /\ out' = Append(out, [mid |-> cur.arg, args |-> args])
                /\ memory' = IF cur.wanted
                             THEN Store(memory, Slot(cur.dst), Width(cur.dst),
                                        ToWord(ReturnType(cur.arg), value, allocs))
                             ELSE memory
                /\ pc' = pc + 1
                /\ UNCHANGED <<method, input, status, code, brk, allocs, result>>

\* The caller reads eax in the width of the method's type.
Ret ==
    /\ Runs({"RET"})
    /\ Ends("returned", FromWord(method.ret, Unsigned(Computes[1])))

Next ==
    \/ Compile
    \/ NoInstruction \/ Const \/ Mov \/ MovAddr \/ MovToAddr
    \/ FieldAccess \/ ArrayAccess
    \/ Arithmetic \/ DivMod \/ Relation \/ BoolOp \/ Extend \/ Truncate
    \/ Jmp
    \/ AllocHeap \/ AllocArray
    \/ InstanceOf \/ CastExceptionIfFalse \/ CheckArrayStore
    \/ Call \/ Ret

Spec == Init /\ [][Next]_vars /\ WF_vars(Next)

-----------------------------------------------------------------------------

Final == {"returned", "exception", "aborted", "fault"}

\* The compiler compiles every method the type checker accepts: neither the stream
\* builder's nor the writer's CHECKs fail.
CompilerAccepts == status # "aborted"

\* No program computes with a byte nobody wrote, whatever path it took to where
\* it reads it.  (StreamBuilder checks this along the text of the stream only, and
\* of whole Mems.)
ReadsDefined == status = "running" => Defined

\* What the compiled method did is what it means: it returned the same value or
\* threw the same exception, called the same methods with the same arguments in
\* the same order, and left the same objects behind.
SameHeap(heap) ==
    /\ DOMAIN heap = DOMAIN allocs
    /\ \A k \in DOMAIN heap :
          /\ \A x \in DOMAIN Header(allocs[k], heap[k]) :
                memory[x] = Header(allocs[k], heap[k])[x]
          /\ \A c \in DOMAIN heap[k].cells :
                LET t == CellType(heap[k], c)
                    a == CellAddress(allocs[k], heap[k], c)
                IN  heap[k].cells[c] = FromWord(t, Load(a, ByteSizeFrom(SizeClassFrom(t))))
SameStatics(statics) ==
    \A f \in DOMAIN Statics :
       statics[f] = FromWord(Statics[f], Load(StaticAddress[f],
                                              ByteSizeFrom(SizeClassFrom(Statics[f]))))
OutcomeAgrees ==
    /\ status # "fault"
    /\ status \in {"returned", "exception"} =>
          \E meant \in {Meaning!Run(method, input)} :
              /\ meant.end = IF status = "returned" THEN "return" ELSE result
              /\ status = "returned" => result = meant.val
              /\ out = meant.out
              /\ SameHeap(meant.heap)
              /\ SameStatics(meant.statics)

\* Compilation ends, and so does every run of a program whose loops do.
Terminates == <>(status \in Final)
=============================================================================
