------------------------------ MODULE CallStack ------------------------------
(***************************************************************************)
(* The run-time stack of the code src/backend/i386/writer.cpp generates.   *)
(*                                                                         *)
(* FuncWriter gives every temporary of a method a word below ebp, at the   *)
(* offset cur_offset has when the temporary is allocated, but never moves  *)
(* esp for it: between two operations esp equals ebp and the temporaries   *)
(* lie in the free part of the stack.  Only a call lowers esp, by what is  *)
(* used at that point, for as long as the call lasts.  The arguments are   *)
(* written below the temporaries first, where the callee will look for     *)
(* its parameters; then come the stack frame descriptor of the call site,  *)
(* the return address, and the callee's copy of ebp, which links the       *)
(* frames for the unwinder in _joos_throw.                                 *)
(*                                                                         *)
(* Addresses count 4-byte words, the size of every slot.  A word that code *)
(* outside this module may write, or that is dead, counts as overwritten   *)
(* with Junk, so that no operation can rely on it.                         *)
(***************************************************************************)
EXTENDS Integers, Sequences

CONSTANTS
    Values,      \* the words programs compute with
    Sites,       \* stack frame descriptors (stackframe_<n>)
    NoSite,      \* the null pushed where a descriptor would ordinarily go
    Junk,        \* what code outside this module leaves in memory
    MaxFrames,   \* bound: active calls
    MaxLocals,   \* bound: temporaries of an activation
    MaxParams,   \* bound: parameters of a method, `this' included
    StackTop     \* bound: words of stack

\* Bound: what _joos_throw needs below the running method's ebp.
Reserve == 3

ASSUME StackAssumption ==
    /\ Values \subseteq Int /\ Sites \subseteq Int /\ NoSite \in Int /\ Junk \in Int
    /\ NoSite \notin Sites
    /\ MaxFrames \in Nat \ {0} /\ MaxLocals \in Nat /\ MaxParams \in Nat
    /\ StackTop \in Nat /\ StackTop >= Reserve + 3

VARIABLES
    memory,  \* address -> word
    esp,
    ebp,
    code,    \* what FuncWriter knows of each active method where it stands
    status,  \* running, unwinding, exited, finished
    eax,     \* the unwinder's cursor, then the program's result
    thrown,  \* the descriptor of the throwing operation
    printed  \* the descriptors printed for an exception

vars == <<memory, esp, ebp, code, status, eax, thrown, printed>>

\* The offset kInvalidMemId stands for: no result wanted.
NoDst == -1

-----------------------------------------------------------------------------

\* Mutant: the word at [ebp-0] taken for a free one.
StackOffsetFromEbp(base, offset) == base - offset

\* StackOffset: temporaries at [ebp-(offset+4)], parameters at [ebp+(-offset)].
StackOffset(base, offset) == IF offset >= 0 THEN base - (offset + 1) ELSE base - offset

\* SetupParams: the saved ebp, the return address and the stack frame
\* descriptor come first.
ParamOffset(i) == -2 - i

\* A method where it is suspended or running: its frame pointer, its
\* parameters, its live temporaries, which of its slots have been assigned and
\* which hold the address of another one, and its call in progress.
Method(base, nparams, site) ==
    [base |-> base, nparams |-> nparams, cur_offset |-> 0,
     assigned |-> {ParamOffset(i) : i \in 1..nparams},
     points |-> [o \in 0..(MaxLocals - 1) |-> NoDst],
     site |-> site, dst |-> NoDst, stack_used |-> 0]

Top == code[Len(code)]
Slots(f) == {ParamOffset(i) : i \in 1..f.nparams} \union 0..(f.cur_offset - 1)
Locals == 0..(Top.cur_offset - 1)
Pointers(f) == {o \in 0..(MaxLocals - 1) : f.points[o] # NoDst}
\* The operands of plain values that AssertAssigned accepts.
Readable == Top.assigned \ Pointers(Top)
Addr(offset) == StackOffset(ebp, offset)
Load(offset) == memory[Addr(offset)]
Running == status = "running"

\* The words below address a are dead, or used by code outside this module.
Scratched(m, a) == [w \in DOMAIN m |-> IF w < a THEN Junk ELSE m[w]]

\* Operation dst := word, after which dst holds no address.
Assigns(f, dst) ==
    [f EXCEPT !.assigned = @ \union {dst}, !.points[dst] = NoDst]
SetTop(f) == code' = [code EXCEPT ![Len(code)] = f]

-----------------------------------------------------------------------------

\* WriteMain's _start pushes the null descriptor and calls _entry, whose
\* prologue has run.
Init ==
    /\ ebp = StackTop - 3
    /\ esp = StackTop - 3
    /\ memory = [w \in 0..(StackTop - 1) |->
                   IF w = StackTop - 1 THEN NoSite
                   ELSE IF w = StackTop - 3 THEN StackTop - 1
                   ELSE Junk]
    /\ code = << Method(StackTop - 3, 0, NoSite) >>
    /\ status = "running"
    /\ eax = Junk
    /\ thrown = NoSite
    /\ printed = << >>

AllocMem ==
    /\ Running /\ Top.cur_offset < MaxLocals
    /\ Addr(Top.cur_offset) >= Reserve
    /\ SetTop([Top EXCEPT !.cur_offset = @ + 1])
    /\ UNCHANGED <<memory, esp, ebp, status, eax, thrown, printed>>

\* Mutant: the slot is given up but still thought to hold a value.
DeallocKeepsAssigned ==
    /\ Running /\ Top.cur_offset - 1 \in Top.assigned
    /\ SetTop([Top EXCEPT !.cur_offset = @ - 1,
                          !.points[Top.cur_offset - 1] = NoDst])
    /\ memory' = [memory EXCEPT ![Addr(Top.cur_offset - 1)] = Junk]
    /\ UNCHANGED <<esp, ebp, status, eax, thrown, printed>>

\* Only a temporary that was assigned is deallocated (StreamBuilder checks it).
DeallocMem ==
    /\ Running /\ Top.cur_offset - 1 \in Top.assigned
    /\ SetTop([Top EXCEPT !.cur_offset = @ - 1,
                          !.assigned = @ \ {Top.cur_offset - 1},
                          !.points[Top.cur_offset - 1] = NoDst])
    /\ memory' = [memory EXCEPT ![Addr(Top.cur_offset - 1)] = Junk]
    /\ UNCHANGED <<esp, ebp, status, eax, thrown, printed>>

Const(dst, value) ==
    /\ Running /\ dst \in Locals
    /\ memory' = [memory EXCEPT ![Addr(dst)] = value]
    /\ SetTop(Assigns(Top, dst))
    /\ UNCHANGED <<esp, ebp, status, eax, thrown, printed>>

Mov(dst, src) ==
    /\ Running /\ dst \in Locals /\ src \in Readable
    /\ memory' = [memory EXCEPT ![Addr(dst)] = Load(src)]
    /\ SetTop(Assigns(Top, dst))
    /\ UNCHANGED <<esp, ebp, status, eax, thrown, printed>>

\* lea: the left side of an assignment to a variable.  The variable is older
\* than the temporary for its address, and that one is written once.
MovAddr(dst, src) ==
    /\ Running /\ dst \in Locals \ Top.assigned /\ src \in Readable /\ src < dst
    /\ memory' = [memory EXCEPT ![Addr(dst)] = Addr(src)]
    /\ SetTop([Top EXCEPT !.assigned = @ \union {dst}, !.points[dst] = src])
    /\ UNCHANGED <<esp, ebp, status, eax, thrown, printed>>

MovToAddr(dst, src) ==
    /\ Running /\ dst \in Pointers(Top) /\ src \in Readable
    /\ memory' = [memory EXCEPT ![Load(dst)] = Load(src)]
    /\ UNCHANGED <<esp, ebp, code, status, eax, thrown, printed>>

-----------------------------------------------------------------------------

\* Mutant: esp is not lowered past the temporaries.
ExternalCallAtEsp(dst, value) ==
    /\ Running /\ dst \in Locals
    /\ memory' = [Scratched(memory, esp) EXCEPT ![Addr(dst)] = value]
    /\ SetTop(Assigns(Top, dst))
    /\ UNCHANGED <<esp, ebp, status, eax, thrown, printed>>

\* AllocHeap, AllocArray and native calls: lower esp past the temporaries, call
\* out, raise it again.  The callee uses the stack below.
ExternalCall(dst, value) ==
    /\ Running /\ dst \in Locals
    /\ LET lowered == esp - Top.cur_offset IN
       /\ memory' = [Scratched(memory, lowered) EXCEPT ![Addr(dst)] = value]
       /\ esp' = lowered + Top.cur_offset
    /\ SetTop(Assigns(Top, dst))
    /\ UNCHANGED <<ebp, status, eax, thrown, printed>>

\* Mutant: the arguments are copied first to last.
ArgAddressInOrder(n, i) == Addr(Top.cur_offset + (i - 1))

\* Where argument i of n goes: they are copied in reverse order, each one word
\* below the one before.
ArgAddress(n, i) == Addr(Top.cur_offset + (n - i))

\* Copy the arguments, lower esp, push the descriptor; call; push ebp.  The
\* return address is not interpreted.
CallFrame(args, site) ==
    LET n == Len(args)
        top == esp - (Top.cur_offset + n)
        withArgs == [w \in DOMAIN memory |->
                       IF \E i \in 1..n : w = ArgAddress(n, i)
                       THEN Load(args[CHOOSE i \in 1..n : w = ArgAddress(n, i)])
                       ELSE memory[w]]
    IN  [withArgs EXCEPT ![top - 1] = site, ![top - 2] = Junk, ![top - 3] = ebp]

\* StaticCall, DynamicCall (the receiver is the first argument) and the calls
\* of TypeInfo.InstanceOf, which push a null descriptor.
Call(args, site, dst) ==
    /\ Running /\ Len(code) < MaxFrames
    /\ dst \in Locals \union {NoDst}
    /\ LET used == Top.cur_offset + Len(args) IN
       /\ esp - used - 3 >= Reserve
       /\ memory' = CallFrame(args, site)
       /\ esp' = esp - used - 3
       /\ ebp' = esp - used - 3
       /\ code' = Append([code EXCEPT ![Len(code)].dst = dst,
                                      ![Len(code)].stack_used = used],
                         Method(esp - used - 3, Len(args), site))
    /\ UNCHANGED <<status, eax, thrown, printed>>

\* The epilogue (pop ebp; ret), then what follows the call: pop the descriptor,
\* raise esp by what the call had lowered it, and store the result.
Epilogue(caller, value) ==
    LET resumed == [caller EXCEPT !.dst = NoDst, !.stack_used = 0]
        popped == Scratched(memory, esp + 3)
    IN  /\ ebp' = memory[esp]
        /\ esp' = esp + 3 + caller.stack_used
        /\ code' = [k \in 1..(Len(code) - 1) |->
                      IF k < Len(code) - 1 THEN code[k]
                      ELSE IF caller.dst = NoDst THEN resumed
                      ELSE Assigns(resumed, caller.dst)]
        /\ memory' = IF caller.dst = NoDst THEN popped
                     ELSE [popped EXCEPT ![StackOffset(memory[esp], caller.dst)] = value]

Ret(src) ==
    /\ Running /\ Len(code) > 1 /\ src \in Readable
    /\ Epilogue(code[Len(code) - 1], Load(src))
    /\ UNCHANGED <<status, eax, thrown, printed>>

RetVoid ==
    /\ Running /\ Len(code) > 1 /\ code[Len(code) - 1].dst = NoDst
    /\ Epilogue(code[Len(code) - 1], Junk)
    /\ UNCHANGED <<status, eax, thrown, printed>>

\* _entry returns to _start, which exits with eax.
RetEntry(src) ==
    /\ Running /\ Len(code) = 1 /\ src \in Readable
    /\ eax' = Load(src)
    /\ status' = "finished"
    /\ UNCHANGED <<memory, esp, ebp, code, thrown, printed>>

-----------------------------------------------------------------------------

\* jmp _joos_throw, which makes itself a frame, saves the descriptor it was
\* given in ebx, prints the exception and that descriptor, and starts at the
\* frame that was running.
Throw(site) ==
    /\ Running
    /\ LET fp == esp - 1
           saved == [memory EXCEPT ![fp] = ebp, ![fp - 1] = site, ![fp - 2] = Junk]
           called == Scratched(Scratched(saved, fp - 2), fp - 1)
       IN  /\ memory' = called
           /\ printed' = << called[fp - 1] >>
           /\ eax' = called[fp]
           /\ ebp' = fp
           /\ esp' = fp
    /\ thrown' = site
    /\ status' = "unwinding"
    /\ UNCHANGED code

\* Mutant: the null descriptor sends the loop back to its start.
LoopAgain ==
    /\ status' = "unwinding"
    /\ UNCHANGED <<memory, eax, printed>>

\* .loop_end: jmp __exception, which exits.
LoopEnd ==
    /\ status' = "exited"
    /\ UNCHANGED <<memory, eax, printed>>

\* One turn of .loop_start: read the descriptor above the frame eax points to,
\* print it and follow the link.
Unwind ==
    /\ status = "unwinding"
    /\ LET ebx == memory[eax + 2]
           saved == [memory EXCEPT ![ebp - 1] = eax, ![ebp - 2] = ebx]
           called == Scratched(saved, ebp - 2)
       IN  IF ebx = NoSite
           THEN LoopEnd
           ELSE /\ memory' = called
                /\ printed' = Append(printed, called[ebp - 2])
                /\ eax' = called[called[ebp - 1]]
                /\ UNCHANGED status
    /\ UNCHANGED <<esp, ebp, code, thrown>>

Next ==
    \/ AllocMem \/ DeallocMem
    \/ \E dst \in Locals, value \in Values : Const(dst, value)
    \/ \E dst \in Locals, src \in Readable : Mov(dst, src)
    \/ \E dst \in Locals, src \in Readable : MovAddr(dst, src)
    \/ \E dst \in Locals, src \in Readable : MovToAddr(dst, src)
    \/ \E dst \in Locals, value \in Values : ExternalCall(dst, value)
    \/ \E n \in 0..MaxParams : \E args \in [1..n -> Readable],
          site \in Sites \union {NoSite}, dst \in Locals \union {NoDst} :
             Call(args, site, dst)
    \/ \E src \in Readable : Ret(src)
    \/ RetVoid
    \/ \E src \in Readable : RetEntry(src)
    \/ \E site \in Sites : Throw(site)
    \/ Unwind

Spec == Init /\ [][Next]_vars /\ WF_vars(Unwind)

-----------------------------------------------------------------------------

Methods ==
    [base : 0..(StackTop - 1), nparams : 0..MaxParams, cur_offset : 0..MaxLocals,
     assigned : SUBSET Int, points : [0..(MaxLocals - 1) -> Int],
     site : Sites \union {NoSite}, dst : -1..(MaxLocals - 1), stack_used : Nat]

\* Esp and ebp stay inside the stack, and every word has a value.
TypeOK ==
    /\ memory \in [0..(StackTop - 1) -> Int]
    /\ esp \in 0..(StackTop - 1)
    /\ ebp \in 0..(StackTop - 1)
    /\ code \in Seq(Methods)
    /\ Len(code) \in 1..MaxFrames
    /\ \A k \in 1..Len(code) : code[k].assigned \subseteq Slots(code[k])
    /\ status \in {"running", "unwinding", "exited", "finished"}

\* FuncWriter's frames: between two operations esp is back at ebp, the frames
\* are linked through the saved ebp's, and each one has the descriptor of its
\* call site where the unwinder looks for it.
FramesLinked ==
    /\ Running => ebp = Top.base /\ esp = Top.base
    /\ \A k \in 1..Len(code) :
          /\ memory[code[k].base + 2] = code[k].site
          /\ k > 1 => memory[code[k].base] = code[k - 1].base

\* No two live slots, of one method or of two active ones, share a word, and
\* none lies on a saved ebp or a stack frame descriptor.
SlotsDisjoint ==
    \A k \in 1..Len(code) : \A o \in Slots(code[k]) :
    \A l \in 1..Len(code) :
       LET a == StackOffset(code[k].base, o) IN
       /\ a \notin code[l].base..(code[l].base + 2)
       /\ \A p \in Slots(code[l]) :
             a = StackOffset(code[l].base, p) => k = l /\ o = p

\* The unwinder terminates: it reaches the null descriptor of the root.
ThrowExits == status = "unwinding" ~> status = "exited"
=============================================================================
