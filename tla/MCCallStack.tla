----------------------------- MODULE MCCallStack -----------------------------
(***************************************************************************)
(* The instance of CallStack.tla for TLC, and the refinement mapping to    *)
(* Activations.tla: a cell is the word at its slot's address.              *)
(***************************************************************************)
EXTENDS CallStack

Cell(f, o) ==
    IF o \notin f.assigned THEN [unassigned |-> TRUE]
    ELSE IF o \in Pointers(f) THEN [to |-> f.points[o]]
    ELSE [word |-> memory[StackOffset(f.base, o)]]

Activation(f) ==
    [cells |-> IF status \in {"unwinding", "exited"} THEN << >>
               ELSE [o \in Slots(f) |-> Cell(f, o)],
     site |-> f.site, dst |-> f.dst]

\* The concatenation makes TLC build the sequence once and for all: it updates
\* a function it has left unevaluated in place.
Cells == << >> \o [k \in 1..Len(code) |-> Activation(code[k])]

Abstract == INSTANCE Activations WITH
    frames <- Cells,
    trace <- IF status = "exited" THEN printed ELSE << >>,
    result <- IF status = "finished" THEN [word |-> eax] ELSE [unassigned |-> TRUE]

\* The generated code keeps every parameter and temporary of every active call
\* and prints the whole chain of call sites for an exception: it implements the
\* activations of Activations.tla.
ImplementsActivations == Abstract!Spec

\* And it does so operation by operation: each one reads and writes the cells
\* its operands name, and a callee's parameters are the call's arguments, in
\* their order.
OperandsMatch ==
    [][ /\ \A dst \in Locals, value \in Values :
              Const(dst, value) \/ ExternalCall(dst, value) => Abstract!Write(dst, value)
        /\ \A dst \in Locals, src \in Readable :
              /\ Mov(dst, src) => Abstract!Copy(dst, src)
              /\ MovAddr(dst, src) => Abstract!TakeAddress(dst, src)
              /\ MovToAddr(dst, src) => Abstract!Assign(dst, src)
        /\ Len(code') > Len(code) =>
              \A n \in 0..MaxParams : \A args \in [1..n -> Readable],
                 site \in Sites \union {NoSite}, dst \in Locals \union {NoDst} :
                    Call(args, site, dst) => Abstract!Call(args, site, dst)
        /\ \A src \in Readable :
              /\ Ret(src) => Abstract!Return(src)
              /\ RetEntry(src) => Abstract!Finish(src)
        /\ \A site \in Sites : Throw(site) => Abstract!Throw(site) ]_vars
=============================================================================
