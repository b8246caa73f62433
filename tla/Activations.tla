---------------------------- MODULE Activations ----------------------------
(***************************************************************************)
(* What compiled methods may expect of calls: every activation has cells   *)
(* of its own for its parameters and temporaries, a callee's parameters    *)
(* are the arguments of the call, the caller goes on with its cells as it  *)
(* left them, and an uncaught exception prints the call sites of the       *)
(* active calls, innermost first.  There are no addresses here;            *)
(* CallStack.tla shows how the i386 code provides this.                    *)
(***************************************************************************)
EXTENDS Integers, Sequences, FiniteSetsExt

CONSTANTS
    Values,      \* the words programs compute with
    Sites,       \* the stack frame descriptors of call and throw sites
    NoSite,      \* the null descriptor: a call the unwinder does not print
    MaxFrames,   \* bound: active calls
    MaxLocals,   \* bound: temporaries of an activation
    MaxParams    \* bound: parameters of a method

VARIABLES
    frames,   \* the active calls, outermost first
    status,
    thrown,   \* the site of the exception
    trace,    \* the sites printed for it
    result    \* what the program returned

vars == <<frames, status, thrown, trace, result>>

NoDst == -1
Unassigned == [unassigned |-> TRUE]
Word(v) == [word |-> v]
AddressOf(o) == [to |-> o]

\* A cell is named by the offset the code generator gives it.
ParamCells(n) == {-2 - i : i \in 1..n}
Activation(args, site, dst) ==
    [cells |-> [o \in ParamCells(Len(args)) |-> args[-2 - o]],
     site |-> site, dst |-> dst]

Top == frames[Len(frames)]
Depth(f) == Cardinality({o \in DOMAIN f.cells : o >= 0})
Readable == {o \in DOMAIN Top.cells : "word" \in DOMAIN Top.cells[o]}
Locals == {o \in DOMAIN Top.cells : o >= 0}

Running == status = "running"
SetTop(f) == frames' = [frames EXCEPT ![Len(frames)] = f]
Store(cells, o, c) == [cells EXCEPT ![o] = c]
Resume(f, v) == IF f.dst \in DOMAIN f.cells
                THEN [f EXCEPT !.cells[f.dst] = v, !.dst = NoDst]
                ELSE [f EXCEPT !.dst = NoDst]

Init ==
    /\ frames = << Activation(<< >>, NoSite, NoDst) >>
    /\ status = "running"
    /\ thrown = NoSite
    /\ trace = << >>
    /\ result = Unassigned

AllocMem ==
    /\ Running /\ Depth(Top) < MaxLocals
    /\ SetTop([Top EXCEPT !.cells =
                 [o \in DOMAIN Top.cells \union {Depth(Top)} |->
                     IF o = Depth(Top) THEN Unassigned ELSE Top.cells[o]]])
    /\ UNCHANGED <<status, thrown, trace, result>>

DeallocMem ==
    /\ Running /\ Depth(Top) > 0
    /\ SetTop([Top EXCEPT !.cells =
                 [o \in DOMAIN Top.cells \ {Depth(Top) - 1} |-> Top.cells[o]]])
    /\ UNCHANGED <<status, thrown, trace, result>>

\* A temporary gets a word: a constant, a new object, a native call's result.
Write(dst, v) ==
    /\ Running /\ dst \in Locals
    /\ SetTop([Top EXCEPT !.cells[dst] = Word(v)])
    /\ UNCHANGED <<status, thrown, trace, result>>

Copy(dst, src) ==
    /\ Running /\ dst \in Locals /\ src \in Readable
    /\ SetTop([Top EXCEPT !.cells[dst] = Top.cells[src]])
    /\ UNCHANGED <<status, thrown, trace, result>>

TakeAddress(dst, src) ==
    /\ Running /\ dst \in Locals /\ src \in Readable
    /\ SetTop([Top EXCEPT !.cells[dst] = AddressOf(src)])
    /\ UNCHANGED <<status, thrown, trace, result>>

\* An assignment through an address changes the variable it was taken of.
Assign(dst, src) ==
    /\ Running /\ dst \in Locals /\ src \in Readable
    /\ "to" \in DOMAIN Top.cells[dst]
    /\ SetTop([Top EXCEPT !.cells[Top.cells[dst].to] = Top.cells[src]])
    /\ UNCHANGED <<status, thrown, trace, result>>

Call(args, site, dst) ==
    /\ Running /\ Len(frames) < MaxFrames
    /\ dst \in Locals \union {NoDst}
    /\ frames' = Append([frames EXCEPT ![Len(frames)].dst = dst],
                        Activation([i \in DOMAIN args |-> Top.cells[args[i]]],
                                   site, NoDst))
    /\ UNCHANGED <<status, thrown, trace, result>>

\* The calling activation goes on; its destination cell, if the call has one,
\* gets the value.
ReturnTo(resumed) ==
    /\ frames' = [k \in 1..(Len(frames) - 1) |->
                    IF k = Len(frames) - 1 THEN resumed ELSE frames[k]]
    /\ UNCHANGED <<status, thrown, trace, result>>

Return(src) ==
    /\ Running /\ Len(frames) > 1 /\ src \in Readable
    /\ ReturnTo(Resume(frames[Len(frames) - 1], Top.cells[src]))

ReturnVoid ==
    /\ Running /\ Len(frames) > 1
    /\ frames[Len(frames) - 1].dst = NoDst
    /\ ReturnTo(frames[Len(frames) - 1])

Finish(src) ==
    /\ Running /\ Len(frames) = 1 /\ src \in Readable
    /\ status' = "finished"
    /\ result' = Top.cells[src]
    /\ UNCHANGED <<frames, thrown, trace>>

\* Nothing of the active calls is needed any more but where they were made.
Throw(site) ==
    /\ Running
    /\ status' = "unwinding"
    /\ thrown' = site
    /\ frames' = [k \in DOMAIN frames |-> [frames[k] EXCEPT !.cells = << >>]]
    /\ UNCHANGED <<trace, result>>

\* The innermost activation that was not called from a printable site.
Root == Max({k \in DOMAIN frames : frames[k].site = NoSite})

Exit ==
    /\ status = "unwinding"
    /\ status' = "exited"
    /\ trace' = << thrown >> \o
                [i \in 1..(Len(frames) - Root) |-> frames[Len(frames) + 1 - i].site]
    /\ UNCHANGED <<frames, thrown, result>>

Next ==
    \/ AllocMem \/ DeallocMem
    \/ \E dst \in Locals, v \in Values : Write(dst, v)
    \/ \E dst \in Locals, src \in Readable :
          Copy(dst, src) \/ TakeAddress(dst, src) \/ Assign(dst, src)
    \/ \E n \in 0..MaxParams : \E args \in [1..n -> Readable],
          site \in Sites \union {NoSite}, dst \in Locals \union {NoDst} :
             Call(args, site, dst)
    \/ \E src \in Readable : Return(src) \/ Finish(src)
    \/ ReturnVoid
    \/ \E site \in Sites : Throw(site)
    \/ Exit

Spec == Init /\ [][Next]_vars
=============================================================================
