--------------------------- MODULE CallStackProofs ---------------------------
(***************************************************************************)
(* For every stack size and every bound on calls, parameters and           *)
(* temporaries, the frames of CallStack.tla stay linked and live slots     *)
(* never overlap.  At the end: under the mapping of MCCallStack.tla the    *)
(* code does what Activations.tla allows, and each operation uses the      *)
(* cells its operands name.                                                *)
(*                                                                         *)
(* The inductive invariant adds to TypeOK and FramesLinked how far apart   *)
(* the frames lie (FramesApart), what a suspended call has to undo         *)
(* (CallsPending), where the temporaries that hold addresses point         *)
(* (AddressesHold), because an assignment writes through them, and where   *)
(* the unwinder is and what it printed (UnwinderPlaced).                   *)
(***************************************************************************)
EXTENDS MCCallStack, SequenceTheorems, FiniteSetTheorems, TLAPS

\* The lowest word of a frame: its last temporary, or its saved ebp.
FramesApart ==
    /\ \A k \in 1..Len(code) :
          /\ code[k].base + 2 + code[k].nparams < StackTop
          /\ code[k].base - code[k].cur_offset >= Reserve
    /\ \A k \in 1..Len(code) : \A l \in 1..Len(code) : k < l =>
          code[l].base + 2 + code[l].nparams < code[k].base - code[k].cur_offset

CallsPending ==
    /\ \A k \in 1..Len(code) : k < Len(code) =>
          /\ code[k].base = code[k + 1].base + 3 + code[k].stack_used
          /\ code[k].dst # NoDst => code[k].dst \in 0..(code[k].cur_offset - 1)
    /\ Top.dst = NoDst /\ Top.stack_used = 0
    /\ code[1].site = NoSite

\* The temporaries of a method that hold addresses.
Addresses(f, m) ==
    \A o \in Pointers(f) :
       /\ o \in 0..(f.cur_offset - 1) /\ o \in f.assigned
       /\ f.points[o] \in f.assigned \ Pointers(f)
       /\ f.points[o] < o
       /\ m[StackOffset(f.base, o)] = StackOffset(f.base, f.points[o])

AddressesHold == Running => \A k \in 1..Len(code) : Addresses(code[k], memory)

\* The unwinder printed the descriptors of the frames below frame k.
PrintedDownTo(k) ==
    /\ printed \in Seq(Int) /\ Len(printed) = Len(code) - k + 1
    /\ printed[1] = thrown
    /\ \A l \in (k + 1)..Len(code) :
          code[l].site # NoSite /\ printed[Len(code) - l + 2] = code[l].site

UnwinderPlaced ==
    status = "unwinding" =>
       /\ ebp = Top.base - 1 /\ esp = ebp
       /\ \E k \in 1..Len(code) : eax = code[k].base /\ PrintedDownTo(k)

IInv ==
    /\ TypeOK
    /\ FramesLinked
    /\ FramesApart
    /\ CallsPending
    /\ AddressesHold
    /\ UnwinderPlaced

LEMMA Bounds == /\ StackTop \in Nat /\ MaxLocals \in Nat /\ MaxParams \in Nat
                /\ StackTop >= 6 /\ Reserve = 3 /\ NoSite \in Int /\ Junk \in Int
  BY StackAssumption DEF Reserve

LEMMA MethodFields ==
    ASSUME NEW f \in Methods
    PROVE  /\ f.base \in Int /\ f.base >= 0 /\ f.base < StackTop
           /\ f.cur_offset \in Nat /\ f.cur_offset <= MaxLocals
           /\ f.nparams \in Nat /\ f.stack_used \in Nat
           /\ f.dst \in Int /\ f.site \in Int
           /\ f.points \in [0..(MaxLocals - 1) -> Int]
<1>1. f.base \in 0..(StackTop - 1) /\ f.cur_offset \in 0..MaxLocals
  BY DEF Methods
<1>2. f.nparams \in 0..MaxParams /\ f.stack_used \in Nat /\ f.dst \in -1..(MaxLocals - 1)
  BY DEF Methods
<1>3. f.site \in Sites \union {NoSite} /\ f.points \in [0..(MaxLocals - 1) -> Int]
  BY DEF Methods
<1>4. f.site \in Int
  BY <1>3, StackAssumption
<1> QED BY <1>1, <1>2, <1>3, <1>4, Bounds

\* Where the slots of a method are.
LEMMA SlotOffsets ==
    ASSUME NEW f \in Methods, NEW o \in Slots(f)
    PROVE  /\ o \in Int
           /\ \/ o >= 0 /\ o < f.cur_offset /\ StackOffset(f.base, o) = f.base - (o + 1)
              \/ o <= -3 /\ o >= -2 - f.nparams /\ StackOffset(f.base, o) = f.base - o
<1>1. f.cur_offset \in Nat /\ f.nparams \in Nat
  BY MethodFields
<1> QED BY <1>1 DEF Slots, ParamOffset, StackOffset

LEMMA SlotRange ==
    ASSUME NEW f \in Methods, NEW o \in Slots(f)
    PROVE  /\ StackOffset(f.base, o) \in Int
           /\ StackOffset(f.base, o) >= f.base - f.cur_offset
           /\ StackOffset(f.base, o) <= f.base + 2 + f.nparams
           /\ StackOffset(f.base, o) \notin f.base..(f.base + 2)
<1>1. /\ f.base \in Int /\ f.cur_offset \in Nat /\ f.nparams \in Nat
  BY MethodFields
<1> QED BY <1>1, SlotOffsets

LEMMA SlotsOfOneFrame ==
    ASSUME NEW f \in Methods, NEW o \in Slots(f), NEW p \in Slots(f),
           StackOffset(f.base, o) = StackOffset(f.base, p)
    PROVE  o = p
<1>1. /\ f.base \in Int /\ f.cur_offset \in Nat /\ f.nparams \in Nat
  BY MethodFields
<1> QED BY <1>1, SlotOffsets

\* The slots of two methods whose frames lie apart, g the deeper one.
Below(g, f) == g.base + 2 + g.nparams < f.base - f.cur_offset

LEMMA SlotsOfTwoFrames ==
    ASSUME NEW f \in Methods, NEW g \in Methods, Below(g, f), NEW o \in Slots(f)
    PROVE  /\ StackOffset(f.base, o) \notin g.base..(g.base + 2)
           /\ \A p \in Slots(g) : StackOffset(f.base, o) > StackOffset(g.base, p)
<1>1. /\ f.base \in Int /\ f.cur_offset \in Nat /\ f.nparams \in Nat
      /\ g.base \in Int /\ g.cur_offset \in Nat /\ g.nparams \in Nat
  BY MethodFields
<1>2. StackOffset(f.base, o) \in Int /\ StackOffset(f.base, o) > g.base + 2 + g.nparams
  BY <1>1, SlotRange DEF Below
<1>3. StackOffset(f.base, o) \notin g.base..(g.base + 2)
  BY <1>1, <1>2
<1>4. ASSUME NEW p \in Slots(g)
      PROVE  StackOffset(f.base, o) > StackOffset(g.base, p)
  <2>1. StackOffset(g.base, p) \in Int /\ StackOffset(g.base, p) <= g.base + 2 + g.nparams
    BY SlotRange
  <2> QED BY <2>1, <1>1, <1>2
<1> QED BY <1>3, <1>4

LEMMA SlotsAboveFrame ==
    ASSUME NEW f \in Methods, NEW g \in Methods, Below(g, f), NEW p \in Slots(g)
    PROVE  StackOffset(g.base, p) \notin f.base..(f.base + 2)
<1>1. /\ f.base \in Int /\ f.cur_offset \in Nat /\ f.nparams \in Nat
      /\ g.base \in Int /\ g.cur_offset \in Nat /\ g.nparams \in Nat
  BY MethodFields
<1>2. StackOffset(g.base, p) \in Int /\ StackOffset(g.base, p) <= g.base + 2 + g.nparams
  BY SlotRange
<1> QED BY <1>1, <1>2 DEF Below

\* Frames that lie apart share no slot.
LEMMA ApartDisjoint ==
    ASSUME TypeOK, FramesApart
    PROVE  SlotsDisjoint
<1>1. SUFFICES ASSUME NEW k \in 1..Len(code), NEW o \in Slots(code[k]),
                      NEW l \in 1..Len(code)
               PROVE  /\ StackOffset(code[k].base, o) \notin code[l].base..(code[l].base + 2)
                      /\ \A p \in Slots(code[l]) :
                            StackOffset(code[k].base, o) = StackOffset(code[l].base, p)
                               => k = l /\ o = p
  BY DEF SlotsDisjoint
<1>2. code[k] \in Methods /\ code[l] \in Methods
  BY DEF TypeOK
<1>3. StackOffset(code[k].base, o) \in Int /\ k \in Int /\ l \in Int
  BY <1>2, SlotRange
<1>4. CASE k = l
  BY <1>2, <1>4, SlotRange, SlotsOfOneFrame
<1>5. CASE k < l
  <2>1. Below(code[l], code[k])
    BY <1>5 DEF FramesApart, Below
  <2>2. \A p \in Slots(code[l]) :
           StackOffset(code[k].base, o) > StackOffset(code[l].base, p)
    BY <1>2, <2>1, SlotsOfTwoFrames
  <2>3. \A p \in Slots(code[l]) : StackOffset(code[l].base, p) \in Int
    BY <1>2, SlotRange
  <2> QED BY <1>2, <1>3, <2>1, <2>2, <2>3, SlotsOfTwoFrames
<1>6. CASE l < k
  <2>1. Below(code[k], code[l])
    BY <1>6 DEF FramesApart, Below
  <2>2. \A p \in Slots(code[l]) :
           StackOffset(code[l].base, p) > StackOffset(code[k].base, o)
    BY <1>2, <2>1, SlotsOfTwoFrames
  <2>3. StackOffset(code[k].base, o) \notin code[l].base..(code[l].base + 2)
    BY <1>2, <2>1, SlotsAboveFrame
  <2>4. \A p \in Slots(code[l]) : StackOffset(code[l].base, p) \in Int
    BY <1>2, SlotRange
  <2> QED BY <1>3, <2>2, <2>3, <2>4
<1> QED BY <1>3, <1>4, <1>5, <1>6

LEMMA InitIInv == Init => IInv
<1> SUFFICES ASSUME Init PROVE IInv
  OBVIOUS
<1> USE StackAssumption DEF Reserve
<1>1. /\ Len(code) = 1 /\ Top = code[1]
      /\ code[1] = Method(StackTop - 3, 0, NoSite)
  BY DEF Init, Top
<1>2. code[1] \in Methods /\ code[1].assigned = {} /\ Pointers(code[1]) = {}
  BY <1>1 DEF Method, Methods, NoDst, Pointers
<1>3. TypeOK
  BY <1>1, <1>2 DEF Init, TypeOK
<1>4. /\ code[1].base = StackTop - 3 /\ code[1].nparams = 0 /\ code[1].cur_offset = 0
      /\ code[1].site = NoSite /\ code[1].dst = NoDst /\ code[1].stack_used = 0
  BY <1>1 DEF Method
<1>5. FramesLinked
  BY <1>1, <1>4 DEF Init, FramesLinked
<1>6. FramesApart /\ CallsPending
  BY <1>1, <1>4 DEF FramesApart, CallsPending
<1>7. AddressesHold /\ UnwinderPlaced
  BY <1>1, <1>2 DEF Init, AddressesHold, Addresses, UnwinderPlaced
<1> QED BY <1>3, <1>5, <1>6, <1>7 DEF IInv

-----------------------------------------------------------------------------

LEMMA TypeFacts ==
    ASSUME TypeOK
    PROVE  /\ Len(code) \in Nat /\ Len(code) >= 1
           /\ \A k \in 1..Len(code) : code[k] \in Methods
           /\ Top \in Methods /\ Top = code[Len(code)]
<1>1. Len(code) \in Nat /\ Len(code) >= 1
  BY DEF TypeOK
<1> QED BY <1>1 DEF TypeOK, Top

\* The links and slots of a suspended method lie above the running one's frame.
LEMMA SuspendedAbove ==
    ASSUME TypeOK, FramesApart, NEW k \in 1..Len(code), k < Len(code)
    PROVE  /\ code[k].base > Top.base + 2 + Top.nparams
           /\ \A o \in Slots(code[k]) :
                 StackOffset(code[k].base, o) > Top.base + 2 + Top.nparams
<1>1. Len(code) \in 1..Len(code) /\ Top = code[Len(code)]
  BY TypeFacts
<1>2. Top.base + 2 + Top.nparams < code[k].base - code[k].cur_offset
  BY <1>1 DEF FramesApart
<1>3. code[k] \in Methods /\ Top \in Methods
  BY TypeFacts
<1>4. /\ code[k].base \in Int /\ code[k].cur_offset \in Nat
      /\ Top.base \in Int /\ Top.nparams \in Nat
  BY <1>3, MethodFields
<1>5. code[k].base > Top.base + 2 + Top.nparams
  BY <1>2, <1>4
<1>6. ASSUME NEW o \in Slots(code[k])
      PROVE  StackOffset(code[k].base, o) > Top.base + 2 + Top.nparams
  <2>1. /\ StackOffset(code[k].base, o) \in Int
        /\ StackOffset(code[k].base, o) >= code[k].base - code[k].cur_offset
    BY <1>3, SlotRange
  <2> QED BY SMTT(30), <2>1, <1>2, <1>4
<1> QED BY <1>5, <1>6

\* Slots, links and their neighbours are addresses of memory words.
LEMMA SlotAddress ==
    ASSUME TypeOK, FramesApart, NEW k \in 1..Len(code)
    PROVE  /\ \A o \in Slots(code[k]) : StackOffset(code[k].base, o) \in 0..(StackTop - 1)
           /\ code[k].base \in 0..(StackTop - 1)
           /\ code[k].base + 2 \in 0..(StackTop - 1)
<1>1. code[k] \in Methods
  BY TypeFacts
<1>2. /\ code[k].base \in Int /\ code[k].cur_offset \in Nat /\ code[k].nparams \in Nat
      /\ code[k].base + 2 + code[k].nparams < StackTop
      /\ code[k].base - code[k].cur_offset >= Reserve
  BY <1>1, MethodFields DEF FramesApart
<1>3. ASSUME NEW o \in Slots(code[k])
      PROVE  StackOffset(code[k].base, o) \in 0..(StackTop - 1)
  <2>1. /\ StackOffset(code[k].base, o) \in Int
        /\ StackOffset(code[k].base, o) >= code[k].base - code[k].cur_offset
        /\ StackOffset(code[k].base, o) <= code[k].base + 2 + code[k].nparams
    BY <1>1, SlotRange
  <2> QED BY SMTT(30), <2>1, <1>2, Bounds
<1>4. /\ code[k].base <= StackTop - 1 /\ code[k].base >= 0
      /\ code[k].base + 2 <= StackTop - 1 /\ code[k].base + 2 \in Int
  BY SMTT(60), <1>2, Bounds
<1> QED BY <1>2, <1>3, <1>4, Bounds

\* An operation that keeps the frame where it is and writes only the running
\* method's own slots, or words below its frame, preserves the invariant.
LEMMA UpdateTop ==
    ASSUME IInv, Running, NEW f \in Methods,
           f.base = Top.base, f.nparams = Top.nparams, f.site = Top.site,
           f.dst = NoDst, f.stack_used = 0,
           f.assigned \subseteq Slots(f),
           f.base - f.cur_offset >= Reserve,
           code' = [code EXCEPT ![Len(code)] = f],
           memory' \in [0..(StackTop - 1) -> Int],
           \A w \in 0..(StackTop - 1) :
              w \in Top.base..(Top.base + 2) \/ w > Top.base + 2 + Top.nparams
                 => memory'[w] = memory[w],
           Addresses(f, memory'),
           UNCHANGED <<esp, ebp, status>>
    PROVE  IInv'
<1> USE DEF IInv
<1>1. /\ Len(code) \in Nat /\ Len(code) >= 1 /\ Top = code[Len(code)]
      /\ \A k \in 1..Len(code) : code[k] \in Methods
  BY TypeFacts
<1>2. /\ code' \in Seq(Methods) /\ Len(code') = Len(code)
      /\ \A k \in 1..Len(code) : code'[k] = IF k = Len(code) THEN f ELSE code[k]
  BY <1>1 DEF TypeOK
<1>3. Top' = f
  BY <1>1, <1>2 DEF Top
<1>4. /\ Top.base \in Int /\ Top.nparams \in Nat /\ f.cur_offset \in Nat
  BY <1>1, MethodFields
<1>5. ASSUME NEW k \in 1..Len(code)
      PROVE  /\ code'[k].base = code[k].base /\ code'[k].nparams = code[k].nparams
             /\ code'[k].site = code[k].site
             /\ k < Len(code) => code'[k] = code[k]
  <2>1. CASE k = Len(code)
    <3>1. code'[k] = f
      BY <1>2, <2>1
    <3> QED BY <1>1, <2>1, <3>1
  <2>2. CASE k < Len(code)
    <3>1. k # Len(code)
      BY <1>1, <2>2
    <3>2. code'[k] = code[k]
      BY <1>2, <3>1
    <3> QED BY <3>2
  <2> QED BY <1>1, <2>1, <2>2
<1>6. TypeOK'
  <2>1. ASSUME NEW k \in 1..Len(code)
        PROVE  code'[k].assigned \subseteq Slots(code'[k])
    <3>1. CASE k = Len(code)
      BY <1>2, <3>1
    <3>2. CASE k < Len(code)
      BY <1>5, <3>2 DEF TypeOK
    <3> QED BY <1>1, <3>1, <3>2
  <2> QED BY <1>2, <2>1 DEF TypeOK, Slots, ParamOffset
<1>7. FramesLinked'
  <2>1. Running' => ebp' = Top'.base /\ esp' = Top'.base
    BY <1>3 DEF FramesLinked, Running
  <2>2. ASSUME NEW k \in 1..Len(code)
        PROVE  /\ memory'[code[k].base] = memory[code[k].base]
               /\ memory'[code[k].base + 2] = memory[code[k].base + 2]
    <3>1. code[k].base \in 0..(StackTop - 1) /\ code[k].base + 2 \in 0..(StackTop - 1)
      BY SlotAddress
    <3>2. CASE k = Len(code)
      <4>1. code[k].base \in Top.base..(Top.base + 2)
        BY <1>1, <1>4, <3>2
      <4>2. code[k].base + 2 \in Top.base..(Top.base + 2)
        BY <1>1, <1>4, <3>2
      <4> QED BY <3>1, <4>1, <4>2
    <3>3. CASE k < Len(code)
      <4>1. code[k].base > Top.base + 2 + Top.nparams
        BY <3>3, SuspendedAbove
      <4>2. code[k].base \in Int
        BY <1>1, MethodFields
      <4>3. code[k].base + 2 > Top.base + 2 + Top.nparams
        BY <1>4, <4>1, <4>2
      <4> QED BY <3>1, <4>1, <4>3
    <3> QED BY <1>1, <3>2, <3>3
  <2>3. ASSUME NEW k \in 1..Len(code)
        PROVE  /\ memory'[code'[k].base + 2] = code'[k].site
               /\ k > 1 => memory'[code'[k].base] = code'[k - 1].base
    BY <1>5, <2>2 DEF FramesLinked
  <2> QED BY <1>2, <2>1, <2>3 DEF FramesLinked
<1>8. FramesApart'
  <2>1. ASSUME NEW k \in 1..Len(code)
        PROVE  /\ code'[k].base + 2 + code'[k].nparams < StackTop
               /\ code'[k].base - code'[k].cur_offset >= Reserve
    <3>1. CASE k = Len(code)
      BY <1>1, <1>2, <3>1 DEF FramesApart
    <3>2. CASE k < Len(code)
      BY <1>5, <3>2 DEF FramesApart
    <3> QED BY <1>1, <3>1, <3>2
  <2>2. ASSUME NEW k \in 1..Len(code), NEW l \in 1..Len(code), k < l
        PROVE  code'[l].base + 2 + code'[l].nparams < code'[k].base - code'[k].cur_offset
    <3>1. k < Len(code)
      BY <1>1, <2>2
    <3> QED BY <1>5, <2>2, <3>1 DEF FramesApart
  <2> QED BY <1>2, <2>1, <2>2 DEF FramesApart
<1>9. CallsPending'
  <2>1. ASSUME NEW k \in 1..Len(code), k < Len(code)
        PROVE  /\ code'[k].base = code'[k + 1].base + 3 + code'[k].stack_used
               /\ code'[k].dst # NoDst => code'[k].dst \in 0..(code'[k].cur_offset - 1)
    <3>1. k + 1 \in 1..Len(code)
      BY <2>1, <1>1
    <3> QED BY <2>1, <3>1, <1>5 DEF CallsPending
  <2>2. code'[1].site = NoSite
    BY <1>1, <1>5 DEF CallsPending
  <2> QED BY <1>2, <1>3, <2>1, <2>2 DEF CallsPending
<1>10. AddressesHold'
  <2>1. ASSUME NEW k \in 1..Len(code), k < Len(code)
        PROVE  Addresses(code[k], memory')
    <3>1. ASSUME NEW o \in Pointers(code[k])
          PROVE  memory'[StackOffset(code[k].base, o)] = memory[StackOffset(code[k].base, o)]
      <4>1. o \in Slots(code[k])
        BY DEF AddressesHold, Addresses, Slots
      <4>2. StackOffset(code[k].base, o) > Top.base + 2 + Top.nparams
        BY <2>1, <4>1, SuspendedAbove
      <4>3. StackOffset(code[k].base, o) \in 0..(StackTop - 1)
        BY <4>1, SlotAddress
      <4> QED BY <1>4, <4>2, <4>3
    <3> QED BY <3>1 DEF AddressesHold, Addresses
  <2>2. ASSUME NEW k \in 1..Len(code)
        PROVE  Addresses(code'[k], memory')
    <3>1. CASE k = Len(code)
      <4>1. code'[k] = f
        BY <1>2, <3>1
      <4> QED BY <4>1
    <3>2. CASE k < Len(code)
      <4>1. code'[k] = code[k]
        BY <1>5, <3>2
      <4> QED BY <2>1, <3>2, <4>1
    <3> QED BY <1>1, <3>1, <3>2
  <2> QED BY <1>2, <2>2 DEF AddressesHold, Addresses
<1>11. UnwinderPlaced'
  BY DEF UnwinderPlaced, Running
<1> QED BY <1>6, <1>7, <1>8, <1>9, <1>10, <1>11

-----------------------------------------------------------------------------

\* The operations on temporaries change these three fields.
With(f, offset, assigned, points) ==
    [f EXCEPT !.cur_offset = offset, !.assigned = assigned, !.points = points]

LEMMA WithFields ==
    ASSUME NEW f \in Methods, NEW c, NEW a, NEW p
    PROVE  /\ With(f, c, a, p).base = f.base /\ With(f, c, a, p).nparams = f.nparams
           /\ With(f, c, a, p).cur_offset = c /\ With(f, c, a, p).assigned = a
           /\ With(f, c, a, p).points = p /\ With(f, c, a, p).site = f.site
           /\ With(f, c, a, p).dst = f.dst /\ With(f, c, a, p).stack_used = f.stack_used
  BY DEF Methods, With

LEMMA WithType ==
    ASSUME NEW f \in Methods, NEW c \in 0..MaxLocals, NEW a \in SUBSET Int,
           NEW p \in [0..(MaxLocals - 1) -> Int]
    PROVE  With(f, c, a, p) \in Methods
  BY DEF Methods, With

LEMMA LocalStep ==
    ASSUME IInv, Running, NEW c \in 0..MaxLocals, NEW a,
           NEW p \in [0..(MaxLocals - 1) -> Int],
           a \subseteq Slots(With(Top, c, a, p)),
           Top.base - c >= Reserve,
           SetTop(With(Top, c, a, p)),
           memory' \in [0..(StackTop - 1) -> Int],
           \A w \in 0..(StackTop - 1) :
              w \in Top.base..(Top.base + 2) \/ w > Top.base + 2 + Top.nparams
                 => memory'[w] = memory[w],
           Addresses(With(Top, c, a, p), memory'),
           UNCHANGED <<esp, ebp, status>>
    PROVE  IInv'
<1> DEFINE f == With(Top, c, a, p)
<1>1. Top \in Methods
  BY TypeFacts DEF IInv
<1>2. Slots(f) \subseteq Int
  BY <1>1, WithFields, MethodFields DEF Slots, ParamOffset
<1>3. f \in Methods
  BY <1>1, <1>2, WithType
<1>4. /\ f.base = Top.base /\ f.nparams = Top.nparams /\ f.site = Top.site
      /\ f.dst = Top.dst /\ f.stack_used = Top.stack_used /\ f.cur_offset = c
      /\ f.assigned = a
  BY <1>1, WithFields
<1>5. f.dst = NoDst /\ f.stack_used = 0
  BY <1>4 DEF IInv, CallsPending
<1>6. code' = [code EXCEPT ![Len(code)] = f]
  BY DEF SetTop
<1> HIDE DEF f
<1>7. f.assigned \subseteq Slots(f) /\ Addresses(f, memory')
  BY <1>4 DEF f
<1>8. f.base - f.cur_offset >= Reserve
  BY <1>4
<1> QED BY <1>3, <1>4, <1>5, <1>6, <1>7, <1>8, UpdateTop

LEMMA AllocPreserves == ASSUME IInv, AllocMem PROVE IInv'
<1> USE DEF IInv, AllocMem
<1>1. /\ Top \in Methods /\ Top = code[Len(code)] /\ Len(code) \in 1..Len(code)
  BY TypeFacts
<1>2. /\ Top.base \in Int /\ Top.cur_offset \in Nat /\ Top.nparams \in Nat
      /\ Top.cur_offset < MaxLocals /\ Top.points \in [0..(MaxLocals - 1) -> Int]
  BY <1>1, MethodFields
<1> DEFINE c == Top.cur_offset + 1
           f == With(Top, c, Top.assigned, Top.points)
<1>3. [Top EXCEPT !.cur_offset = @ + 1] = f
  BY <1>1 DEF With, Methods
<1>4. c \in 0..MaxLocals
  BY <1>2, Bounds
<1>5. /\ f.nparams = Top.nparams /\ f.cur_offset = c /\ f.base = Top.base
      /\ f.assigned = Top.assigned /\ f.points = Top.points
  BY <1>1, WithFields
<1>6. Top.assigned \subseteq Slots(f)
  <2>1. Slots(Top) \subseteq Slots(f)
    BY <1>2, <1>5 DEF Slots
  <2> QED BY <1>1, <2>1 DEF TypeOK
<1>7. Top.base - c >= Reserve
  BY <1>2, Bounds DEF Addr, StackOffset, FramesLinked
<1>8. memory' \in [0..(StackTop - 1) -> Int] /\ memory' = memory
  BY DEF TypeOK
<1>9. Addresses(f, memory')
  BY SMTT(60), <1>1, <1>2, <1>5, <1>8 DEF AddressesHold, Addresses, Pointers
<1>10. SetTop(f) /\ UNCHANGED <<esp, ebp, status>> /\ Running
  BY <1>3
<1> HIDE DEF c
<1> QED BY <1>2, <1>4, <1>6, <1>7, <1>8, <1>9, <1>10, LocalStep

LEMMA DeallocPreserves == ASSUME IInv, DeallocMem PROVE IInv'
<1> USE DEF IInv
<1>1. /\ Top \in Methods /\ Top = code[Len(code)] /\ Len(code) \in 1..Len(code)
  BY TypeFacts
<1> DEFINE last == Top.cur_offset - 1
           f == With(Top, last, Top.assigned \ {last}, [Top.points EXCEPT ![last] = NoDst])
<1>2. /\ Top.base \in Int /\ Top.cur_offset \in Nat /\ Top.nparams \in Nat
      /\ Top.cur_offset <= MaxLocals /\ Top.points \in [0..(MaxLocals - 1) -> Int]
  BY <1>1, MethodFields
<1>3. last \in Slots(Top)
  BY <1>1 DEF DeallocMem, TypeOK
<1>4. last \in Int /\ last >= 0
  BY <1>1, <1>2, <1>3, SlotOffsets
<1>5. /\ f.nparams = Top.nparams /\ f.cur_offset = last /\ f.base = Top.base
      /\ f.assigned = Top.assigned \ {last}
      /\ f.points = [Top.points EXCEPT ![last] = NoDst]
  BY <1>1, WithFields
<1>6. Top.assigned \ {last} \subseteq Slots(f)
  <2>1. Slots(Top) \ {last} \subseteq Slots(f)
    BY <1>2, <1>4, <1>5 DEF Slots
  <2> QED BY <1>1, <2>1 DEF TypeOK
<1>7. Top.base - last >= Reserve
  <2>1. Top.base - Top.cur_offset >= Reserve
    BY <1>1 DEF FramesApart
  <2> QED BY <2>1, <1>2, Bounds
<1>8. /\ last \in 0..MaxLocals
      /\ [Top.points EXCEPT ![last] = NoDst] \in [0..(MaxLocals - 1) -> Int]
  BY <1>2, <1>4, Bounds DEF NoDst
<1>9. ebp = Top.base
  BY DEF FramesLinked, DeallocMem
<1> DEFINE a == StackOffset(Top.base, last)
<1>10. memory' = [memory EXCEPT ![a] = Junk]
  BY <1>9 DEF DeallocMem, Addr
<1>11. memory' \in [0..(StackTop - 1) -> Int]
  BY <1>10, Bounds DEF TypeOK
<1>12. a \in Int /\ a < Top.base
  BY <1>2, <1>4 DEF StackOffset
<1>13. ASSUME NEW w \in 0..(StackTop - 1),
              w \in Top.base..(Top.base + 2) \/ w > Top.base + 2 + Top.nparams
       PROVE  memory'[w] = memory[w]
  <2>1. w # a
    BY <1>2, <1>12, <1>13, Bounds
  <2> QED BY <1>10, <2>1 DEF TypeOK
<1>14. ASSUME NEW o \in Pointers(f)
       PROVE  /\ o \in 0..(f.cur_offset - 1) /\ o \in f.assigned
              /\ f.points[o] \in f.assigned \ Pointers(f)
              /\ f.points[o] < o
              /\ memory'[StackOffset(f.base, o)] = StackOffset(f.base, f.points[o])
  <2>1. o \in 0..(MaxLocals - 1) /\ o # last /\ f.points[o] = Top.points[o] /\ o \in Pointers(Top)
    BY <1>2, <1>5, <1>4 DEF Pointers
  <2>2. /\ o \in 0..(Top.cur_offset - 1) /\ o \in Top.assigned
        /\ Top.points[o] \in Top.assigned \ Pointers(Top)
        /\ Top.points[o] < o
        /\ memory[StackOffset(Top.base, o)] = StackOffset(Top.base, Top.points[o])
    BY <1>1, <2>1 DEF AddressesHold, Addresses, DeallocMem
  <2>3. o \in 0..(f.cur_offset - 1)
    BY <1>2, <1>5, <2>1, <2>2
  <2>4. Top.points[o] # last /\ Pointers(f) \subseteq Pointers(Top)
    <3>1. Top.points[o] \in Int
      BY <1>2, <2>1
    <3>2. Top.points[o] # last
      BY <1>2, <2>2, <3>1, <2>1
    <3>3. Pointers(f) \subseteq Pointers(Top)
      BY <1>2, <1>5 DEF Pointers
    <3> QED BY <3>2, <3>3
  <2>5. o \in Slots(Top)
    BY <2>2 DEF Slots
  <2>6. StackOffset(Top.base, o) # a
    BY <1>1, <1>3, <2>1, <2>5, SlotsOfOneFrame
  <2>7. StackOffset(Top.base, o) \in 0..(StackTop - 1)
    BY <1>1, <2>5, SlotAddress
  <2>8. memory'[StackOffset(Top.base, o)] = memory[StackOffset(Top.base, o)]
    BY <1>10, <2>6, <2>7 DEF TypeOK
  <2> QED BY <1>5, <2>1, <2>2, <2>3, <2>4, <2>8
<1>15. Addresses(f, memory')
  BY <1>14 DEF Addresses
<1>16. SetTop(f) /\ UNCHANGED <<esp, ebp, status>> /\ Running
  BY DEF DeallocMem, With
<1> HIDE DEF last, a
<1> QED BY <1>6, <1>7, <1>8, <1>11, <1>13, <1>15, <1>16, LocalStep

\* Overwriting a temporary leaves the other addresses of its method valid.
LEMMA AssignAddresses ==
    ASSUME NEW f \in Methods, NEW dst \in 0..(f.cur_offset - 1),
           NEW m, NEW n, Addresses(f, m),
           f.base - f.cur_offset >= Reserve, f.base + 2 + f.nparams < StackTop,
           \A w \in 0..(StackTop - 1) :
              w >= f.base - f.cur_offset /\ w # StackOffset(f.base, dst) => n[w] = m[w]
    PROVE  Addresses(Assigns(f, dst), n)
<1> DEFINE A == f.assigned \union {dst}
           P == [f.points EXCEPT ![dst] = NoDst]
           g == With(f, f.cur_offset, A, P)
<1>1. Assigns(f, dst) = g
  BY DEF With, Assigns, Methods
<1>2. /\ f.base \in Int /\ f.cur_offset \in Nat /\ f.nparams \in Nat
      /\ f.cur_offset <= MaxLocals /\ f.points \in [0..(MaxLocals - 1) -> Int]
  BY MethodFields
<1>3. g.cur_offset = f.cur_offset /\ g.base = f.base /\ g.assigned = A /\ g.points = P
  BY WithFields
<1>4. dst \in Slots(f)
  BY DEF Slots
<1> HIDE DEF A
<1>5. ASSUME NEW o \in Pointers(g)
      PROVE  /\ o \in 0..(g.cur_offset - 1) /\ o \in g.assigned
             /\ g.points[o] \in g.assigned \ Pointers(g)
             /\ g.points[o] < o
             /\ n[StackOffset(g.base, o)] = StackOffset(g.base, g.points[o])
  <2>1. o # dst /\ g.points[o] = f.points[o] /\ o \in Pointers(f)
    BY <1>2, <1>3 DEF Pointers
  <2>2. /\ o \in 0..(f.cur_offset - 1) /\ o \in f.assigned
        /\ f.points[o] \in f.assigned \ Pointers(f)
        /\ f.points[o] < o
        /\ m[StackOffset(f.base, o)] = StackOffset(f.base, f.points[o])
    BY <2>1 DEF Addresses
  <2>3. Pointers(g) \subseteq Pointers(f)
    BY <1>2, <1>3 DEF Pointers
  <2>4. o \in Slots(f)
    BY <2>2 DEF Slots
  <2>5. StackOffset(f.base, o) # StackOffset(f.base, dst)
    BY <1>4, <2>1, <2>4, SlotsOfOneFrame
  <2>6. /\ StackOffset(f.base, o) \in Int
        /\ StackOffset(f.base, o) >= f.base - f.cur_offset
        /\ StackOffset(f.base, o) <= f.base + 2 + f.nparams
    BY <2>4, SlotRange
  <2>7. StackOffset(f.base, o) \in 0..(StackTop - 1)
    <3>1. f.base - f.cur_offset >= 0
      BY SMTT(60), <1>2, Bounds
    <3>2. f.base + 2 + f.nparams <= StackTop - 1 /\ f.base + 2 + f.nparams \in Int
      BY SMTT(30), <1>2, Bounds
    <3>3. f.base - f.cur_offset \in Int /\ StackTop - 1 \in Int
      BY <1>2, Bounds
    <3> HIDE DEF P
    <3> QED BY <2>6, <3>1, <3>2, <3>3
  <2>8. n[StackOffset(f.base, o)] = m[StackOffset(f.base, o)]
    BY <2>5, <2>6, <2>7
  <2> QED BY <1>3, <2>1, <2>2, <2>3, <2>8 DEF A
<1> QED BY <1>1, <1>5 DEF Addresses

\* dst := word: the temporaries other than dst keep their words.
LEMMA AssignStep ==
    ASSUME IInv, Running, NEW dst \in Locals,
           SetTop(Assigns(Top, dst)),
           memory' \in [0..(StackTop - 1) -> Int],
           \A w \in 0..(StackTop - 1) :
              w >= Top.base - Top.cur_offset /\ w # StackOffset(Top.base, dst)
                 => memory'[w] = memory[w],
           UNCHANGED <<esp, ebp, status>>
    PROVE  IInv'
<1> USE DEF IInv
<1>1. /\ Top \in Methods /\ Top = code[Len(code)] /\ Len(code) \in 1..Len(code)
  BY TypeFacts
<1>2. /\ Top.base \in Int /\ Top.cur_offset \in Nat /\ Top.nparams \in Nat
      /\ Top.cur_offset <= MaxLocals /\ Top.points \in [0..(MaxLocals - 1) -> Int]
  BY <1>1, MethodFields
<1> DEFINE A == Top.assigned \union {dst}
           P == [Top.points EXCEPT ![dst] = NoDst]
           f == With(Top, Top.cur_offset, A, P)
<1>3. Assigns(Top, dst) = f
  BY <1>1 DEF With, Assigns, Methods
<1>4. /\ f.nparams = Top.nparams /\ f.cur_offset = Top.cur_offset /\ f.base = Top.base
      /\ f.assigned = A /\ f.points = P
  BY <1>1, WithFields
<1>5. dst \in Slots(Top) /\ dst \in Int /\ dst >= 0
  BY <1>2 DEF Locals, Slots
<1>6. Slots(f) = Slots(Top)
  BY <1>4 DEF Slots
<1>7. A \subseteq Slots(f)
  BY <1>1, <1>5, <1>6 DEF TypeOK
<1>8. P \in [0..(MaxLocals - 1) -> Int]
  <2>1. NoDst \in Int
    BY DEF NoDst
  <2> QED BY <1>2, <2>1
<1>9. Top.base - Top.cur_offset >= Reserve
  BY <1>1 DEF FramesApart
<1>10. StackOffset(Top.base, dst) < Top.base /\ StackOffset(Top.base, dst) \in Int
  BY <1>2, <1>5 DEF StackOffset
<1>11. ASSUME NEW w \in 0..(StackTop - 1),
              w \in Top.base..(Top.base + 2) \/ w > Top.base + 2 + Top.nparams
       PROVE  memory'[w] = memory[w]
  <2>1. w >= Top.base
    BY <1>2, <1>11, Bounds
  <2>2. w >= Top.base - Top.cur_offset /\ w # StackOffset(Top.base, dst)
    BY <1>2, <1>10, <2>1, Bounds
  <2> QED BY <2>2
<1>13. Addresses(f, memory')
  <2>1. Addresses(Top, memory) /\ Top.base + 2 + Top.nparams < StackTop
    BY <1>1 DEF AddressesHold, FramesApart
  <2>2. dst \in 0..(Top.cur_offset - 1)
    BY DEF Locals
  <2>3. \A w \in 0..(StackTop - 1) :
           w >= Top.base - Top.cur_offset /\ w # StackOffset(Top.base, dst)
              => memory'[w] = memory[w]
    OBVIOUS
  <2>4. Addresses(Assigns(Top, dst), memory')
    BY <1>1, <1>9, <2>1, <2>2, <2>3, AssignAddresses
  <2> QED BY <1>3, <2>4
<1>14. SetTop(f)
  BY <1>3
<1>15. Top.cur_offset \in 0..MaxLocals
  BY <1>2, Bounds
<1> HIDE DEF A, P
<1> QED BY <1>7, <1>8, <1>9, <1>11, <1>13, <1>14, <1>15, LocalStep

LEMMA LocalAddress ==
    ASSUME IInv, Running, NEW o \in Slots(Top)
    PROVE  /\ Addr(o) = StackOffset(Top.base, o)
           /\ Addr(o) \in 0..(StackTop - 1)
           /\ Addr(o) >= Top.base - Top.cur_offset
<1>1. /\ Top \in Methods /\ Top = code[Len(code)] /\ Len(code) \in 1..Len(code)
  BY TypeFacts DEF IInv
<1>2. Addr(o) = StackOffset(Top.base, o)
  BY DEF IInv, FramesLinked, Addr
<1> QED BY <1>1, <1>2, SlotAddress, SlotRange DEF IInv

LEMMA ReadableWord ==
    ASSUME IInv, Running, NEW src \in Readable
    PROVE  src \in Slots(Top) /\ Load(src) \in Int
<1>1. Top = code[Len(code)] /\ Len(code) \in 1..Len(code)
  BY TypeFacts DEF IInv
<1>2. src \in Slots(Top)
  BY <1>1 DEF IInv, TypeOK, Readable
<1> QED BY <1>2, LocalAddress DEF IInv, TypeOK, Load

LEMMA ConstPreserves ==
    ASSUME IInv, NEW dst \in Locals, NEW value \in Values, Const(dst, value) PROVE IInv'
<1>1. dst \in Slots(Top) /\ Running
  BY DEF Locals, Slots, Const
<1>2. Addr(dst) = StackOffset(Top.base, dst)
  BY <1>1, LocalAddress
<1>3. memory' = [memory EXCEPT ![StackOffset(Top.base, dst)] = value] /\ value \in Int
  BY <1>2, StackAssumption DEF Const
<1>4. memory' \in [0..(StackTop - 1) -> Int]
  BY <1>3 DEF IInv, TypeOK
<1>5. \A w \in 0..(StackTop - 1) :
         w # StackOffset(Top.base, dst) => memory'[w] = memory[w]
  BY <1>3 DEF IInv, TypeOK
<1> QED BY <1>1, <1>4, <1>5, AssignStep DEF Const

LEMMA MovPreserves ==
    ASSUME IInv, NEW dst \in Locals, NEW src \in Readable, Mov(dst, src) PROVE IInv'
<1>1. dst \in Slots(Top) /\ Running
  BY DEF Locals, Slots, Mov
<1>2. Addr(dst) = StackOffset(Top.base, dst)
  BY <1>1, LocalAddress
<1>3. /\ memory' = [memory EXCEPT ![StackOffset(Top.base, dst)] = Load(src)]
      /\ Load(src) \in Int
  BY <1>1, <1>2, ReadableWord DEF Mov
<1>4. memory' \in [0..(StackTop - 1) -> Int]
  BY <1>3 DEF IInv, TypeOK
<1>5. \A w \in 0..(StackTop - 1) :
         w # StackOffset(Top.base, dst) => memory'[w] = memory[w]
  BY <1>3 DEF IInv, TypeOK
<1> QED BY <1>1, <1>4, <1>5, AssignStep DEF Mov

\* What lies below an address is lost, the rest is kept.
LEMMA ScratchedWords ==
    ASSUME NEW m \in [0..(StackTop - 1) -> Int], NEW a \in Int
    PROVE  /\ Scratched(m, a) \in [0..(StackTop - 1) -> Int]
           /\ \A w \in 0..(StackTop - 1) : w >= a => Scratched(m, a)[w] = m[w]
  BY Bounds DEF Scratched

LEMMA ExternalCallPreserves ==
    ASSUME IInv, NEW dst \in Locals, NEW value \in Values, ExternalCall(dst, value)
    PROVE  IInv'
<1>1. dst \in Slots(Top) /\ Running
  BY DEF Locals, Slots, ExternalCall
<1>2. Addr(dst) = StackOffset(Top.base, dst)
  BY <1>1, LocalAddress
<1>3. /\ Top.base \in Int /\ Top.cur_offset \in Nat /\ esp = Top.base
  BY <1>1, TypeFacts, MethodFields DEF IInv, FramesLinked
<1> DEFINE lowered == Top.base - Top.cur_offset
           m == Scratched(memory, lowered)
<1>4. /\ memory' = [m EXCEPT ![StackOffset(Top.base, dst)] = value]
      /\ esp' = esp /\ value \in Int
  BY <1>2, <1>3, StackAssumption DEF ExternalCall
<1>5. /\ m \in [0..(StackTop - 1) -> Int]
      /\ \A w \in 0..(StackTop - 1) : w >= lowered => m[w] = memory[w]
  <2>1. lowered \in Int /\ memory \in [0..(StackTop - 1) -> Int]
    BY <1>3 DEF IInv, TypeOK
  <2> QED BY <2>1, ScratchedWords
<1> HIDE DEF m
<1>6. memory' \in [0..(StackTop - 1) -> Int]
  BY <1>4, <1>5
<1>7. \A w \in 0..(StackTop - 1) :
         w >= lowered /\ w # StackOffset(Top.base, dst) => memory'[w] = memory[w]
  BY <1>4, <1>5
<1> QED BY <1>1, <1>4, <1>6, <1>7, AssignStep DEF ExternalCall

LEMMA MovAddrPreserves ==
    ASSUME IInv, NEW dst \in Locals, NEW src \in Readable, MovAddr(dst, src) PROVE IInv'
<1> USE DEF IInv
<1>1. /\ Top \in Methods /\ Top = code[Len(code)] /\ Len(code) \in 1..Len(code)
  BY TypeFacts
<1>2. /\ Top.base \in Int /\ Top.cur_offset \in Nat /\ Top.nparams \in Nat
      /\ Top.cur_offset <= MaxLocals /\ Top.points \in [0..(MaxLocals - 1) -> Int]
  BY <1>1, MethodFields
<1>3. dst \in Slots(Top) /\ Running /\ dst \in Int /\ dst >= 0
  BY <1>2 DEF Locals, Slots, MovAddr
<1>4. src \in Slots(Top) /\ src \in Int
  BY <1>1, <1>3, ReadableWord, SlotOffsets
<1>5. /\ Addr(dst) = StackOffset(Top.base, dst)
      /\ Addr(src) = StackOffset(Top.base, src) /\ Addr(src) \in Int
  BY <1>3, <1>4, LocalAddress
<1>6. /\ memory' = [memory EXCEPT ![StackOffset(Top.base, dst)] = StackOffset(Top.base, src)]
      /\ memory' \in [0..(StackTop - 1) -> Int]
  BY <1>5 DEF MovAddr, TypeOK
<1>7. \A w \in 0..(StackTop - 1) :
         w # StackOffset(Top.base, dst) => memory'[w] = memory[w]
  BY <1>6 DEF TypeOK
<1> DEFINE A == Top.assigned \union {dst}
           P == [Top.points EXCEPT ![dst] = src]
           f == With(Top, Top.cur_offset, A, P)
<1>8. [Top EXCEPT !.assigned = @ \union {dst}, !.points[dst] = src] = f
  BY <1>1 DEF With, Methods
<1>9. /\ f.nparams = Top.nparams /\ f.cur_offset = Top.cur_offset /\ f.base = Top.base
      /\ f.assigned = A /\ f.points = P
  BY <1>1, WithFields
<1>10. A \subseteq Slots(f)
  <2>1. Slots(f) = Slots(Top)
    BY <1>9 DEF Slots
  <2> QED BY <1>1, <1>3, <2>1 DEF TypeOK
<1>11. P \in [0..(MaxLocals - 1) -> Int]
  BY <1>2, <1>4
<1>12. Top.base - Top.cur_offset >= Reserve
  BY <1>1 DEF FramesApart
<1>13. ASSUME NEW w \in 0..(StackTop - 1),
              w \in Top.base..(Top.base + 2) \/ w > Top.base + 2 + Top.nparams
       PROVE  memory'[w] = memory[w]
  <2>1. StackOffset(Top.base, dst) < Top.base /\ StackOffset(Top.base, dst) \in Int
    BY <1>2, <1>3 DEF StackOffset
  <2>2. w # StackOffset(Top.base, dst)
    BY <1>2, <1>13, <2>1, Bounds
  <2> QED BY <1>7, <2>2
<1>14. ASSUME NEW o \in Pointers(f)
       PROVE  /\ o \in 0..(f.cur_offset - 1) /\ o \in f.assigned
              /\ f.points[o] \in f.assigned \ Pointers(f)
              /\ f.points[o] < o
              /\ memory'[StackOffset(f.base, o)] = StackOffset(f.base, f.points[o])
  <2>1. Pointers(f) \subseteq Pointers(Top) \union {dst}
    BY <1>2, <1>9 DEF Pointers
  <2>2. CASE o = dst
    <3>1. f.points[o] = src
      BY <1>2, <1>9, <2>2 DEF Pointers
    <3>2. /\ src \in Top.assigned \ Pointers(Top) /\ src # dst /\ src < dst
      BY <1>3, <1>4 DEF MovAddr, Readable
    <3>3. memory'[StackOffset(Top.base, dst)] = StackOffset(Top.base, src)
      BY <1>3, <1>5, <1>6, LocalAddress DEF TypeOK
    <3>4. dst \in 0..(Top.cur_offset - 1)
      BY DEF Locals
    <3> QED BY <1>9, <2>1, <2>2, <3>1, <3>2, <3>3, <3>4
  <2>3. CASE o # dst
    <3>1. f.points[o] = Top.points[o] /\ o \in Pointers(Top)
      BY <1>2, <1>9, <2>1, <2>3 DEF Pointers
    <3>2. /\ o \in 0..(Top.cur_offset - 1) /\ o \in Top.assigned
          /\ Top.points[o] \in Top.assigned \ Pointers(Top)
          /\ Top.points[o] < o
          /\ memory[StackOffset(Top.base, o)] = StackOffset(Top.base, Top.points[o])
      BY <1>1, <1>3, <3>1 DEF AddressesHold, Addresses
    <3>3. Top.points[o] # dst
      BY <3>2 DEF MovAddr
    <3>4. o \in Slots(Top)
      BY <3>2 DEF Slots
    <3>5. StackOffset(Top.base, o) # StackOffset(Top.base, dst)
      BY <1>1, <1>3, <2>3, <3>4, SlotsOfOneFrame
    <3>6. StackOffset(Top.base, o) \in 0..(StackTop - 1)
      BY <1>1, <3>4, SlotAddress
    <3> QED BY <1>7, <1>9, <2>1, <3>1, <3>2, <3>3, <3>5, <3>6
  <2> QED BY <2>2, <2>3
<1>15. Addresses(f, memory')
  BY <1>14 DEF Addresses
<1>16. SetTop(f) /\ UNCHANGED <<esp, ebp, status>>
  BY <1>8 DEF MovAddr
<1>17. Top.cur_offset \in 0..MaxLocals
  BY <1>2, Bounds
<1> HIDE DEF A, P
<1> QED BY <1>3, <1>6, <1>10, <1>11, <1>12, <1>13, <1>15, <1>16, <1>17, LocalStep

LEMMA MovToAddrPreserves ==
    ASSUME IInv, NEW dst \in Locals, NEW src \in Readable, MovToAddr(dst, src) PROVE IInv'
<1> USE DEF IInv
<1>1. /\ Top \in Methods /\ Top = code[Len(code)] /\ Len(code) \in 1..Len(code)
  BY TypeFacts
<1>2. /\ Top.base \in Int /\ Top.cur_offset \in Nat /\ Top.nparams \in Nat
  BY <1>1, MethodFields
<1>3. Running /\ dst \in Pointers(Top) /\ Load(src) \in Int
  BY ReadableWord DEF MovToAddr
<1>4. Addresses(Top, memory)
  BY <1>1, <1>3 DEF AddressesHold
<1> DEFINE target == Top.points[dst]
           a == StackOffset(Top.base, target)
<1>5. target \in Top.assigned \ Pointers(Top) /\ dst \in Slots(Top)
  BY <1>3, <1>4 DEF Addresses, Slots
<1>6. target \in Slots(Top)
  BY <1>1, <1>5 DEF TypeOK
<1>7. Load(dst) = a
  BY <1>3, <1>4, <1>5, LocalAddress DEF Load, Addresses
<1>8. memory' = [memory EXCEPT ![a] = Load(src)]
  BY <1>7 DEF MovToAddr
<1>9. memory' \in [0..(StackTop - 1) -> Int]
  BY <1>3, <1>8 DEF TypeOK
<1>10. /\ a \in Int /\ a <= Top.base + 2 + Top.nparams
       /\ a \notin Top.base..(Top.base + 2)
  BY <1>1, <1>6, SlotRange
<1> HIDE DEF a, target
<1>11. ASSUME NEW w \in 0..(StackTop - 1),
              w \in Top.base..(Top.base + 2) \/ w > Top.base + 2 + Top.nparams
       PROVE  memory'[w] = memory[w]
  <2>1. w # a
    BY <1>2, <1>10, <1>11
  <2> QED BY <1>8, <2>1 DEF TypeOK
<1>12. ASSUME NEW o \in Pointers(Top)
       PROVE  memory'[StackOffset(Top.base, o)] = memory[StackOffset(Top.base, o)]
  <2>1. o \in Slots(Top) /\ o # target
    BY <1>4, <1>5, <1>12 DEF Addresses, Slots
  <2>2. StackOffset(Top.base, o) # a
    BY <1>1, <1>6, <2>1, SlotsOfOneFrame DEF a
  <2>3. StackOffset(Top.base, o) \in 0..(StackTop - 1)
    BY <1>1, <2>1, SlotAddress
  <2> QED BY <1>8, <2>2, <2>3 DEF TypeOK
<1>13. Addresses(Top, memory')
  BY <1>4, <1>12 DEF Addresses
<1>14. code' = [code EXCEPT ![Len(code)] = Top]
  BY <1>1 DEF MovToAddr, TypeOK
<1>15. Top.dst = NoDst /\ Top.stack_used = 0
  BY DEF CallsPending
<1>16. Top.assigned \subseteq Slots(Top) /\ Top.base - Top.cur_offset >= Reserve
  BY <1>1 DEF TypeOK, FramesApart
<1> QED BY <1>1, <1>3, <1>9, <1>11, <1>13, <1>14, <1>15, <1>16, UpdateTop DEF MovToAddr

-----------------------------------------------------------------------------

\* Pushes: words written below an address leave what is above as it was.
LEMMA ThreeWrites ==
    ASSUME NEW m \in [0..(StackTop - 1) -> Int], NEW lo \in Int,
           NEW a \in 0..(StackTop - 1), NEW b \in 0..(StackTop - 1),
           NEW c \in 0..(StackTop - 1), NEW x \in Int, NEW y \in Int, NEW z \in Int,
           a < lo, b < lo, c < lo, a # b, a # c, b # c
    PROVE  /\ [m EXCEPT ![a] = x, ![b] = y, ![c] = z] \in [0..(StackTop - 1) -> Int]
           /\ [m EXCEPT ![a] = x, ![b] = y, ![c] = z][a] = x
           /\ [m EXCEPT ![a] = x, ![b] = y, ![c] = z][c] = z
           /\ \A w \in 0..(StackTop - 1) :
                 w >= lo => [m EXCEPT ![a] = x, ![b] = y, ![c] = z][w] = m[w]
<1>1. \A w \in 0..(StackTop - 1) : w >= lo => w # a /\ w # b /\ w # c
  BY Bounds
<1> QED BY <1>1

\* Printing an exception and walking the frames writes below the running
\* method's frame only, so the links stay as they were.
LEMMA UnwindStep ==
    ASSUME IInv, UNCHANGED code, status' \in {"unwinding", "exited", "finished"},
           esp' \in 0..(StackTop - 1), ebp' \in 0..(StackTop - 1),
           memory' \in [0..(StackTop - 1) -> Int],
           \A w \in 0..(StackTop - 1) : w >= Top.base => memory'[w] = memory[w],
           UnwinderPlaced'
    PROVE  IInv'
<1> USE DEF IInv
<1>1. /\ Len(code) \in 1..Len(code) /\ Top = code[Len(code)] /\ Top \in Methods
      /\ \A k \in 1..Len(code) : code[k] \in Methods
  BY TypeFacts
<1>2. Top.base \in Int /\ Top.nparams \in Nat
  BY <1>1, MethodFields
<1>3. ASSUME NEW k \in 1..Len(code)
      PROVE  /\ memory'[code[k].base] = memory[code[k].base]
             /\ memory'[code[k].base + 2] = memory[code[k].base + 2]
  <2>1. code[k].base \in 0..(StackTop - 1) /\ code[k].base + 2 \in 0..(StackTop - 1)
    BY SlotAddress
  <2>2. code[k].base >= Top.base
    <3>1. CASE k = Len(code)
      BY <1>1, <1>2, <3>1
    <3>2. CASE k < Len(code)
      <4>1. code[k].base > Top.base + 2 + Top.nparams
        BY <3>2, SuspendedAbove
      <4> QED BY SMTT(60), <1>2, <2>1, <4>1
    <3> QED BY <1>1, <3>1, <3>2
  <2>3. code[k].base + 2 >= Top.base
    BY <1>2, <2>1, <2>2
  <2> QED BY <2>1, <2>2, <2>3
<1>4. ~Running'
  BY DEF Running
<1>5. FramesLinked'
  BY <1>3, <1>4 DEF FramesLinked
<1>6. TypeOK'
  BY DEF TypeOK, Slots, ParamOffset
<1>7. FramesApart' /\ CallsPending'
  BY DEF FramesApart, CallsPending, Top
<1>8. AddressesHold'
  BY <1>4 DEF AddressesHold
<1> QED BY <1>5, <1>6, <1>7, <1>8

LEMMA ThrowPreserves == ASSUME IInv, NEW site \in Sites, Throw(site) PROVE IInv'
<1> USE DEF IInv
<1>1. /\ Len(code) \in 1..Len(code) /\ Top = code[Len(code)] /\ Top \in Methods
  BY TypeFacts
<1>2. /\ Top.base \in Int /\ Top.base >= 3 /\ Top.base < StackTop
      /\ Top.cur_offset \in Nat /\ Top.nparams \in Nat
  <2>1. /\ Top.base \in Int /\ Top.cur_offset \in Nat /\ Top.nparams \in Nat
        /\ Top.base < StackTop
    BY <1>1, MethodFields
  <2>2. Top.base - Top.cur_offset >= Reserve
    BY <1>1 DEF FramesApart
  <2> QED BY <2>1, <2>2, Bounds
<1>3. esp = Top.base /\ ebp = Top.base /\ site \in Int /\ Junk \in Int
  BY StackAssumption DEF FramesLinked, Throw
<1> DEFINE fp == Top.base - 1
           saved == [memory EXCEPT ![fp] = Top.base, ![fp - 1] = site, ![fp - 2] = Junk]
           helped == Scratched(saved, fp - 2)
           called == Scratched(helped, fp - 1)
<1>4. memory' = called /\ eax' = called[fp] /\ ebp' = fp /\ esp' = fp
  BY <1>3 DEF Throw
<1>5. fp \in 0..(StackTop - 1) /\ fp - 1 \in Int /\ fp - 2 \in Int
  BY <1>2, Bounds
<1>6. /\ saved \in [0..(StackTop - 1) -> Int] /\ saved[fp] = Top.base
      /\ saved[fp - 1] = site
      /\ \A w \in 0..(StackTop - 1) : w >= Top.base => saved[w] = memory[w]
  <2>1. /\ fp - 1 \in 0..(StackTop - 1) /\ fp - 2 \in 0..(StackTop - 1)
        /\ fp < Top.base /\ fp - 1 < Top.base /\ fp - 2 < Top.base
        /\ fp # fp - 1 /\ fp # fp - 2 /\ fp - 1 # fp - 2
    BY <1>2, <1>5, Bounds
  <2>2. saved[fp - 1] = site
    BY <1>2, <1>3, <2>1 DEF TypeOK
  <2> HIDE DEF fp
  <2> QED BY SMTT(30), <1>2, <1>3, <1>5, <2>1, <2>2, ThreeWrites DEF TypeOK
<1> HIDE DEF saved
<1>7. /\ helped \in [0..(StackTop - 1) -> Int]
      /\ \A w \in 0..(StackTop - 1) : w >= fp - 2 => helped[w] = saved[w]
  BY <1>5, <1>6, ScratchedWords
<1> HIDE DEF helped
<1>8. /\ called \in [0..(StackTop - 1) -> Int]
      /\ \A w \in 0..(StackTop - 1) : w >= fp - 1 => called[w] = helped[w]
  BY <1>5, <1>7, ScratchedWords
<1> HIDE DEF called
<1>9. /\ called[fp] = Top.base
      /\ \A w \in 0..(StackTop - 1) : w >= Top.base => called[w] = memory[w]
  BY SMTT(30), <1>2, <1>5, <1>6, <1>7, <1>8
<1>10. called[fp - 1] = site
  <2>1. fp - 1 >= fp - 1 /\ fp - 1 >= fp - 2 /\ fp - 1 \in 0..(StackTop - 1)
    BY <1>2, Bounds
  <2> QED BY <1>6, <1>7, <1>8, <2>1
<1>11. printed' = << site >> /\ thrown' = site
  BY <1>3, <1>4, <1>10 DEF Throw, called, helped, saved
<1>12. PrintedDownTo(Len(code))'
  <2>1. Len(code') = Len(code) /\ Len(code) \in Nat
    BY <1>1 DEF Throw
  <2>2. (Len(code) + 1)..Len(code) = {}
    BY <2>1
  <2> QED BY <1>3, <1>11, <2>1, <2>2 DEF PrintedDownTo
<1>13. UnwinderPlaced'
  BY <1>1, <1>4, <1>9, <1>12 DEF UnwinderPlaced, Throw, Top
<1> QED BY <1>4, <1>5, <1>8, <1>9, <1>13, UnwindStep DEF Throw

LEMMA UnwindPreserves == ASSUME IInv, Unwind PROVE IInv'
<1> USE DEF IInv
<1>1. /\ Len(code) \in 1..Len(code) /\ Top = code[Len(code)] /\ Top \in Methods
      /\ 1 \in 1..Len(code)
  BY TypeFacts
<1>2. /\ Top.base \in Int /\ Top.base >= 3 /\ Top.base < StackTop /\ Top.nparams \in Nat
  <2>1. /\ Top.base \in Int /\ Top.cur_offset \in Nat /\ Top.nparams \in Nat
        /\ Top.base < StackTop
    BY <1>1, MethodFields
  <2>2. Top.base - Top.cur_offset >= Reserve
    BY <1>1 DEF FramesApart
  <2> QED BY <2>1, <2>2, Bounds
<1>3. ebp = Top.base - 1 /\ esp = ebp
  BY DEF Unwind, UnwinderPlaced
<1>4. PICK k \in 1..Len(code) : eax = code[k].base /\ PrintedDownTo(k)
  BY DEF Unwind, UnwinderPlaced
<1>5. /\ code[k].base \in 0..(StackTop - 1) /\ code[k].base >= Top.base
      /\ memory[eax + 2] = code[k].site
  <2>1. code[k].base \in 0..(StackTop - 1)
    BY SlotAddress
  <2>2. CASE k = Len(code)
    BY <1>1, <1>2, <1>4, <2>1, <2>2 DEF FramesLinked
  <2>3. CASE k < Len(code)
    <3>1. code[k].base > Top.base + 2 + Top.nparams
      BY <2>3, SuspendedAbove
    <3> QED BY <1>2, <1>4, <2>1, <3>1 DEF FramesLinked
  <2> QED BY <1>1, <2>2, <2>3
<1>6. CASE code[k].site = NoSite
  <2>1. status' = "exited" /\ UNCHANGED <<memory, esp, ebp, code>>
    BY <1>5, <1>6 DEF Unwind, LoopEnd
  <2>2. UnwinderPlaced'
    BY <2>1 DEF UnwinderPlaced
  <2> QED BY <2>1, <2>2, UnwindStep DEF TypeOK
<1>7. CASE code[k].site # NoSite
  <2> DEFINE saved == [memory EXCEPT ![ebp - 1] = eax, ![ebp - 2] = memory[eax + 2]]
             called == Scratched(saved, ebp - 2)
  <2>1. /\ memory' = called /\ eax' = called[called[ebp - 1]]
        /\ UNCHANGED <<status, esp, ebp, code>> /\ status = "unwinding"
    BY <1>5, <1>7 DEF Unwind
  <2>2. /\ ebp - 1 \in 0..(StackTop - 1) /\ ebp - 2 \in 0..(StackTop - 1)
        /\ eax \in Int /\ memory[eax + 2] \in Int
    <3>1. code[k] \in Methods
      BY TypeFacts
    <3> QED BY SMTT(30), <1>2, <1>3, <1>4, <1>5, <3>1, MethodFields, Bounds
  <2>3. /\ saved \in [0..(StackTop - 1) -> Int] /\ saved[ebp - 1] = eax
        /\ saved[ebp - 2] = memory[eax + 2]
        /\ \A w \in 0..(StackTop - 1) : w >= Top.base => saved[w] = memory[w]
    <3>1. ebp - 1 < Top.base /\ ebp - 2 < Top.base /\ ebp - 1 # ebp - 2
      BY <1>2, <1>3
    <3> DEFINE a == ebp - 1
               b == ebp - 2
    <3> HIDE DEF a, b
    <3>2. /\ a \in 0..(StackTop - 1) /\ b \in 0..(StackTop - 1)
          /\ a < Top.base /\ b < Top.base /\ a # b
          /\ memory \in [0..(StackTop - 1) -> Int]
      BY <2>2, <3>1 DEF a, b, TypeOK
    <3>3. saved = [memory EXCEPT ![a] = eax, ![b] = memory[eax + 2]]
      BY DEF a, b, saved
    <3>4. saved[a] = eax /\ saved[b] = memory[eax + 2]
      BY <2>2, <3>2, <3>3
    <3>5. /\ saved \in [0..(StackTop - 1) -> Int]
          /\ \A w \in 0..(StackTop - 1) : w >= Top.base => saved[w] = memory[w]
      <4>1. \A w \in 0..(StackTop - 1) : w >= Top.base => w # a /\ w # b
        BY SMTT(30), <1>2, <3>2, Bounds
      <4> QED BY <2>2, <3>2, <3>3, <4>1
    <3>6. saved[ebp - 1] = eax /\ saved[ebp - 2] = memory[eax + 2]
      BY <3>4 DEF a, b
    <3> QED BY <3>5, <3>6
  <2> HIDE DEF saved
  <2>4. /\ called \in [0..(StackTop - 1) -> Int]
        /\ \A w \in 0..(StackTop - 1) : w >= ebp - 2 => called[w] = saved[w]
    <3>1. ebp - 2 \in Int
      BY <1>2, <1>3
    <3> QED BY <2>3, <3>1, ScratchedWords
  <2> HIDE DEF called
  <2>5. /\ called[ebp - 1] = eax /\ called[ebp - 2] = code[k].site
        /\ \A w \in 0..(StackTop - 1) : w >= Top.base => called[w] = memory[w]
    <3>1. ebp - 1 >= ebp - 2 /\ ebp - 2 >= ebp - 2 /\ \A w \in 0..(StackTop - 1) : w >= Top.base => w >= ebp - 2
      BY <1>2, <1>3, Bounds
    <3> QED BY <1>5, <2>2, <2>3, <2>4, <3>1
  <2>6. k # 1
    BY <1>7 DEF CallsPending
  <2>7. k - 1 \in 1..Len(code) /\ eax' = code[k - 1].base
    BY <1>1, <1>4, <1>5, <2>1, <2>5, <2>6 DEF FramesLinked
  <2>8. PrintedDownTo(k - 1)'
    <3>0. PICK n \in Nat, s \in Int : n = Len(code) /\ s = code[k].site
      BY <1>1, TypeFacts, MethodFields
    <3>1. printed' = Append(printed, code[k].site) /\ thrown' = thrown /\ code' = code
      BY <1>5, <1>7, <2>5 DEF Unwind, called, saved
    <3>2. /\ printed \in Seq(Int) /\ Len(printed) = n - k + 1 /\ printed[1] = thrown
          /\ \A l \in (k + 1)..n : code[l].site # NoSite /\ printed[n - l + 2] = code[l].site
      BY <1>4, <3>0 DEF PrintedDownTo
    <3>3. /\ Append(printed, s) \in Seq(Int) /\ Len(Append(printed, s)) = n - k + 2
          /\ Append(printed, s)[n - k + 2] = s
          /\ \A i \in 1..(n - k + 1) : Append(printed, s)[i] = printed[i]
      BY <3>2
    <3>4. k \in 1..n
      BY <3>0
    <3>5. ASSUME NEW l \in k..n
          PROVE  code[l].site # NoSite /\ Append(printed, s)[n - l + 2] = code[l].site
      <4>1. CASE l = k
        BY <1>7, <3>0, <3>3, <4>1
      <4>2. CASE l # k
        <5>1. l \in (k + 1)..n /\ n - l + 2 \in 1..(n - k + 1)
          BY <3>4, <4>2
        <5> QED BY <3>2, <3>3, <5>1
      <4> QED BY <4>1, <4>2
    <3>6. (k - 1) + 1 = k /\ n - (k - 1) + 1 = n - k + 2 /\ 1 \in 1..(n - k + 1)
      BY <3>4
    <3> QED BY <3>0, <3>1, <3>2, <3>3, <3>5, <3>6 DEF PrintedDownTo
  <2>9. UnwinderPlaced'
    BY <1>3, <2>1, <2>7, <2>8 DEF UnwinderPlaced, Top
  <2>10. esp' \in 0..(StackTop - 1) /\ ebp' \in 0..(StackTop - 1)
    BY <2>1 DEF TypeOK
  <2> QED BY <2>1, <2>4, <2>5, <2>9, <2>10, UnwindStep
<1> QED BY <1>6, <1>7

LEMMA RetEntryPreserves == ASSUME IInv, NEW src \in Readable, RetEntry(src) PROVE IInv'
<1>1. UnwinderPlaced'
  BY DEF RetEntry, UnwinderPlaced
<1> QED BY <1>1, UnwindStep DEF RetEntry, IInv, TypeOK

LEMMA StutterPreserves == ASSUME IInv, UNCHANGED vars PROVE IInv'
<1> USE DEF IInv, vars
<1>1. TypeOK'
  BY DEF TypeOK, Slots, ParamOffset
<1>2. FramesLinked' /\ FramesApart' /\ CallsPending'
  BY DEF FramesLinked, FramesApart, CallsPending, Top, Running
<1>3. AddressesHold' /\ UnwinderPlaced'
  BY DEF AddressesHold, Addresses, Pointers, StackOffset, UnwinderPlaced,
            PrintedDownTo, Top, Running
<1> QED BY <1>1, <1>2, <1>3

-----------------------------------------------------------------------------

\* No frame changes where the memory from its last temporary up does not.
LEMMA FrameKept ==
    ASSUME TypeOK, FramesApart, NEW k \in 1..Len(code), NEW m,
           \A w \in 0..(StackTop - 1) :
              w >= code[k].base - code[k].cur_offset => m[w] = memory[w]
    PROVE  /\ m[code[k].base] = memory[code[k].base]
           /\ m[code[k].base + 2] = memory[code[k].base + 2]
           /\ Addresses(code[k], memory) => Addresses(code[k], m)
<1>1. code[k] \in Methods
  BY TypeFacts
<1>2. code[k].base \in Int /\ code[k].cur_offset \in Nat
  BY <1>1, MethodFields
<1>3. code[k].base \in 0..(StackTop - 1) /\ code[k].base + 2 \in 0..(StackTop - 1)
  BY SlotAddress
<1>4. m[code[k].base] = memory[code[k].base]
  BY <1>2, <1>3
<1>5. m[code[k].base + 2] = memory[code[k].base + 2]
  BY <1>2, <1>3
<1>6. ASSUME Addresses(code[k], memory), NEW o \in Pointers(code[k])
      PROVE  m[StackOffset(code[k].base, o)] = memory[StackOffset(code[k].base, o)]
  <2>1. o \in Slots(code[k])
    BY <1>6 DEF Addresses, Slots
  <2> QED BY <1>1, <2>1, SlotRange, SlotAddress
<1> QED BY <1>4, <1>5, <1>6 DEF Addresses

\* The frame a call builds: nothing above the temporaries of the caller
\* changes, and the callee finds the saved ebp and the descriptor.
LEMMA CallFrameWords ==
    ASSUME IInv, Running, NEW n \in Nat, NEW args \in [1..n -> Readable], NEW site \in Int,
           Top.base - (Top.cur_offset + n) - 3 >= Reserve
    PROVE  LET nb == Top.base - (Top.cur_offset + n) - 3
               m == CallFrame(args, site)
           IN  /\ Len(args) = n
               /\ m \in [0..(StackTop - 1) -> Int]
               /\ m[nb] = Top.base
               /\ m[nb + 2] = site
               /\ \A w \in 0..(StackTop - 1) :
                     w >= Top.base - Top.cur_offset => m[w] = memory[w]
<1>1. Len(args) = n /\ DOMAIN args = 1..n
  OBVIOUS
<1>2. /\ Len(code) \in 1..Len(code) /\ Top = code[Len(code)] /\ Top \in Methods
  BY TypeFacts DEF IInv
<1>3. /\ Top.base \in Int /\ Top.cur_offset \in Nat /\ Top.base < StackTop
  BY <1>2, MethodFields
<1>4. esp = Top.base /\ ebp = Top.base /\ memory \in [0..(StackTop - 1) -> Int]
  BY DEF IInv, TypeOK, FramesLinked
<1> DEFINE lo == Top.base - Top.cur_offset
           nb == Top.base - (Top.cur_offset + n) - 3
           copied == [w \in 0..(StackTop - 1) |->
                        IF \E i \in 1..n : w = ArgAddress(n, i)
                        THEN Load(args[CHOOSE i \in 1..n : w = ArgAddress(n, i)])
                        ELSE memory[w]]
<1>5. ASSUME NEW i \in 1..n
      PROVE  ArgAddress(n, i) \in Int /\ ArgAddress(n, i) < lo
  BY SMTT(30), <1>3, <1>4 DEF ArgAddress, Addr, StackOffset
<1>6. copied \in [0..(StackTop - 1) -> Int]
  <2>1. ASSUME NEW w \in 0..(StackTop - 1), \E i \in 1..n : w = ArgAddress(n, i)
        PROVE  Load(args[CHOOSE i \in 1..n : w = ArgAddress(n, i)]) \in Int
    <3>1. (CHOOSE i \in 1..n : w = ArgAddress(n, i)) \in 1..n
      BY <2>1
    <3>2. args[CHOOSE i \in 1..n : w = ArgAddress(n, i)] \in Readable
      BY <3>1
    <3> QED BY <3>2, ReadableWord
  <2> QED BY <1>4, <2>1
<1>7. \A w \in 0..(StackTop - 1) : w >= lo => copied[w] = memory[w]
  <2>1. ASSUME NEW w \in 0..(StackTop - 1), w >= lo
        PROVE  ~ \E i \in 1..n : w = ArgAddress(n, i)
    BY <1>3, <1>5, <2>1
  <2> QED BY <2>1
<1> HIDE DEF copied
<1>8. CallFrame(args, site) = [copied EXCEPT ![nb + 2] = site, ![nb + 1] = Junk, ![nb] = Top.base]
  <2>1. /\ esp - (Top.cur_offset + Len(args)) - 1 = nb + 2
        /\ esp - (Top.cur_offset + Len(args)) - 2 = nb + 1
        /\ esp - (Top.cur_offset + Len(args)) - 3 = nb
    BY <1>1, <1>3, <1>4
  <2>2. DOMAIN memory = 0..(StackTop - 1)
    BY <1>4
  <2> QED BY <1>1, <1>4, <2>1, <2>2 DEF CallFrame, copied
<1>9. /\ nb \in 0..(StackTop - 1) /\ nb + 1 \in 0..(StackTop - 1) /\ nb + 2 \in 0..(StackTop - 1)
      /\ nb < lo /\ nb + 1 < lo /\ nb + 2 < lo
      /\ nb + 2 # nb + 1 /\ nb + 2 # nb /\ nb + 1 # nb /\ lo \in Int
  <2>1. nb \in Int /\ lo \in Int /\ nb >= 3 /\ nb + 3 <= lo /\ lo <= StackTop - 1
    BY SMTT(30), <1>3, Bounds
  <2> HIDE DEF nb, lo
  <2> QED BY <2>1, Bounds
<1> DEFINE a == nb + 2
           b == nb + 1
           m == CallFrame(args, site)
<1> HIDE DEF nb, lo, a, b, m
<1>10. m = [copied EXCEPT ![a] = site, ![b] = Junk, ![nb] = Top.base]
  BY <1>8 DEF a, b, m
<1>11. /\ nb \in 0..(StackTop - 1) /\ b \in 0..(StackTop - 1) /\ a \in 0..(StackTop - 1)
       /\ nb < lo /\ b < lo /\ a < lo /\ a # b /\ a # nb /\ b # nb /\ lo \in Int
  BY <1>9 DEF a, b
<1>12. m \in [0..(StackTop - 1) -> Int] /\ m[nb] = Top.base /\ m[a] = site
  BY <1>3, <1>6, <1>10, <1>11, Bounds
<1>13. \A w \in 0..(StackTop - 1) : w >= lo => m[w] = memory[w]
  <2>1. \A w \in 0..(StackTop - 1) : w >= lo => w # a /\ w # b /\ w # nb
    BY <1>11, Bounds
  <2> QED BY <1>6, <1>7, <1>10, <2>1
<1> QED BY <1>1, <1>12, <1>13 DEF nb, lo, a, m

\* The running method's frame is below the temporaries of every method.
LEMMA LowestTemporaries ==
    ASSUME TypeOK, FramesApart, NEW k \in 1..Len(code)
    PROVE  code[k].base - code[k].cur_offset >= Top.base - Top.cur_offset
<1>1. /\ Len(code) \in 1..Len(code) /\ Top = code[Len(code)] /\ Top \in Methods
      /\ code[k] \in Methods
  BY TypeFacts
<1>2. /\ Top.base \in Int /\ Top.cur_offset \in Nat /\ Top.nparams \in Nat
      /\ code[k].base \in Int /\ code[k].cur_offset \in Nat
  BY <1>1, MethodFields
<1>3. CASE k = Len(code)
  BY <1>1, <1>2, <1>3
<1>4. CASE k < Len(code)
  <2>1. Top.base + 2 + Top.nparams < code[k].base - code[k].cur_offset
    BY <1>1, <1>4 DEF FramesApart
  <2> QED BY SMTT(30), <1>2, <2>1
<1> QED BY <1>1, <1>3, <1>4

LEMMA CallPreserves ==
    ASSUME IInv, NEW n \in 0..MaxParams, NEW args \in [1..n -> Readable],
           NEW site \in Sites \union {NoSite}, NEW dst \in Locals \union {NoDst},
           Call(args, site, dst)
    PROVE  IInv'
<1> USE DEF IInv
<1>1. /\ Len(code) \in Nat /\ Len(code) >= 1 /\ Top = code[Len(code)] /\ Top \in Methods
      /\ \A k \in 1..Len(code) : code[k] \in Methods
  BY TypeFacts
<1>2. /\ Top.base \in Int /\ Top.cur_offset \in Nat /\ Top.nparams \in Nat
      /\ Top.cur_offset <= MaxLocals /\ Top.base < StackTop
  BY <1>1, MethodFields
<1>3. n \in Nat /\ site \in Int /\ Running /\ esp = Top.base /\ Len(args) = n
  BY StackAssumption DEF Call, FramesLinked
<1> DEFINE L == Len(code)
           used == Top.cur_offset + n
           nb == Top.base - used - 3
           f == [Top EXCEPT !.dst = dst, !.stack_used = used]
           g == Method(nb, n, site)
<1>4. /\ nb >= Reserve /\ L < MaxFrames
      /\ memory' = CallFrame(args, site) /\ esp' = nb /\ ebp' = nb
      /\ code' = Append([code EXCEPT ![L] = f], g)
      /\ UNCHANGED status
  BY <1>1, <1>3 DEF Call
<1>5. /\ memory' \in [0..(StackTop - 1) -> Int]
      /\ memory'[nb] = Top.base /\ memory'[nb + 2] = site
      /\ \A w \in 0..(StackTop - 1) :
            w >= Top.base - Top.cur_offset => memory'[w] = memory[w]
  <2>1. Top.base - (Top.cur_offset + n) - 3 >= Reserve
    BY <1>4
  <2>2. /\ CallFrame(args, site) \in [0..(StackTop - 1) -> Int]
        /\ CallFrame(args, site)[nb] = Top.base
        /\ CallFrame(args, site)[nb + 2] = site
        /\ \A w \in 0..(StackTop - 1) :
              w >= Top.base - Top.cur_offset => CallFrame(args, site)[w] = memory[w]
    BY <1>3, <2>1, CallFrameWords
  <2>3. QED
    BY <1>4, <2>2
<1>6. used \in Nat /\ nb \in 0..(StackTop - 1)
  <2>1. used \in Nat
    BY <1>2, <1>3
  <2> HIDE DEF used
  <2>2. nb \in Int /\ nb < StackTop
    BY <1>2, <2>1, Bounds
  <2> HIDE DEF nb
  <2> QED BY <1>4, <2>1, <2>2, Bounds
<1>7. dst \in Int /\ dst \in -1..(MaxLocals - 1) /\ (dst # NoDst => dst \in 0..(Top.cur_offset - 1))
  BY <1>2, Bounds DEF Locals, NoDst
<1>8. /\ f \in Methods /\ f.base = Top.base /\ f.nparams = Top.nparams
      /\ f.cur_offset = Top.cur_offset /\ f.assigned = Top.assigned
      /\ f.points = Top.points /\ f.site = Top.site
      /\ f.dst = dst /\ f.stack_used = used
  BY <1>1, <1>6, <1>7 DEF Methods
<1>9. /\ g \in Methods /\ g.base = nb /\ g.nparams = n /\ g.cur_offset = 0
      /\ g.assigned = {ParamOffset(i) : i \in 1..n} /\ g.site = site
      /\ g.dst = NoDst /\ g.stack_used = 0 /\ Pointers(g) = {}
  <2>1. {ParamOffset(i) : i \in 1..n} \subseteq Int
    BY <1>3 DEF ParamOffset
  <2>2. NoDst \in Int /\ NoDst \in -1..(MaxLocals - 1)
    BY Bounds DEF NoDst
  <2>3. 0 \in 0..MaxLocals /\ 0 \in Nat
    BY Bounds
  <2>4. [o \in 0..(MaxLocals - 1) |-> NoDst] \in [0..(MaxLocals - 1) -> Int]
    BY <2>2
  <2>5. g \in Methods
    BY <1>6, <2>1, <2>2, <2>3, <2>4 DEF Method, Methods
  <2> QED BY <2>5 DEF Method, Pointers
<1> HIDE DEF f, g, used, nb
<1>10. /\ code' \in Seq(Methods) /\ Len(code') = L + 1
       /\ \A k \in 1..(L + 1) :
             code'[k] = IF k = L + 1 THEN g ELSE IF k = L THEN f ELSE code[k]
  BY <1>1, <1>4, <1>8, <1>9 DEF TypeOK
<1> HIDE DEF L
<1>11. L \in Nat /\ L >= 1 /\ L = Len(code) /\ Top = code[L]
  BY <1>1 DEF L
<1>12. code'[L + 1] = g /\ code'[L] = f /\ Top' = g
  BY <1>10, <1>11 DEF Top
<1>13. ASSUME NEW k \in 1..(L + 1)
       PROVE  \/ k = L + 1 /\ code'[k] = g
              \/ k = L /\ code'[k] = f
              \/ k < L /\ k \in 1..L /\ code'[k] = code[k]
  BY <1>10, <1>11
\* What the caller's frame and those above keep.
<1>14. ASSUME NEW k \in 1..L
       PROVE  /\ code'[k].base = code[k].base /\ code'[k].nparams = code[k].nparams
              /\ code'[k].cur_offset = code[k].cur_offset
              /\ code'[k].assigned = code[k].assigned /\ code'[k].points = code[k].points
              /\ code'[k].site = code[k].site
  <2>1. CASE k = L
    BY <1>8, <1>11, <1>12, <2>1
  <2>2. CASE k # L
    <3>1. code'[k] = code[k]
      BY <1>10, <1>11, <2>2
    <3> QED BY <3>1
  <2> QED BY <2>1, <2>2
<1>15. ASSUME NEW k \in 1..L
       PROVE  /\ memory'[code[k].base] = memory[code[k].base]
              /\ memory'[code[k].base + 2] = memory[code[k].base + 2]
              /\ Addresses(code[k], memory')
  <2>1. code[k].base - code[k].cur_offset >= Top.base - Top.cur_offset /\ code[k] \in Methods
    BY <1>1, <1>11, LowestTemporaries
  <2>2. code[k].base \in Int /\ code[k].cur_offset \in Nat
    BY <2>1, MethodFields
  <2>3. \A w \in 0..(StackTop - 1) :
           w >= code[k].base - code[k].cur_offset => memory'[w] = memory[w]
    <3>1. ASSUME NEW w \in 0..(StackTop - 1), w >= code[k].base - code[k].cur_offset
          PROVE  w >= Top.base - Top.cur_offset
      <4>1. w \in Int
        BY Bounds
      <4> QED BY <1>2, <2>1, <2>2, <3>1, <4>1
    <3> QED BY <1>5, <3>1
  <2>4. Addresses(code[k], memory)
    BY <1>3, <1>11 DEF AddressesHold
  <2> QED BY <1>11, <2>3, <2>4, FrameKept
<1>16. TypeOK'
  <2>1. ASSUME NEW k \in 1..(L + 1)
        PROVE  code'[k].assigned \subseteq Slots(code'[k])
    <3>1. CASE k = L + 1
      BY <1>9, <1>12, <3>1 DEF Slots
    <3>2. CASE k \in 1..L
      <4>1. code[k].assigned \subseteq Slots(code[k])
        BY <1>11, <3>2 DEF TypeOK
      <4> QED BY <1>14, <3>2, <4>1 DEF Slots
    <3> QED BY <1>11, <3>1, <3>2
  <2>2. Len(code') \in 1..MaxFrames
    BY <1>4, <1>10, <1>11, StackAssumption DEF L
  <2>3. \A k \in 1..Len(code') : code'[k].assigned \subseteq Slots(code'[k])
    BY <1>10, <2>1
  <2>4. /\ status' \in {"running", "unwinding", "exited", "finished"}
        /\ esp' \in 0..(StackTop - 1) /\ ebp' \in 0..(StackTop - 1)
    BY <1>4, <1>6 DEF TypeOK
  <2> QED BY <1>5, <1>10, <2>2, <2>3, <2>4 DEF TypeOK, Slots, ParamOffset
<1>17. FramesLinked'
  <2>1. Running' => ebp' = Top'.base /\ esp' = Top'.base
    BY <1>4, <1>9, <1>12
  <2>2. ASSUME NEW k \in 1..(L + 1)
        PROVE  /\ memory'[code'[k].base + 2] = code'[k].site
               /\ k > 1 => memory'[code'[k].base] = code'[k - 1].base
    <3>1. CASE k = L + 1
      BY <1>5, <1>8, <1>9, <1>11, <1>12, <3>1
    <3>2. CASE k \in 1..L
      <4>1. /\ memory[code[k].base + 2] = code[k].site
            /\ k > 1 => memory[code[k].base] = code[k - 1].base
        BY <1>11, <3>2 DEF FramesLinked
      <4>2. k > 1 => k - 1 \in 1..L
        BY <1>11, <3>2
      <4> QED BY <1>14, <1>15, <3>2, <4>1, <4>2
    <3> QED BY <1>11, <3>1, <3>2
  <2> QED BY <1>10, <2>1, <2>2 DEF FramesLinked
<1>18. nb + 2 + n < Top.base - Top.cur_offset /\ nb + 2 + n < StackTop
  <2>1. nb + 2 + n = Top.base - Top.cur_offset - 1
    BY <1>2, <1>3 DEF nb, used
  <2>2. Top.base - Top.cur_offset - 1 < StackTop
    BY <1>2, Bounds
  <2> QED BY <1>2, <2>1, <2>2
<1>19. FramesApart'
  <2>1. ASSUME NEW k \in 1..(L + 1)
        PROVE  /\ code'[k].base + 2 + code'[k].nparams < StackTop
               /\ code'[k].base - code'[k].cur_offset >= Reserve
    <3>1. CASE k = L + 1
      <4>1. nb \in Int /\ nb - 0 >= Reserve
        BY <1>4, <1>6, Bounds
      <4> QED BY <1>9, <1>12, <1>18, <3>1, <4>1
    <3>2. CASE k \in 1..L
      BY <1>11, <1>14, <3>2 DEF FramesApart
    <3> QED BY <1>11, <3>1, <3>2
  <2>2. ASSUME NEW k \in 1..(L + 1), NEW l \in 1..(L + 1), k < l
        PROVE  code'[l].base + 2 + code'[l].nparams < code'[k].base - code'[k].cur_offset
    <3>1. k \in 1..L
      BY <1>11, <2>2
    <3>2. CASE l = L + 1
      <4>1. code[k].base - code[k].cur_offset >= Top.base - Top.cur_offset /\ code[k] \in Methods
        BY <1>1, <1>11, <3>1, LowestTemporaries
      <4>2. code[k].base \in Int /\ code[k].cur_offset \in Nat
        BY <4>1, MethodFields
      <4>3. nb + 2 + n < code[k].base - code[k].cur_offset
        BY SMTT(30), <1>2, <1>3, <1>6, <1>18, <4>1, <4>2
      <4> QED BY <1>9, <1>12, <1>14, <3>1, <3>2, <4>3
    <3>3. CASE l \in 1..L
      BY <1>11, <1>14, <2>2, <3>1, <3>3 DEF FramesApart
    <3> QED BY <1>11, <3>2, <3>3
  <2> QED BY <1>10, <2>1, <2>2 DEF FramesApart
<1>20. CallsPending'
  <2>1. ASSUME NEW k \in 1..(L + 1), k < L + 1
        PROVE  /\ code'[k].base = code'[k + 1].base + 3 + code'[k].stack_used
               /\ code'[k].dst # NoDst => code'[k].dst \in 0..(code'[k].cur_offset - 1)
    <3>1. CASE k = L
      <4>1. Top.base = nb + 3 + used
        BY <1>2, <1>6 DEF nb
      <4> QED BY <1>7, <1>8, <1>9, <1>12, <3>1, <4>1
    <3>2. CASE k < L
      <4>1. /\ code[k].base = code[k + 1].base + 3 + code[k].stack_used
            /\ code[k].dst # NoDst => code[k].dst \in 0..(code[k].cur_offset - 1)
        BY <1>11, <3>2 DEF CallsPending
      <4>2. code'[k] = code[k] /\ k + 1 \in 1..L
        BY <1>10, <1>11, <3>2
      <4> QED BY <1>14, <4>1, <4>2
    <3> QED BY <1>11, <2>1, <3>1, <3>2
  <2>2. code'[1].site = NoSite
    BY <1>11, <1>14 DEF CallsPending
  <2> QED BY <1>9, <1>10, <1>12, <2>1, <2>2 DEF CallsPending
<1>21. AddressesHold'
  <2>1. ASSUME NEW k \in 1..(L + 1)
        PROVE  Addresses(code'[k], memory')
    <3>1. CASE k = L + 1
      BY <1>9, <1>12, <3>1 DEF Addresses
    <3>2. CASE k \in 1..L
      <4>1. Addresses(code[k], memory')
        BY <1>15, <3>2
      <4>2. Pointers(code'[k]) = Pointers(code[k])
        BY <1>14, <3>2 DEF Pointers
      <4> QED BY <1>14, <3>2, <4>1, <4>2 DEF Addresses
    <3> QED BY <1>11, <3>1, <3>2
  <2> QED BY <1>10, <2>1 DEF AddressesHold, Addresses, Pointers, StackOffset
<1>22. UnwinderPlaced'
  BY <1>3, <1>4 DEF UnwinderPlaced, Running
<1> QED BY <1>16, <1>17, <1>19, <1>20, <1>21, <1>22

\* The method a return resumes, with the call's result if it wants one.
Resumed(f) == [f EXCEPT !.dst = NoDst, !.stack_used = 0]

LEMMA ResumedFields ==
    ASSUME NEW f \in Methods
    PROVE  /\ Resumed(f) \in Methods /\ Resumed(f).base = f.base
           /\ Resumed(f).nparams = f.nparams /\ Resumed(f).cur_offset = f.cur_offset
           /\ Resumed(f).assigned = f.assigned /\ Resumed(f).points = f.points
           /\ Resumed(f).site = f.site /\ Resumed(f).dst = NoDst
           /\ Resumed(f).stack_used = 0
<1>1. NoDst \in -1..(MaxLocals - 1) /\ 0 \in Nat
  BY Bounds DEF NoDst
<1> QED BY <1>1 DEF Methods, Resumed

LEMMA AssignsFields ==
    ASSUME NEW f \in Methods, NEW dst \in 0..(f.cur_offset - 1)
    PROVE  /\ Assigns(f, dst) \in Methods /\ Assigns(f, dst).base = f.base
           /\ Assigns(f, dst).nparams = f.nparams
           /\ Assigns(f, dst).cur_offset = f.cur_offset
           /\ Assigns(f, dst).assigned = f.assigned \union {dst}
           /\ Assigns(f, dst).site = f.site /\ Assigns(f, dst).dst = f.dst
           /\ Assigns(f, dst).stack_used = f.stack_used
<1> DEFINE A == f.assigned \union {dst}
           P == [f.points EXCEPT ![dst] = NoDst]
           g == With(f, f.cur_offset, A, P)
<1>1. Assigns(f, dst) = g
  BY DEF With, Assigns, Methods
<1>2. /\ f.cur_offset \in 0..MaxLocals /\ f.assigned \in SUBSET Int
      /\ f.points \in [0..(MaxLocals - 1) -> Int]
  BY DEF Methods
<1>3. A \in SUBSET Int /\ P \in [0..(MaxLocals - 1) -> Int]
  <2>1. NoDst \in Int /\ dst \in Int
    BY MethodFields DEF NoDst
  <2> QED BY <1>2, <2>1
<1> HIDE DEF A, P
<1>4. g \in Methods
  BY <1>2, <1>3, WithType
<1> QED BY <1>1, <1>4, WithFields DEF A

\* What the epilogue and the code after the call do.
LEMMA ReturnPreserves ==
    ASSUME IInv, Running, Len(code) > 1, NEW value \in Int,
           Epilogue(code[Len(code) - 1], value),
           UNCHANGED status
    PROVE  IInv'
<1> USE DEF IInv
<1> DEFINE L == Len(code) - 1
           c == code[L]
<1>1. /\ Len(code) \in Nat /\ Len(code) >= 1 /\ Top = code[Len(code)] /\ Top \in Methods
      /\ \A k \in 1..Len(code) : code[k] \in Methods
  BY TypeFacts
<1>2. /\ L \in Nat /\ L >= 1 /\ L \in 1..Len(code) /\ L < Len(code) /\ L + 1 = Len(code)
      /\ \A k \in 1..L : k \in 1..Len(code)
  BY <1>1
<1> HIDE DEF L
<1>3. /\ c \in Methods /\ esp = Top.base /\ Top.base \in Int /\ Top.nparams \in Nat
      /\ c.base \in Int /\ c.cur_offset \in Nat /\ c.nparams \in Nat /\ c.stack_used \in Nat
  BY <1>1, <1>2, MethodFields DEF FramesLinked
<1>3a. Top.base \in Int /\ Top.nparams \in Nat
  BY <1>3
<1>3b. c.base \in Int /\ c.nparams \in Nat
  BY <1>3
<1>4. /\ memory[esp] = c.base /\ c.base = Top.base + 3 + c.stack_used
      /\ c.dst # NoDst => c.dst \in 0..(c.cur_offset - 1)
  <2>1. memory[Top.base] = code[L].base
    BY <1>1, <1>2 DEF FramesLinked
  <2>2. /\ c.base = code[L + 1].base + 3 + c.stack_used
        /\ c.dst # NoDst => c.dst \in 0..(c.cur_offset - 1)
    BY <1>2 DEF CallsPending
  <2> QED BY <1>1, <1>2, <1>3, <2>1, <2>2
<1> DEFINE r == IF c.dst = NoDst THEN Resumed(c) ELSE Assigns(Resumed(c), c.dst)
           popped == Scratched(memory, Top.base + 3)
<1>5. /\ ebp' = c.base /\ esp' = c.base
      /\ code' = [k \in 1..L |-> IF k < L THEN code[k] ELSE r]
      /\ memory' = IF c.dst = NoDst THEN popped
                   ELSE [popped EXCEPT ![StackOffset(c.base, c.dst)] = value]
  <2>1. code[Len(code) - 1] = c
    BY DEF L
  <2> QED BY <1>3, <1>4, <2>1 DEF Epilogue, Resumed, L
<1>6. /\ Resumed(c) \in Methods /\ Resumed(c).base = c.base /\ Resumed(c).nparams = c.nparams
      /\ Resumed(c).cur_offset = c.cur_offset /\ Resumed(c).assigned = c.assigned
      /\ Resumed(c).points = c.points /\ Resumed(c).site = c.site
      /\ Resumed(c).dst = NoDst /\ Resumed(c).stack_used = 0
  BY <1>3, ResumedFields
<1> DEFINE wanted == IF c.dst = NoDst THEN {} ELSE {c.dst}
<1>7. /\ r \in Methods /\ r.base = c.base /\ r.nparams = c.nparams
      /\ r.cur_offset = c.cur_offset /\ r.site = c.site
      /\ r.dst = NoDst /\ r.stack_used = 0 /\ r.assigned = c.assigned \union wanted
  <2>1. CASE c.dst = NoDst
    BY <1>6, <2>1
  <2>2. CASE c.dst # NoDst
    BY <1>4, <1>6, <2>2, AssignsFields
  <2> QED BY <2>1, <2>2
<1>8. Addresses(Resumed(c), memory)
  <2>1. Addresses(c, memory)
    BY <1>2 DEF AddressesHold
  <2>2. Pointers(Resumed(c)) = Pointers(c)
    BY <1>6 DEF Pointers
  <2> HIDE DEF c
  <2> QED BY <1>6, <2>1, <2>2 DEF Addresses
<1> DEFINE slots == IF c.dst = NoDst THEN {} ELSE {StackOffset(c.base, c.dst)}
<1>9. /\ popped \in [0..(StackTop - 1) -> Int]
      /\ \A w \in 0..(StackTop - 1) : w >= Top.base + 3 => popped[w] = memory[w]
  <2>1. Top.base + 3 \in Int /\ memory \in [0..(StackTop - 1) -> Int]
    BY <1>3 DEF TypeOK
  <2> QED BY <2>1, ScratchedWords
<1> HIDE DEF popped
<1>10. /\ memory' \in [0..(StackTop - 1) -> Int]
       /\ \A w \in 0..(StackTop - 1) :
             w >= Top.base + 3 /\ w \notin slots => memory'[w] = memory[w]
  BY <1>5, <1>9
<1>11. \A a \in slots : a \in Int /\ a <= c.base + 2 + c.nparams /\ a \notin c.base..(c.base + 2)
  <2>1. c.dst # NoDst => c.dst \in Slots(c)
    BY <1>4 DEF Slots
  <2> QED BY <1>3, <2>1, SlotRange
<1>12. /\ code' \in Seq(Methods) /\ Len(code') = L
       /\ \A k \in 1..L : code'[k] = IF k < L THEN code[k] ELSE r
  <2> HIDE DEF r
  <2>1. code' \in [1..L -> Methods]
    BY <1>1, <1>2, <1>5, <1>7
  <2> QED BY <1>2, <1>5, <2>1
<1> HIDE DEF r, wanted, slots
<1>13. Top' = r
  BY <1>2, <1>12 DEF Top
\* The frames of the caller and of the methods above it lie above the return.
<1>14. ASSUME NEW k \in 1..L
       PROVE  /\ code'[k].base = code[k].base /\ code'[k].nparams = code[k].nparams
              /\ code'[k].cur_offset = code[k].cur_offset
              /\ code'[k].site = code[k].site
              /\ k < L => code'[k] = code[k]
  <2>1. CASE k = L
    <3>1. code'[k] = r
      BY <1>12, <2>1
    <3> QED BY <1>7, <2>1, <3>1, <1>2
  <2>2. CASE k # L
    <3>1. code'[k] = code[k]
      BY <1>2, <1>12, <2>2
    <3> QED BY <3>1
  <2> QED BY <2>1, <2>2
<1>15. ASSUME NEW k \in 1..L
       PROVE  /\ code[k].base \in Int /\ code[k].cur_offset \in Nat
              /\ code[k].base - code[k].cur_offset >= Top.base + 3
              /\ k < L => code[k].base - code[k].cur_offset > c.base + 2 + c.nparams
  <2>1. code[k] \in Methods /\ k \in 1..Len(code) /\ Len(code) \in 1..Len(code) /\ k < Len(code)
    BY <1>1, <1>2
  <2>2. code[k].base \in Int /\ code[k].cur_offset \in Nat
    BY <2>1, MethodFields
  <2>3. Top.base + 2 + Top.nparams < code[k].base - code[k].cur_offset
    BY <1>1, <2>1 DEF FramesApart
  <2>4. k < L => c.base + 2 + c.nparams < code[k].base - code[k].cur_offset
    BY <1>2, <2>1 DEF FramesApart
  <2>5. code[k].base - code[k].cur_offset >= Top.base + 3
    <3> DEFINE low == code[k].base - code[k].cur_offset
    <3>1. low \in Int /\ Top.base + 2 + Top.nparams < low
      BY <2>2, <2>3
    <3> HIDE DEF c, low
    <3>2. low >= Top.base + 3
      BY <1>3a, <3>1
    <3> QED BY <3>2 DEF low
  <2> QED BY <1>3, <2>2, <2>4, <2>5
<1>16. ASSUME NEW k \in 1..L
       PROVE  /\ memory'[code[k].base] = memory[code[k].base]
              /\ memory'[code[k].base + 2] = memory[code[k].base + 2]
              /\ Addresses(code'[k], memory')
  <2>1. CASE k = L
    <3>1. code[k].base \in 0..(StackTop - 1) /\ code[k].base + 2 \in 0..(StackTop - 1)
      BY <1>2, SlotAddress
    <3>2. code[k].base >= Top.base + 3 /\ code[k].base + 2 >= Top.base + 3
      <4>1. /\ code[k].base \in Int /\ code[k].cur_offset \in Nat
            /\ code[k].base - code[k].cur_offset >= Top.base + 3
        BY <1>15
      <4> DEFINE b == code[k].base
                 o == code[k].cur_offset
      <4>2. b \in Int /\ o \in Nat /\ b - o >= Top.base + 3
        BY <4>1
      <4> HIDE DEF b, o, c
      <4>3. b >= Top.base + 3 /\ b + 2 >= Top.base + 3
        BY <1>3a, <4>2
      <4> QED BY <4>3 DEF b
    <3>3. code[k].base \notin slots /\ code[k].base + 2 \notin slots
      <4>1. /\ c.base \in c.base..(c.base + 2) /\ c.base + 2 \in c.base..(c.base + 2)
            /\ code[k] = c
        BY <1>3b, <2>1
      <4> HIDE DEF c
      <4> QED BY <1>11, <4>1
    <3>4. Addresses(r, memory')
      <4>1. ASSUME NEW w \in 0..(StackTop - 1), w >= c.base - c.cur_offset, w \notin slots
            PROVE  memory'[w] = memory[w]
        <5>1. w >= Top.base + 3
          <6>1. w \in Int
            BY Bounds
          <6>2. c.base - c.cur_offset >= Top.base + 3 /\ c.cur_offset \in Nat
            BY <1>15, <2>1
          <6> HIDE DEF c
          <6> QED BY <1>3a, <1>3b, <4>1, <6>1, <6>2
        <5> QED BY <1>10, <4>1, <5>1
      <4>2. c.base - c.cur_offset >= Reserve /\ c.base + 2 + c.nparams < StackTop
        BY <1>2 DEF FramesApart
      <4>3. CASE c.dst = NoDst
        <5>1. \A w \in 0..(StackTop - 1) :
                 w >= c.base - c.cur_offset => memory'[w] = memory[w]
          BY <4>1, <4>3 DEF slots
        <5>2. Addresses(c, memory')
          BY <1>2, <5>1, FrameKept DEF AddressesHold
        <5>3. r = Resumed(c)
          BY <4>3 DEF r
        <5>4. Pointers(Resumed(c)) = Pointers(c)
          BY <1>6 DEF Pointers
        <5> HIDE DEF c
        <5> QED BY <1>6, <5>2, <5>3, <5>4 DEF Addresses
      <4>4. CASE c.dst # NoDst
        <5>1. \A w \in 0..(StackTop - 1) :
                 w >= c.base - c.cur_offset /\ w # StackOffset(c.base, c.dst)
                    => memory'[w] = memory[w]
          BY <4>1, <4>4 DEF slots
        <5>2. r = Assigns(Resumed(c), c.dst)
          BY <4>4 DEF r
        <5> HIDE DEF c
        <5> QED BY SMTT(30), <1>4, <1>6, <1>8, <4>2, <4>4, <5>1, <5>2, AssignAddresses
      <4> QED BY <4>3, <4>4
    <3>5. code'[k] = r
      BY <1>12, <2>1
    <3> QED BY <1>10, <3>1, <3>2, <3>3, <3>4, <3>5
  <2>2. CASE k < L
    <3>1. ASSUME NEW w \in 0..(StackTop - 1), w >= code[k].base - code[k].cur_offset
          PROVE  memory'[w] = memory[w]
      <4> DEFINE low == code[k].base - code[k].cur_offset
      <4>1. /\ w \in Int /\ low \in Int /\ w >= low
            /\ low >= Top.base + 3 /\ low > c.base + 2 + c.nparams
        BY <1>15, <2>2, <3>1, Bounds
      <4> HIDE DEF low, c
      <4>2. w >= Top.base + 3
        BY <1>3a, <4>1
      <4>3. w > c.base + 2 + c.nparams
        BY <1>3b, <4>1
      <4>4. w \notin slots
        BY <1>3b, <1>11, <4>1, <4>3
      <4> QED BY <1>10, <4>2, <4>4
    <3>2. Addresses(code[k], memory)
      BY <1>2 DEF AddressesHold
    <3>3. /\ memory'[code[k].base] = memory[code[k].base]
          /\ memory'[code[k].base + 2] = memory[code[k].base + 2]
          /\ Addresses(code[k], memory')
      BY <1>2, <3>1, <3>2, FrameKept
    <3>4. code'[k] = code[k]
      BY <1>14, <2>2
    <3> QED BY <3>3, <3>4
  <2> QED BY <1>2, <2>1, <2>2
<1>17. TypeOK'
  <2>1. ASSUME NEW k \in 1..L
        PROVE  code'[k].assigned \subseteq Slots(code'[k])
    <3>1. code[k].assigned \subseteq Slots(code[k])
      BY <1>2 DEF TypeOK
    <3>2. Slots(code'[k]) = Slots(code[k])
      BY <1>14 DEF Slots
    <3>3. CASE k = L
      <4>1. wanted \subseteq Slots(c)
        BY <1>4 DEF wanted, Slots
      <4>2. code'[k] = r
        BY <1>12, <3>3
      <4> QED BY <1>7, <3>1, <3>2, <3>3, <4>1, <4>2
    <3>4. CASE k # L
      BY <1>2, <1>14, <3>1, <3>2, <3>4
    <3> QED BY <3>3, <3>4
  <2>2. esp' \in 0..(StackTop - 1) /\ ebp' \in 0..(StackTop - 1)
    BY <1>2, <1>5, SlotAddress
  <2>3. Len(code') \in 1..MaxFrames
    BY <1>2, <1>12, StackAssumption DEF TypeOK
  <2> QED BY <1>10, <1>12, <2>1, <2>2, <2>3 DEF TypeOK, Slots, ParamOffset
<1>18. FramesLinked'
  <2>1. Running' => ebp' = Top'.base /\ esp' = Top'.base
    BY <1>5, <1>7, <1>13
  <2>2. ASSUME NEW k \in 1..L
        PROVE  /\ memory'[code'[k].base + 2] = code'[k].site
               /\ k > 1 => memory'[code'[k].base] = code'[k - 1].base
    <3>1. /\ memory[code[k].base + 2] = code[k].site
          /\ k > 1 => memory[code[k].base] = code[k - 1].base
      BY <1>2 DEF FramesLinked
    <3>2. k > 1 => k - 1 \in 1..L
      BY <1>2
    <3> QED BY <1>14, <1>16, <3>1, <3>2
  <2> QED BY <1>12, <2>1, <2>2 DEF FramesLinked
<1>19. FramesApart'
  <2>1. ASSUME NEW k \in 1..L
        PROVE  /\ code'[k].base + 2 + code'[k].nparams < StackTop
               /\ code'[k].base - code'[k].cur_offset >= Reserve
    BY <1>2, <1>14 DEF FramesApart
  <2>2. ASSUME NEW k \in 1..L, NEW l \in 1..L, k < l
        PROVE  code'[l].base + 2 + code'[l].nparams < code'[k].base - code'[k].cur_offset
    BY <1>2, <1>14, <2>2 DEF FramesApart
  <2> QED BY <1>12, <2>1, <2>2 DEF FramesApart
<1>20. CallsPending'
  <2>1. ASSUME NEW k \in 1..L, k < L
        PROVE  /\ code'[k].base = code'[k + 1].base + 3 + code'[k].stack_used
               /\ code'[k].dst # NoDst => code'[k].dst \in 0..(code'[k].cur_offset - 1)
    <3>1. /\ code[k].base = code[k + 1].base + 3 + code[k].stack_used
          /\ code[k].dst # NoDst => code[k].dst \in 0..(code[k].cur_offset - 1)
      BY <1>2, <2>1 DEF CallsPending
    <3>2. k + 1 \in 1..L
      BY <1>2, <2>1
    <3> QED BY <1>14, <2>1, <3>1, <3>2
  <2>2. code'[1].site = NoSite
    BY <1>2, <1>14 DEF CallsPending
  <2> QED BY <1>7, <1>12, <1>13, <2>1, <2>2 DEF CallsPending
<1>21. AddressesHold'
  BY <1>12, <1>16 DEF AddressesHold, Addresses, Pointers, StackOffset
<1>22. UnwinderPlaced'
  BY DEF UnwinderPlaced, Running
<1> QED BY <1>17, <1>18, <1>19, <1>20, <1>21, <1>22

LEMMA RetPreserves == ASSUME IInv, NEW src \in Readable, Ret(src) PROVE IInv'
<1>1. Load(src) \in Int
  BY ReadableWord DEF Ret
<1> QED BY <1>1, ReturnPreserves DEF Ret

LEMMA RetVoidPreserves == ASSUME IInv, RetVoid PROVE IInv'
<1>1. Junk \in Int
  BY Bounds
<1> QED BY <1>1, ReturnPreserves DEF RetVoid

LEMMA NextPreserves == ASSUME IInv, [Next]_vars PROVE IInv'
<1>1. CASE AllocMem
  BY <1>1, AllocPreserves
<1>2. CASE DeallocMem
  BY <1>2, DeallocPreserves
<1>3. ASSUME NEW dst \in Locals, NEW value \in Values, Const(dst, value) PROVE IInv'
  BY <1>3, ConstPreserves
<1>4. ASSUME NEW dst \in Locals, NEW src \in Readable, Mov(dst, src) PROVE IInv'
  BY <1>4, MovPreserves
<1>5. ASSUME NEW dst \in Locals, NEW src \in Readable, MovAddr(dst, src) PROVE IInv'
  BY <1>5, MovAddrPreserves
<1>6. ASSUME NEW dst \in Locals, NEW src \in Readable, MovToAddr(dst, src) PROVE IInv'
  BY <1>6, MovToAddrPreserves
<1>7. ASSUME NEW dst \in Locals, NEW value \in Values, ExternalCall(dst, value) PROVE IInv'
  BY <1>7, ExternalCallPreserves
<1>8. ASSUME NEW n \in 0..MaxParams, NEW args \in [1..n -> Readable],
             NEW site \in Sites \union {NoSite}, NEW dst \in Locals \union {NoDst},
             Call(args, site, dst)
      PROVE  IInv'
  BY <1>8, CallPreserves
<1>9. ASSUME NEW src \in Readable, Ret(src) PROVE IInv'
  BY <1>9, RetPreserves
<1>10. CASE RetVoid
  BY <1>10, RetVoidPreserves
<1>11. ASSUME NEW src \in Readable, RetEntry(src) PROVE IInv'
  BY <1>11, RetEntryPreserves
<1>12. ASSUME NEW site \in Sites, Throw(site) PROVE IInv'
  BY <1>12, ThrowPreserves
<1>13. CASE Unwind
  BY <1>13, UnwindPreserves
<1>14. CASE UNCHANGED vars
  BY <1>14, StutterPreserves
<1> QED
  BY <1>1, <1>2, <1>3, <1>4, <1>5, <1>6, <1>7, <1>8, <1>9, <1>10, <1>11, <1>12,
     <1>13, <1>14 DEF Next

LEMMA Invariance == Spec => []IInv
<1>1. Init => IInv
  BY InitIInv
<1>2. IInv /\ [Next]_vars => IInv'
  BY NextPreserves
<1> QED BY <1>1, <1>2, PTL DEF Spec

\* The stack pointer and the frame pointer stay inside the stack whatever
\* sequence of operations, calls and returns a program executes.
THEOREM StackTypeCorrect == Spec => []TypeOK
<1>1. IInv => TypeOK
  BY DEF IInv
<1> QED BY <1>1, Invariance, PTL

\* Between operations esp is back at ebp, every active frame is linked to its
\* caller's and carries the descriptor of its call site.
THEOREM FramesStayLinked == Spec => []FramesLinked
<1>1. IInv => FramesLinked
  BY DEF IInv
<1> QED BY <1>1, Invariance, PTL

\* No operation of one method can reach a slot or a link of another one: the
\* live slots of all active methods are different words of the stack.
THEOREM LiveSlotsDisjoint == Spec => []SlotsDisjoint
<1>1. IInv => SlotsDisjoint
  BY ApartDisjoint DEF IInv
<1> QED BY <1>1, Invariance, PTL

-----------------------------------------------------------------------------

\* What Activations.tla calls the activation of method f, with memory m.
CellIn(f, m, o) ==
    IF o \notin f.assigned THEN [unassigned |-> TRUE]
    ELSE IF o \in Pointers(f) THEN [to |-> f.points[o]]
    ELSE [word |-> m[StackOffset(f.base, o)]]

View(f, m) ==
    [cells |-> [o \in Slots(f) |-> CellIn(f, m, o)], site |-> f.site, dst |-> f.dst]

\* And when the exception has been thrown: the cells are gone.
Bare(f) == [cells |-> << >>, site |-> f.site, dst |-> f.dst]

LEMMA EmptyConcat ==
    ASSUME NEW n \in Nat, NEW s, s = [k \in 1..n |-> s[k]]
    PROVE  << >> \o s = s /\ Len(s) = n
<1> DEFINE S == {s[k] : k \in 1..n}
<1>1. s \in [1..n -> S]
  OBVIOUS
<1>2. s \in Seq(S) /\ Len(s) = n
  BY <1>1
<1> QED BY <1>2, ConcatEmptySeq

LEMMA LiveCells ==
    ASSUME TypeOK, status \in {"running", "finished"}
    PROVE  Cells = [k \in 1..Len(code) |-> View(code[k], memory)] /\ Len(Cells) = Len(code)
<1> DEFINE s == [k \in 1..Len(code) |-> Activation(code[k])]
<1>1. s = [k \in 1..Len(code) |-> View(code[k], memory)]
  BY DEF Activation, Cell, View, CellIn
<1>2. Len(code) \in Nat
  BY TypeFacts
<1>3. s = [k \in 1..Len(code) |-> s[k]]
  OBVIOUS
<1>4. Cells = << >> \o s
  BY DEF Cells
<1> HIDE DEF s
<1>5. << >> \o s = s /\ Len(s) = Len(code)
  BY <1>2, <1>3, EmptyConcat
<1> QED BY <1>1, <1>4, <1>5

LEMMA LiveCellsNext ==
    ASSUME TypeOK', status' \in {"running", "finished"}
    PROVE  Cells' = [k \in 1..Len(code') |-> View(code'[k], memory')]
<1> DEFINE s == [k \in 1..Len(code') |-> Activation(code[k])']
<1>1. s = [k \in 1..Len(code') |-> View(code'[k], memory')]
  BY DEF Activation, Cell, View, CellIn
<1>2. Len(code') \in Nat
  BY DEF TypeOK
<1>3. s = [k \in 1..Len(code') |-> s[k]]
  OBVIOUS
<1>4. Cells' = << >> \o s
  BY DEF Cells
<1> HIDE DEF s
<1>5. << >> \o s = s
  BY <1>2, <1>3, EmptyConcat
<1> QED BY <1>1, <1>4, <1>5

LEMMA BareCells ==
    ASSUME TypeOK, status \in {"unwinding", "exited"}
    PROVE  Cells = [k \in 1..Len(code) |-> Bare(code[k])] /\ Len(Cells) = Len(code)
<1> DEFINE s == [k \in 1..Len(code) |-> Activation(code[k])]
<1>1. s = [k \in 1..Len(code) |-> Bare(code[k])]
  BY DEF Activation, Bare
<1>2. Len(code) \in Nat
  BY TypeFacts
<1>3. s = [k \in 1..Len(code) |-> s[k]]
  OBVIOUS
<1>4. Cells = << >> \o s
  BY DEF Cells
<1> HIDE DEF s
<1>5. << >> \o s = s /\ Len(s) = Len(code)
  BY <1>2, <1>3, EmptyConcat
<1> QED BY <1>1, <1>4, <1>5

LEMMA BareCellsNext ==
    ASSUME TypeOK', status' \in {"unwinding", "exited"}
    PROVE  Cells' = [k \in 1..Len(code') |-> Bare(code'[k])]
<1> DEFINE s == [k \in 1..Len(code') |-> Activation(code[k])']
<1>1. s = [k \in 1..Len(code') |-> Bare(code'[k])]
  BY DEF Activation, Bare
<1>2. Len(code') \in Nat
  BY DEF TypeOK
<1>3. s = [k \in 1..Len(code') |-> s[k]]
  OBVIOUS
<1>4. Cells' = << >> \o s
  BY DEF Cells
<1> HIDE DEF s
<1>5. << >> \o s = s
  BY <1>2, <1>3, EmptyConcat
<1> QED BY <1>1, <1>4, <1>5

\* The top activation, and the operands it offers.
LEMMA TopActivation ==
    ASSUME IInv, Running
    PROVE  /\ Len(Cells) = Len(code) /\ Cells[Len(code)] = View(Top, memory)
           /\ Abstract!Top = View(Top, memory) /\ DOMAIN View(Top, memory).cells = Slots(Top)
           /\ Abstract!Locals = Locals /\ Abstract!Readable = Readable
           /\ Abstract!Running
<1>1. /\ Len(code) \in Nat /\ Len(code) >= 1 /\ Top = code[Len(code)] /\ Top \in Methods
      /\ Len(code) \in 1..Len(code)
  BY TypeFacts DEF IInv
<1>2. Cells = [k \in 1..Len(code) |-> View(code[k], memory)] /\ Len(Cells) = Len(code)
  BY LiveCells DEF IInv, Running
<1>3. Cells[Len(code)] = View(Top, memory)
  BY <1>1, <1>2
<1>4. Abstract!Top = View(Top, memory)
  BY <1>2, <1>3 DEF Abstract!Top
<1>5. DOMAIN View(Top, memory).cells = Slots(Top)
  BY DEF View
<1>6. Abstract!Locals = Locals
  <2>1. Abstract!Locals = {o \in Slots(Top) : o >= 0}
    BY <1>4, <1>5 DEF Abstract!Locals
  <2>2. Top.cur_offset \in Nat /\ Top.nparams \in Nat
    BY <1>1, MethodFields
  <2> QED BY <2>1, <2>2 DEF Locals, Slots, ParamOffset
<1>7. Abstract!Readable = Readable
  <2>1. Top.assigned \subseteq Slots(Top)
    BY <1>1 DEF IInv, TypeOK
  <2>2. ASSUME NEW o \in Slots(Top)
        PROVE  "word" \in DOMAIN CellIn(Top, memory, o) <=> o \in Readable
    BY DEF CellIn, Readable
  <2>3. \A o \in Slots(Top) : View(Top, memory).cells[o] = CellIn(Top, memory, o)
    BY DEF View
  <2>4. Abstract!Readable
          = {o \in Slots(Top) : "word" \in DOMAIN View(Top, memory).cells[o]}
    BY <1>4, <1>5 DEF Abstract!Readable
  <2>5. Readable \subseteq Slots(Top)
    BY <2>1 DEF Readable
  <2> QED BY <2>2, <2>3, <2>4, <2>5
<1> QED BY <1>2, <1>3, <1>4, <1>5, <1>6, <1>7 DEF Abstract!Running, Running

\* Where its words stay, a method's activation stays.
LEMMA ViewKept ==
    ASSUME NEW f, NEW m, NEW n,
           \A o \in Slots(f) : n[StackOffset(f.base, o)] = m[StackOffset(f.base, o)]
    PROVE  View(f, n) = View(f, m)
<1>1. \A o \in Slots(f) : CellIn(f, n, o) = CellIn(f, m, o)
  BY DEF CellIn
<1> QED BY <1>1 DEF View

\* An operation of the running method changes its own activation only.
LEMMA TopChanges ==
    ASSUME IInv, Running, TypeOK', UNCHANGED status, NEW f,
           code' = [code EXCEPT ![Len(code)] = f],
           \A w \in 0..(StackTop - 1) :
              w > Top.base + 2 + Top.nparams => memory'[w] = memory[w]
    PROVE  Cells' = [Cells EXCEPT ![Len(Cells)] = View(f, memory')]
<1>1. Len(code) \in Nat /\ Len(code) >= 1
  BY TypeFacts DEF IInv
<1>2. Cells = [k \in 1..Len(code) |-> View(code[k], memory)] /\ Len(Cells) = Len(code)
  BY LiveCells DEF IInv, Running
<1>3. Cells' = [k \in 1..Len(code') |-> View(code'[k], memory')]
  BY LiveCellsNext DEF Running
<1>4. Len(code') = Len(code) /\ \A k \in 1..Len(code) : code'[k] = IF k = Len(code) THEN f ELSE code[k]
  BY <1>1 DEF IInv, TypeOK
<1>5. ASSUME NEW k \in 1..Len(code), k # Len(code)
      PROVE  View(code'[k], memory') = View(code[k], memory)
  <2>1. k < Len(code) /\ code'[k] = code[k]
    <3>1. k < Len(code)
      BY <1>1, <1>5
    <3> QED BY <1>4, <1>5, <3>1
  <2>2. ASSUME NEW o \in Slots(code[k])
        PROVE  memory'[StackOffset(code[k].base, o)] = memory[StackOffset(code[k].base, o)]
    <3>1. /\ StackOffset(code[k].base, o) > Top.base + 2 + Top.nparams
          /\ StackOffset(code[k].base, o) \in 0..(StackTop - 1)
      BY <2>1, SuspendedAbove, SlotAddress DEF IInv
    <3> QED BY <3>1
  <2> QED BY <2>1, <2>2, ViewKept
<1>6. ASSUME NEW k \in 1..Len(code)
      PROVE  View(code'[k], memory') = IF k = Len(code) THEN View(f, memory') ELSE View(code[k], memory)
  <2>1. CASE k = Len(code)
    <3>1. code'[k] = f
      BY <1>4, <2>1
    <3> QED BY <2>1, <3>1
  <2>2. CASE k # Len(code)
    BY <1>5, <2>2
  <2> QED BY <2>1, <2>2
<1> QED BY <1>2, <1>3, <1>4, <1>6

\* The same for the actions of Activations.tla.
LEMMA TopStep ==
    ASSUME IInv, Running, IInv', UNCHANGED status, NEW f,
           code' = [code EXCEPT ![Len(code)] = f],
           \A w \in 0..(StackTop - 1) :
              w > Top.base + 2 + Top.nparams => memory'[w] = memory[w],
           NEW v, v = View(f, memory'),
           UNCHANGED <<thrown, printed, eax>>
    PROVE  /\ Abstract!SetTop(v)
           /\ UNCHANGED <<status, thrown, IF status = "exited" THEN printed ELSE << >>,
                          IF status = "finished" THEN [word |-> eax] ELSE [unassigned |-> TRUE]>>
<1>1. Cells' = [Cells EXCEPT ![Len(Cells)] = v]
  BY TopChanges DEF IInv
<1> QED BY <1>1 DEF Abstract!SetTop

\* dst := word.
LEMMA ViewAssigned ==
    ASSUME NEW f \in Methods, NEW dst \in 0..(f.cur_offset - 1), NEW m, NEW n,
           \A o \in Slots(f) : o # dst =>
              n[StackOffset(f.base, o)] = m[StackOffset(f.base, o)]
    PROVE  View(Assigns(f, dst), n) =
              [View(f, m) EXCEPT !.cells[dst] = [word |-> n[StackOffset(f.base, dst)]]]
<1> DEFINE g == Assigns(f, dst)
           w == [word |-> n[StackOffset(f.base, dst)]]
<1>1. /\ g \in Methods /\ g.base = f.base /\ g.nparams = f.nparams
      /\ g.cur_offset = f.cur_offset /\ g.assigned = f.assigned \union {dst}
      /\ g.site = f.site /\ g.dst = f.dst
  BY AssignsFields
<1>2. g.points = [f.points EXCEPT ![dst] = NoDst]
  BY DEF Assigns, Methods
<1>3. f.points \in [0..(MaxLocals - 1) -> Int] /\ dst \in Slots(f)
  BY MethodFields DEF Slots
<1>4. dst \in 0..(MaxLocals - 1)
  BY MethodFields, Bounds
<1> HIDE DEF g
<1>5. Slots(g) = Slots(f)
  BY <1>1 DEF Slots
<1>6. Pointers(g) = Pointers(f) \ {dst}
  BY <1>2, <1>3, <1>4 DEF Pointers
<1>7. \A o \in Slots(f) : CellIn(g, n, o) = IF o = dst THEN w ELSE CellIn(f, m, o)
  <2>1. CellIn(g, n, dst) = w
    BY <1>1, <1>6 DEF CellIn
  <2>2. ASSUME NEW o \in Slots(f), o # dst
        PROVE  CellIn(g, n, o) = CellIn(f, m, o)
    <3>1. o \in Pointers(f) => g.points[o] = f.points[o]
      BY <1>2, <1>3, <2>2 DEF Pointers
    <3> QED BY <1>1, <1>6, <2>2, <3>1 DEF CellIn
  <2> QED BY <2>1, <2>2
<1> HIDE DEF w
<1>8. View(g, n) = [cells |-> [o \in Slots(f) |-> CellIn(g, n, o)], site |-> f.site, dst |-> f.dst]
  BY <1>1, <1>5 DEF View
<1> DEFINE C == [o \in Slots(f) |-> CellIn(f, m, o)]
<1>9. [o \in Slots(f) |-> CellIn(g, n, o)] = [C EXCEPT ![dst] = w]
  BY <1>7
<1>10. View(f, m) = [cells |-> C, site |-> f.site, dst |-> f.dst]
  BY DEF View
<1> HIDE DEF C
<1>11. View(g, n) = [View(f, m) EXCEPT !.cells[dst] = w]
  BY <1>8, <1>9, <1>10
<1> QED BY <1>11 DEF g, w

\* An operation whose result goes to a temporary.
LEMMA AssignRefines ==
    ASSUME IInv, Running, IInv', NEW dst \in Locals, NEW value \in Int,
           SetTop(Assigns(Top, dst)),
           memory'[StackOffset(Top.base, dst)] = value,
           \A w \in 0..(StackTop - 1) :
              w >= Top.base - Top.cur_offset /\ w # StackOffset(Top.base, dst)
                 => memory'[w] = memory[w],
           UNCHANGED <<status, thrown, printed, eax>>
    PROVE  /\ Abstract!Running /\ dst \in Abstract!Locals
           /\ Abstract!SetTop([Abstract!Top EXCEPT !.cells[dst] = [word |-> value]])
           /\ UNCHANGED <<status, thrown, IF status = "exited" THEN printed ELSE << >>,
                          IF status = "finished" THEN [word |-> eax] ELSE [unassigned |-> TRUE]>>
<1>1. /\ Len(code) \in 1..Len(code) /\ Top = code[Len(code)] /\ Top \in Methods
  BY TypeFacts DEF IInv
<1>2. /\ Top.base \in Int /\ Top.cur_offset \in Nat /\ Top.nparams \in Nat
  BY <1>1, MethodFields
<1>3. dst \in 0..(Top.cur_offset - 1) /\ dst \in Slots(Top)
  BY DEF Locals, Slots
<1>4. ASSUME NEW o \in Slots(Top), o # dst
      PROVE  memory'[StackOffset(Top.base, o)] = memory[StackOffset(Top.base, o)]
  <2>1. StackOffset(Top.base, o) # StackOffset(Top.base, dst)
    BY <1>1, <1>3, <1>4, SlotsOfOneFrame
  <2>2. /\ StackOffset(Top.base, o) \in 0..(StackTop - 1)
        /\ StackOffset(Top.base, o) >= Top.base - Top.cur_offset
    BY <1>1, SlotAddress, SlotRange DEF IInv
  <2> QED BY <2>1, <2>2
<1>5. View(Assigns(Top, dst), memory') = [View(Top, memory) EXCEPT !.cells[dst] = [word |-> value]]
  BY <1>1, <1>3, <1>4, ViewAssigned
<1>6. ASSUME NEW w \in 0..(StackTop - 1), w > Top.base + 2 + Top.nparams
      PROVE  memory'[w] = memory[w]
  <2>1. w \in Int
    BY Bounds
  <2>2. StackOffset(Top.base, dst) < Top.base /\ StackOffset(Top.base, dst) \in Int
    BY <1>2, <1>3 DEF StackOffset
  <2>3. w >= Top.base - Top.cur_offset /\ w # StackOffset(Top.base, dst)
    BY <1>2, <1>6, <2>1, <2>2
  <2> QED BY <2>3
<1>7. code' = [code EXCEPT ![Len(code)] = Assigns(Top, dst)]
  BY DEF SetTop
<1>8. /\ Abstract!Top = View(Top, memory) /\ Abstract!Locals = Locals /\ Abstract!Running
  BY TopActivation
<1> QED BY <1>5, <1>6, <1>7, <1>8, TopStep

LEMMA ConstRefines ==
    ASSUME IInv, IInv', NEW dst \in Locals, NEW value \in Values, Const(dst, value)
    PROVE  Abstract!Write(dst, value)
<1>1. dst \in Slots(Top) /\ Running
  BY DEF Locals, Slots, Const
<1>2. Addr(dst) = StackOffset(Top.base, dst) /\ Addr(dst) \in 0..(StackTop - 1)
  BY <1>1, LocalAddress
<1>3. memory' = [memory EXCEPT ![StackOffset(Top.base, dst)] = value] /\ value \in Int
  BY <1>2, StackAssumption DEF Const
<1>4. /\ memory'[StackOffset(Top.base, dst)] = value
      /\ \A w \in 0..(StackTop - 1) : w # StackOffset(Top.base, dst) => memory'[w] = memory[w]
  BY <1>2, <1>3 DEF IInv, TypeOK
<1> QED BY <1>1, <1>3, <1>4, AssignRefines DEF Const, Abstract!Write, Abstract!Word

LEMMA ExternalCallRefines ==
    ASSUME IInv, IInv', NEW dst \in Locals, NEW value \in Values, ExternalCall(dst, value)
    PROVE  Abstract!Write(dst, value)
<1>1. dst \in Slots(Top) /\ Running
  BY DEF Locals, Slots, ExternalCall
<1>2. Addr(dst) = StackOffset(Top.base, dst) /\ Addr(dst) \in 0..(StackTop - 1)
  BY <1>1, LocalAddress
<1>3. /\ Top.base \in Int /\ Top.cur_offset \in Nat /\ esp = Top.base
  BY <1>1, TypeFacts, MethodFields DEF IInv, FramesLinked
<1> DEFINE lowered == Top.base - Top.cur_offset
           m == Scratched(memory, lowered)
<1>4. memory' = [m EXCEPT ![StackOffset(Top.base, dst)] = value] /\ value \in Int
  BY <1>2, <1>3, StackAssumption DEF ExternalCall
<1>5. /\ m \in [0..(StackTop - 1) -> Int]
      /\ \A w \in 0..(StackTop - 1) : w >= lowered => m[w] = memory[w]
  <2>1. lowered \in Int /\ memory \in [0..(StackTop - 1) -> Int]
    BY <1>3 DEF IInv, TypeOK
  <2> QED BY <2>1, ScratchedWords
<1> HIDE DEF m
<1>6. /\ memory'[StackOffset(Top.base, dst)] = value
      /\ \A w \in 0..(StackTop - 1) :
            w >= lowered /\ w # StackOffset(Top.base, dst) => memory'[w] = memory[w]
  BY <1>2, <1>4, <1>5
<1> QED BY <1>1, <1>4, <1>6, AssignRefines DEF ExternalCall, Abstract!Write, Abstract!Word

\* The word an operand names is the one in its slot.
LEMMA OperandWord ==
    ASSUME IInv, Running, NEW src \in Readable
    PROVE  Abstract!Top.cells[src] = [word |-> Load(src)]
<1>1. src \in Slots(Top) /\ src \in Top.assigned /\ src \notin Pointers(Top)
  BY ReadableWord DEF Readable
<1>2. Addr(src) = StackOffset(Top.base, src)
  BY <1>1, LocalAddress
<1>3. Abstract!Top = View(Top, memory)
  BY TopActivation
<1> QED BY <1>1, <1>2, <1>3 DEF View, CellIn, Load

LEMMA MovRefines ==
    ASSUME IInv, IInv', NEW dst \in Locals, NEW src \in Readable, Mov(dst, src)
    PROVE  Abstract!Copy(dst, src)
<1>1. dst \in Slots(Top) /\ Running
  BY DEF Locals, Slots, Mov
<1>2. Addr(dst) = StackOffset(Top.base, dst) /\ Addr(dst) \in 0..(StackTop - 1)
  BY <1>1, LocalAddress
<1>3. memory' = [memory EXCEPT ![StackOffset(Top.base, dst)] = Load(src)] /\ Load(src) \in Int
  BY <1>1, <1>2, ReadableWord DEF Mov
<1>4. /\ memory'[StackOffset(Top.base, dst)] = Load(src)
      /\ \A w \in 0..(StackTop - 1) : w # StackOffset(Top.base, dst) => memory'[w] = memory[w]
  BY <1>2, <1>3 DEF IInv, TypeOK
<1>5. Abstract!Top.cells[src] = [word |-> Load(src)] /\ src \in Abstract!Readable
  BY <1>1, OperandWord, TopActivation
<1>6. SetTop(Assigns(Top, dst)) /\ UNCHANGED <<status, thrown, printed, eax>>
  BY DEF Mov
<1> QED BY <1>1, <1>3, <1>4, <1>5, <1>6, AssignRefines DEF Abstract!Copy

LEMMA MovAddrRefines ==
    ASSUME IInv, IInv', NEW dst \in Locals, NEW src \in Readable, MovAddr(dst, src)
    PROVE  Abstract!TakeAddress(dst, src)
<1>1. /\ Len(code) \in 1..Len(code) /\ Top = code[Len(code)] /\ Top \in Methods
  BY TypeFacts DEF IInv
<1>2. /\ Top.base \in Int /\ Top.cur_offset \in Nat /\ Top.nparams \in Nat
      /\ Top.cur_offset <= MaxLocals /\ Top.points \in [0..(MaxLocals - 1) -> Int]
  BY <1>1, MethodFields
<1>3. dst \in Slots(Top) /\ Running /\ dst \in Int /\ dst >= 0 /\ dst \in 0..(MaxLocals - 1)
  BY <1>2, Bounds DEF Locals, Slots, MovAddr
<1>4. src \in Slots(Top) /\ src \in Int /\ src # NoDst
  <2>1. src \in Slots(Top)
    BY <1>3, ReadableWord
  <2> QED BY <1>1, <2>1, SlotOffsets DEF NoDst
<1>5. Addr(dst) = StackOffset(Top.base, dst) /\ Addr(dst) \in 0..(StackTop - 1)
  BY <1>3, LocalAddress
<1>6. \A w \in 0..(StackTop - 1) :
         w # StackOffset(Top.base, dst) => memory'[w] = memory[w]
  BY <1>5 DEF MovAddr, IInv, TypeOK
<1> DEFINE A == Top.assigned \union {dst}
           P == [Top.points EXCEPT ![dst] = src]
           f == With(Top, Top.cur_offset, A, P)
<1>7. [Top EXCEPT !.assigned = @ \union {dst}, !.points[dst] = src] = f
  BY <1>1 DEF With, Methods
<1>8. /\ f.nparams = Top.nparams /\ f.cur_offset = Top.cur_offset /\ f.base = Top.base
      /\ f.assigned = A /\ f.points = P /\ f.site = Top.site /\ f.dst = Top.dst
  BY <1>1, WithFields
<1>9. SetTop(f) /\ UNCHANGED <<status, thrown, printed, eax>>
  BY <1>7 DEF MovAddr
<1> HIDE DEF f
<1>10. Slots(f) = Slots(Top) /\ Pointers(f) = Pointers(Top) \union {dst}
  BY <1>2, <1>3, <1>4, <1>8 DEF Slots, Pointers
<1>11. ASSUME NEW o \in Slots(Top)
       PROVE  CellIn(f, memory', o) = IF o = dst THEN [to |-> src] ELSE CellIn(Top, memory, o)
  <2>1. CASE o = dst
    <3>1. dst \in f.assigned /\ dst \in Pointers(f) /\ f.points[dst] = src
      BY <1>2, <1>3, <1>8, <1>10
    <3> QED BY <2>1, <3>1 DEF CellIn
  <2>2. CASE o # dst
    <3>1. /\ StackOffset(Top.base, o) # StackOffset(Top.base, dst)
          /\ StackOffset(Top.base, o) \in 0..(StackTop - 1)
      BY <1>1, <1>3, <2>2, SlotsOfOneFrame, SlotAddress DEF IInv
    <3>2. memory'[StackOffset(Top.base, o)] = memory[StackOffset(Top.base, o)]
      BY <1>6, <3>1
    <3>3. /\ o \in f.assigned <=> o \in Top.assigned
          /\ o \in Pointers(f) <=> o \in Pointers(Top)
      BY <1>8, <1>10, <2>2
    <3>4. o \in Pointers(Top) => f.points[o] = Top.points[o]
      BY <1>2, <1>8, <2>2 DEF Pointers
    <3> QED BY <1>8, <2>2, <3>2, <3>3, <3>4 DEF CellIn
  <2> QED BY <2>1, <2>2
<1> DEFINE C == [o \in Slots(Top) |-> CellIn(Top, memory, o)]
<1>12. [o \in Slots(f) |-> CellIn(f, memory', o)] = [C EXCEPT ![dst] = [to |-> src]]
  BY <1>10, <1>11
<1>13. View(Top, memory) = [cells |-> C, site |-> Top.site, dst |-> Top.dst]
  BY DEF View
<1>14. View(f, memory')
          = [cells |-> [C EXCEPT ![dst] = [to |-> src]], site |-> Top.site, dst |-> Top.dst]
  BY <1>8, <1>12 DEF View
<1> HIDE DEF C, A, P
<1>15. View(f, memory') = [View(Top, memory) EXCEPT !.cells[dst] = [to |-> src]]
  BY <1>13, <1>14
<1>16. ASSUME NEW w \in 0..(StackTop - 1), w > Top.base + 2 + Top.nparams
       PROVE  memory'[w] = memory[w]
  <2>1. w \in Int
    BY Bounds
  <2>2. StackOffset(Top.base, dst) < Top.base /\ StackOffset(Top.base, dst) \in Int
    BY <1>2, <1>3 DEF StackOffset
  <2>3. w # StackOffset(Top.base, dst)
    BY <1>2, <1>16, <2>1, <2>2
  <2> QED BY <1>6, <2>3
<1>17. code' = [code EXCEPT ![Len(code)] = f]
  BY <1>9 DEF SetTop
<1>18. /\ Abstract!Top = View(Top, memory) /\ Abstract!Locals = Locals
       /\ Abstract!Readable = Readable /\ Abstract!Running
  BY <1>3, TopActivation
<1> QED BY <1>3, <1>9, <1>15, <1>16, <1>17, <1>18, TopStep
         DEF Abstract!TakeAddress, Abstract!AddressOf

LEMMA MovToAddrRefines ==
    ASSUME IInv, IInv', NEW dst \in Locals, NEW src \in Readable, MovToAddr(dst, src)
    PROVE  Abstract!Assign(dst, src)
<1>1. /\ Len(code) \in 1..Len(code) /\ Top = code[Len(code)] /\ Top \in Methods
  BY TypeFacts DEF IInv
<1>2. /\ Top.base \in Int /\ Top.cur_offset \in Nat /\ Top.nparams \in Nat
  BY <1>1, MethodFields
<1>3. Running /\ dst \in Pointers(Top) /\ Load(src) \in Int
  BY ReadableWord DEF MovToAddr
<1> DEFINE target == Top.points[dst]
           a == StackOffset(Top.base, target)
<1>4. /\ target \in Top.assigned \ Pointers(Top) /\ dst \in Slots(Top)
      /\ dst \in Top.assigned /\ memory[StackOffset(Top.base, dst)] = a
  BY <1>1, <1>3 DEF IInv, AddressesHold, Addresses, Slots
<1>5. target \in Slots(Top)
  BY <1>1, <1>4 DEF IInv, TypeOK
<1>6. Load(dst) = a
  BY <1>3, <1>4, LocalAddress DEF Load
<1>7. memory' = [memory EXCEPT ![a] = Load(src)] /\ a \in 0..(StackTop - 1)
  BY <1>1, <1>5, <1>6, SlotAddress DEF MovToAddr, IInv
<1>8. /\ a \in Int /\ a <= Top.base + 2 + Top.nparams
  BY <1>1, <1>5, SlotRange
<1>9. View(Top, memory).cells[dst] = [to |-> target]
  BY <1>3, <1>4 DEF View, CellIn
<1> HIDE DEF target
<1>10. ASSUME NEW o \in Slots(Top)
       PROVE  CellIn(Top, memory', o) = IF o = target THEN [word |-> Load(src)]
                                        ELSE CellIn(Top, memory, o)
  <2>1. CASE o = target
    <3>1. memory'[a] = Load(src)
      BY <1>7 DEF IInv, TypeOK
    <3> QED BY <1>4, <2>1, <3>1 DEF CellIn
  <2>2. CASE o # target
    <3>1. StackOffset(Top.base, o) # a /\ StackOffset(Top.base, o) \in 0..(StackTop - 1)
      BY <1>1, <1>5, <2>2, SlotsOfOneFrame, SlotAddress DEF IInv
    <3>2. memory'[StackOffset(Top.base, o)] = memory[StackOffset(Top.base, o)]
      BY <1>7, <3>1 DEF IInv, TypeOK
    <3> QED BY <2>2, <3>2 DEF CellIn
  <2> QED BY <2>1, <2>2
<1> DEFINE C == [o \in Slots(Top) |-> CellIn(Top, memory, o)]
<1>11. [o \in Slots(Top) |-> CellIn(Top, memory', o)] = [C EXCEPT ![target] = [word |-> Load(src)]]
  BY <1>10
<1>12. View(Top, memory) = [cells |-> C, site |-> Top.site, dst |-> Top.dst]
  BY DEF View
<1>13. View(Top, memory')
          = [cells |-> [C EXCEPT ![target] = [word |-> Load(src)]],
             site |-> Top.site, dst |-> Top.dst]
  BY <1>11 DEF View
<1> HIDE DEF C
<1>14. View(Top, memory') = [View(Top, memory) EXCEPT !.cells[target] = [word |-> Load(src)]]
  BY <1>12, <1>13
<1>15. ASSUME NEW w \in 0..(StackTop - 1), w > Top.base + 2 + Top.nparams
       PROVE  memory'[w] = memory[w]
  <2> HIDE DEF a
  <2>1. w # a
    BY <1>2, <1>8, <1>15, Bounds
  <2> QED BY <1>7, <2>1 DEF IInv, TypeOK
<1>16. code' = [code EXCEPT ![Len(code)] = Top]
  BY <1>1 DEF MovToAddr, IInv, TypeOK
<1>17. /\ Abstract!Top = View(Top, memory) /\ Abstract!Locals = Locals
       /\ Abstract!Readable = Readable /\ Abstract!Running
       /\ Abstract!Top.cells[src] = [word |-> Load(src)]
  BY <1>3, TopActivation, OperandWord
<1>18. UNCHANGED <<status, thrown, printed, eax>>
  BY DEF MovToAddr
<1>19. /\ "to" \in DOMAIN Abstract!Top.cells[dst] /\ Abstract!Top.cells[dst].to = target
  BY <1>9, <1>17
<1>20. View(Top, memory')
          = [Abstract!Top EXCEPT !.cells[Abstract!Top.cells[dst].to] = Abstract!Top.cells[src]]
  BY <1>14, <1>17, <1>19
<1> QED BY <1>3, <1>15, <1>16, <1>17, <1>18, <1>19, <1>20, TopStep DEF Abstract!Assign

LEMMA DepthIs ==
    ASSUME NEW f \in Methods, NEW m
    PROVE  Abstract!Depth(View(f, m)) = f.cur_offset
<1>1. f.cur_offset \in Nat /\ f.nparams \in Nat
  BY MethodFields
<1>2. DOMAIN View(f, m).cells = Slots(f)
  BY DEF View
<1>3. {o \in Slots(f) : o >= 0} = 0..(f.cur_offset - 1)
  BY <1>1 DEF Slots, ParamOffset
<1>4. Cardinality(0..(f.cur_offset - 1)) = f.cur_offset
  BY <1>1, FS_Interval
<1>5. Abstract!Cardinality(0..(f.cur_offset - 1)) = Cardinality(0..(f.cur_offset - 1))
  BY DEF Cardinality, Abstract!Cardinality
<1> QED BY <1>2, <1>3, <1>4, <1>5 DEF Abstract!Depth

LEMMA AllocRefines == ASSUME IInv, IInv', AllocMem PROVE Abstract!AllocMem
<1>1. /\ Len(code) \in 1..Len(code) /\ Top = code[Len(code)] /\ Top \in Methods
  BY TypeFacts DEF IInv
<1>2. /\ Top.cur_offset \in Nat /\ Top.nparams \in Nat /\ Top.cur_offset < MaxLocals /\ Running
      /\ memory' = memory
  BY <1>1, MethodFields DEF AllocMem
<1> DEFINE c == Top.cur_offset + 1
           f == With(Top, c, Top.assigned, Top.points)
<1>3. [Top EXCEPT !.cur_offset = @ + 1] = f
  BY <1>1 DEF With, Methods
<1>4. /\ f.nparams = Top.nparams /\ f.cur_offset = c /\ f.base = Top.base
      /\ f.assigned = Top.assigned /\ f.points = Top.points
      /\ f.site = Top.site /\ f.dst = Top.dst
  BY <1>1, WithFields
<1>5. Slots(f) = Slots(Top) \union {Top.cur_offset} /\ Top.cur_offset \notin Slots(Top)
  BY <1>2, <1>4 DEF Slots, ParamOffset
<1>6. code' = [code EXCEPT ![Len(code)] = f] /\ UNCHANGED <<status, thrown, printed, eax>>
  BY <1>3 DEF AllocMem, SetTop
<1> HIDE DEF f
<1>7. Top.cur_offset \notin f.assigned
  BY <1>1, <1>4, <1>5 DEF IInv, TypeOK
<1>8. ASSUME NEW o \in Slots(f)
      PROVE  CellIn(f, memory', o) = IF o = Top.cur_offset THEN [unassigned |-> TRUE]
                                     ELSE View(Top, memory).cells[o]
  <2>1. CASE o = Top.cur_offset
    BY <1>7, <2>1 DEF CellIn
  <2>2. CASE o # Top.cur_offset
    BY <1>2, <1>4, <1>5, <2>2 DEF View, CellIn, Pointers
  <2> QED BY <2>1, <2>2
<1>9. Abstract!Depth(View(Top, memory)) = Top.cur_offset
  BY <1>1, DepthIs
<1>10. /\ Abstract!Top = View(Top, memory) /\ Abstract!Running
       /\ DOMAIN View(Top, memory).cells = Slots(Top)
  BY <1>2, TopActivation
<1> DEFINE C == [o \in Slots(Top) \union {Top.cur_offset} |->
                   IF o = Top.cur_offset THEN [unassigned |-> TRUE]
                   ELSE View(Top, memory).cells[o]]
<1>11. View(f, memory') = [cells |-> C, site |-> Top.site, dst |-> Top.dst]
  BY <1>4, <1>5, <1>8 DEF View
<1> HIDE DEF C
<1> DEFINE D == [o \in Slots(Top) |-> CellIn(Top, memory, o)]
<1>11a. View(Top, memory) = [cells |-> D, site |-> Top.site, dst |-> Top.dst]
  BY DEF View
<1> HIDE DEF D
<1>12. View(f, memory') = [View(Top, memory) EXCEPT !.cells = C]
  BY <1>11, <1>11a
<1>13. Abstract!SetTop([View(Top, memory) EXCEPT !.cells = C])
  BY <1>2, <1>6, <1>12, TopStep
<1>14. UNCHANGED <<status, thrown, IF status = "exited" THEN printed ELSE << >>,
                   IF status = "finished" THEN [word |-> eax] ELSE [unassigned |-> TRUE]>>
  BY <1>6
<1> QED BY <1>2, <1>9, <1>10, <1>13, <1>14 DEF Abstract!AllocMem, Abstract!Unassigned, C

LEMMA DeallocRefines == ASSUME IInv, IInv', DeallocMem PROVE Abstract!DeallocMem
<1>1. /\ Len(code) \in 1..Len(code) /\ Top = code[Len(code)] /\ Top \in Methods
  BY TypeFacts DEF IInv
<1> DEFINE last == Top.cur_offset - 1
           P == [Top.points EXCEPT ![last] = NoDst]
           f == With(Top, last, Top.assigned \ {last}, P)
<1>2. /\ Top.base \in Int /\ Top.cur_offset \in Nat /\ Top.nparams \in Nat
      /\ Top.points \in [0..(MaxLocals - 1) -> Int] /\ Running
  BY <1>1, MethodFields DEF DeallocMem
<1>3. last \in Slots(Top)
  BY <1>1 DEF DeallocMem, IInv, TypeOK
<1>4. last \in Int /\ last >= 0
  BY <1>1, <1>2, <1>3, SlotOffsets
<1>5. /\ f.nparams = Top.nparams /\ f.cur_offset = last /\ f.base = Top.base
      /\ f.assigned = Top.assigned \ {last} /\ f.points = P
      /\ f.site = Top.site /\ f.dst = Top.dst
  BY <1>1, WithFields
<1>6. code' = [code EXCEPT ![Len(code)] = f] /\ UNCHANGED <<status, thrown, printed, eax>>
  BY DEF DeallocMem, SetTop, With
<1> HIDE DEF f
<1>7. Slots(f) = Slots(Top) \ {last}
  BY <1>2, <1>4, <1>5 DEF Slots, ParamOffset
<1> DEFINE a == StackOffset(Top.base, last)
<1>8. memory' = [memory EXCEPT ![a] = Junk] /\ a \in Int /\ a < Top.base
  <2>1. Addr(last) = a
    BY <1>2, <1>3, LocalAddress
  <2>2. a \in Int /\ a < Top.base
    BY <1>2, <1>4 DEF StackOffset
  <2> QED BY <2>1, <2>2 DEF DeallocMem
<1>9. ASSUME NEW o \in Slots(f)
      PROVE  CellIn(f, memory', o) = View(Top, memory).cells[o]
  <2>1. o \in Slots(Top) /\ o # last
    BY <1>7
  <2>2. StackOffset(Top.base, o) # a /\ StackOffset(Top.base, o) \in 0..(StackTop - 1)
    BY <1>1, <1>3, <2>1, SlotsOfOneFrame, SlotAddress DEF IInv
  <2>3. memory'[StackOffset(Top.base, o)] = memory[StackOffset(Top.base, o)]
    BY <1>8, <2>2 DEF IInv, TypeOK
  <2>4. /\ o \in f.assigned <=> o \in Top.assigned
        /\ o \in Pointers(f) <=> o \in Pointers(Top)
        /\ o \in Pointers(Top) => f.points[o] = Top.points[o]
    BY <1>2, <1>5, <2>1 DEF Pointers
  <2>5. CellIn(f, memory', o) = CellIn(Top, memory, o)
    BY <1>5, <2>3, <2>4 DEF CellIn
  <2> QED BY <2>1, <2>5 DEF View
<1>10. Abstract!Depth(View(Top, memory)) = Top.cur_offset
  BY <1>1, DepthIs
<1>11. /\ Abstract!Top = View(Top, memory) /\ Abstract!Running
       /\ DOMAIN View(Top, memory).cells = Slots(Top)
  BY <1>2, TopActivation
<1> DEFINE C == [o \in Slots(Top) \ {last} |-> View(Top, memory).cells[o]]
<1>12. View(f, memory') = [cells |-> C, site |-> Top.site, dst |-> Top.dst]
  BY <1>5, <1>7, <1>9 DEF View
<1> HIDE DEF C
<1> DEFINE D == [o \in Slots(Top) |-> CellIn(Top, memory, o)]
<1>12a. View(Top, memory) = [cells |-> D, site |-> Top.site, dst |-> Top.dst]
  BY DEF View
<1> HIDE DEF D
<1>13. View(f, memory') = [View(Top, memory) EXCEPT !.cells = C]
  BY <1>12, <1>12a
<1>14. ASSUME NEW w \in 0..(StackTop - 1), w > Top.base + 2 + Top.nparams
       PROVE  memory'[w] = memory[w]
  <2> HIDE DEF a
  <2>1. w # a
    BY <1>2, <1>8, <1>14, Bounds
  <2> QED BY <1>8, <2>1 DEF IInv, TypeOK
<1>15. Abstract!SetTop([View(Top, memory) EXCEPT !.cells = C])
  BY <1>2, <1>6, <1>13, <1>14, TopStep
<1>16. UNCHANGED <<status, thrown, IF status = "exited" THEN printed ELSE << >>,
                   IF status = "finished" THEN [word |-> eax] ELSE [unassigned |-> TRUE]>>
  BY <1>6
<1>17. Top.cur_offset > 0
  BY <1>2, <1>4
<1> QED BY <1>10, <1>11, <1>15, <1>16, <1>17 DEF Abstract!DeallocMem, C

LEMMA AppendIs ==
    ASSUME NEW n \in Nat, NEW s, s = [k \in 1..n |-> s[k]], NEW e
    PROVE  Append(s, e) = [k \in 1..(n + 1) |-> IF k = n + 1 THEN e ELSE s[k]]
<1> DEFINE S == {s[k] : k \in 1..n} \union {e}
<1>1. s \in [1..n -> S] /\ e \in S
  OBVIOUS
<1> HIDE DEF S
<1>2. s \in Seq(S) /\ Len(s) = n
  BY <1>1
<1>3. /\ Append(s, e) \in Seq(S) /\ Len(Append(s, e)) = n + 1
      /\ \A k \in 1..n : Append(s, e)[k] = s[k]
      /\ Append(s, e)[n + 1] = e
  BY <1>1, <1>2, AppendProperties
<1>4. Append(s, e) = [k \in 1..(n + 1) |-> Append(s, e)[k]]
  BY <1>3
<1>5. \A k \in 1..(n + 1) : Append(s, e)[k] = IF k = n + 1 THEN e ELSE s[k]
  BY <1>3
<1> QED BY <1>4, <1>5

\* Each argument is where the callee looks for its parameter.
LEMMA CallArguments ==
    ASSUME IInv, Running, NEW n \in Nat, NEW args \in [1..n -> Readable], NEW site \in Int,
           Top.base - (Top.cur_offset + n) - 3 >= Reserve, NEW i \in 1..n
    PROVE  CallFrame(args, site)[Top.base - (Top.cur_offset + n) - 3 + 2 + i] = Load(args[i])
<1>1. Len(args) = n /\ DOMAIN args = 1..n
  OBVIOUS
<1>2. /\ Len(code) \in 1..Len(code) /\ Top = code[Len(code)] /\ Top \in Methods
  BY TypeFacts DEF IInv
<1>3. /\ Top.base \in Int /\ Top.cur_offset \in Nat /\ Top.base < StackTop
  BY <1>2, MethodFields
<1>4. esp = Top.base /\ ebp = Top.base /\ memory \in [0..(StackTop - 1) -> Int]
  BY DEF IInv, TypeOK, FramesLinked
<1> DEFINE nb == Top.base - (Top.cur_offset + n) - 3
           copied == [w \in 0..(StackTop - 1) |->
                        IF \E j \in 1..n : w = ArgAddress(n, j)
                        THEN Load(args[CHOOSE j \in 1..n : w = ArgAddress(n, j)])
                        ELSE memory[w]]
<1>5. ASSUME NEW j \in 1..n
      PROVE  ArgAddress(n, j) = nb + 2 + j
  BY SMTT(30), <1>3, <1>4 DEF ArgAddress, Addr, StackOffset
<1>6. /\ nb \in 0..(StackTop - 1) /\ nb + 1 \in 0..(StackTop - 1) /\ nb + 2 \in 0..(StackTop - 1)
      /\ nb + 2 + i \in 0..(StackTop - 1)
  <2>1. nb \in Int /\ nb >= 3 /\ nb + 3 + n <= StackTop - 1
    BY SMTT(30), <1>3, Bounds
  <2> HIDE DEF nb
  <2> QED BY <2>1, Bounds
<1>7. copied[nb + 2 + i] = Load(args[i])
  <2>1. \E j \in 1..n : nb + 2 + i = ArgAddress(n, j)
    BY <1>5
  <2> DEFINE c == CHOOSE j \in 1..n : nb + 2 + i = ArgAddress(n, j)
  <2>2. c \in 1..n /\ nb + 2 + i = ArgAddress(n, c)
    BY <2>1
  <2> HIDE DEF c
  <2>3. nb + 2 + i = nb + 2 + c
    BY <1>5, <2>2
  <2> HIDE DEF nb
  <2>4. c = i
    BY <1>6, <2>2, <2>3
  <2> QED BY <1>6, <2>1, <2>4 DEF c
<1>8. CallFrame(args, site) = [copied EXCEPT ![nb + 2] = site, ![nb + 1] = Junk, ![nb] = Top.base]
  <2>1. /\ esp - (Top.cur_offset + Len(args)) - 1 = nb + 2
        /\ esp - (Top.cur_offset + Len(args)) - 2 = nb + 1
        /\ esp - (Top.cur_offset + Len(args)) - 3 = nb
    BY <1>1, <1>3, <1>4
  <2>2. DOMAIN memory = 0..(StackTop - 1)
    BY <1>4
  <2> HIDE DEF nb
  <2> QED BY <1>1, <1>4, <2>1, <2>2 DEF CallFrame, copied
<1>9. DOMAIN copied = 0..(StackTop - 1)
  OBVIOUS
<1> HIDE DEF copied
<1>10. nb + 2 + i # nb + 2 /\ nb + 2 + i # nb + 1 /\ nb + 2 + i # nb
  <2> HIDE DEF nb
  <2> QED BY <1>6
<1>11. CallFrame(args, site)[nb + 2 + i] = Load(args[i])
  <2> HIDE DEF nb
  <2> QED BY <1>6, <1>7, <1>8, <1>9, <1>10
<1> QED BY <1>11

LEMMA CallRefines ==
    ASSUME IInv, IInv', NEW n \in 0..MaxParams, NEW args \in [1..n -> Readable],
           NEW site \in Sites \union {NoSite}, NEW dst \in Locals \union {NoDst},
           Call(args, site, dst)
    PROVE  Abstract!Call(args, site, dst)
<1>1. /\ Len(code) \in Nat /\ Len(code) >= 1 /\ Top = code[Len(code)] /\ Top \in Methods
      /\ Len(code) \in 1..Len(code)
  BY TypeFacts DEF IInv
<1>2. /\ Top.base \in Int /\ Top.cur_offset \in Nat /\ Top.nparams \in Nat
  BY <1>1, MethodFields
<1>3. n \in Nat /\ site \in Int /\ Running /\ esp = Top.base /\ Len(args) = n
  BY StackAssumption DEF Call, IInv, FramesLinked
<1> DEFINE L == Len(code)
           used == Top.cur_offset + n
           nb == Top.base - used - 3
           f == [Top EXCEPT !.dst = dst, !.stack_used = used]
           g == Method(nb, n, site)
<1>4. /\ nb >= Reserve /\ L < MaxFrames
      /\ memory' = CallFrame(args, site)
      /\ code' = Append([code EXCEPT ![L] = f], g)
      /\ UNCHANGED <<status, eax, thrown, printed>>
  BY <1>1, <1>3 DEF Call
<1>5. /\ \A w \in 0..(StackTop - 1) :
            w >= Top.base - Top.cur_offset => memory'[w] = memory[w]
      /\ \A i \in 1..n : memory'[nb + 2 + i] = Load(args[i])
  <2>1. Top.base - (Top.cur_offset + n) - 3 >= Reserve
    BY <1>4
  <2>2. \A w \in 0..(StackTop - 1) :
           w >= Top.base - Top.cur_offset => CallFrame(args, site)[w] = memory[w]
    BY <1>3, <2>1, CallFrameWords
  <2>3. \A i \in 1..n : CallFrame(args, site)[nb + 2 + i] = Load(args[i])
    BY <1>3, <2>1, CallArguments
  <2> QED BY <1>4, <2>2, <2>3
<1>6. /\ f.base = Top.base /\ f.nparams = Top.nparams
      /\ f.cur_offset = Top.cur_offset /\ f.assigned = Top.assigned
      /\ f.points = Top.points /\ f.site = Top.site /\ f.dst = dst
  BY <1>1 DEF Methods
<1>7. /\ g.base = nb /\ g.nparams = n /\ g.cur_offset = 0
      /\ g.assigned = {ParamOffset(i) : i \in 1..n} /\ g.site = site
      /\ g.dst = NoDst /\ Pointers(g) = {}
  BY DEF Method, Pointers
<1>8. nb \in Int
  BY <1>2, <1>3
<1> HIDE DEF f, g, nb, used
<1>9. /\ Len(code') = L + 1 /\ L \in Nat
      /\ \A k \in 1..(L + 1) :
            code'[k] = IF k = L + 1 THEN g ELSE IF k = L THEN f ELSE code[k]
  <2> DEFINE s == [code EXCEPT ![L] = f]
  <2>1. /\ s = [k \in 1..L |-> s[k]] /\ \A k \in 1..L : s[k] = IF k = L THEN f ELSE code[k]
    <3>1. DOMAIN code = 1..L
      BY LenProperties DEF IInv, TypeOK
    <3> QED BY <3>1
  <2> HIDE DEF s
  <2>2. code' = [k \in 1..(L + 1) |-> IF k = L + 1 THEN g ELSE s[k]]
    <3>1. code' = Append(s, g)
      BY <1>4 DEF s
    <3> QED BY <1>1, <2>1, <3>1, AppendIs
  <2>3. Len(code') = L + 1
    <3>1. code' = [k \in 1..(L + 1) |-> code'[k]]
      BY <2>2
    <3> QED BY <1>1, <3>1, EmptyConcat
  <2>4. ASSUME NEW k \in 1..(L + 1)
        PROVE  code'[k] = IF k = L + 1 THEN g ELSE IF k = L THEN f ELSE code[k]
    <3>1. k = L + 1 \/ k \in 1..L
      BY <1>1
    <3> QED BY <2>1, <2>2, <3>1
  <2> QED BY <1>1, <2>3, <2>4
<1>10. ASSUME NEW k \in 1..L
       PROVE  View(code[k], memory') = View(code[k], memory)
  <2>1. code[k] \in Methods /\ code[k].base - code[k].cur_offset >= Top.base - Top.cur_offset
    BY TypeFacts, LowestTemporaries DEF IInv
  <2>2. ASSUME NEW o \in Slots(code[k])
        PROVE  memory'[StackOffset(code[k].base, o)] = memory[StackOffset(code[k].base, o)]
    <3> DEFINE a == StackOffset(code[k].base, o)
               low == code[k].base - code[k].cur_offset
    <3>1. a \in Int /\ a >= low /\ a \in 0..(StackTop - 1) /\ low \in Int
      <4>1. a \in Int /\ a >= low
        BY <2>1, SlotRange
      <4>2. a \in 0..(StackTop - 1)
        BY SlotAddress DEF IInv
      <4>3. low \in Int
        BY <2>1, MethodFields
      <4> QED BY <4>1, <4>2, <4>3
    <3>2. low >= Top.base - Top.cur_offset
      BY <2>1
    <3> HIDE DEF a, low
    <3>3. a >= Top.base - Top.cur_offset
      BY <1>2, <3>1, <3>2
    <3>4. memory'[a] = memory[a]
      BY <1>5, <3>1, <3>3
    <3> QED BY <3>4 DEF a
  <2> QED BY <2>2, ViewKept
<1>11. /\ Cells = [k \in 1..L |-> View(code[k], memory)] /\ Len(Cells) = L
       /\ Cells' = [k \in 1..(L + 1) |-> View(code'[k], memory')]
  BY <1>3, <1>4, <1>9, LiveCells, LiveCellsNext DEF IInv, Running
<1>12. View(f, memory') = [View(Top, memory) EXCEPT !.dst = dst]
  <2>1. View(Top, memory') = View(Top, memory)
    BY <1>1, <1>10
  <2>2. Slots(f) = Slots(Top) /\ Pointers(f) = Pointers(Top)
    BY <1>6 DEF Slots, Pointers
  <2> DEFINE C == [o \in Slots(Top) |-> CellIn(Top, memory', o)]
  <2>3. \A o \in Slots(Top) : CellIn(f, memory', o) = CellIn(Top, memory', o)
    BY <1>6, <2>2 DEF CellIn
  <2>4. View(f, memory') = [cells |-> C, site |-> Top.site, dst |-> dst]
    BY <1>6, <2>2, <2>3 DEF View
  <2>5. View(Top, memory') = [cells |-> C, site |-> Top.site, dst |-> Top.dst]
    BY DEF View
  <2> HIDE DEF C
  <2> QED BY <2>1, <2>4, <2>5
<1> DEFINE words == [i \in DOMAIN args |-> Abstract!Top.cells[args[i]]]
<1>13. View(g, memory') = Abstract!Activation(words, site, Abstract!NoDst)
  <2>1. words = [i \in 1..n |-> [word |-> Load(args[i])]]
    BY <1>3, OperandWord
  <2>2. Len(words) = n
    <3>1. words = [i \in 1..n |-> words[i]]
      BY <2>1
    <3> HIDE DEF words
    <3> QED BY <1>3, <3>1, EmptyConcat
  <2>3. Slots(g) = {-2 - i : i \in 1..n}
    <3>1. 0..(0 - 1) = {}
      OBVIOUS
    <3> QED BY <1>7, <3>1 DEF Slots, ParamOffset
  <2>4. ASSUME NEW o \in {-2 - i : i \in 1..n}
        PROVE  CellIn(g, memory', o) = words[-2 - o]
    <3>1. PICK i \in 1..n : o = -2 - i
      OBVIOUS
    <3>2. -2 - o = i /\ o \in g.assigned /\ o \notin Pointers(g)
      BY <1>7, <3>1 DEF ParamOffset
    <3>3. StackOffset(nb, o) = nb + 2 + i
      BY <1>8, <3>1 DEF StackOffset
    <3>4. CellIn(g, memory', o) = [word |-> memory'[nb + 2 + i]]
      BY <1>7, <3>2, <3>3 DEF CellIn
    <3>5. memory'[nb + 2 + i] = Load(args[i])
      BY <1>5
    <3> QED BY <2>1, <3>2, <3>4, <3>5
  <2> HIDE DEF words
  <2>5. View(g, memory') = [cells |-> [o \in {-2 - i : i \in 1..n} |-> words[-2 - o]],
                            site |-> site, dst |-> NoDst]
    BY <1>7, <2>3, <2>4 DEF View
  <2> QED BY <2>2, <2>5 DEF Abstract!Activation, Abstract!ParamCells, Abstract!NoDst, NoDst
<1> DEFINE s == [Cells EXCEPT ![Len(Cells)].dst = dst]
           e == Abstract!Activation(words, site, Abstract!NoDst)
<1>14. /\ s = [k \in 1..L |-> s[k]]
       /\ \A k \in 1..L : s[k] = IF k = L THEN View(f, memory') ELSE View(code[k], memory)
  BY <1>1, <1>11, <1>12
<1> HIDE DEF s, e, words
<1>15. Append(s, e) = [k \in 1..(L + 1) |-> IF k = L + 1 THEN e ELSE s[k]]
  BY <1>9, <1>14, AppendIs
<1>16. ASSUME NEW k \in 1..(L + 1)
       PROVE  View(code'[k], memory') = IF k = L + 1 THEN e ELSE s[k]
  <2>1. CASE k = L + 1
    <3>1. code'[k] = g
      BY <1>9, <2>1
    <3> QED BY <1>13, <2>1, <3>1 DEF e
  <2>2. CASE k # L + 1
    <3>1. k \in 1..L
      BY <1>9, <2>2
    <3>2. CASE k = L
      <4>1. code'[k] = f
        BY <1>9, <2>2, <3>2
      <4> QED BY <1>14, <2>2, <3>1, <3>2, <4>1
    <3>3. CASE k # L
      <4>1. code'[k] = code[k]
        BY <1>9, <2>2, <3>3
      <4> QED BY <1>10, <1>14, <2>2, <3>1, <3>3, <4>1
    <3> QED BY <3>2, <3>3
  <2> QED BY <2>1, <2>2
<1>17. Cells' = Append(s, e)
  BY <1>11, <1>15, <1>16
<1>18. /\ Abstract!Running /\ Len(Cells) < MaxFrames
       /\ dst \in Abstract!Locals \union {Abstract!NoDst}
  BY <1>3, <1>4, <1>11, TopActivation DEF Abstract!NoDst, NoDst
<1> QED BY <1>4, <1>17, <1>18 DEF Abstract!Call, s, e, words

\* The caller's activation after a return: its cells as it left them, but for
\* the one that gets the value.
LEMMA ReturnRefines ==
    ASSUME IInv, IInv', Running, Len(code) > 1, NEW value \in Int,
           Epilogue(code[Len(code) - 1], value),
           UNCHANGED <<status, eax, thrown, printed>>
    PROVE  LET caller == Cells[Len(Cells) - 1] IN
           /\ Abstract!ReturnTo(Abstract!Resume(caller, [word |-> value]))
           /\ code[Len(code) - 1].dst = NoDst => Abstract!ReturnTo(caller) /\ caller.dst = NoDst
<1> DEFINE L == Len(code) - 1
           c == code[L]
<1>1. /\ Len(code) \in Nat /\ Len(code) >= 1 /\ Top = code[Len(code)] /\ Top \in Methods
      /\ \A k \in 1..Len(code) : code[k] \in Methods
  BY TypeFacts DEF IInv
<1>2. /\ L \in Nat /\ L >= 1 /\ L \in 1..Len(code) /\ L < Len(code) /\ L + 1 = Len(code)
      /\ \A k \in 1..L : k \in 1..Len(code) /\ k < Len(code)
  BY <1>1
<1> HIDE DEF L
<1>3. /\ c \in Methods /\ esp = Top.base /\ Top.base \in Int /\ Top.nparams \in Nat
  BY <1>1, <1>2, MethodFields DEF IInv, FramesLinked
<1>4. memory[esp] = c.base /\ (c.dst # NoDst => c.dst \in 0..(c.cur_offset - 1))
  <2>1. memory[Top.base] = code[L].base
    BY <1>1, <1>2 DEF IInv, FramesLinked
  <2>2. c.dst # NoDst => c.dst \in 0..(c.cur_offset - 1)
    BY <1>2 DEF IInv, CallsPending
  <2> QED BY <1>3, <2>1, <2>2
<1> DEFINE r == IF c.dst = NoDst THEN Resumed(c) ELSE Assigns(Resumed(c), c.dst)
           popped == Scratched(memory, Top.base + 3)
<1>5. /\ code' = [k \in 1..L |-> IF k < L THEN code[k] ELSE r]
      /\ memory' = IF c.dst = NoDst THEN popped
                   ELSE [popped EXCEPT ![StackOffset(c.base, c.dst)] = value]
  <2>1. code[Len(code) - 1] = c
    BY DEF L
  <2> QED BY <1>3, <1>4, <2>1 DEF Epilogue, Resumed, L
<1>6. /\ Resumed(c) \in Methods /\ Resumed(c).base = c.base /\ Resumed(c).nparams = c.nparams
      /\ Resumed(c).cur_offset = c.cur_offset /\ Resumed(c).assigned = c.assigned
      /\ Resumed(c).points = c.points /\ Resumed(c).site = c.site
      /\ Resumed(c).dst = NoDst
  BY <1>3, ResumedFields
<1>7. /\ popped \in [0..(StackTop - 1) -> Int]
      /\ \A w \in 0..(StackTop - 1) : w >= Top.base + 3 => popped[w] = memory[w]
  <2>1. Top.base + 3 \in Int /\ memory \in [0..(StackTop - 1) -> Int]
    BY <1>3 DEF IInv, TypeOK
  <2> QED BY <2>1, ScratchedWords
<1> HIDE DEF popped
\* The words of the calls that go on: only the destination changes.
<1>8. ASSUME NEW k \in 1..L, NEW o \in Slots(code[k]),
             ~(k = L /\ c.dst # NoDst /\ o = c.dst)
      PROVE  memory'[StackOffset(code[k].base, o)] = memory[StackOffset(code[k].base, o)]
  <2> DEFINE a == StackOffset(code[k].base, o)
  <2>1. a > Top.base + 2 + Top.nparams /\ a \in 0..(StackTop - 1)
    BY <1>2, SuspendedAbove, SlotAddress DEF IInv
  <2>2. c.dst # NoDst => c.dst \in Slots(c)
    BY <1>4 DEF Slots
  <2>3. c.dst # NoDst => a # StackOffset(c.base, c.dst)
    <3>1. SlotsDisjoint /\ k \in 1..Len(code) /\ L \in 1..Len(code)
      BY <1>2, ApartDisjoint DEF IInv
    <3>2. \A p \in Slots(code[L]) :
             StackOffset(code[k].base, o) = StackOffset(code[L].base, p) => k = L /\ o = p
      BY <3>1 DEF SlotsDisjoint
    <3> QED BY <1>8, <2>2, <3>2
  <2> HIDE DEF a, c
  <2>4. a >= Top.base + 3
    BY <1>3, <2>1, Bounds
  <2>5. popped[a] = memory[a]
    BY <1>7, <2>1, <2>4
  <2>6. memory'[a] = memory[a]
    BY <1>5, <2>1, <2>3, <2>5
  <2> QED BY <2>6 DEF a
<1>9. c.dst # NoDst => memory'[StackOffset(c.base, c.dst)] = value
  <2>1. c.dst # NoDst => c.dst \in Slots(c)
    BY <1>4 DEF Slots
  <2>2. c.dst # NoDst => StackOffset(c.base, c.dst) \in 0..(StackTop - 1)
    BY <1>2, <2>1, SlotAddress DEF IInv
  <2> HIDE DEF c
  <2> QED BY <1>5, <1>7, <2>2
<1> DEFINE caller == View(c, memory)
           resumed == Abstract!Resume(caller, [word |-> value])
<1>10. /\ caller = [cells |-> caller.cells, site |-> c.site, dst |-> c.dst]
       /\ DOMAIN caller.cells = Slots(c) /\ caller.dst = c.dst
  BY DEF View
<1>11. Slots(Resumed(c)) = Slots(c) /\ Pointers(Resumed(c)) = Pointers(c)
  BY <1>6 DEF Slots, Pointers
<1>12. View(Resumed(c), memory) = [caller EXCEPT !.dst = NoDst]
  <2>1. \A o \in Slots(c) : CellIn(Resumed(c), memory, o) = CellIn(c, memory, o)
    BY <1>6, <1>11 DEF CellIn
  <2>2. View(Resumed(c), memory) = [cells |-> caller.cells, site |-> c.site, dst |-> NoDst]
    BY <1>6, <1>11, <2>1 DEF View
  <2> HIDE DEF caller
  <2> QED BY <1>10, <2>2
<1>13. View(r, memory') = resumed /\ (c.dst = NoDst => resumed = caller)
  <2>1. CASE c.dst = NoDst
    <3>1. c.dst \notin Slots(c)
      <4>1. c.cur_offset \in Nat /\ c.nparams \in Nat
        BY <1>3, MethodFields
      <4> QED BY <2>1, <4>1 DEF Slots, ParamOffset, NoDst
    <3>2. resumed = [caller EXCEPT !.dst = NoDst]
      BY <1>10, <3>1 DEF Abstract!Resume, Abstract!NoDst, NoDst
    <3>3. r = Resumed(c)
      BY <2>1
    <3>4. \A o \in Slots(Resumed(c)) :
             memory'[StackOffset(Resumed(c).base, o)] = memory[StackOffset(Resumed(c).base, o)]
      <4>1. L \in 1..L
        BY <1>2
      <4> QED BY <1>6, <1>8, <1>11, <2>1, <4>1
    <3>5. View(Resumed(c), memory') = View(Resumed(c), memory)
      BY <3>4, ViewKept
    <3>6. [caller EXCEPT !.dst = NoDst] = caller
      <4> HIDE DEF caller
      <4> QED BY <1>10, <2>1
    <3> QED BY <1>12, <3>2, <3>3, <3>5, <3>6
  <2>2. CASE c.dst # NoDst
    <3>1. c.dst \in Slots(c) /\ c.dst \in 0..(Resumed(c).cur_offset - 1)
      BY <1>4, <1>6, <2>2 DEF Slots
    <3>2. resumed = [caller EXCEPT !.cells[c.dst] = [word |-> value], !.dst = NoDst]
      BY <1>10, <3>1 DEF Abstract!Resume, Abstract!NoDst, NoDst
    <3>3. \A o \in Slots(Resumed(c)) : o # c.dst =>
             memory'[StackOffset(Resumed(c).base, o)] = memory[StackOffset(Resumed(c).base, o)]
      <4>1. L \in 1..L
        BY <1>2
      <4> QED BY <1>6, <1>8, <1>11, <2>2, <4>1
    <3>4. View(Assigns(Resumed(c), c.dst), memory')
            = [View(Resumed(c), memory) EXCEPT
                 !.cells[c.dst] = [word |-> memory'[StackOffset(Resumed(c).base, c.dst)]]]
      BY <1>6, <3>1, <3>3, ViewAssigned
    <3>5. memory'[StackOffset(Resumed(c).base, c.dst)] = value
      BY <1>6, <1>9, <2>2
    <3>6. View(Assigns(Resumed(c), c.dst), memory')
            = [[caller EXCEPT !.dst = NoDst] EXCEPT !.cells[c.dst] = [word |-> value]]
      BY <1>12, <3>4, <3>5
    <3> DEFINE C == caller.cells
    <3>7. caller = [cells |-> C, site |-> c.site, dst |-> c.dst]
      BY <1>10
    <3> HIDE DEF C, caller
    <3>8. [[caller EXCEPT !.dst = NoDst] EXCEPT !.cells[c.dst] = [word |-> value]]
            = [caller EXCEPT !.cells[c.dst] = [word |-> value], !.dst = NoDst]
      BY <3>7
    <3>9. r = Assigns(Resumed(c), c.dst)
      BY <2>2
    <3> QED BY <2>2, <3>2, <3>6, <3>8, <3>9
  <2> QED BY <2>1, <2>2
<1> HIDE DEF r, resumed
<1>14. Len(code') = L
  <2>1. code' = [k \in 1..L |-> code'[k]]
    BY <1>5
  <2> QED BY <1>2, <2>1, EmptyConcat
<1>15. /\ Cells = [k \in 1..Len(code) |-> View(code[k], memory)] /\ Len(Cells) = Len(code)
       /\ Cells' = [k \in 1..L |-> View(code'[k], memory')]
  BY <1>14, LiveCells, LiveCellsNext DEF IInv, Running
<1>16. ASSUME NEW k \in 1..L
       PROVE  View(code'[k], memory') = IF k = L THEN resumed ELSE Cells[k]
  <2>1. CASE k = L
    <3>1. code'[k] = r
      BY <1>2, <1>5, <2>1
    <3> QED BY <1>13, <2>1, <3>1
  <2>2. CASE k # L
    <3>1. k < L /\ k \in 1..Len(code)
      BY <1>2, <2>2
    <3>2. code'[k] = code[k]
      BY <1>5, <3>1
    <3>3. View(code[k], memory') = View(code[k], memory)
      BY <1>8, <2>2, ViewKept
    <3> QED BY <1>15, <2>2, <3>1, <3>2, <3>3
  <2> QED BY <2>1, <2>2
<1>17. Len(Cells) - 1 = L /\ Cells[L] = caller
  BY <1>2, <1>15
<1>18. UNCHANGED <<status, thrown, IF status = "exited" THEN printed ELSE << >>,
                   IF status = "finished" THEN [word |-> eax] ELSE [unassigned |-> TRUE]>>
  OBVIOUS
<1>19. Cells' = [k \in 1..L |-> IF k = L THEN resumed ELSE Cells[k]]
  BY <1>15, <1>16
<1>20. Abstract!ReturnTo(resumed)
  BY <1>17, <1>18, <1>19 DEF Abstract!ReturnTo
<1>21. c.dst = NoDst => Abstract!ReturnTo(caller) /\ caller.dst = NoDst
  BY <1>10, <1>13, <1>20
<1>22. code[Len(code) - 1] = c
  BY DEF L
<1> QED BY <1>17, <1>20, <1>21, <1>22 DEF resumed

LEMMA RetRefines ==
    ASSUME IInv, IInv', NEW src \in Readable, Ret(src)
    PROVE  Abstract!Return(src)
<1>1. Running /\ Len(code) > 1 /\ Load(src) \in Int
  BY ReadableWord DEF Ret
<1>2. /\ Abstract!Running /\ Len(Cells) = Len(code) /\ src \in Abstract!Readable
      /\ Abstract!Top.cells[src] = [word |-> Load(src)]
  BY <1>1, TopActivation, OperandWord
<1>3. Abstract!ReturnTo(Abstract!Resume(Cells[Len(Cells) - 1], [word |-> Load(src)]))
  BY <1>1, ReturnRefines DEF Ret
<1> QED BY <1>1, <1>2, <1>3 DEF Abstract!Return

LEMMA RetVoidRefines == ASSUME IInv, IInv', RetVoid PROVE Abstract!ReturnVoid
<1>1. Running /\ Len(code) > 1 /\ Junk \in Int /\ code[Len(code) - 1].dst = NoDst
  BY Bounds DEF RetVoid
<1>2. Abstract!Running /\ Len(Cells) = Len(code)
  BY <1>1, TopActivation
<1>3. /\ Abstract!ReturnTo(Cells[Len(Cells) - 1]) /\ Cells[Len(Cells) - 1].dst = NoDst
  BY <1>1, ReturnRefines DEF RetVoid
<1> QED BY <1>1, <1>2, <1>3 DEF Abstract!ReturnVoid, Abstract!NoDst, NoDst

LEMMA RetEntryRefines ==
    ASSUME IInv, IInv', NEW src \in Readable, RetEntry(src)
    PROVE  Abstract!Finish(src)
<1>1. Running /\ Len(code) = 1
  BY DEF RetEntry
<1>2. /\ Abstract!Running /\ Len(Cells) = Len(code) /\ src \in Abstract!Readable
      /\ Abstract!Top.cells[src] = [word |-> Load(src)]
  BY <1>1, TopActivation, OperandWord
<1>3. Cells' = Cells
  <2>1. Cells = [k \in 1..Len(code) |-> View(code[k], memory)]
    BY <1>1, LiveCells DEF IInv, Running
  <2>2. Cells' = [k \in 1..Len(code') |-> View(code'[k], memory')]
    BY LiveCellsNext DEF IInv, RetEntry
  <2> QED BY <2>1, <2>2 DEF RetEntry
<1> QED BY <1>1, <1>2, <1>3 DEF RetEntry, Running, Abstract!Finish

LEMMA ThrowRefines ==
    ASSUME IInv, IInv', NEW site \in Sites, Throw(site)
    PROVE  Abstract!Throw(site)
<1>1. Running /\ status = "running" /\ status' = "unwinding" /\ code' = code /\ thrown' = site
  BY DEF Throw, Running
<1>2. Cells = [k \in 1..Len(code) |-> View(code[k], memory)]
  BY <1>1, LiveCells DEF IInv
<1>3. Cells' = [k \in 1..Len(code) |-> Bare(code[k])]
  BY <1>1, BareCellsNext DEF IInv
<1>4. ASSUME NEW k \in 1..Len(code)
      PROVE  [View(code[k], memory) EXCEPT !.cells = << >>] = Bare(code[k])
  <2> DEFINE C == [o \in Slots(code[k]) |-> CellIn(code[k], memory, o)]
  <2>1. View(code[k], memory) = [cells |-> C, site |-> code[k].site, dst |-> code[k].dst]
    BY DEF View
  <2> HIDE DEF C
  <2> QED BY <2>1 DEF Bare
<1>5. Cells' = [k \in DOMAIN Cells |-> [Cells[k] EXCEPT !.cells = << >>]]
  BY <1>2, <1>3, <1>4
<1> QED BY <1>1, <1>5 DEF Abstract!Throw, Abstract!Running

\* What the unwinder printed when it finds the null descriptor is the chain of
\* call sites from the throwing method to the root.
LEMMA UnwindRefines ==
    ASSUME IInv, IInv', Unwind
    PROVE  Abstract!Exit \/ UNCHANGED Abstract!vars
<1>1. /\ Len(code) \in Nat /\ Len(code) >= 1 /\ \A k \in 1..Len(code) : code[k] \in Methods
  BY TypeFacts DEF IInv
<1>2. /\ Cells = [k \in 1..Len(code) |-> Bare(code[k])] /\ Len(Cells) = Len(code)
  BY BareCells DEF IInv, Unwind
<1>3. Cells' = Cells
  <2>1. status' \in {"unwinding", "exited"} /\ code' = code
    BY DEF Unwind, LoopEnd
  <2> QED BY <1>2, <2>1, BareCellsNext DEF IInv
<1>4. PICK k \in 1..Len(code) : eax = code[k].base /\ PrintedDownTo(k)
  BY DEF Unwind, IInv, UnwinderPlaced
<1>5. memory[eax + 2] = code[k].site
  BY <1>4 DEF IInv, FramesLinked
<1>6. CASE code[k].site # NoSite
  BY <1>3, <1>5, <1>6 DEF Unwind, Abstract!vars
<1>7. CASE code[k].site = NoSite
  <2>1. status = "unwinding" /\ status' = "exited" /\ UNCHANGED <<thrown, printed, eax>>
    BY <1>5, <1>7 DEF Unwind, LoopEnd
  <2>2. Abstract!Root = k
    <3> DEFINE S == {l \in DOMAIN Cells : Cells[l].site = NoSite}
    <3>1. S = {l \in 1..Len(code) : code[l].site = NoSite}
      BY <1>2 DEF Bare
    <3>2. k \in S
      BY <1>7, <3>1
    <3>3. \A l \in S : l \in Int /\ l <= k
      BY <1>1, <1>4, <3>1 DEF PrintedDownTo
    <3> HIDE DEF S
    <3> DEFINE top == CHOOSE x \in S : \A y \in S : x >= y
    <3>4. top \in S /\ \A y \in S : top >= y
      <4>1. \E x \in S : \A y \in S : x >= y
        BY <3>2, <3>3
      <4> QED BY <4>1
    <3> HIDE DEF top
    <3>5. top = k
      BY <3>2, <3>3, <3>4
    <3> QED BY <3>5 DEF Abstract!Root, Abstract!Max, S, top
  <2> DEFINE sites == [i \in 1..(Len(Cells) - k) |-> Cells[Len(Cells) + 1 - i].site]
  <2>3. PICK n \in Nat : n = Len(code) /\ k \in 1..n
    BY <1>1
  <2>4. /\ printed \in Seq(Int) /\ Len(printed) = n - k + 1 /\ printed[1] = thrown
        /\ \A l \in (k + 1)..n : printed[n - l + 2] = code[l].site
    BY <1>4, <2>3 DEF PrintedDownTo
  <2>5. sites = [i \in 1..(n - k) |-> code[n + 1 - i].site]
    <3>1. \A i \in 1..(n - k) : n + 1 - i \in 1..n
      BY <2>3
    <3> QED BY <1>2, <2>3, <3>1 DEF Bare
  <2>6. thrown \in Int
    <3>1. 1 \in 1..Len(printed)
      BY <2>3, <2>4
    <3> QED BY <2>4, <3>1, ElementOfSeq
  <2> HIDE DEF sites
  <2>7. /\ sites \in Seq(Int) /\ Len(sites) = n - k
        /\ \A i \in 1..(n - k) : sites[i] = printed[i + 1]
    <3>1. ASSUME NEW i \in 1..(n - k)
          PROVE  sites[i] = printed[i + 1] /\ sites[i] \in Int
      <4>1. n + 1 - i \in (k + 1)..n /\ n - (n + 1 - i) + 2 = i + 1 /\ i + 1 \in 1..(n - k + 1)
        BY <2>3
      <4>2. printed[n - (n + 1 - i) + 2] = code[n + 1 - i].site
        BY <2>4, <4>1
      <4>3. printed[i + 1] \in Int
        BY <2>4, <4>1, ElementOfSeq
      <4> QED BY <2>5, <4>1, <4>2, <4>3
    <3>2. PICK m \in Nat : m = n - k
      <4>1. n - k \in Nat
        BY <2>3
      <4> QED BY <4>1
    <3>3. sites \in [1..m -> Int]
      BY <2>5, <3>1, <3>2
    <3>4. sites \in Seq(Int) /\ Len(sites) = m
      BY <3>3
    <3> QED BY <3>1, <3>2, <3>4
  <2>8. << thrown >> \o sites = printed
    <3> DEFINE t == << thrown >>
    <3>1. t \in Seq(Int) /\ Len(t) = 1 /\ t[1] = thrown
      BY <2>6
    <3> HIDE DEF t
    <3> DEFINE s == t \o sites
    <3>2. /\ s \in Seq(Int) /\ Len(s) = 1 + Len(sites)
          /\ \A i \in 1..(1 + Len(sites)) :
                s[i] = IF i <= 1 THEN t[i] ELSE sites[i - 1]
      <4>1. /\ t \o sites \in Seq(Int) /\ Len(t \o sites) = Len(t) + Len(sites)
            /\ \A i \in 1..(Len(t) + Len(sites)) :
                  (t \o sites)[i] = IF i <= Len(t) THEN t[i] ELSE sites[i - Len(t)]
        <5>1. sites \in Seq(Int)
          BY <2>7
        <5> QED BY <3>1, <5>1, ConcatProperties
      <4> QED BY <3>1, <4>1
    <3>3. Len(s) = Len(printed)
      BY <2>3, <2>4, <2>7, <3>2
    <3>4. ASSUME NEW i \in 1..Len(s)
          PROVE  s[i] = printed[i]
      <4> HIDE DEF s
      <4>1. CASE i = 1
        BY <2>4, <3>1, <3>2, <4>1
      <4>2. CASE i # 1
        <5>1. i - 1 \in 1..(n - k) /\ (i - 1) + 1 = i /\ ~(i <= 1)
          <6>1. i \in 1..(n - k + 1) /\ n - k \in Int
            BY <2>3, <2>4, <3>3
          <6> QED BY <4>2, <6>1
        <5> QED BY <2>7, <3>2, <5>1
      <4> QED BY <4>1, <4>2
    <3> HIDE DEF s
    <3>5. s = printed
      BY <2>4, <3>2, <3>3, <3>4, SeqEqual
    <3> QED BY <3>5 DEF s, t
  <2> QED BY <1>3, <2>1, <2>2, <2>8 DEF Abstract!Exit, sites
<1> QED BY <1>6, <1>7

LEMMA InitRefines == Init => Abstract!Init
<1> SUFFICES ASSUME Init PROVE Abstract!Init
  OBVIOUS
<1>1. IInv /\ status = "running"
  BY InitIInv DEF Init
<1>2. Len(code) = 1 /\ code[1] = Method(StackTop - 3, 0, NoSite)
  BY DEF Init
<1> DEFINE f == Method(StackTop - 3, 0, NoSite)
<1>3. Slots(f) = {} /\ f.site = NoSite /\ f.dst = NoDst
  BY DEF Method, Slots
<1>4. View(f, memory) = [cells |-> << >>, site |-> NoSite, dst |-> NoDst]
  <2>1. [o \in {} |-> CellIn(f, memory, o)] = << >>
    OBVIOUS
  <2> HIDE DEF f
  <2> QED BY <1>3, <2>1 DEF View
<1>5. Abstract!Activation(<< >>, NoSite, Abstract!NoDst)
         = [cells |-> << >>, site |-> NoSite, dst |-> NoDst]
  <2>1. Abstract!ParamCells(Len(<< >>)) = {}
    BY DEF Abstract!ParamCells
  <2> QED BY <2>1 DEF Abstract!Activation, Abstract!NoDst, NoDst
<1>6. Cells = << Abstract!Activation(<< >>, NoSite, Abstract!NoDst) >>
  <2>1. Cells = [k \in 1..1 |-> View(code[k], memory)]
    BY <1>1, <1>2, LiveCells DEF IInv
  <2>2. \A k \in 1..1 : View(code[k], memory) = View(f, memory)
    BY <1>2
  <2> HIDE DEF f
  <2> QED BY <1>4, <1>5, <2>1, <2>2
<1> QED BY <1>6 DEF Init, Abstract!Init, Abstract!Unassigned

\* What OperandsMatch says of a step.
OperandsStep ==
    /\ \A dst \in Locals, value \in Values :
          Const(dst, value) \/ ExternalCall(dst, value) => Abstract!Write(dst, value)
    /\ \A dst \in Locals, src \in Readable :
          /\ Mov(dst, src) => Abstract!Copy(dst, src)
          /\ MovAddr(dst, src) => Abstract!TakeAddress(dst, src)
          /\ MovToAddr(dst, src) => Abstract!Assign(dst, src)
    /\ \A n \in 0..MaxParams : \A args \in [1..n -> Readable],
          site \in Sites \union {NoSite}, dst \in Locals \union {NoDst} :
             Call(args, site, dst) => Abstract!Call(args, site, dst)
    /\ \A src \in Readable :
          /\ Ret(src) => Abstract!Return(src)
          /\ RetEntry(src) => Abstract!Finish(src)
    /\ \A site \in Sites : Throw(site) => Abstract!Throw(site)

LEMMA OperationsRefine == ASSUME IInv, IInv' PROVE OperandsStep
<1>1. ASSUME NEW dst \in Locals, NEW value \in Values,
             Const(dst, value) \/ ExternalCall(dst, value)
      PROVE  Abstract!Write(dst, value)
  BY <1>1, ConstRefines, ExternalCallRefines
<1>2. ASSUME NEW dst \in Locals, NEW src \in Readable
      PROVE  /\ Mov(dst, src) => Abstract!Copy(dst, src)
             /\ MovAddr(dst, src) => Abstract!TakeAddress(dst, src)
             /\ MovToAddr(dst, src) => Abstract!Assign(dst, src)
  BY MovRefines, MovAddrRefines, MovToAddrRefines
<1>3. ASSUME NEW n \in 0..MaxParams, NEW args \in [1..n -> Readable],
             NEW site \in Sites \union {NoSite}, NEW dst \in Locals \union {NoDst},
             Call(args, site, dst)
      PROVE  Abstract!Call(args, site, dst)
  BY <1>3, CallRefines
<1>4. ASSUME NEW src \in Readable
      PROVE  /\ Ret(src) => Abstract!Return(src)
             /\ RetEntry(src) => Abstract!Finish(src)
  BY RetRefines, RetEntryRefines
<1>5. ASSUME NEW site \in Sites, Throw(site) PROVE Abstract!Throw(site)
  BY <1>5, ThrowRefines
<1> QED BY <1>1, <1>2, <1>3, <1>4, <1>5 DEF OperandsStep

\* The operands are as good as the abstract ones: what Next takes them from.
LEMMA OperandsAgree ==
    ASSUME IInv, Running
    PROVE  /\ Abstract!Readable = Readable /\ Abstract!Locals = Locals
           /\ Abstract!Locals \union {Abstract!NoDst} = Locals \union {NoDst}
  BY TopActivation DEF Abstract!NoDst, NoDst

LEMMA NextRefines == IInv /\ IInv' /\ [Next]_vars => [Abstract!Next]_(Abstract!vars)
<1> SUFFICES ASSUME IInv, IInv', [Next]_vars
             PROVE  Abstract!Next \/ UNCHANGED Abstract!vars
  OBVIOUS
<1>1. CASE AllocMem
  BY <1>1, AllocRefines DEF Abstract!Next
<1>2. CASE DeallocMem
  BY <1>2, DeallocRefines DEF Abstract!Next
<1>3. ASSUME NEW dst \in Locals, NEW value \in Values,
             Const(dst, value) \/ ExternalCall(dst, value)
      PROVE  Abstract!Next
  <2>1. Running /\ Abstract!Write(dst, value)
    BY <1>3, ConstRefines, ExternalCallRefines DEF Const, ExternalCall
  <2> QED BY <2>1, OperandsAgree DEF Abstract!Next
<1>4. ASSUME NEW dst \in Locals, NEW src \in Readable,
             Mov(dst, src) \/ MovAddr(dst, src) \/ MovToAddr(dst, src)
      PROVE  Abstract!Next
  <2>1. Running
    BY <1>4 DEF Mov, MovAddr, MovToAddr
  <2>2. \/ Abstract!Copy(dst, src) \/ Abstract!TakeAddress(dst, src)
        \/ Abstract!Assign(dst, src)
    BY <1>4, MovRefines, MovAddrRefines, MovToAddrRefines
  <2> QED BY <2>1, <2>2, OperandsAgree DEF Abstract!Next
<1>5. ASSUME NEW n \in 0..MaxParams, NEW args \in [1..n -> Readable],
             NEW site \in Sites \union {NoSite}, NEW dst \in Locals \union {NoDst},
             Call(args, site, dst)
      PROVE  Abstract!Next
  <2>1. Running /\ Abstract!Call(args, site, dst)
    BY <1>5, CallRefines DEF Call
  <2> QED BY <2>1, OperandsAgree DEF Abstract!Next
<1>6. ASSUME NEW src \in Readable, Ret(src) \/ RetEntry(src) PROVE Abstract!Next
  <2>1. Running /\ (Abstract!Return(src) \/ Abstract!Finish(src))
    BY <1>6, RetRefines, RetEntryRefines DEF Ret, RetEntry
  <2> QED BY <2>1, OperandsAgree DEF Abstract!Next
<1>7. CASE RetVoid
  BY <1>7, RetVoidRefines DEF Abstract!Next
<1>8. ASSUME NEW site \in Sites, Throw(site) PROVE Abstract!Next
  BY <1>8, ThrowRefines DEF Abstract!Next
<1>9. CASE Unwind
  BY <1>9, UnwindRefines DEF Abstract!Next
<1>10. CASE UNCHANGED vars
  <2>1. Cells' = Cells
    BY <1>10 DEF vars, Cells, Activation, Cell
  <2> QED BY <1>10, <2>1 DEF vars, Abstract!vars
<1> QED BY <1>1, <1>2, <1>3, <1>4, <1>5, <1>6, <1>7, <1>8, <1>9, <1>10 DEF Next

\* The generated code gives compiled methods what Activations.tla promises
\* them: cells of their own, the arguments of the call as parameters, their
\* cells back after it, and the whole chain of call sites for an exception.
THEOREM StackImplementsActivations == Spec => ImplementsActivations
<1>1. IInv /\ [Next]_vars => IInv'
  BY NextPreserves
<1> QED BY <1>1, InitRefines, NextRefines, Invariance, PTL
        DEF Spec, ImplementsActivations, Abstract!Spec

\* Every operation reads and writes the cells its operands name.
THEOREM OperationsUseTheirOperands == Spec => OperandsMatch
<1>1. IInv /\ [Next]_vars => IInv'
  BY NextPreserves
<1>2. IInv /\ IInv' => OperandsStep
  BY OperationsRefine
<1>3. OperandsStep =>
        /\ \A dst \in Locals, value \in Values :
              Const(dst, value) \/ ExternalCall(dst, value) => Abstract!Write(dst, value)
        /\ \A dst \in Locals, src \in Readable :
              /\ Mov(dst, src) => Abstract!Copy(dst, src)
              /\ MovAddr(dst, src) => Abstract!TakeAddress(dst, src)
              /\ MovToAddr(dst, src) => Abstract!Assign(dst, src)
        /\ Len(code') > Len(code) =>
              \A n \in 0..MaxParams : \A args \in [1..n -> Readable],
                 site \in Sites \union {NoSite}, dst \in Locals \union {NoDst} :
                    Call(args, site, dst) => Abstract!Call(args, site, dst)
        /\ \A src \in Readable :
              /\ Ret(src) => Abstract!Return(src)
              /\ RetEntry(src) => Abstract!Finish(src)
        /\ \A site \in Sites : Throw(site) => Abstract!Throw(site)
  BY DEF OperandsStep
<1> QED BY <1>1, <1>2, <1>3, Invariance, PTL DEF Spec, OperandsMatch
=============================================================================
