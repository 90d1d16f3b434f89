------------------------------ MODULE VMState ------------------------------
(***************************************************************************)
(* The two stacks of the virtual machine (src/lib/runtime/VMState.hpp).    *)
(*                                                                         *)
(* A VM state is a record:                                                 *)
(*   stack           the live scalar slots, bottom first; the array above  *)
(*                   them is not kept (no instruction reads it)            *)
(*   vectorStackTop  the number of vector-stack slots in use               *)
(*   vectors         the whole vector-stack array, dead slots included,    *)
(*                   with one representative sample for each 16-sample     *)
(*                   slot: every kernel treats the samples of a slot alike *)
(*                                                                         *)
(* A vector is FrameSlots consecutive vector-stack slots; a reference to   *)
(* it is a scalar slot whose payload is the index of the first of them.    *)
(***************************************************************************)
EXTENDS Integers, Sequences, Data

CONSTANTS
  FrameSlots,   \* vector-stack slots of one vector (frameSlots)
  StackSize,    \* slots of the scalar-stack array the caller provides
  VectorSlots   \* slots of the vector-stack array the caller provides

ASSUME FrameSlotsAssumption == FrameSlots \in Nat \ {0}
(* The entry point always has room for its parameter's vector.             *)
ASSUME StackSizesAssumption ==
  /\ StackSize \in Nat /\ StackSize >= 1
  /\ VectorSlots \in Nat /\ VectorSlots >= FrameSlots

----------------------------------------------------------------------------
\* The constructor: how many slots a vector of sampleCount samples takes.

SampleCount == 16   \* floats in one 64-byte vector slot

FrameSlotsFor(sampleCount) ==
  IF sampleCount % SampleCount = 0
    THEN sampleCount \div SampleCount
    ELSE sampleCount \div SampleCount + 1

FrameSamples(frameSlots) == frameSlots * SampleCount

\* The slots hold the samples, and less than one of them is wasted.
FrameFits(sampleCount) ==
  LET samples == FrameSamples(FrameSlotsFor(sampleCount)) IN
  samples >= sampleCount /\ samples < sampleCount + SampleCount

----------------------------------------------------------------------------
\* Scalar-stack slots.

Scalar(value)    == [type |-> "ScalarFP",     payload |-> value]
StrongRef(index) == [type |-> "StrongVecRef", payload |-> index]
WeakRef(index)   == [type |-> "WeakVecRef",   payload |-> index]

IsScalar(slot) == slot.type = "ScalarFP"
IsStrong(slot) == slot.type = "StrongVecRef"
IsRef(slot)    == slot.type \in {"StrongVecRef", "WeakVecRef"}

Slot == [type : {"ScalarFP"}, payload : Value]
          \cup [type : {"StrongVecRef", "WeakVecRef"}, payload : Nat]

Lanes == 0 .. FrameSlots - 1
VectorStack == [0 .. VectorSlots - 1 -> Value]
VM == [stack : Seq(Slot), vectorStackTop : Nat, vectors : VectorStack]

----------------------------------------------------------------------------
\* Scalar-stack operations.

Depth(vm) == Len(vm.stack)

\* The n-th slot from the top, 1 being the top.
Get(vm, n) == vm.stack[Depth(vm) + 1 - n]

Push(vm, slot) == [vm EXCEPT !.stack = Append(@, slot)]

\* A new vector at the top of the vector stack, and its strong reference.
Alloc_keepsTop(vm) == Push(vm, StrongRef(vm.vectorStackTop))

Alloc(vm) == [ Push(vm, StrongRef(vm.vectorStackTop))
                 EXCEPT !.vectorStackTop = @ + FrameSlots ]

\* The positions of the strong references above position i.
StrongAbove(vm, i) == {j \in 1 .. Depth(vm) : j > i /\ IsStrong(vm.stack[j])}

Lowest(S) == CHOOSE i \in S : \A j \in S : i <= j

(* Where the vector stack ends once everything above position i is popped: *)
(* each popped strong reference takes vectorStackTop down to its own       *)
(* payload.                                                                *)
TopAt(vm, i) ==
  IF StrongAbove(vm, i) = {}
    THEN vm.vectorStackTop
    ELSE vm.stack[Lowest(StrongAbove(vm, i))].payload

\* dealloc's second assertion, for each strong reference the pop reaches.
DeallocsInOrder(vm, n) ==
  \A i \in StrongAbove(vm, Depth(vm) - n) :
    TopAt(vm, i) - FrameSlots = vm.stack[i].payload

\* pop's and dealloc's assertions hold all through pop(n).
CanPop(vm, n) == n <= Depth(vm) /\ DeallocsInOrder(vm, n)

PopN_leaksVectors(vm, n) ==
  [vm EXCEPT !.stack = SubSeq(@, 1, Depth(vm) - n)]

PopN(vm, n) ==
  [vm EXCEPT !.stack = SubSeq(@, 1, Depth(vm) - n),
             !.vectorStackTop = TopAt(vm, Depth(vm) - n)]

\* One pop and its assertions.  PopN is n of them: PoppedSinglyIsPopN, in VMStateProofs.
CanPopTop(vm) ==
  /\ Depth(vm) # 0
  /\ IsStrong(Get(vm, 1)) => vm.vectorStackTop - FrameSlots = Get(vm, 1).payload

PopTop(vm) ==
  [vm EXCEPT !.stack = SubSeq(@, 1, Depth(vm) - 1),
             !.vectorStackTop = IF IsStrong(Get(vm, 1)) THEN @ - FrameSlots ELSE @]

\* What k single pops leave, and the loop of pop(n) with its assertions.
PoppedSingly(vm) ==
  LET after[k \in 0 .. Depth(vm)] == IF k = 0 THEN vm ELSE PopTop(after[k - 1])
  IN after

CanPopSingly(vm, n) ==
  n <= Depth(vm) /\ \A k \in 0 .. n - 1 : CanPopTop(PoppedSingly(vm)[k])

----------------------------------------------------------------------------
\* Vector buffers.

\* dereference's assertions: only the topmost vector can be dereferenced.
CanDereference(vm, slot) ==
  IsRef(slot) /\ vm.vectorStackTop - FrameSlots = slot.payload

Buffer(vm, slot) == [lane \in Lanes |-> vm.vectors[slot.payload + lane]]

\* Write buffer through the pointer that dereference(slot) returns.
Store_fromBottom(vm, slot, buffer) ==
  [vm EXCEPT !.vectors =
     [s \in 0 .. VectorSlots - 1 |-> IF s \in Lanes THEN buffer[s] ELSE @[s]]]

Store(vm, slot, buffer) ==
  [vm EXCEPT !.vectors =
     [s \in 0 .. VectorSlots - 1 |->
        IF s - slot.payload \in Lanes THEN buffer[s - slot.payload] ELSE @[s]]]

\* No array was overrun on the way to vm.
Fits(vm) == Depth(vm) <= StackSize /\ vm.vectorStackTop <= VectorSlots

----------------------------------------------------------------------------
\* How strong references and the vector stack may be related.

StrongPositions(vm) == StrongAbove(vm, 0)

\* The vector-stack slot s belongs to the vector that stack[i] refers to.
Covers(vm, i, s) == s - vm.stack[i].payload \in Lanes

\* Every vector-stack slot in use belongs to a strong reference's vector ...
Covered(vm) ==
  \A s \in 0 .. vm.vectorStackTop - 1 :
    \E i \in StrongPositions(vm) : Covers(vm, i, s)

\* ... and to no other's: the vectors lie apart, in the order of their references.
Separated(vm) ==
  /\ \A i, j \in StrongPositions(vm) :
       i < j => vm.stack[i].payload + FrameSlots <= vm.stack[j].payload
  /\ \A i \in StrongPositions(vm) :
       vm.stack[i].payload + FrameSlots <= vm.vectorStackTop

\* Each strong reference's vector ends where the next one's begins: dealloc's
\* assertion holds wherever the next pops stop.
EndToEnd(vm) ==
  \A i \in StrongPositions(vm) : TopAt(vm, i) = vm.stack[i].payload + FrameSlots

\* The same, but a reference may be doubled.
Stacked(vm) ==
  /\ TopAt(vm, 0) = 0
  /\ \A i \in StrongPositions(vm) : TopAt(vm, i) - vm.stack[i].payload \in {0, FrameSlots}

Bounded(vm) == \A i \in 0 .. Depth(vm) : TopAt(vm, i) <= FrameSlots * i

\* Every weak reference stands above a strong reference to its vector.
Anchored(vm) ==
  \A j \in 1 .. Depth(vm) :
    vm.stack[j].type = "WeakVecRef" =>
      \E i \in StrongPositions(vm) : i < j /\ vm.stack[i].payload = vm.stack[j].payload
=============================================================================
