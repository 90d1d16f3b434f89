--------------------------- MODULE VMStateProofs ---------------------------
(***************************************************************************)
(* Lemmas about the operations of VMState: what each one does to the       *)
(* depth of the scalar stack, to the strong references above a position,   *)
(* and to TopAt, where the vector stack ends after a pop.                  *)
(***************************************************************************)
EXTENDS VMState, TLAPS, SequenceTheorems, WellFoundedInduction

(* However long its vectors are to be, the constructor gives them room and *)
(* wastes less than one slot (VMState.hpp:73-84 and 114-116).              *)
THEOREM FrameFitsAlways == \A sampleCount \in Nat : FrameFits(sampleCount)
  BY SMT DEF FrameFits, FrameSamples, FrameSlotsFor, SampleCount

----------------------------------------------------------------------------
(* Lowest picks the least element of a set of positions. *)
LEMMA LowestIsLeast ==
  ASSUME NEW S \in SUBSET Nat, S # {}
  PROVE  Lowest(S) \in S /\ \A j \in S : Lowest(S) <= j
<1> DEFINE R == {ss \in Nat \X Nat : ss[1] < ss[2]}
<1>1. IsWellFoundedOn(R, Nat)
  BY NatLessThanWellFounded DEF OpToRel
<1>2. \E i \in S : \A j \in S : ~(<<j, i>> \in R)
  <2> HIDE DEF R
  <2> QED BY <1>1, WFMin
<1>3. \E i \in S : \A j \in S : i <= j
  <2>1. PICK i \in S : \A j \in S : ~(<<j, i>> \in R)
    BY <1>2
  <2>2. ASSUME NEW j \in S PROVE i <= j
    <3>1. <<j, i>> \in Nat \X Nat
      OBVIOUS
    <3>2. ~(j < i)
      BY <2>1, <3>1
    <3> QED BY <3>2
  <2> QED BY <2>2
<1> QED BY <1>3 DEF Lowest

(* ... and only that one. *)
LEMMA LowestUnique ==
  ASSUME NEW S \in SUBSET Nat, NEW i \in S, \A j \in S : i <= j
  PROVE  Lowest(S) = i
<1>1. Lowest(S) \in S /\ \A j \in S : Lowest(S) <= j
  BY LowestIsLeast
<1>2. Lowest(S) <= i /\ i <= Lowest(S) /\ i \in Nat /\ Lowest(S) \in Nat
  BY <1>1
<1> QED BY <1>2

----------------------------------------------------------------------------
(* What a reference made from an index is. *)
LEMMA RefFields ==
  ASSUME NEW index
  PROVE  /\ StrongRef(index).payload = index /\ WeakRef(index).payload = index
         /\ StrongRef(index).type = "StrongVecRef" /\ WeakRef(index).type = "WeakVecRef"
         /\ index \in Nat => StrongRef(index) \in Slot /\ WeakRef(index) \in Slot
         /\ IsStrong(StrongRef(index)) /\ ~IsStrong(WeakRef(index))
  BY DEF StrongRef, WeakRef, Slot, IsStrong

(* push(slot) adds a position and changes nothing below it. *)
LEMMA PushFacts ==
  ASSUME NEW m \in VM, NEW slot \in Slot
  PROVE  /\ Push(m, slot) \in VM
         /\ Depth(m) \in Nat
         /\ Depth(Push(m, slot)) = Depth(m) + 1
         /\ \A i \in 1 .. Depth(m) : Push(m, slot).stack[i] = m.stack[i]
         /\ Push(m, slot).stack[Depth(m) + 1] = slot
         /\ Push(m, slot).vectorStackTop = m.vectorStackTop
         /\ Push(m, slot).vectors = m.vectors
  BY AppendProperties DEF VM, Push, Depth

(* pop(n) removes the n topmost positions and changes nothing below them. *)
LEMMA PopFacts ==
  ASSUME NEW m \in VM, NEW n \in Nat, n <= Depth(m)
  PROVE  /\ PopN(m, n).stack \in Seq(Slot)
         /\ Depth(m) \in Nat
         /\ Depth(PopN(m, n)) = Depth(m) - n
         /\ \A i \in 1 .. Depth(m) - n : PopN(m, n).stack[i] = m.stack[i]
         /\ PopN(m, n).vectorStackTop = TopAt(m, Depth(m) - n)
         /\ PopN(m, n).vectors = m.vectors
  BY SMTT(30), LenProperties, ElementOfSeq, SubSeqProperties DEF VM, PopN, Depth

(* The strong references above a position are positions, and their         *)
(* payloads are vector-stack indices.                                      *)
LEMMA StrongFacts ==
  ASSUME NEW m \in VM, NEW i \in Int
  PROVE  /\ StrongAbove(m, i) \in SUBSET Nat
         /\ \A j \in StrongAbove(m, i) :
              /\ j \in 1 .. Depth(m)
              /\ m.stack[j].payload \in Nat
         /\ TopAt(m, i) \in Nat
<1>1. StrongAbove(m, i) \in SUBSET Nat
  BY DEF StrongAbove
<1>2. ASSUME NEW j \in StrongAbove(m, i)
      PROVE  j \in 1 .. Depth(m) /\ m.stack[j].payload \in Nat
  <2>1. j \in 1 .. Depth(m) /\ m.stack[j] \in Slot
    BY ElementOfSeq DEF StrongAbove, VM, Depth
  <2> QED BY <2>1 DEF StrongAbove, IsStrong, Slot
<1>3. TopAt(m, i) \in Nat
  <2>1. CASE StrongAbove(m, i) = {}
    BY <2>1 DEF TopAt, VM
  <2>2. CASE StrongAbove(m, i) # {}
    BY <1>1, <1>2, <2>2, LowestIsLeast DEF TopAt
  <2> QED BY <2>1, <2>2
<1> QED BY <1>1, <1>2, <1>3

----------------------------------------------------------------------------
(* What push, pop and alloc do to TopAt. *)

LEMMA PushTopAt ==
  ASSUME NEW m \in VM, NEW slot \in Slot, NEW i \in 0 .. Depth(m)
  PROVE  /\ StrongAbove(Push(m, slot), i) =
              StrongAbove(m, i) \cup (IF IsStrong(slot) THEN {Depth(m) + 1} ELSE {})
         /\ TopAt(Push(m, slot), i) =
              IF StrongAbove(m, i) = {} /\ IsStrong(slot)
                THEN slot.payload
                ELSE TopAt(m, i)
<1> DEFINE S == StrongAbove(m, i)
           T == StrongAbove(Push(m, slot), i)
<1>1. T = S \cup (IF IsStrong(slot) THEN {Depth(m) + 1} ELSE {})
  BY PushFacts DEF StrongAbove
<1>2. S \in SUBSET Nat /\ \A j \in S : j \in 1 .. Depth(m)
  BY StrongFacts
<1>3. Depth(m) \in Nat
  BY PushFacts
<1>4. CASE S = {} /\ ~IsStrong(slot)
  BY <1>1, <1>4, PushFacts DEF TopAt
<1>5. CASE S = {} /\ IsStrong(slot)
  <2>1. T = {Depth(m) + 1}
    BY <1>1, <1>5
  <2>2. Lowest(T) = Depth(m) + 1
    BY <2>1, <1>3, LowestUnique
  <2> QED BY <2>1, <2>2, <1>5, PushFacts DEF TopAt
<1>6. CASE S # {}
  <2>1. Lowest(S) \in S /\ \A j \in S : Lowest(S) <= j
    BY <1>2, <1>6, LowestIsLeast
  <2>2. T \in SUBSET Nat /\ Lowest(S) \in T /\ \A j \in T : Lowest(S) <= j
    BY <1>1, <1>2, <1>3, <2>1
  <2>3. Lowest(T) = Lowest(S)
    BY <2>2, LowestUnique
  <2>4. Push(m, slot).stack[Lowest(S)] = m.stack[Lowest(S)]
    BY <2>1, <1>2, PushFacts
  <2>5. T # {}
    BY <2>2
  <2>6. TopAt(Push(m, slot), i) = TopAt(m, i)
    BY <2>3, <2>4, <2>5, <1>6 DEF TopAt
  <2> QED BY <2>6, <1>1, <1>6
<1> QED BY <1>1, <1>4, <1>5, <1>6

LEMMA TopAtTop ==
  ASSUME NEW m \in VM
  PROVE  /\ Depth(m) \in Nat
         /\ StrongAbove(m, Depth(m)) = {}
         /\ TopAt(m, Depth(m)) = m.vectorStackTop
<1>1. Depth(m) \in Nat
  BY LenProperties DEF VM, Depth
<1> QED BY <1>1 DEF StrongAbove, TopAt

LEMMA AllocFacts ==
  ASSUME NEW m \in VM
  PROVE  /\ Alloc(m) \in VM
         /\ Depth(m) \in Nat
         /\ Depth(Alloc(m)) = Depth(m) + 1
         /\ \A i \in 1 .. Depth(m) : Alloc(m).stack[i] = m.stack[i]
         /\ Alloc(m).stack[Depth(m) + 1] = StrongRef(m.vectorStackTop)
         /\ Alloc(m).vectorStackTop = m.vectorStackTop + FrameSlots
         /\ Alloc(m).vectors = m.vectors
<1>1. StrongRef(m.vectorStackTop) \in Slot
  BY DEF StrongRef, Slot, VM
<1> DEFINE p == Push(m, StrongRef(m.vectorStackTop))
<1>2. p \in VM /\ p.vectorStackTop = m.vectorStackTop /\ p.vectors = m.vectors
  BY <1>1, PushFacts
<1>3. /\ Alloc(m).stack = p.stack
      /\ Alloc(m).vectorStackTop = p.vectorStackTop + FrameSlots
      /\ Alloc(m).vectors = p.vectors
      /\ Alloc(m) \in VM
  <2> HIDE DEF p
  <2>1. Alloc(m) = [p EXCEPT !.vectorStackTop = p.vectorStackTop + FrameSlots]
    BY DEF Alloc, p
  <2> QED BY <1>2, <2>1, FrameSlotsAssumption DEF VM
<1>4. Depth(Alloc(m)) = Depth(p)
  BY <1>3 DEF Depth
<1> QED BY <1>1, <1>2, <1>3, <1>4, PushFacts

LEMMA AllocTopAt ==
  ASSUME NEW m \in VM, NEW i \in 0 .. Depth(m)
  PROVE  /\ StrongAbove(Alloc(m), i) = StrongAbove(m, i) \cup {Depth(m) + 1}
         /\ TopAt(Alloc(m), i) = TopAt(m, i)
<1> DEFINE ref == StrongRef(m.vectorStackTop)
           p == Push(m, ref)
<1>1. ref \in Slot /\ IsStrong(ref) /\ ref.payload = m.vectorStackTop
  BY DEF StrongRef, Slot, VM, IsStrong
<1>2. Alloc(m).stack = p.stack
  BY DEF Alloc, Push
<1>3. StrongAbove(Alloc(m), i) = StrongAbove(p, i)
  BY <1>2 DEF StrongAbove, Depth
<1>4. StrongAbove(p, i) = StrongAbove(m, i) \cup {Depth(m) + 1}
  BY <1>1, PushTopAt
<1>5. TopAt(Alloc(m), i) = TopAt(p, i)
  BY <1>2, <1>3, <1>4 DEF TopAt
<1>6. TopAt(p, i) = TopAt(m, i)
  BY <1>1, PushTopAt DEF TopAt
<1> QED BY <1>3, <1>4, <1>5, <1>6

(* Popping down to a position does not change where popping further down   *)
(* will leave the vector stack.                                            *)
LEMMA PopTopAt ==
  ASSUME NEW m \in VM, NEW n \in Nat, n <= Depth(m), NEW i \in 0 .. Depth(m) - n
  PROVE  /\ StrongAbove(PopN(m, n), i) = {j \in StrongAbove(m, i) : j <= Depth(m) - n}
         /\ TopAt(PopN(m, n), i) = TopAt(m, i)
<1> DEFINE S == StrongAbove(m, i)
           T == StrongAbove(PopN(m, n), i)
<1>1. T = {j \in S : j <= Depth(m) - n}
  BY PopFacts DEF StrongAbove
<1>2. S \in SUBSET Nat /\ \A j \in S : j \in 1 .. Depth(m)
  BY StrongFacts
<1>3. CASE T = {}
  <2>1. S = StrongAbove(m, Depth(m) - n)
    BY <1>1, <1>3, PopFacts DEF StrongAbove
  <2>2. TopAt(m, Depth(m) - n) = TopAt(m, i)
    BY <2>1 DEF TopAt
  <2> QED BY <1>1, <1>3, <2>2, PopFacts DEF TopAt
<1>4. CASE T # {}
  <2>1. T \in SUBSET Nat
    BY <1>1, <1>2
  <2>2. Lowest(T) \in T /\ \A j \in T : Lowest(T) <= j
    BY <1>4, <2>1, LowestIsLeast
  <2>3. Lowest(T) \in S /\ \A j \in S : Lowest(T) <= j
    <3> DEFINE l == Lowest(T)
    <3>1. l \in S /\ l <= Depth(m) - n /\ l \in Nat /\ Depth(m) \in Nat
      BY <1>1, <1>2, <2>2, PopFacts
    <3>2. ASSUME NEW j \in S PROVE l <= j
      <4>1. CASE j <= Depth(m) - n
        BY <4>1, <1>1, <2>2
      <4>2. CASE ~(j <= Depth(m) - n)
        <5> HIDE DEF l
        <5> QED BY <4>2, <3>1, <1>2
      <4> QED BY <4>1, <4>2
    <3> QED BY <3>1, <3>2
  <2>4. Lowest(S) = Lowest(T)
    BY <1>2, <2>3, LowestUnique
  <2>5. PopN(m, n).stack[Lowest(T)] = m.stack[Lowest(T)]
    BY <1>1, <1>2, <2>2, PopFacts
  <2> QED BY <1>1, <1>4, <2>3, <2>4, <2>5 DEF TopAt
<1> QED BY <1>1, <1>3, <1>4

(* Writing a buffer moves nothing. *)
LEMMA StoreFacts ==
  ASSUME NEW m, NEW slot, NEW buffer, NEW i
  PROVE  /\ Store(m, slot, buffer).stack = m.stack
         /\ Store(m, slot, buffer).vectorStackTop = m.vectorStackTop
         /\ Depth(Store(m, slot, buffer)) = Depth(m)
         /\ StrongAbove(Store(m, slot, buffer), i) = StrongAbove(m, i)
         /\ TopAt(Store(m, slot, buffer), i) = TopAt(m, i)
  BY DEF Store, Depth, StrongAbove, TopAt

----------------------------------------------------------------------------
(* The operations keep the state well typed. *)

LEMMA PopIsVM ==
  ASSUME NEW m \in VM, NEW n \in Nat, n <= Depth(m)
  PROVE  PopN(m, n) \in VM
<1>1. TopAt(m, Depth(m) - n) \in Nat
  BY PopFacts, StrongFacts
<1>2. PopN(m, n).stack \in Seq(Slot)
  BY PopFacts
<1> QED BY <1>1, <1>2 DEF PopN, VM

LEMMA StoreIsVM ==
  ASSUME NEW m \in VM, NEW slot, slot.payload \in Nat, NEW buffer \in [Lanes -> Value]
  PROVE  Store(m, slot, buffer) \in VM
<1> DEFINE v == [s \in 0 .. VectorSlots - 1 |->
                   IF s - slot.payload \in Lanes THEN buffer[s - slot.payload]
                                                 ELSE m.vectors[s]]
<1>1. v \in VectorStack
  BY DEF VectorStack, VM
<1>2. Store(m, slot, buffer) = [m EXCEPT !.vectors = v]
  BY DEF Store
<1> HIDE DEF v
<1> QED BY <1>1, <1>2 DEF VM

LEMMA BufferType ==
  ASSUME NEW m \in VM, NEW slot, slot.payload \in Nat,
         slot.payload + FrameSlots <= VectorSlots
  PROVE  Buffer(m, slot) \in [Lanes -> Value]
<1>1. ASSUME NEW lane \in Lanes PROVE m.vectors[slot.payload + lane] \in Value
  <2>1. slot.payload + lane \in 0 .. VectorSlots - 1
    BY FrameSlotsAssumption, StackSizesAssumption DEF Lanes
  <2> QED BY <2>1 DEF VM, VectorStack
<1> QED BY <1>1 DEF Buffer

----------------------------------------------------------------------------
(* Stacked and Bounded, whatever is pushed and popped. *)

LEMMA PushStacked ==
  ASSUME NEW m \in VM, NEW slot \in Slot, ~IsStrong(slot)
  PROVE  /\ Stacked(m) => Stacked(Push(m, slot))
         /\ Bounded(m) => Bounded(Push(m, slot))
<1> DEFINE p == Push(m, slot)
<1>1. \A i \in 0 .. Depth(m) : TopAt(p, i) = TopAt(m, i)
  BY PushTopAt
<1>2. StrongPositions(p) = StrongPositions(m)
  <2>1. 0 \in 0 .. Depth(m)
    BY TopAtTop
  <2> QED BY <2>1, PushTopAt DEF StrongPositions
<1>3. p \in VM /\ Depth(p) = Depth(m) + 1 /\ Depth(m) \in Nat
  BY PushFacts
<1>4. Stacked(m) => Stacked(p)
  <2> SUFFICES ASSUME Stacked(m) PROVE Stacked(p)
    OBVIOUS
  <2>1. TopAt(p, 0) = 0
    BY <1>1, <1>3 DEF Stacked
  <2>2. ASSUME NEW i \in StrongPositions(p)
        PROVE  TopAt(p, i) - p.stack[i].payload \in {0, FrameSlots}
    <3>1. i \in 1 .. Depth(m)
      BY <1>2, StrongFacts DEF StrongPositions
    <3>2. TopAt(p, i) = TopAt(m, i) /\ p.stack[i] = m.stack[i]
      BY <1>1, <3>1, PushFacts
    <3> QED BY <3>2, <1>2 DEF Stacked
  <2> QED BY <2>1, <2>2 DEF Stacked
<1>5. Bounded(m) => Bounded(p)
  <2> SUFFICES ASSUME Bounded(m), NEW i \in 0 .. Depth(p)
               PROVE  TopAt(p, i) <= FrameSlots * i
    BY DEF Bounded
  <2>1. CASE i <= Depth(m)
    BY <2>1, <1>1, <1>3 DEF Bounded
  <2>2. CASE i = Depth(m) + 1
    <3>1. TopAt(p, i) = m.vectorStackTop
      BY <2>2, <1>3, TopAtTop, PushFacts
    <3>2. m.vectorStackTop <= FrameSlots * Depth(m) /\ m.vectorStackTop \in Nat
      BY TopAtTop DEF Bounded, VM
    <3>3. FrameSlots * i = FrameSlots * Depth(m) + FrameSlots
      BY <2>2, <1>3, FrameSlotsAssumption
    <3> QED BY <3>1, <3>2, <3>3, <1>3, FrameSlotsAssumption
  <2> QED BY <2>1, <2>2, <1>3
<1> QED BY <1>4, <1>5

(* A copied strong reference takes a slot of the scalar stack and none of  *)
(* the vector stack.                                                       *)
LEMMA CopyBounded ==
  ASSUME NEW m \in VM, Bounded(m), NEW j \in StrongPositions(m)
  PROVE  Bounded(Push(m, m.stack[j]))
<1> DEFINE slot == m.stack[j]
           p == Push(m, slot)
<1>1. j \in 1 .. Depth(m) /\ Depth(m) \in Nat /\ IsStrong(slot)
  BY StrongFacts, TopAtTop DEF StrongPositions, StrongAbove
<1>2. slot \in Slot
  BY <1>1, ElementOfSeq DEF VM, Depth
<1>3. p \in VM /\ Depth(p) = Depth(m) + 1 /\ p.vectorStackTop = m.vectorStackTop
  BY <1>2, PushFacts
<1>4. slot.payload \in Nat /\ slot.payload <= FrameSlots * (j - 1)
  <2> DEFINE S == StrongAbove(m, j - 1)
  <2>1. S \in SUBSET Nat /\ j \in S /\ \A k \in S : j <= k
    BY <1>1, StrongFacts DEF StrongAbove
  <2>2. Lowest(S) = j
    BY <2>1, LowestUnique
  <2>3. TopAt(m, j - 1) = slot.payload
    BY <2>1, <2>2 DEF TopAt
  <2>4. j - 1 \in 0 .. Depth(m)
    BY <1>1
  <2>5. slot.payload \in Nat
    BY <2>1, StrongFacts, <1>1
  <2> QED BY <2>3, <2>4, <2>5 DEF Bounded
<1>5. ASSUME NEW i \in 0 .. Depth(p)
      PROVE  TopAt(p, i) <= FrameSlots * i
  <2> HIDE DEF slot
  <2>1. CASE i = Depth(p)
    <3>1. TopAt(p, i) = m.vectorStackTop
      BY <1>3, <2>1, TopAtTop
    <3>2. m.vectorStackTop <= FrameSlots * Depth(m) /\ m.vectorStackTop \in Nat
      BY <1>1, TopAtTop DEF Bounded, VM
    <3>3. FrameSlots * Depth(m) <= FrameSlots * i
      BY <1>1, <1>3, <2>1, FrameSlotsAssumption
    <3> HIDE DEF p
    <3> QED BY ONLY <3>1, <3>2, <3>3, <1>1, <2>1, <1>3, FrameSlotsAssumption
  <2>2. CASE i \in 0 .. Depth(m) /\ StrongAbove(m, i) # {}
    BY <1>2, <2>2, PushTopAt DEF Bounded
  <2>3. CASE i \in 0 .. Depth(m) /\ StrongAbove(m, i) = {}
    <3>1. j - 1 <= i
      BY <1>1, <2>3 DEF StrongAbove, slot
    <3>2. TopAt(p, i) = slot.payload
      BY <1>1, <1>2, <2>3, PushTopAt
    <3>3. FrameSlots * (j - 1) <= FrameSlots * i
      BY <1>1, <2>3, <3>1, FrameSlotsAssumption
    <3> HIDE DEF p
    <3> QED BY ONLY <3>2, <3>3, <1>1, <1>4, <2>3, FrameSlotsAssumption
  <2> QED BY <1>1, <1>3, <2>1, <2>2, <2>3
<1> QED BY <1>5 DEF Bounded

LEMMA PopStacked ==
  ASSUME NEW m \in VM, NEW n \in Nat, n <= Depth(m)
  PROVE  /\ Stacked(m) => Stacked(PopN(m, n))
         /\ Bounded(m) => Bounded(PopN(m, n))
<1> DEFINE p == PopN(m, n)
<1>1. Depth(p) = Depth(m) - n /\ Depth(m) \in Nat
  BY PopFacts
<1>2. \A i \in 0 .. Depth(p) : TopAt(p, i) = TopAt(m, i)
  BY <1>1, PopTopAt
<1>3. Stacked(m) => Stacked(p)
  <2> SUFFICES ASSUME Stacked(m) PROVE Stacked(p)
    OBVIOUS
  <2>1. TopAt(p, 0) = 0
    BY <1>1, <1>2 DEF Stacked
  <2>2. ASSUME NEW i \in StrongPositions(p)
        PROVE  TopAt(p, i) - p.stack[i].payload \in {0, FrameSlots}
    <3>1. i \in StrongPositions(m) /\ i <= Depth(m) - n /\ i \in 1 .. Depth(m)
      BY <1>1, PopTopAt, StrongFacts DEF StrongPositions
    <3>2. TopAt(p, i) = TopAt(m, i) /\ p.stack[i] = m.stack[i]
      BY <1>1, <1>2, <3>1, PopFacts
    <3> QED BY <3>1, <3>2 DEF Stacked
  <2> QED BY <2>1, <2>2 DEF Stacked
<1>4. Bounded(m) => Bounded(p)
  BY <1>1, <1>2 DEF Bounded
<1> QED BY <1>3, <1>4

LEMMA AllocStacked ==
  ASSUME NEW m \in VM
  PROVE  /\ Stacked(m) => Stacked(Alloc(m))
         /\ Bounded(m) => Bounded(Alloc(m))
<1> DEFINE p == Alloc(m)
<1>1. p \in VM /\ Depth(p) = Depth(m) + 1 /\ Depth(m) \in Nat
  BY AllocFacts
<1>2. \A i \in 0 .. Depth(m) : TopAt(p, i) = TopAt(m, i)
  BY AllocTopAt
<1>3. TopAt(p, Depth(m) + 1) = m.vectorStackTop + FrameSlots
  BY <1>1, TopAtTop, AllocFacts
<1>4. StrongPositions(p) = StrongPositions(m) \cup {Depth(m) + 1}
  BY <1>1, AllocTopAt DEF StrongPositions
<1>5. Stacked(m) => Stacked(p)
  <2> SUFFICES ASSUME Stacked(m) PROVE Stacked(p)
    OBVIOUS
  <2>1. TopAt(p, 0) = 0
    BY <1>1, <1>2 DEF Stacked
  <2>2. ASSUME NEW i \in StrongPositions(m)
        PROVE  TopAt(p, i) - p.stack[i].payload \in {0, FrameSlots}
    <3>1. i \in 1 .. Depth(m)
      BY StrongFacts DEF StrongPositions
    <3>2. TopAt(p, i) = TopAt(m, i) /\ p.stack[i] = m.stack[i]
      BY <1>2, <3>1, AllocFacts
    <3> QED BY <3>2 DEF Stacked
  <2>3. TopAt(p, Depth(m) + 1) - p.stack[Depth(m) + 1].payload \in {0, FrameSlots}
    <3>1. p.stack[Depth(m) + 1].payload = m.vectorStackTop
      <4>1. p.stack[Depth(m) + 1] = StrongRef(m.vectorStackTop)
        BY AllocFacts
      <4> QED BY <4>1, RefFields
    <3>2. m.vectorStackTop \in Nat
      BY DEF VM
    <3> QED BY <3>1, <3>2, <1>3, FrameSlotsAssumption
  <2> QED BY <1>4, <2>1, <2>2, <2>3 DEF Stacked
<1>6. Bounded(m) => Bounded(p)
  <2> SUFFICES ASSUME Bounded(m), NEW i \in 0 .. Depth(p)
               PROVE  TopAt(p, i) <= FrameSlots * i
    BY DEF Bounded
  <2>1. CASE i <= Depth(m)
    BY <2>1, <1>1, <1>2 DEF Bounded
  <2>2. CASE i = Depth(m) + 1
    <3>1. m.vectorStackTop <= FrameSlots * Depth(m) /\ m.vectorStackTop \in Nat
      BY TopAtTop DEF Bounded, VM
    <3>2. FrameSlots * i = FrameSlots * Depth(m) + FrameSlots
      BY <2>2, <1>1, FrameSlotsAssumption
    <3> QED BY <1>3, <2>2, <3>1, <3>2, <1>1, FrameSlotsAssumption
  <2> QED BY <2>1, <2>2, <1>1
<1> QED BY <1>5, <1>6

(* The second reference that vector operations push beside alloc's. *)
LEMMA DoubleStacked ==
  ASSUME NEW m \in VM
  PROVE  /\ Push(Alloc(m), StrongRef(m.vectorStackTop)) \in VM
         /\ Stacked(m) => Stacked(Push(Alloc(m), StrongRef(m.vectorStackTop)))
         /\ Bounded(m) => Bounded(Push(Alloc(m), StrongRef(m.vectorStackTop)))
<1> DEFINE a == Alloc(m)
           ref == StrongRef(m.vectorStackTop)
           p == Push(a, ref)
<1>1. a \in VM /\ Depth(a) = Depth(m) + 1 /\ Depth(m) \in Nat
  BY AllocFacts
<1>2. ref \in Slot /\ IsStrong(ref) /\ ref.payload = m.vectorStackTop
       /\ m.vectorStackTop \in Nat
  BY DEF StrongRef, Slot, VM, IsStrong
<1>3. p \in VM /\ Depth(p) = Depth(m) + 2
  BY <1>1, <1>2, PushFacts
<1>4. \A i \in 0 .. Depth(m) : TopAt(p, i) = TopAt(a, i)
  <2> TAKE i \in 0 .. Depth(m)
  <2>1. StrongAbove(a, i) # {}
    BY AllocTopAt
  <2> QED BY <2>1, <1>1, <1>2, PushTopAt
<1>5. TopAt(p, Depth(m) + 1) = m.vectorStackTop
  <2>1. StrongAbove(a, Depth(m) + 1) = {}
    BY <1>1, TopAtTop
  <2> QED BY <2>1, <1>1, <1>2, PushTopAt
<1>6. TopAt(p, Depth(m) + 2) = m.vectorStackTop + FrameSlots
  <2>1. TopAt(p, Depth(p)) = p.vectorStackTop
    BY <1>3, TopAtTop
  <2>2. p.vectorStackTop = a.vectorStackTop
    BY <1>1, <1>2, PushFacts
  <2>3. a.vectorStackTop = m.vectorStackTop + FrameSlots
    BY AllocFacts
  <2> QED BY <2>1, <2>2, <2>3, <1>3
<1>7. Stacked(m) => Stacked(p)
  <2> SUFFICES ASSUME Stacked(m) PROVE Stacked(p)
    OBVIOUS
  <2>1. Stacked(a)
    BY AllocStacked
  <2>2. TopAt(p, 0) = 0
    BY <1>1, <1>4, <2>1 DEF Stacked
  <2>3. StrongPositions(p) = StrongPositions(a) \cup {Depth(m) + 2}
    BY <1>1, <1>2, PushTopAt DEF StrongPositions
  <2>4. ASSUME NEW i \in StrongPositions(a)
        PROVE  TopAt(p, i) - p.stack[i].payload \in {0, FrameSlots}
    <3>1. i \in 1 .. Depth(a) /\ p.stack[i] = a.stack[i]
      <4>1. i \in 1 .. Depth(a)
        BY <1>1, StrongFacts DEF StrongPositions
      <4> HIDE DEF a, ref
      <4> QED BY <4>1, <1>1, <1>2, PushFacts
    <3>2. CASE i <= Depth(m)
      BY <3>1, <3>2, <1>1, <1>4, <2>1 DEF Stacked
    <3>3. CASE i = Depth(m) + 1
      <4>1. p.stack[i].payload = m.vectorStackTop
        BY <3>1, <3>3, AllocFacts DEF StrongRef
      <4> QED BY <4>1, <3>3, <1>5, <1>2
    <3> QED BY <3>1, <3>2, <3>3, <1>1
  <2>5. TopAt(p, Depth(m) + 2) - p.stack[Depth(m) + 2].payload \in {0, FrameSlots}
    <3>1. p.stack[Depth(m) + 2] = ref
      BY <1>1, <1>2, PushFacts
    <3> QED BY <3>1, <1>2, <1>6, FrameSlotsAssumption
  <2> QED BY <2>2, <2>3, <2>4, <2>5 DEF Stacked
<1>8. Bounded(m) => Bounded(p)
  <2> SUFFICES ASSUME Bounded(m), NEW i \in 0 .. Depth(p)
               PROVE  TopAt(p, i) <= FrameSlots * i
    BY DEF Bounded
  <2>1. Bounded(a)
    BY AllocStacked
  <2>2. m.vectorStackTop <= FrameSlots * Depth(m)
    BY TopAtTop DEF Bounded
  <2>3. CASE i <= Depth(m)
    BY <2>3, <1>1, <1>4, <2>1 DEF Bounded
  <2>4. CASE i = Depth(m) + 1
    <3>1. FrameSlots * i = FrameSlots * Depth(m) + FrameSlots
      BY <2>4, <1>1, FrameSlotsAssumption
    <3> QED BY <3>1, <2>2, <2>4, <1>5, <1>1, <1>2, FrameSlotsAssumption
  <2>5. CASE i = Depth(m) + 2
    <3>1. FrameSlots * i = FrameSlots * Depth(m) + FrameSlots + FrameSlots
      BY <2>5, <1>1, FrameSlotsAssumption
    <3> QED BY <3>1, <2>2, <2>5, <1>6, <1>1, <1>2, FrameSlotsAssumption
  <2> QED BY <2>3, <2>4, <2>5, <1>3, <1>1
<1> QED BY <1>3, <1>7, <1>8

----------------------------------------------------------------------------
(* With one strong reference for each vector: the vectors keep covering    *)
(* the vector stack, lie apart and end to end, and every weak reference    *)
(* stays anchored.                                                         *)

Owned(m) == Covered(m) /\ Separated(m) /\ EndToEnd(m) /\ Anchored(m)

(* Where the vectors lie does not depend on the slots above the last       *)
(* strong reference.                                                       *)
LEMMA PushOwned ==
  ASSUME NEW m \in VM, NEW slot \in Slot, ~IsStrong(slot), Owned(m),
         slot.type = "WeakVecRef" =>
           \E i \in StrongPositions(m) : m.stack[i].payload = slot.payload
  PROVE  Owned(Push(m, slot))
<1> DEFINE p == Push(m, slot)
<1>1. p \in VM /\ Depth(p) = Depth(m) + 1 /\ Depth(m) \in Nat
      /\ p.vectorStackTop = m.vectorStackTop
  BY PushFacts
<1>2. StrongPositions(p) = StrongPositions(m)
  <2>1. 0 \in 0 .. Depth(m)
    BY <1>1
  <2> QED BY <2>1, PushTopAt DEF StrongPositions
<1>3. \A i \in 1 .. Depth(m) : p.stack[i] = m.stack[i] /\ TopAt(p, i) = TopAt(m, i)
  BY PushFacts, PushTopAt
<1>4. \A i \in StrongPositions(m) : i \in 1 .. Depth(m)
  BY StrongFacts DEF StrongPositions
<1>5. p.stack[Depth(m) + 1] = slot
  BY PushFacts
<1> HIDE DEF p
<1>6. Covered(p)
  BY <1>1, <1>2, <1>3, <1>4 DEF Owned, Covered, Covers
<1>7. Separated(p)
  BY <1>1, <1>2, <1>3, <1>4 DEF Owned, Separated
<1>8. EndToEnd(p)
  BY <1>2, <1>3, <1>4 DEF Owned, EndToEnd
<1>9. Anchored(p)
  <2> SUFFICES ASSUME NEW j \in 1 .. Depth(p), p.stack[j].type = "WeakVecRef"
               PROVE  \E i \in StrongPositions(p) :
                        i < j /\ p.stack[i].payload = p.stack[j].payload
    BY DEF Anchored
  <2>1. CASE j \in 1 .. Depth(m)
    BY <2>1, <1>2, <1>3, <1>4 DEF Owned, Anchored
  <2>2. CASE j = Depth(m) + 1
    <3>1. PICK i \in StrongPositions(m) : m.stack[i].payload = slot.payload
      BY <2>2, <1>5
    <3> QED BY <3>1, <2>2, <1>1, <1>2, <1>3, <1>4, <1>5
  <2> QED BY <2>1, <2>2, <1>1
<1> QED BY <1>6, <1>7, <1>8, <1>9 DEF Owned, p

(* Popping releases exactly the vectors whose strong references it pops.   *)
LEMMA PopOwned ==
  ASSUME NEW m \in VM, NEW n \in Nat, n <= Depth(m), Owned(m)
  PROVE  Owned(PopN(m, n))
<1> DEFINE p == PopN(m, n)
           d == Depth(m) - n
<1>1. p \in VM /\ Depth(p) = d /\ Depth(m) \in Nat /\ d \in 0 .. Depth(m)
      /\ p.vectorStackTop = TopAt(m, d) /\ p.vectorStackTop \in Nat
  <2>1. p \in VM
    BY PopIsVM
  <2> QED BY <2>1, PopFacts DEF VM
<1>2. StrongPositions(p) = {i \in StrongPositions(m) : i <= d}
  <2>1. 0 \in 0 .. d
    BY <1>1
  <2> QED BY <2>1, PopTopAt DEF StrongPositions
<1>3. \A i \in 1 .. d : p.stack[i] = m.stack[i] /\ TopAt(p, i) = TopAt(m, i)
  BY PopFacts, PopTopAt
<1>4. \A i \in StrongPositions(m) : i \in 1 .. Depth(m) /\ m.stack[i].payload \in Nat
  BY StrongFacts DEF StrongPositions
<1>5. \A i \in StrongPositions(m) : i <= d => m.stack[i].payload + FrameSlots <= TopAt(m, d)
  <2> SUFFICES ASSUME NEW i \in StrongPositions(m), i <= d
               PROVE  m.stack[i].payload + FrameSlots <= TopAt(m, d)
    OBVIOUS
  <2>1. CASE StrongAbove(m, d) = {}
    BY <2>1 DEF TopAt, Owned, Separated
  <2>2. CASE StrongAbove(m, d) # {}
    <3> DEFINE l == Lowest(StrongAbove(m, d))
    <3>1. l \in StrongAbove(m, d)
      BY <2>2, <1>1, StrongFacts, LowestIsLeast
    <3>2. l \in StrongPositions(m) /\ i < l
      BY <3>1, <1>1, <1>4 DEF StrongAbove, StrongPositions
    <3>3. TopAt(m, d) = m.stack[l].payload
      BY <2>2 DEF TopAt
    <3> QED BY <3>2, <3>3 DEF Owned, Separated
  <2> QED BY <2>1, <2>2
<1>6. \A i \in StrongPositions(m) : i > d => TopAt(m, d) <= m.stack[i].payload
  <2> SUFFICES ASSUME NEW i \in StrongPositions(m), i > d
               PROVE  TopAt(m, d) <= m.stack[i].payload
    OBVIOUS
  <2> DEFINE l == Lowest(StrongAbove(m, d))
  <2>1. i \in StrongAbove(m, d)
    BY <1>4 DEF StrongAbove, StrongPositions
  <2>2. l \in StrongAbove(m, d) /\ l <= i
    BY <2>1, <1>1, StrongFacts, LowestIsLeast
  <2>3. TopAt(m, d) = m.stack[l].payload
    BY <2>1 DEF TopAt
  <2>4. l \in StrongPositions(m)
    BY <2>2, <1>1 DEF StrongAbove, StrongPositions
  <2>5. CASE l = i
    BY <2>3, <2>5, <1>4
  <2>6. CASE l < i
    BY <2>3, <2>4, <2>6, <1>4, FrameSlotsAssumption DEF Owned, Separated
  <2> QED BY <2>2, <2>4, <2>5, <2>6, <1>4
<1> HIDE DEF p, d
<1>7. Covered(p)
  <2> SUFFICES ASSUME NEW s \in 0 .. p.vectorStackTop - 1
               PROVE  \E i \in StrongPositions(p) : Covers(p, i, s)
    BY DEF Covered
  <2>1. CASE s \in 0 .. m.vectorStackTop - 1
    <3>1. PICK i \in StrongPositions(m) : Covers(m, i, s)
      BY <2>1 DEF Owned, Covered
    <3>2. m.stack[i].payload <= s
      BY <3>1, <1>4, FrameSlotsAssumption DEF Covers, Lanes
    <3>3. i <= d
      BY <3>2, <1>1, <1>4, <1>6
    <3> QED BY <3>1, <3>3, <1>2, <1>3, <1>4 DEF Covers
  <2>2. CASE ~(s \in 0 .. m.vectorStackTop - 1)
    <3>1. TopAt(m, d) <= m.vectorStackTop
      <4>1. CASE StrongAbove(m, d) = {}
        BY <4>1 DEF TopAt, VM
      <4>2. CASE StrongAbove(m, d) # {}
        <5> DEFINE l == Lowest(StrongAbove(m, d))
        <5>1. l \in StrongAbove(m, d)
          BY <4>2, <1>1, StrongFacts, LowestIsLeast
        <5>2. l \in StrongPositions(m) /\ TopAt(m, d) = m.stack[l].payload
          BY <4>2, <5>1, <1>1 DEF StrongAbove, StrongPositions, TopAt
        <5> QED BY <5>2, <1>4, FrameSlotsAssumption DEF Owned, Separated, VM
      <4> QED BY <4>1, <4>2
    <3> QED BY <2>2, <3>1, <1>1 DEF VM
  <2> QED BY <2>1, <2>2
<1>8. Separated(p)
  BY <1>1, <1>2, <1>3, <1>4, <1>5 DEF Owned, Separated
<1>9. EndToEnd(p)
  BY <1>1, <1>2, <1>3, <1>4 DEF Owned, EndToEnd
<1>10. Anchored(p)
  <2> SUFFICES ASSUME NEW j \in 1 .. Depth(p), p.stack[j].type = "WeakVecRef"
               PROVE  \E i \in StrongPositions(p) :
                        i < j /\ p.stack[i].payload = p.stack[j].payload
    BY DEF Anchored
  <2>1. j \in 1 .. Depth(m) /\ j \in 1 .. d /\ m.stack[j] = p.stack[j]
    BY <1>1, <1>3
  <2>2. PICK i \in StrongPositions(m) : i < j /\ m.stack[i].payload = m.stack[j].payload
    BY <2>1 DEF Owned, Anchored
  <2> QED BY <2>1, <2>2, <1>1, <1>2, <1>3, <1>4
<1> QED BY <1>7, <1>8, <1>9, <1>10 DEF Owned, p

(* A new vector takes the slots above all the others. *)
LEMMA AllocOwned ==
  ASSUME NEW m \in VM, Owned(m)
  PROVE  Owned(Alloc(m))
<1> DEFINE p == Alloc(m)
           top == Depth(m) + 1
<1>1. p \in VM /\ Depth(p) = top /\ Depth(m) \in Nat /\ m.vectorStackTop \in Nat
      /\ p.vectorStackTop = m.vectorStackTop + FrameSlots
  BY AllocFacts DEF VM
<1>2. StrongPositions(p) = StrongPositions(m) \cup {top}
  <2>1. 0 \in 0 .. Depth(m)
    BY <1>1
  <2> QED BY <2>1, AllocTopAt DEF StrongPositions
<1>3. \A i \in 1 .. Depth(m) : p.stack[i] = m.stack[i] /\ TopAt(p, i) = TopAt(m, i)
  BY AllocFacts, AllocTopAt
<1>4. \A i \in StrongPositions(m) : i \in 1 .. Depth(m) /\ m.stack[i].payload \in Nat
  BY StrongFacts DEF StrongPositions
<1>5. p.stack[top].payload = m.vectorStackTop /\ p.stack[top].type = "StrongVecRef"
  <2>1. p.stack[top] = StrongRef(m.vectorStackTop)
    BY AllocFacts
  <2> HIDE DEF p
  <2> QED BY <2>1, RefFields
<1>6. TopAt(p, top) = p.vectorStackTop
  BY <1>1, TopAtTop
<1> HIDE DEF p, top
<1>7. Covered(p)
  <2> SUFFICES ASSUME NEW s \in 0 .. p.vectorStackTop - 1
               PROVE  \E i \in StrongPositions(p) : Covers(p, i, s)
    BY DEF Covered
  <2>1. CASE s < m.vectorStackTop
    <3>1. PICK i \in StrongPositions(m) : Covers(m, i, s)
      BY <2>1, <1>1, FrameSlotsAssumption DEF Owned, Covered
    <3> QED BY <3>1, <1>2, <1>3, <1>4 DEF Covers
  <2>2. CASE s >= m.vectorStackTop
    <3>1. Covers(p, top, s)
      BY <2>2, <1>1, <1>5, FrameSlotsAssumption DEF Covers, Lanes
    <3> QED BY <3>1, <1>2
  <2> QED BY <2>1, <2>2, <1>1, FrameSlotsAssumption
<1>8. Separated(p)
  <2>1. \A i, j \in StrongPositions(p) :
          i < j => p.stack[i].payload + FrameSlots <= p.stack[j].payload
    BY <1>1, <1>2, <1>3, <1>4, <1>5 DEF Owned, Separated, top
  <2>2. \A i \in StrongPositions(p) : p.stack[i].payload + FrameSlots <= p.vectorStackTop
    BY <1>1, <1>2, <1>3, <1>4, <1>5, FrameSlotsAssumption DEF Owned, Separated
  <2> QED BY <2>1, <2>2 DEF Separated
<1>9. EndToEnd(p)
  BY <1>1, <1>2, <1>3, <1>4, <1>5, <1>6 DEF Owned, EndToEnd
<1>10. Anchored(p)
  <2> SUFFICES ASSUME NEW j \in 1 .. Depth(p), p.stack[j].type = "WeakVecRef"
               PROVE  \E i \in StrongPositions(p) :
                        i < j /\ p.stack[i].payload = p.stack[j].payload
    BY DEF Anchored
  <2>1. j \in 1 .. Depth(m) /\ m.stack[j] = p.stack[j]
    BY <1>1, <1>3, <1>5 DEF top
  <2>2. PICK i \in StrongPositions(m) : i < j /\ m.stack[i].payload = m.stack[j].payload
    BY <2>1 DEF Owned, Anchored
  <2> QED BY <2>1, <2>2, <1>2, <1>3, <1>4
<1> QED BY <1>7, <1>8, <1>9, <1>10 DEF Owned, p

LEMMA StoreOwned ==
  ASSUME NEW m, NEW slot, NEW buffer, Owned(m)
  PROVE  Owned(Store(m, slot, buffer))
<1> DEFINE s == Store(m, slot, buffer)
<1>1. \A i : TopAt(s, i) = TopAt(m, i) /\ StrongAbove(s, i) = StrongAbove(m, i)
  BY StoreFacts
<1>2. s.stack = m.stack /\ Depth(s) = Depth(m) /\ s.vectorStackTop = m.vectorStackTop
  BY StoreFacts
<1>3. Owned(s)
  <2> HIDE DEF s
  <2> QED BY <1>1, <1>2 DEF Owned, Covered, Covers, Separated, EndToEnd, Anchored,
                          StrongPositions
<1> QED BY <1>3

(* No pop can find a strong reference out of order. *)
LEMMA OwnedDeallocs ==
  ASSUME NEW m \in VM, NEW n \in Nat, EndToEnd(m)
  PROVE  DeallocsInOrder(m, n)
<1> SUFFICES ASSUME NEW i \in StrongAbove(m, Depth(m) - n)
             PROVE  TopAt(m, i) - FrameSlots = m.stack[i].payload
  BY DEF DeallocsInOrder
<1>1. i \in StrongPositions(m) /\ m.stack[i].payload \in Nat
  BY TopAtTop, StrongFacts DEF StrongAbove, StrongPositions
<1> QED BY <1>1, FrameSlotsAssumption DEF EndToEnd

(* Popping never raises the vector stack. *)
LEMMA TopAtBelowTop ==
  ASSUME NEW m \in VM, Separated(m), NEW i \in 0 .. Depth(m)
  PROVE  TopAt(m, i) <= m.vectorStackTop
<1>1. CASE StrongAbove(m, i) = {}
  BY <1>1 DEF TopAt, VM
<1>2. CASE StrongAbove(m, i) # {}
  <2> DEFINE l == Lowest(StrongAbove(m, i))
  <2>1. l \in StrongAbove(m, i) /\ m.stack[l].payload \in Nat
    BY <1>2, StrongFacts, LowestIsLeast
  <2>2. l \in StrongPositions(m) /\ TopAt(m, i) = m.stack[l].payload
    BY <1>2, <2>1, TopAtTop DEF StrongAbove, StrongPositions, TopAt
  <2> QED BY <2>1, <2>2, FrameSlotsAssumption DEF Separated, VM
<1> QED BY <1>1, <1>2

----------------------------------------------------------------------------
(* pop(n) is n single pops: PopN and CanPop are the closed form of the     *)
(* loop (VMState.hpp:159-164).                                             *)

IsPoppedSingly(m, d, f) ==
  f = [k \in 0 .. d |-> IF k = 0 THEN m ELSE PopTop(f[k - 1])]

(* The loop can be unrolled however often: the least number of rounds for  *)
(* which it could not would be one more than a number for which it can.    *)
LEMMA UnrolledExists ==
  ASSUME NEW m, NEW d \in Nat
  PROVE  \E f : IsPoppedSingly(m, d, f)
<1> DEFINE Fails == {n \in Nat : ~ \E f : IsPoppedSingly(m, n, f)}
           l == Lowest(Fails)
<1> SUFFICES ASSUME Fails # {} PROVE FALSE
  OBVIOUS
<1>1. l \in Nat /\ l \in Fails /\ \A n \in Fails : l <= n
  <2> HIDE DEF Fails
  <2>1. Fails \in SUBSET Nat
    BY DEF Fails
  <2> QED BY <2>1, LowestIsLeast
<1> HIDE DEF l
<1>2. l # 0
  <2> SUFFICES ASSUME l = 0 PROVE FALSE
    OBVIOUS
  <2> DEFINE f == [k \in 0 .. 0 |-> m]
  <2>1. f = [k \in 0 .. 0 |-> IF k = 0 THEN m ELSE PopTop(f[k - 1])]
    OBVIOUS
  <2> HIDE DEF f
  <2>2. IsPoppedSingly(m, 0, f)
    BY <2>1 DEF IsPoppedSingly
  <2> QED BY <1>1, <2>2
<1>3. l - 1 \in Nat /\ ~(l - 1 \in Fails)
  <2>1. l - 1 \in Nat /\ ~(l <= l - 1)
    BY <1>1, <1>2
  <2> QED BY <1>1, <2>1
<1>4. PICK g : IsPoppedSingly(m, l - 1, g)
  BY <1>3
<1> DEFINE f == [k \in 0 .. l |-> IF k = 0 THEN m ELSE PopTop(g[k - 1])]
<1>5. ASSUME NEW k \in 0 .. l - 1 PROVE f[k] = g[k]
  <2>1. g[k] = IF k = 0 THEN m ELSE PopTop(g[k - 1])
    BY <1>4 DEF IsPoppedSingly
  <2> QED BY <2>1, <1>1
<1>6. ASSUME NEW k \in 0 .. l, k # 0 PROVE f[k - 1] = g[k - 1]
  <2>1. k - 1 \in 0 .. l - 1
    BY <1>1, <1>6
  <2> QED BY <2>1, <1>5
<1>7. f = [k \in 0 .. l |-> IF k = 0 THEN m ELSE PopTop(f[k - 1])]
  <2> DEFINE h == [k \in 0 .. l |-> IF k = 0 THEN m ELSE PopTop(f[k - 1])]
  <2>1. ASSUME NEW k \in 0 .. l PROVE f[k] = h[k]
    BY <1>6
  <2> QED BY <2>1
<1> HIDE DEF f
<1>8. IsPoppedSingly(m, l, f)
  BY <1>7 DEF IsPoppedSingly
<1> QED BY <1>1, <1>8

LEMMA PoppedSinglyUnrolled ==
  ASSUME NEW m \in VM
  PROVE  /\ PoppedSingly(m)[0] = m
         /\ \A k \in 1 .. Depth(m) : PoppedSingly(m)[k] = PopTop(PoppedSingly(m)[k - 1])
<1>1. Depth(m) \in Nat
  BY TopAtTop
<1>2. IsPoppedSingly(m, Depth(m), PoppedSingly(m))
  <2>1. \E f : IsPoppedSingly(m, Depth(m), f)
    BY <1>1, UnrolledExists
  <2>2. PoppedSingly(m) = CHOOSE f : IsPoppedSingly(m, Depth(m), f)
    BY DEF PoppedSingly, IsPoppedSingly
  <2> QED BY <2>1, <2>2
<1> DEFINE f == PoppedSingly(m)
<1> HIDE DEF f
<1>3. f = [k \in 0 .. Depth(m) |-> IF k = 0 THEN m ELSE PopTop(f[k - 1])]
  BY <1>2 DEF IsPoppedSingly, f
<1>4. f[0] = m /\ \A k \in 1 .. Depth(m) : f[k] = PopTop(f[k - 1])
  BY <1>1, <1>3
<1> QED BY <1>4 DEF f

(* One pop more: its assertions hold exactly if the longer pop's do, and   *)
(* then it leaves what the longer pop leaves.                              *)
LEMMA PopOneMore ==
  ASSUME NEW m \in VM, NEW n \in Nat, n < Depth(m), CanPop(m, n)
  PROVE  /\ CanPop(m, n + 1) <=> CanPopTop(PopN(m, n))
         /\ CanPop(m, n + 1) => PopN(m, n + 1) = PopTop(PopN(m, n))
<1> DEFINE p == PopN(m, n)
           d == Depth(m) - n
<1>1. /\ Depth(m) \in Nat /\ d \in 1 .. Depth(m) /\ Depth(p) = d
      /\ Get(p, 1) = m.stack[d] /\ p.vectorStackTop = TopAt(m, d)
  <2>1. Depth(m) \in Nat /\ d \in 1 .. Depth(m)
    BY TopAtTop
  <2>2. Depth(p) = d /\ p.stack[d] = m.stack[d] /\ p.vectorStackTop = TopAt(m, d)
    BY <2>1, PopFacts
  <2>3. Depth(p) + 1 - 1 = d
    BY <2>1, <2>2
  <2> QED BY <2>1, <2>2, <2>3 DEF Get
<1>2. StrongAbove(m, d - 1) = StrongAbove(m, d) \cup (IF IsStrong(m.stack[d]) THEN {d} ELSE {})
  BY <1>1 DEF StrongAbove
<1>3. Depth(m) - (n + 1) = d - 1 /\ n + 1 <= Depth(m) /\ n + 1 \in Nat
  BY <1>1
<1>4. CanPop(m, n + 1) <=> CanPopTop(p)
  <2>1. CanPop(m, n + 1) <=>
          \A i \in StrongAbove(m, d - 1) : TopAt(m, i) - FrameSlots = m.stack[i].payload
    BY <1>3 DEF CanPop, DeallocsInOrder
  <2>2. \A i \in StrongAbove(m, d) : TopAt(m, i) - FrameSlots = m.stack[i].payload
    BY DEF CanPop, DeallocsInOrder
  <2>3. CanPopTop(p) <=> (IsStrong(m.stack[d]) => TopAt(m, d) - FrameSlots = m.stack[d].payload)
    BY <1>1 DEF CanPopTop
  <2> HIDE DEF d, p
  <2>4. CASE IsStrong(m.stack[d])
    BY <1>2, <2>1, <2>2, <2>3, <2>4
  <2>5. CASE ~IsStrong(m.stack[d])
    BY <1>2, <2>1, <2>2, <2>3, <2>5
  <2> QED BY <2>4, <2>5
<1>5. ASSUME CanPop(m, n + 1) PROVE PopN(m, n + 1) = PopTop(p)
  <2>1. TopAt(m, d - 1) = IF IsStrong(m.stack[d]) THEN TopAt(m, d) - FrameSlots ELSE TopAt(m, d)
    <3>1. CASE IsStrong(m.stack[d])
      <4>1. StrongAbove(m, d - 1) \in SUBSET Nat /\ d \in StrongAbove(m, d - 1)
            /\ \A j \in StrongAbove(m, d - 1) : d <= j
        BY <1>1, <1>2, <3>1, StrongFacts DEF StrongAbove
      <4>2. Lowest(StrongAbove(m, d - 1)) = d
        BY <4>1, LowestUnique
      <4>3. TopAt(m, d - 1) = m.stack[d].payload
        BY <4>1, <4>2 DEF TopAt
      <4>4. TopAt(m, d) - FrameSlots = m.stack[d].payload
        BY <1>3, <1>5, <4>1 DEF CanPop, DeallocsInOrder
      <4> QED BY <3>1, <4>3, <4>4
    <3>2. CASE ~IsStrong(m.stack[d])
      BY <1>2, <3>2 DEF TopAt
    <3> QED BY <3>1, <3>2
  <2>2. SubSeq(p.stack, 1, Depth(p) - 1) = SubSeq(m.stack, 1, d - 1)
    <3>1. p.stack = SubSeq(m.stack, 1, d)
      BY DEF PopN, VM
    <3>2. m.stack \in Seq(Slot) /\ Len(m.stack) = Depth(m)
      BY DEF VM, Depth
    <3> HIDE DEF d, p
    <3> QED BY <1>1, <3>1, <3>2
  <2>3. PopTop(p) = [p EXCEPT !.stack = SubSeq(m.stack, 1, d - 1), !.vectorStackTop = TopAt(m, d - 1)]
    BY <1>1, <2>1, <2>2 DEF PopTop
  <2>4. PopN(m, n + 1) = [m EXCEPT !.stack = SubSeq(m.stack, 1, d - 1), !.vectorStackTop = TopAt(m, d - 1)]
    BY <1>3 DEF PopN
  <2> QED BY <2>3, <2>4 DEF PopN, VM
<1> QED BY <1>4, <1>5

(* Popping nothing. *)
LEMMA PopNone ==
  ASSUME NEW m \in VM
  PROVE  CanPop(m, 0) /\ PopN(m, 0) = m
<1>1. Depth(m) \in Nat /\ StrongAbove(m, Depth(m)) = {} /\ TopAt(m, Depth(m)) = m.vectorStackTop
  BY TopAtTop
<1>2. CanPop(m, 0)
  BY <1>1 DEF CanPop, DeallocsInOrder
<1>3. SubSeq(m.stack, 1, Depth(m)) = m.stack
  BY DEF VM, Depth
<1>4. PopN(m, 0) = [m EXCEPT !.stack = m.stack, !.vectorStackTop = m.vectorStackTop]
  <2>1. Depth(m) - 0 = Depth(m)
    BY <1>1
  <2> QED BY <1>1, <1>3, <2>1 DEF PopN
<1> QED BY <1>2, <1>4 DEF VM

(* What can be popped at once can be popped in part.                       *)
LEMMA CanPopLess ==
  ASSUME NEW m \in VM, NEW n \in Nat, CanPop(m, n), NEW k \in 0 .. n
  PROVE  CanPop(m, k)
<1>1. Depth(m) \in Nat /\ k <= Depth(m)
  BY TopAtTop DEF CanPop
<1>2. StrongAbove(m, Depth(m) - k) \subseteq StrongAbove(m, Depth(m) - n)
  BY <1>1 DEF StrongAbove
<1> QED BY <1>1, <1>2 DEF CanPop, DeallocsInOrder

(* As long as no assertion fails, the loop keeps up with the closed form.  *)
LEMMA PoppedSinglyIsPopN ==
  ASSUME NEW m \in VM, NEW n \in Nat, n <= Depth(m),
         CanPop(m, n) \/ CanPopSingly(m, n)
  PROVE  CanPop(m, n) /\ CanPopSingly(m, n) /\ PoppedSingly(m)[n] = PopN(m, n)
<1> DEFINE f == PoppedSingly(m)
           Good(k) == CanPop(m, k) /\ f[k] = PopN(m, k)
           Bad == {k \in Nat : k <= n /\ ~Good(k)}
           l == Lowest(Bad)
<1>1. Depth(m) \in Nat
  BY TopAtTop
<1>2. Bad = {}
  <2> SUFFICES ASSUME Bad # {} PROVE FALSE
    OBVIOUS
  <2>1. l \in Bad /\ \A k \in Bad : l <= k
    <3> HIDE DEF Bad
    <3>1. Bad \in SUBSET Nat
      BY DEF Bad
    <3> QED BY <3>1, LowestIsLeast
  <2> HIDE DEF l
  <2>2. Good(0)
    BY PopNone, PoppedSinglyUnrolled
  <2>3. l # 0
    BY <2>1, <2>2
  <2> HIDE DEF Good
  <2>4. l - 1 \in Nat /\ l - 1 < Depth(m) /\ l \in 1 .. Depth(m) /\ l - 1 \in 0 .. n - 1 /\ l \in 0 .. n
    BY <1>1, <2>1, <2>3
  <2>5. Good(l - 1)
    <3>1. ~(l - 1 \in Bad)
      BY <2>1, <2>4
    <3> QED BY <2>4, <3>1
  <2>6. f[l] = PopTop(f[l - 1])
    BY <2>4, PoppedSinglyUnrolled
  <2>7. CanPop(m, l)
    <3>1. CASE CanPop(m, n)
      BY <2>4, <3>1, CanPopLess
    <3>2. CASE CanPopSingly(m, n)
      <4>1. CanPopTop(f[l - 1])
        BY <2>4, <3>2 DEF CanPopSingly
      <4>2. CanPop(m, (l - 1) + 1)
        BY <2>4, <2>5, <4>1, PopOneMore DEF Good
      <4>3. (l - 1) + 1 = l
        BY <2>1
      <4> QED BY <4>2, <4>3
    <3> QED BY <3>1, <3>2
  <2>8. PopN(m, l) = PopTop(PopN(m, l - 1))
    <3>1. (l - 1) + 1 = l
      BY <2>1
    <3> HIDE DEF f
    <3> QED BY <2>4, <2>5, <2>7, <3>1, PopOneMore DEF Good
  <2> QED BY <2>1, <2>5, <2>6, <2>7, <2>8 DEF Good
<1>3. \A k \in 0 .. n : Good(k)
  BY <1>2
<1>4. ASSUME NEW k \in 0 .. n - 1 PROVE CanPopTop(f[k])
  <2>1. k \in Nat /\ k < Depth(m) /\ k \in 0 .. n /\ k + 1 \in 0 .. n
    BY <1>1
  <2>2. Good(k) /\ Good(k + 1)
    BY <1>3, <2>1
  <2> QED BY <2>1, <2>2, PopOneMore
<1>5. Good(n)
  BY <1>3
<1> QED BY <1>4, <1>5 DEF CanPopSingly
=============================================================================
