---------------------------- MODULE VMEvalProofs ----------------------------
(***************************************************************************)
(* What holds of the evaluation loop for every size of the stacks, every   *)
(* length of vectors, every set of sample values and every instruction     *)
(* set.                                                                    *)
(*                                                                         *)
(* Every instruction changes the two stacks in one of five ways, whatever  *)
(* program it is part of (StepShape): after some pops it leaves them so,   *)
(* pushes a slot that is not a strong reference, pushes the reference to a *)
(* newly allocated vector, or pushes that reference twice; or it copies a  *)
(* strong reference.  An invariant of the stacks is proved for the five    *)
(* ways, not for eleven instructions.                                      *)
(***************************************************************************)
EXTENDS VMEval, VMStateProofs

\* What the instruction's pops leave.
Reduced(m) ==
  \/ m = vm
  \/ \E n \in Nat : CanPop(vm, n) /\ m = PopN(vm, n)

ReducedShape(m) == Reduced(m) /\ vm' = m

PushShape(m, slot) ==
  Reduced(m) /\ slot \in Slot /\ ~IsStrong(slot) /\ vm' = Push(m, slot)

AllocShape(m, buffer) ==
  /\ Reduced(m)
  /\ buffer \in [Lanes -> Value]
  /\ vm' = Store(Alloc(m), StrongRef(m.vectorStackTop), buffer)

DoubleShape(m, buffer) ==
  /\ Reduced(m)
  /\ buffer \in [Lanes -> Value]
  /\ vm' = Store(Push(Alloc(m), StrongRef(m.vectorStackTop)),
                 StrongRef(m.vectorStackTop), buffer)

Shaped ==
  \/ \E m : ReducedShape(m)
  \/ \E m, slot : PushShape(m, slot)
  \/ \E m, buffer : AllocShape(m, buffer)
  \/ \E m, buffer : DoubleShape(m, buffer)
  \/ CopiesStrongRef

IType == TypeOK /\ Fits(vm)

----------------------------------------------------------------------------
LEMMA GetFacts ==
  ASSUME NEW m \in VM, NEW n \in 1 .. Depth(m)
  PROVE  /\ Get(m, n) \in Slot
         /\ Get(m, n).type \in {"ScalarFP", "StrongVecRef", "WeakVecRef"}
         /\ IsRef(Get(m, n)) => Get(m, n).payload \in Nat
         /\ ~IsRef(Get(m, n)) => IsScalar(Get(m, n)) /\ Get(m, n).payload \in Value
<1>1. Depth(m) + 1 - n \in 1 .. Len(m.stack)
  BY LenProperties DEF VM, Depth
<1>2. Get(m, n) \in Slot
  BY <1>1, ElementOfSeq DEF Get, VM
<1> HIDE DEF Get
<1> QED BY <1>2 DEF Slot, IsRef, IsScalar

LEMMA ReducedIsVM ==
  ASSUME TypeOK, NEW m, Reduced(m)
  PROVE  m \in VM
  BY PopIsVM DEF TypeOK, Reduced, CanPop

LEMMA ContinueFits ==
  ASSUME IType, NEW next, Continue(next)
  PROVE  /\ Fits(vm')
         /\ (vm' = next /\ Fits(next)) \/ vm' = vm
         /\ frames' = frames
         /\ status' \in {status, "overrun"}
  BY DEF IType, Continue, Stop, Fits, Depth

(* Stopping changes neither stack. *)
LEMMA StopShape ==
  ASSUME IType, NEW reason, Stop(reason)
  PROVE  Fits(vm') /\ ReducedShape(vm)
  BY DEF IType, Stop, Fits, Depth, ReducedShape, Reduced

LEMMA OffsetFacts ==
  ASSUME TypeOK
  PROVE  ResultOffset \in Nat /\ Len(frames) \in Nat \ {0}
<1>1. Len(frames) \in Nat \ {0} /\ Len(frames) \in 1 .. Len(frames)
  BY LenProperties, EmptySeq DEF TypeOK
<1>2. frames[Len(frames)] \in Frame
  BY <1>1, ElementOfSeq DEF TypeOK
<1> QED BY <1>1, <1>2 DEF ResultOffset, CurrentFrame, Frame

(* If an instruction continues with a pushed slot, a filled new vector or  *)
(* a doubled one, its step has the shape of its name.                      *)
LEMMA ContinueShape ==
  ASSUME IType, NEW next, Continue(next), Fits(next) /\ vm' = next => Shaped
  PROVE  Fits(vm') /\ Shaped
<1>1. CASE vm' = vm
  BY <1>1, ContinueFits DEF Shaped, ReducedShape, Reduced
<1>2. CASE Fits(next) /\ vm' = next
  BY <1>2, ContinueFits
<1> QED BY <1>1, <1>2, ContinueFits

LEMMA StepShape ==
  ASSUME IType, NEW inst \in Instruction, OperandsFit(inst), Execute(inst)
  PROVE  Fits(vm') /\ Shaped
<1> USE DEF IType
<1>1. vm \in VM /\ Depth(vm) \in Nat /\ ResultOffset \in Nat
  BY OffsetFacts, TopAtTop DEF TypeOK
<1>2. inst \in Instruction
  OBVIOUS
<1>3. ASSUME NEW reason, Stop(reason) PROVE Fits(vm') /\ Shaped
  BY <1>3, StopShape DEF Shaped
<1>4. ASSUME NEW n, PopFault(n) PROVE Fits(vm') /\ Shaped
  BY <1>3, <1>4 DEF PopFault
<1>5. CASE inst.op = "PUSH" /\ PUSH(inst.operand)
  <2>1. Scalar(inst.operand) \in Slot /\ ~IsStrong(Scalar(inst.operand))
    BY <1>2, <1>5 DEF Instruction, Scalar, Slot, IsStrong, Flavours, VectorFlavours
  <2>2. vm' = Push(vm, Scalar(inst.operand)) => Shaped
    BY <2>1 DEF Shaped, PushShape, Reduced
  <2> QED BY <1>5, <2>2, ContinueShape DEF PUSH
<1>6. CASE inst.op = "COPY" /\ COPY(inst.operand)
  <2>1. inst.operand \in 1 .. Depth(vm) /\ Get(vm, inst.operand) \in Slot
    BY <1>1, <1>6, GetFacts DEF OperandsFit
  <2>2. CASE IsStrong(Get(vm, inst.operand))
    <3>1. vm' = Push(vm, Get(vm, inst.operand)) => Shaped
      BY <2>1, <2>2 DEF Shaped, CopiesStrongRef
    <3> QED BY <1>6, <3>1, ContinueShape DEF COPY
  <2>3. CASE ~IsStrong(Get(vm, inst.operand))
    <3>1. vm' = Push(vm, Get(vm, inst.operand)) => Shaped
      BY <2>1, <2>3 DEF Shaped, PushShape, Reduced
    <3> QED BY <1>6, <3>1, ContinueShape DEF COPY
  <2> QED BY <2>2, <2>3
<1>7. CASE inst.op = "REF_VEC" /\ REF_VEC(inst.operand)
  <2> DEFINE ref == Get(vm, inst.operand)
             weak == WeakRef(ref.payload)
  <2>1. CASE IsRef(ref) /\ Continue(Push(vm, weak))
    <3>1. weak \in Slot /\ ~IsStrong(weak)
      BY <1>1, <1>7, <2>1, GetFacts, RefFields DEF OperandsFit
    <3>2. vm' = Push(vm, weak) => Shaped
      BY <3>1 DEF Shaped, PushShape, Reduced
    <3> QED BY <2>1, <3>2, ContinueShape
  <2> QED BY <1>3, <1>7, <2>1 DEF REF_VEC
<1>8. CASE inst.op = "DROP_S" /\ DROP_S(inst.operand)
  <2> DEFINE offset == inst.operand + ResultOffset + 1
  <2>1. offset \in Nat
    BY <1>1, <1>2, <1>8 DEF Instruction, Flavours, VectorFlavours
  <2>2. Get(vm, 1) \in Slot /\ ~IsStrong(Get(vm, 1))
    BY <1>1, <1>8, GetFacts DEF OperandsFit, IsScalar, IsStrong
  <2>3. CASE CanPop(vm, offset) /\ Continue(Push(PopN(vm, offset), Get(vm, 1)))
    <3>1. vm' = Push(PopN(vm, offset), Get(vm, 1)) => Shaped
      BY <2>1, <2>2, <2>3 DEF Shaped, PushShape, Reduced
    <3> QED BY <2>3, <3>1, ContinueShape
  <2> QED BY <1>4, <1>8, <2>3 DEF DROP_S
<1>9. CASE inst.op = "DROP_V" /\ DROP_V(inst.operand)
  <2> DEFINE offset == inst.operand + ResultOffset + 1
             src == Get(vm, 1)
             popped == PopN(vm, offset)
             copied == Store(Alloc(popped), StrongRef(popped.vectorStackTop),
                             Buffer(vm, src))
             weak == WeakRef(src.payload)
  <2>1. offset \in Nat
    BY <1>1, <1>2, <1>9 DEF Instruction, Flavours, VectorFlavours
  <2>2. src \in Slot /\ src.payload \in Nat
    BY <1>1, <1>9, GetFacts DEF OperandsFit
  <2>3. CASE CanDereference(vm, src) /\ CanPop(vm, offset) /\ Continue(copied)
    <3>1. src.payload + FrameSlots <= VectorSlots
      BY <1>1, <2>2, <2>3, FrameSlotsAssumption, StackSizesAssumption
         DEF CanDereference, Fits, VM
    <3>2. Buffer(vm, src) \in [Lanes -> Value]
      BY <1>1, <2>2, <3>1, BufferType
    <3>3. Reduced(popped)
      BY <2>1, <2>3 DEF Reduced
    <3>4. vm' = copied => Shaped
      BY <3>2, <3>3 DEF Shaped, AllocShape
    <3> QED BY <2>3, <3>4, ContinueShape
  <2>4. CASE CanPop(vm, offset) /\ Continue(Push(popped, weak))
    <3>1. weak \in Slot /\ ~IsStrong(weak)
      BY <2>2, RefFields
    <3>2. vm' = Push(popped, weak) => Shaped
      BY <2>1, <2>4, <3>1 DEF Shaped, PushShape, Reduced
    <3> QED BY <2>4, <3>2, ContinueShape
  <2>5. CASE Continue(vm)
    <3>1. vm' = vm => Shaped
      BY DEF Shaped, ReducedShape, Reduced
    <3> QED BY <2>5, <3>1, ContinueShape
  <2> QED BY <1>3, <1>4, <1>9, <2>3, <2>4, <2>5 DEF DROP_V
<1>10. CASE inst.op = "FILL" /\ FILL
  <2> DEFINE popped == PopN(vm, 1)
             buffer == [lane \in Lanes |-> Get(vm, 1).payload]
             filled == Store(Alloc(popped), StrongRef(popped.vectorStackTop), buffer)
  <2>1. CanPop(vm, 1) /\ buffer \in [Lanes -> Value]
    <3>1. 1 \in 1 .. Depth(vm) /\ IsScalar(Get(vm, 1))
      BY <1>1, <1>10 DEF OperandsFit
    <3>2. Get(vm, 1).payload \in Value
      BY <1>1, <3>1, GetFacts DEF IsRef, IsScalar
    <3>3. StrongAbove(vm, Depth(vm) - 1) = {}
      BY <1>1, <3>1 DEF StrongAbove, IsStrong, IsScalar, Get
    <3> QED BY <1>1, <3>1, <3>2, <3>3 DEF CanPop, DeallocsInOrder
  <2>2. vm' = filled => Shaped
    BY <2>1 DEF Shaped, AllocShape, Reduced
  <2> QED BY <1>10, <2>2, ContinueShape DEF FILL
<1>11. CASE inst.op = "CALL" /\ CALL(inst.operand)
  <2>1. CASE vm' = PopN(vm, 1)
    <3>1. 1 \in 1 .. Depth(vm) /\ IsScalar(Get(vm, 1))
      BY <1>1, <1>11 DEF OperandsFit
    <3>2. StrongAbove(vm, Depth(vm) - 1) = {}
      BY <1>1, <3>1 DEF StrongAbove, IsStrong, IsScalar, Get
    <3>3. CanPop(vm, 1)
      BY <3>1, <3>2, <1>1 DEF CanPop, DeallocsInOrder
    <3>4. Shaped
      BY <2>1, <3>3 DEF Shaped, ReducedShape, Reduced
    <3>5. Depth(vm') = Depth(vm) - 1 /\ vm'.vectorStackTop = vm.vectorStackTop
      BY <1>1, <2>1, <3>1, <3>2, PopFacts DEF TopAt
    <3> QED BY <1>1, <3>4, <3>5, StackSizesAssumption DEF Fits
  <2> QED BY <1>3, <1>11, <2>1 DEF CALL
<1>12. CASE inst.op \in VectorFlavours /\ VectorOp(inst)
  <2> DEFINE lhs    == Get(vm, 1)
             rhs    == Get(vm, 2)
             offset == 2 + inst.operand + ResultOffset
             popped == PopN(vm, offset)
             result == StrongRef(popped.vectorStackTop)
             next   == Push(Alloc(popped), result)
             Sample(slot, lane) ==
               IF IsRef(slot) THEN Buffer(next, slot)[lane] ELSE slot.payload
             buffer == [lane \in Lanes |->
                          Arith(inst.operation, Sample(lhs, lane), Sample(rhs, lane))]
             stored == Store(next, result, buffer)
  <2>1. offset \in Nat /\ inst.operation \in Operations
    BY <1>1, <1>2, <1>12 DEF Instruction, Flavours, VectorFlavours
  <2>2. CASE /\ CanPop(vm, offset)
             /\ \A slot \in {lhs, rhs} : IsRef(slot) => CanDereference(next, slot)
             /\ Continue(stored)
    <3>1. Reduced(popped) /\ popped \in VM
      BY <2>1, <2>2, ReducedIsVM DEF Reduced
    <3>2. next \in VM
      BY <3>1, DoubleStacked
    <3>3. ASSUME Fits(stored), NEW slot \in {lhs, rhs}, NEW lane \in Lanes
          PROVE  Sample(slot, lane) \in Value
      <4>1. /\ IsRef(slot) => slot.payload \in Nat
            /\ ~IsRef(slot) => slot.payload \in Value
        BY <1>1, <1>12, GetFacts DEF OperandsFit, Flavours
      <4>2. CASE IsRef(slot)
        <5>1. next.vectorStackTop <= VectorSlots /\ next.vectorStackTop \in Nat
          BY <3>2, <3>3, StoreFacts DEF Fits, VM
        <5>2. CanDereference(next, slot)
          BY <2>2, <4>2
        <5>3. slot.payload + FrameSlots <= VectorSlots
          <6> HIDE DEF next
          <6> QED BY <4>1, <4>2, <5>1, <5>2, FrameSlotsAssumption, StackSizesAssumption
                  DEF CanDereference
        <5>4. Buffer(next, slot) \in [Lanes -> Value]
          BY <3>2, <4>1, <4>2, <5>3, BufferType
        <5> QED BY <4>2, <5>4
      <4> QED BY <4>1, <4>2
    <3>4. Fits(stored) => buffer \in [Lanes -> Value]
      <4> SUFFICES ASSUME Fits(stored), NEW lane \in Lanes
                   PROVE  Arith(inst.operation, Sample(lhs, lane), Sample(rhs, lane)) \in Value
        OBVIOUS
      <4>1. Sample(lhs, lane) \in Value /\ Sample(rhs, lane) \in Value
        BY <3>3
      <4> HIDE DEF Sample
      <4> QED BY <2>1, <4>1, ArithAssumption
    <3>5. Fits(stored) /\ vm' = stored => Shaped
      BY <3>1, <3>4 DEF Shaped, DoubleShape
    <3> QED BY <2>2, <3>5, ContinueShape
  <2> QED BY <1>3, <1>4, <1>12, <2>2 DEF VectorOp
<1>13. CASE inst.op = "SS" /\ ScalarOp(inst)
  <2> DEFINE offset == 2 + inst.operand + ResultOffset
             result == Arith(inst.operation, Get(vm, 1).payload, Get(vm, 2).payload)
  <2>1. offset \in Nat /\ inst.operation \in Operations
    BY <1>1, <1>2, <1>13 DEF Instruction, Flavours, VectorFlavours
  <2>2. result \in Value
    <3>1. Depth(vm) >= 2 /\ ~IsRef(Get(vm, 1)) /\ ~IsRef(Get(vm, 2))
      BY <1>13 DEF OperandsFit, Flavours
    <3> QED BY <1>1, <2>1, <3>1, GetFacts, ArithAssumption
  <2>3. Scalar(result) \in Slot /\ ~IsStrong(Scalar(result))
    BY <2>2 DEF Scalar, Slot, IsStrong
  <2>4. CASE CanPop(vm, offset) /\ Continue(Push(PopN(vm, offset), Scalar(result)))
    <3>1. vm' = Push(PopN(vm, offset), Scalar(result)) => Shaped
      BY <2>1, <2>3, <2>4 DEF Shaped, PushShape, Reduced
    <3> QED BY <2>4, <3>1, ContinueShape
  <2> QED BY <1>4, <1>13, <2>4 DEF ScalarOp
<1>14. CASE vm' = vm
  BY <1>14 DEF Shaped, ReducedShape, Reduced, Fits, Depth
<1>15. CASE inst.op = "EXIT" /\ EXIT
  BY <1>3, <1>14, <1>15 DEF EXIT
<1>16. CASE inst.op = "RET" /\ RET
  BY <1>14, <1>16 DEF RET
<1> QED BY <1>5, <1>6, <1>7, <1>8, <1>9, <1>10, <1>11, <1>12, <1>13, <1>15, <1>16
        DEF Execute

----------------------------------------------------------------------------
(* Type correctness. *)

LEMMA ShapedIsVM ==
  ASSUME IType, Shaped
  PROVE  vm' \in VM
<1>1. ASSUME NEW m, Reduced(m) PROVE m \in VM /\ m.vectorStackTop \in Nat
  BY <1>1, ReducedIsVM DEF IType, VM
<1>2. ASSUME NEW m, ReducedShape(m) PROVE vm' \in VM
  BY <1>1, <1>2 DEF ReducedShape
<1>3. ASSUME NEW m, NEW slot, PushShape(m, slot) PROVE vm' \in VM
  BY <1>1, <1>3, PushFacts DEF PushShape
<1>4. ASSUME NEW m, NEW buffer, AllocShape(m, buffer) PROVE vm' \in VM
  BY <1>1, <1>4, AllocFacts, RefFields, StoreIsVM DEF AllocShape
<1>5. ASSUME NEW m, NEW buffer, DoubleShape(m, buffer) PROVE vm' \in VM
  BY <1>1, <1>5, DoubleStacked, RefFields, StoreIsVM DEF DoubleShape
<1>6. CASE CopiesStrongRef
  BY <1>6, GetFacts, PushFacts DEF CopiesStrongRef, IType, TypeOK
<1> QED BY <1>2, <1>3, <1>4, <1>5, <1>6 DEF Shaped

(* The activations stay well typed, and there is always one. *)
LEMMA FramesType ==
  ASSUME IType, NEW inst \in Instruction, OperandsFit(inst), Execute(inst)
  PROVE  frames' \in Seq(Frame) /\ frames' # <<>> /\ status' \in Status \cup {status}
<1> USE DEF IType
<1>1. /\ frames \in Seq(Frame) /\ frames # <<>>
      /\ ResultOffset \in Nat /\ Len(frames) \in Nat \ {0}
      /\ CurrentFrame(frames) \in Frame
  <2>1. Len(frames) \in Nat \ {0} /\ ResultOffset \in Nat
    BY OffsetFacts
  <2>2. frames[Len(frames)] \in Frame
    BY <2>1, ElementOfSeq DEF TypeOK
  <2> QED BY <2>1, <2>2 DEF TypeOK, CurrentFrame
<1>2. inst \in Instruction
  OBVIOUS
<1>3. CASE frames' = frames /\ status' \in Faults \cup {status}
  BY <1>1, <1>3 DEF Status
<1>4. CASE inst.op = "CALL" /\ CALL(inst.operand)
  <2>1. CASE frames' = Append(frames, NewFrame(inst.operand + ResultOffset)) /\ status' = status
    <3>1. NewFrame(inst.operand + ResultOffset) \in Frame
      BY <1>1, <1>2, <1>4 DEF NewFrame, Frame, Instruction, Flavours, VectorFlavours
    <3> QED BY <1>1, <2>1, <3>1, AppendProperties
  <2> QED BY <1>3, <1>4, <2>1 DEF CALL, Stop, Faults
<1>5. CASE inst.op = "RET" /\ RET
  <2>1. frames' \in Seq(Frame) /\ Len(frames') = Len(frames)
    <3> DEFINE f == [popCount |-> frames[Len(frames)].popCount,
                     resultOffset |-> frames[Len(frames)].popCount]
    <3>1. f \in Frame
      BY <1>1 DEF CurrentFrame, Frame
    <3>2. frames' = [frames EXCEPT ![Len(frames)] = f]
      BY <1>5 DEF RET, MarkReturn
    <3> HIDE DEF f
    <3> QED BY <1>1, <3>1, <3>2, ExceptSeq
  <2> QED BY <1>1, <1>5, <2>1, EmptySeq DEF RET
<1>6. CASE inst.op = "EXIT" /\ EXIT
  <2>1. CASE Len(frames) > 1 /\ frames' = Caller(frames) /\ status' = status
    <3>1. frames' \in Seq(Frame) /\ Len(frames') = Len(frames) - 1
      BY <1>1, <2>1, SubSeqProperties, ElementOfSeq DEF Caller
    <3> QED BY <1>1, <2>1, <3>1, EmptySeq
  <2>2. CASE Stop("returned")
    BY <1>1, <2>2 DEF Stop, Status
  <2> QED BY <1>6, <2>1, <2>2 DEF EXIT
<1>7. ASSUME NEW next, Continue(next) PROVE frames' = frames /\ status' \in Faults \cup {status}
  BY <1>7, ContinueFits DEF Faults
<1>8. ASSUME NEW n, PopFault(n) PROVE frames' = frames /\ status' \in Faults \cup {status}
  BY <1>8 DEF PopFault, Stop, Faults
<1>9. CASE \/ PUSH(inst.operand) \/ COPY(inst.operand) \/ REF_VEC(inst.operand)
           \/ DROP_S(inst.operand) \/ DROP_V(inst.operand) \/ FILL
           \/ VectorOp(inst) \/ ScalarOp(inst)
  <2>1. ASSUME NEW reason \in Faults, Stop(reason)
        PROVE  frames' = frames /\ status' \in Faults \cup {status}
    BY <2>1 DEF Stop
  <2>2. {"reference", "dereference"} \subseteq Faults
    BY DEF Faults
  <2>3. frames' = frames /\ status' \in Faults \cup {status}
    BY <1>7, <1>8, <1>9, <2>1, <2>2
       DEF PUSH, COPY, REF_VEC, DROP_S, DROP_V, FILL, VectorOp, ScalarOp
  <2> QED BY <1>3, <2>3
<1> QED BY <1>4, <1>5, <1>6, <1>9 DEF Execute

LEMMA InitFacts ==
  ASSUME Init
  PROVE  /\ IType
         /\ \E buffer \in [Lanes -> Value] : vm = Store(Alloc(Fresh), StrongRef(0), buffer)
<1>1. PICK param \in [Lanes -> Value] : vm = Store(Alloc(Fresh), StrongRef(0), param)
  BY DEF Init
<1>2. Fresh \in VM /\ Depth(Fresh) = 0 /\ Fresh.vectorStackTop = 0
  BY ZeroAssumption, EmptySeq DEF Fresh, VM, VectorStack, Depth
<1>3. vm \in VM
  BY <1>1, <1>2, AllocFacts, RefFields, StoreIsVM
<1>4. Fits(vm)
  <2>1. Depth(Alloc(Fresh)) = 1 /\ Alloc(Fresh).vectorStackTop = FrameSlots
    BY <1>2, AllocFacts, FrameSlotsAssumption
  <2> QED BY <1>1, <2>1, StoreFacts, StackSizesAssumption DEF Fits
<1>5. frames \in Seq(Frame) /\ frames # <<>> /\ status \in Status
  <2>1. NewFrame(0) \in Frame
    BY DEF NewFrame, Frame
  <2> QED BY <2>1 DEF Init, Status
<1> QED BY <1>1, <1>3, <1>4, <1>5 DEF IType, TypeOK

(* An instruction keeps the types, whether or not programs may use it.     *)
LEMMA ExecuteType ==
  ASSUME IType, NEW inst \in Instruction, OperandsFit(inst), Execute(inst)
  PROVE  IType'
<1>1. Fits(vm') /\ vm' \in VM
  BY StepShape, ShapedIsVM
<1>2. frames' \in Seq(Frame) /\ frames' # <<>> /\ status' \in Status
  BY FramesType DEF IType, TypeOK
<1> QED BY <1>1, <1>2 DEF IType, TypeOK, Fits, Depth

LEMMA ITypeStep ==
  ASSUME IType, [Next]_vars
  PROVE  IType'
<1>1. CASE Step
  BY <1>1, ExecuteType, InstructionsAssumption DEF Step
<1>2. CASE UNCHANGED vars
  BY <1>2 DEF IType, TypeOK, Fits, Depth, vars
<1> QED BY <1>1, <1>2 DEF Next, Ended

(* The state keeps its types, in every program: no pop takes the vector    *)
(* stack below its bottom, and no return leaves the loop without a frame.  *)
THEOREM TypeCorrect == Spec => []TypeOK
<1>1. Init => IType
  BY InitFacts
<1>2. IType /\ [Next]_vars => IType'
  BY ITypeStep
<1>3. IType => TypeOK
  BY DEF IType
<1> QED BY <1>1, <1>2, <1>3, PTL DEF Spec

----------------------------------------------------------------------------
(* The vectors are stacked as long as no strong reference is copied, and   *)
(* bounded by the depth of the scalar stack in every program.              *)

LEMMA ReducedStacked ==
  ASSUME IType, NEW m, Reduced(m)
  PROVE  /\ m \in VM
         /\ Stacked(vm) => Stacked(m)
         /\ Bounded(vm) => Bounded(m)
<1>1. CASE m = vm
  BY <1>1 DEF IType, TypeOK
<1>2. CASE \E n \in Nat : CanPop(vm, n) /\ m = PopN(vm, n)
  BY <1>2, PopStacked, PopIsVM DEF IType, TypeOK, CanPop
<1> QED BY <1>1, <1>2 DEF Reduced

LEMMA StoreStacked ==
  ASSUME NEW m, NEW slot, NEW buffer
  PROVE  /\ Stacked(m) => Stacked(Store(m, slot, buffer))
         /\ Bounded(m) => Bounded(Store(m, slot, buffer))
<1> DEFINE s == Store(m, slot, buffer)
<1>1. \A i : TopAt(s, i) = TopAt(m, i) /\ StrongAbove(s, i) = StrongAbove(m, i)
  BY StoreFacts
<1>2. s.stack = m.stack /\ Depth(s) = Depth(m)
  BY StoreFacts
<1>3. (Stacked(m) => Stacked(s)) /\ (Bounded(m) => Bounded(s))
  <2> HIDE DEF s
  <2> QED BY <1>1, <1>2 DEF Stacked, Bounded, StrongPositions
<1> QED BY <1>3

LEMMA ShapedStacked ==
  ASSUME IType, Shaped
  PROVE  /\ Stacked(vm) /\ ~CopiesStrongRef => Stacked(vm')
         /\ Bounded(vm) => Bounded(vm')
<1> DEFINE Keeps(m) == (Stacked(m) => Stacked(vm')) /\ (Bounded(m) => Bounded(vm'))
<1>1. ASSUME NEW m, Reduced(m), Keeps(m) PROVE Keeps(vm)
  BY <1>1, ReducedStacked
<1>2. ASSUME NEW m, ReducedShape(m) PROVE Keeps(vm)
  BY <1>1, <1>2 DEF ReducedShape
<1>3. ASSUME NEW m, NEW slot, PushShape(m, slot) PROVE Keeps(vm)
  BY <1>1, <1>3, ReducedStacked, PushStacked DEF PushShape
<1>4. ASSUME NEW m, NEW buffer, AllocShape(m, buffer) PROVE Keeps(vm)
  BY <1>1, <1>4, ReducedStacked, AllocStacked, StoreStacked DEF AllocShape
<1>5. ASSUME NEW m, NEW buffer, DoubleShape(m, buffer) PROVE Keeps(vm)
  BY <1>1, <1>5, ReducedStacked, DoubleStacked, StoreStacked DEF DoubleShape
<1>6. CASE CopiesStrongRef
  <2>1. PICK n \in 1 .. Depth(vm) : IsStrong(Get(vm, n)) /\ vm' = Push(vm, Get(vm, n))
    BY <1>6 DEF CopiesStrongRef
  <2>2. vm \in VM /\ Depth(vm) \in Nat
    BY TopAtTop DEF IType, TypeOK
  <2> DEFINE j == Depth(vm) + 1 - n
  <2>3. j \in StrongPositions(vm) /\ Get(vm, n) = vm.stack[j]
    BY <2>1, <2>2 DEF StrongPositions, StrongAbove, Get
  <2>4. Bounded(vm) => Bounded(vm')
    <3> HIDE DEF j
    <3> QED BY <2>1, <2>2, <2>3, CopyBounded
  <2> QED BY <1>6, <2>4
<1> QED BY <1>2, <1>3, <1>4, <1>5, <1>6 DEF Shaped

(* A machine that has been given its parameter.                            *)
LEMMA ParameterStacked ==
  ASSUME NEW buffer \in [Lanes -> Value]
  PROVE  /\ Stacked(Store(Alloc(Fresh), StrongRef(0), buffer))
         /\ Bounded(Store(Alloc(Fresh), StrongRef(0), buffer))
<1>1. Fresh \in VM /\ Depth(Fresh) = 0 /\ Fresh.vectorStackTop = 0
  BY ZeroAssumption, EmptySeq DEF Fresh, VM, VectorStack, Depth
<1>2. StrongAbove(Fresh, 0) = {} /\ TopAt(Fresh, 0) = 0
  BY <1>1, TopAtTop
<1>3. Stacked(Fresh) /\ Bounded(Fresh)
  BY <1>1, <1>2, FrameSlotsAssumption DEF Stacked, Bounded, StrongPositions
<1> QED BY <1>1, <1>3, AllocStacked, StoreStacked

LEMMA InitStacked ==
  ASSUME Init
  PROVE  IType /\ Stacked(vm) /\ Bounded(vm)
  BY InitFacts, ParameterStacked

LEMMA StackedStep ==
  ASSUME IType, [Next]_vars
  PROVE  /\ VectorsStacked /\ ~CopiesStrongRef => VectorsStacked'
         /\ VectorStackBounded => VectorStackBounded'
<1>1. /\ Stacked(vm) /\ ~CopiesStrongRef => Stacked(vm')
      /\ Bounded(vm) => Bounded(vm')
  <2>1. CASE Step
    BY <2>1, StepShape, ShapedStacked, InstructionsAssumption DEF Step
  <2>2. CASE UNCHANGED vars
    BY <2>2 DEF vars
  <2> QED BY <2>1, <2>2 DEF Next, Ended
<1> QED BY <1>1 DEF VectorsStacked, VectorStackBounded, Stacked, Bounded, StrongPositions,
                    StrongAbove, TopAt, Depth

(* In every program the vectors lie end to end, or are doubled, for as     *)
(* long as they did and no strong reference is copied ...                  *)
THEOREM StackedUnlessCopied == Spec => OnlyCopiesUnstack
<1>1. IType /\ [Next]_vars => [VectorsStacked /\ ~CopiesStrongRef => VectorsStacked']_vars
  BY StackedStep
<1>2. Init => IType
  BY InitFacts
<1>3. IType /\ [Next]_vars => IType'
  BY ITypeStep
<1> QED BY <1>1, <1>2, <1>3, PTL DEF Spec, OnlyCopiesUnstack

\* The programs that copy no strong reference are programs.
LEMMA OwningIsNext ==
  ASSUME IType, [OwningNext]_vars
  PROVE  [Next]_vars /\ ~CopiesStrongRef
<1>1. CASE UNCHANGED vars
  <2>1. ASSUME CopiesStrongRef PROVE FALSE
    <3>1. PICK n \in 1 .. Depth(vm) : vm' = Push(vm, Get(vm, n))
      BY <2>1 DEF CopiesStrongRef
    <3>2. Depth(Push(vm, Get(vm, n))) = Depth(vm) + 1 /\ Depth(vm) \in Nat
      BY GetFacts, PushFacts DEF IType, TypeOK
    <3>3. vm' = vm
      BY <1>1 DEF vars
    <3>4. Push(vm, Get(vm, n)) = vm
      BY <3>1, <3>3
    <3> QED BY <3>2, <3>4
  <2> QED BY <1>1, <2>1
<1> QED BY <1>1 DEF OwningNext

(* ... and so they always do in a program that copies none.                *)
THEOREM AlwaysStacked == OwningSpec => []VectorsStacked
<1>1. IType /\ VectorsStacked /\ [OwningNext]_vars => IType' /\ VectorsStacked'
  BY ITypeStep, StackedStep, OwningIsNext
<1>2. Init => IType /\ VectorsStacked
  BY InitStacked DEF VectorsStacked
<1> QED BY <1>1, <1>2, PTL DEF OwningSpec

(* In every program, whatever it copies, the vector stack holds at most    *)
(* FrameSlots slots for each slot of the scalar stack.                     *)
THEOREM AlwaysBounded == Spec => []VectorStackBounded
<1>1. IType /\ VectorStackBounded /\ [Next]_vars => IType' /\ VectorStackBounded'
  BY ITypeStep, StackedStep
<1>2. Init => IType /\ VectorStackBounded
  BY InitStacked DEF VectorStackBounded
<1> QED BY <1>1, <1>2, PTL DEF Spec

----------------------------------------------------------------------------
(* Programs without vector arithmetic and DROP_V that copy no strong       *)
(* reference: the discipline of VMState.hpp:32-34 is kept.                 *)

Undisciplined == VectorFlavours \cup {"DROP_V"}
DisciplinedInstructions == \A inst \in Instructions : inst.op \notin Undisciplined

IOwned == IType /\ Owned(vm) /\ status # "dealloc"

LEMMA ReducedOwned ==
  ASSUME IOwned, NEW m, Reduced(m)
  PROVE  m \in VM /\ m.vectorStackTop \in Nat /\ Owned(m)
<1>1. m \in VM /\ m.vectorStackTop \in Nat
  BY ReducedIsVM DEF IOwned, IType, VM
<1>2. Owned(m)
  BY PopOwned DEF Reduced, CanPop, IOwned, IType, TypeOK
<1> QED BY <1>1, <1>2

LEMMA ContinueOwned ==
  ASSUME IOwned, NEW next, Continue(next), Owned(next)
  PROVE  Owned(vm') /\ status' # "dealloc"
  BY ContinueFits DEF IOwned

LEMMA PopFaultOwned ==
  ASSUME IOwned, NEW n \in Nat, PopFault(n)
  PROVE  Owned(vm') /\ status' # "dealloc"
<1>1. DeallocsInOrder(vm, n)
  BY OwnedDeallocs DEF IOwned, Owned, IType, TypeOK
<1> QED BY <1>1 DEF PopFault, Stop, IOwned

LEMMA OwnedStep ==
  ASSUME IOwned, NEW inst \in Instruction, inst.op \notin Undisciplined,
         OperandsFit(inst), Execute(inst), ~CopiesStrongRef
  PROVE  Owned(vm') /\ status' # "dealloc"
<1>1. vm \in VM /\ Depth(vm) \in Nat /\ ResultOffset \in Nat /\ Owned(vm)
  BY OffsetFacts, TopAtTop DEF IOwned, IType, TypeOK
<1>2. inst \in Instruction
  OBVIOUS
<1>3. ASSUME NEW reason, Stop(reason), reason # "dealloc"
      PROVE  Owned(vm') /\ status' # "dealloc"
  BY <1>1, <1>3 DEF Stop
<1>4. CASE inst.op = "PUSH" /\ PUSH(inst.operand)
  <2> DEFINE slot == Scalar(inst.operand)
  <2>1. slot \in Slot /\ slot.type = "ScalarFP" /\ ~IsStrong(slot)
    BY <1>2, <1>4 DEF Instruction, Scalar, Slot, IsStrong, Flavours, VectorFlavours
  <2>2. Owned(Push(vm, slot))
    BY <1>1, <2>1, PushOwned
  <2> QED BY <1>4, <2>2, ContinueOwned DEF PUSH
<1>5. CASE inst.op = "COPY" /\ COPY(inst.operand)
  <2> DEFINE slot == Get(vm, inst.operand)
             j == Depth(vm) + 1 - inst.operand
  <2>1. slot \in Slot /\ inst.operand \in 1 .. Depth(vm)
    BY <1>1, <1>5, GetFacts DEF OperandsFit
  <2>2. slot = vm.stack[j] /\ j \in 1 .. Depth(vm)
    BY <1>1, <2>1 DEF Get
  <2>3. slot.type = "WeakVecRef" =>
          \E i \in StrongPositions(vm) : vm.stack[i].payload = slot.payload
    BY <1>1, <2>2 DEF Owned, Anchored
  <2>4. CASE ~IsStrong(slot)
    <3>1. Owned(Push(vm, slot))
      BY <1>1, <2>1, <2>3, <2>4, PushOwned
    <3> QED BY <1>5, <3>1, ContinueOwned DEF COPY
  <2>5. CASE IsStrong(slot)
    <3>1. vm' # Push(vm, slot)
      BY <2>1, <2>5 DEF CopiesStrongRef
    <3> QED BY <1>1, <1>3, <1>5, <3>1 DEF COPY, Continue
  <2> QED BY <2>4, <2>5
<1>6. CASE inst.op = "REF_VEC" /\ REF_VEC(inst.operand)
  <2> DEFINE ref == Get(vm, inst.operand)
             weak == WeakRef(ref.payload)
             j == Depth(vm) + 1 - inst.operand
  <2>1. ref \in Slot /\ inst.operand \in 1 .. Depth(vm)
        /\ (IsRef(ref) => ref.payload \in Nat)
    BY <1>1, <1>6, GetFacts DEF OperandsFit
  <2>2. ref = vm.stack[j] /\ j \in 1 .. Depth(vm)
    BY <1>1, <2>1 DEF Get
  <2>3. IsRef(ref) => \E i \in StrongPositions(vm) : vm.stack[i].payload = ref.payload
    <3>1. CASE ref.type = "WeakVecRef"
      BY <1>1, <2>2, <3>1 DEF Owned, Anchored
    <3>2. CASE ref.type = "StrongVecRef"
      BY <2>2, <3>2 DEF StrongPositions, StrongAbove, IsStrong
    <3> QED BY <3>1, <3>2 DEF IsRef
  <2>4. CASE IsRef(ref) /\ Continue(Push(vm, weak))
    <3>1. weak \in Slot /\ ~IsStrong(weak) /\ weak.payload = ref.payload
      BY <2>1, <2>4, RefFields
    <3>2. Owned(Push(vm, weak))
      BY <1>1, <2>3, <2>4, <3>1, PushOwned
    <3> QED BY <2>4, <3>2, ContinueOwned
  <2> QED BY <1>3, <1>6, <2>4 DEF REF_VEC
<1>7. CASE inst.op = "DROP_S" /\ DROP_S(inst.operand)
  <2> DEFINE offset == inst.operand + ResultOffset + 1
             m == PopN(vm, offset)
  <2>1. offset \in Nat
    BY <1>1, <1>2, <1>7 DEF Instruction, Flavours, VectorFlavours
  <2>2. Get(vm, 1) \in Slot /\ Get(vm, 1).type = "ScalarFP" /\ ~IsStrong(Get(vm, 1))
    BY <1>1, <1>7, GetFacts DEF OperandsFit, IsScalar, IsStrong
  <2>3. CASE CanPop(vm, offset) /\ Continue(Push(m, Get(vm, 1)))
    <3>1. m \in VM /\ Owned(m)
      BY <2>1, <2>3, ReducedOwned DEF Reduced
    <3>2. Owned(Push(m, Get(vm, 1)))
      BY <2>2, <3>1, PushOwned
    <3> QED BY <2>3, <3>2, ContinueOwned
  <2> QED BY <1>7, <2>1, <2>3, PopFaultOwned DEF DROP_S
<1>8. CASE inst.op = "FILL" /\ FILL
  <2> DEFINE m == PopN(vm, 1)
             buffer == [lane \in Lanes |-> Get(vm, 1).payload]
             next == Store(Alloc(m), StrongRef(m.vectorStackTop), buffer)
  <2>1. 1 <= Depth(vm)
    BY <1>8 DEF OperandsFit
  <2>2. m \in VM /\ Owned(m)
    BY <1>1, <2>1, PopIsVM, PopOwned
  <2>3. Owned(next)
    BY <2>2, AllocOwned, StoreOwned
  <2> QED BY <1>8, <2>3, ContinueOwned DEF FILL
<1>9. CASE inst.op = "CALL" /\ CALL(inst.operand)
  <2>1. CASE vm' = PopN(vm, 1) /\ status' = status
    <3>1. 1 <= Depth(vm)
      BY <1>9 DEF OperandsFit
    <3> QED BY <1>1, <2>1, <3>1, PopOwned DEF IOwned
  <2> QED BY <1>3, <1>9, <2>1 DEF CALL
<1>10. CASE inst.op = "SS" /\ ScalarOp(inst)
  <2> DEFINE offset == 2 + inst.operand + ResultOffset
             m == PopN(vm, offset)
             result == Scalar(Arith(inst.operation, Get(vm, 1).payload, Get(vm, 2).payload))
  <2>1. offset \in Nat /\ inst.operation \in Operations
    BY <1>1, <1>2, <1>10 DEF Instruction, Flavours, VectorFlavours
  <2>2. result \in Slot /\ result.type = "ScalarFP" /\ ~IsStrong(result)
    <3>1. Depth(vm) >= 2 /\ ~IsRef(Get(vm, 1)) /\ ~IsRef(Get(vm, 2))
      BY <1>10 DEF OperandsFit, Flavours
    <3>2. Arith(inst.operation, Get(vm, 1).payload, Get(vm, 2).payload) \in Value
      BY <1>1, <2>1, <3>1, GetFacts, ArithAssumption
    <3> QED BY <3>2 DEF Scalar, Slot, IsStrong
  <2>3. CASE CanPop(vm, offset) /\ Continue(Push(m, result))
    <3>1. m \in VM /\ Owned(m)
      BY <2>1, <2>3, ReducedOwned DEF Reduced
    <3>2. Owned(Push(m, result))
      BY <2>2, <3>1, PushOwned
    <3> QED BY <2>3, <3>2, ContinueOwned
  <2> QED BY <1>10, <2>1, <2>3, PopFaultOwned DEF ScalarOp
<1>11. CASE inst.op = "RET" /\ RET
  BY <1>1, <1>11 DEF RET, IOwned
<1>12. CASE inst.op = "EXIT" /\ EXIT
  BY <1>1, <1>12, <1>3 DEF EXIT, IOwned
<1> QED BY <1>4, <1>5, <1>6, <1>7, <1>8, <1>9, <1>10, <1>11, <1>12
        DEF Execute, Undisciplined

LEMMA ParameterOwned ==
  ASSUME NEW buffer \in [Lanes -> Value]
  PROVE  Owned(Store(Alloc(Fresh), StrongRef(0), buffer))
<1>1. Fresh \in VM /\ Depth(Fresh) = 0 /\ Fresh.vectorStackTop = 0
  BY ZeroAssumption, EmptySeq DEF Fresh, VM, VectorStack, Depth
<1>2. StrongPositions(Fresh) = {}
  BY <1>1 DEF StrongPositions, StrongAbove
<1>3. Owned(Fresh)
  BY <1>1, <1>2 DEF Owned, Covered, Separated, EndToEnd, Anchored
<1> QED BY <1>1, <1>3, AllocOwned, StoreOwned

LEMMA InitOwned ==
  ASSUME Init
  PROVE  IOwned
  BY InitFacts, ParameterOwned DEF IOwned, Init

LEMMA IOwnedStep ==
  ASSUME DisciplinedInstructions, IOwned, [OwningNext]_vars
  PROVE  IOwned'
<1>1. IType'
  BY ITypeStep, OwningIsNext DEF IOwned
<1>2. Owned(vm') /\ status' # "dealloc"
  <2>1. CASE Step /\ ~CopiesStrongRef
    BY <2>1, OwnedStep, InstructionsAssumption DEF Step, DisciplinedInstructions
  <2>2. CASE UNCHANGED vars
    BY <2>2 DEF vars, IOwned
  <2> QED BY <2>1, <2>2 DEF OwningNext, Next, Ended
<1> QED BY <1>1, <1>2 DEF IOwned, Owned, Covered, Covers, Separated, EndToEnd, Anchored,
                          StrongPositions, StrongAbove, TopAt, Depth

(* Without vector arithmetic, DROP_V and copies of strong references,      *)
(* every vector-stack slot in use has exactly one strong reference         *)
(* (VMState.hpp:32).                                                       *)
THEOREM AlwaysOneStrongRef ==
  ASSUME DisciplinedInstructions
  PROVE  OwningSpec => []OneStrongRef
<1>1. IOwned /\ [OwningNext]_vars => IOwned'
  BY IOwnedStep
<1>2. Init => IOwned
  BY InitOwned
<1>3. IOwned => OneStrongRef
  BY DEF IOwned, Owned, OneStrongRef
<1> QED BY <1>1, <1>2, <1>3, PTL DEF OwningSpec

(* ... no weak reference outlives its vector or lies below the strong      *)
(* reference (VMState.hpp:33) ...                                          *)
THEOREM AlwaysWeakAboveStrong ==
  ASSUME DisciplinedInstructions
  PROVE  OwningSpec => []WeakAboveStrong
<1>1. IOwned /\ [OwningNext]_vars => IOwned'
  BY IOwnedStep
<1>2. Init => IOwned
  BY InitOwned
<1>3. IOwned => WeakAboveStrong
  BY DEF IOwned, Owned, WeakAboveStrong
<1> QED BY <1>1, <1>2, <1>3, PTL DEF OwningSpec

(* ... and no pop finds a vector that is not the topmost: the assertion in *)
(* dealloc never fires (VMState.hpp:34, 184).                              *)
THEOREM DeallocNeverFires ==
  ASSUME DisciplinedInstructions
  PROVE  OwningSpec => []DeallocNeverFails
<1>1. IOwned /\ [OwningNext]_vars => IOwned'
  BY IOwnedStep
<1>2. Init => IOwned
  BY InitOwned
<1>3. IOwned => DeallocNeverFails
  BY DEF IOwned, DeallocNeverFails
<1> QED BY <1>1, <1>2, <1>3, PTL DEF OwningSpec

----------------------------------------------------------------------------
(* A step's own vector is the topmost one: pops touch no buffer, and a     *)
(* store goes to the vector just allocated.                                *)

LEMMA StoreKeepsBelow ==
  ASSUME NEW m \in VM, NEW next, NEW buffer,
         next.vectors = m.vectors, next.vectorStackTop = m.vectorStackTop + FrameSlots,
         vm' = Store(next, StrongRef(m.vectorStackTop), buffer),
         NEW s \in 0 .. VectorSlots - 1, s < vm'.vectorStackTop - FrameSlots
  PROVE  vm'.vectors[s] = m.vectors[s]
<1>1. vm'.vectorStackTop = m.vectorStackTop + FrameSlots
  BY StoreFacts
<1>2. m.vectorStackTop \in Nat /\ s < m.vectorStackTop
  BY <1>1, FrameSlotsAssumption DEF VM
<1>3. StrongRef(m.vectorStackTop).payload = m.vectorStackTop
  BY DEF StrongRef
<1>4. s - m.vectorStackTop \notin Lanes
  BY <1>2, FrameSlotsAssumption DEF Lanes
<1> QED BY <1>3, <1>4 DEF Store

LEMMA ReducedKeepsVectors ==
  ASSUME TypeOK, NEW m, Reduced(m)
  PROVE  m.vectors = vm.vectors
  BY DEF Reduced, PopN, TypeOK, VM

LEMMA ShapedKeepsBelow ==
  ASSUME TypeOK, Shaped, NEW s \in 0 .. VectorSlots - 1,
         s < vm'.vectorStackTop - FrameSlots
  PROVE  vm'.vectors[s] = vm.vectors[s]
<1>1. CASE \E m : ReducedShape(m)
  BY <1>1, ReducedKeepsVectors DEF ReducedShape
<1>2. CASE \E m, slot : PushShape(m, slot)
  BY <1>2, ReducedKeepsVectors DEF PushShape, Push
<1>3. CASE \E m, buffer : AllocShape(m, buffer)
  <2>1. PICK m, buffer : AllocShape(m, buffer)
    BY <1>3
  <2>2. m \in VM /\ m.vectors = vm.vectors
    BY <2>1, ReducedIsVM, ReducedKeepsVectors DEF AllocShape
  <2>3. vm'.vectors[s] = m.vectors[s]
    BY <2>1, <2>2, AllocFacts, StoreKeepsBelow DEF AllocShape
  <2> QED BY <2>2, <2>3
<1>4. CASE \E m, buffer : DoubleShape(m, buffer)
  <2>1. PICK m, buffer : DoubleShape(m, buffer)
    BY <1>4
  <2>2. m \in VM /\ m.vectors = vm.vectors
    BY <2>1, ReducedIsVM, ReducedKeepsVectors DEF DoubleShape
  <2> DEFINE next == Push(Alloc(m), StrongRef(m.vectorStackTop))
  <2>3. next.vectors = m.vectors /\ next.vectorStackTop = m.vectorStackTop + FrameSlots
    BY <2>2, AllocFacts DEF Push, VM
  <2>4. vm' = Store(next, StrongRef(m.vectorStackTop), buffer)
    BY <2>1 DEF DoubleShape
  <2>5. vm'.vectors[s] = m.vectors[s]
    <3> HIDE DEF next
    <3> QED BY <2>2, <2>3, <2>4, StoreKeepsBelow
  <2> QED BY <2>2, <2>5
<1>5. CASE CopiesStrongRef
  BY <1>5 DEF CopiesStrongRef, Push, TypeOK, VM
<1> QED BY <1>1, <1>2, <1>3, <1>4, <1>5 DEF Shaped

(* Whatever the program and the sizes: no step changes a vector but the    *)
(* one it leaves on top (the dereference and std::copy_n, std::fill_n and  *)
(* kernel calls of VMEval.cpp).                                            *)
THEOREM OnlyTopWritten == Spec => OnlyTopVectorWritten
<1>1. IType /\ [Next]_vars =>
        [\A s \in 0 .. VectorSlots - 1 :
           s < vm'.vectorStackTop - FrameSlots => vm'.vectors[s] = vm.vectors[s]]_vars
  <2> SUFFICES ASSUME IType, Next, vars' # vars, NEW s \in 0 .. VectorSlots - 1,
                      s < vm'.vectorStackTop - FrameSlots
               PROVE  vm'.vectors[s] = vm.vectors[s]
    OBVIOUS
  <2>1. PICK inst \in Instructions : OperandsFit(inst) /\ Execute(inst)
    BY DEF Next, Step, Ended
  <2> QED BY <2>1, StepShape, ShapedKeepsBelow, InstructionsAssumption DEF IType
<1>2. Init => IType
  BY InitFacts
<1>3. IType /\ [Next]_vars => IType'
  BY ITypeStep
<1> QED BY <1>1, <1>2, <1>3, PTL DEF Spec, OnlyTopVectorWritten
----------------------------------------------------------------------------
(* Programs without vector arithmetic and DROP_V cannot tell the machine's *)
(* two stacks, its references and the order in which vectors are released  *)
(* from one stack of values: VMEval implements StackMachine.               *)
(*                                                                         *)
(* The values on the stack, Values(m), change with the stacks as they      *)
(* should: push appends a value, pop(n) removes n, and filling a new       *)
(* vector appends one and touches no other, because every reference on the *)
(* stack is to a vector that lies wholly below it (Owned).                 *)

AValue == [kind : {"scalar", "vector"}, data : [Lanes -> Value]]

\* Every vector that a slot refers to lies within the vectors in use.
RefsLive(m) ==
  \A i \in 1 .. Depth(m) :
    IsRef(m.stack[i]) => m.stack[i].payload + FrameSlots <= m.vectorStackTop

LEMMA OwnedRefsLive ==
  ASSUME NEW m \in VM, Owned(m)
  PROVE  RefsLive(m)
<1> SUFFICES ASSUME NEW i \in 1 .. Depth(m), IsRef(m.stack[i])
             PROVE  m.stack[i].payload + FrameSlots <= m.vectorStackTop
  BY DEF RefsLive
<1>1. CASE m.stack[i].type = "StrongVecRef"
  BY <1>1 DEF Owned, Separated, StrongPositions, StrongAbove, IsStrong
<1>2. CASE m.stack[i].type = "WeakVecRef"
  BY <1>2 DEF Owned, Anchored, Separated
<1> QED BY <1>1, <1>2 DEF IsRef

LEMMA AbstractType ==
  ASSUME NEW m \in VM, m.vectorStackTop <= VectorSlots, RefsLive(m), NEW i \in 1 .. Depth(m)
  PROVE  Abstract(m, m.stack[i]) \in AValue
<1>1. m.stack[i] \in Slot
  BY ElementOfSeq DEF VM, Depth
<1>2. CASE IsRef(m.stack[i])
  <2>1. m.stack[i].payload \in Nat
    BY <1>1, <1>2 DEF Slot, IsRef
  <2>2. m.stack[i].payload + FrameSlots <= VectorSlots
    BY <1>2, <2>1, FrameSlotsAssumption, StackSizesAssumption DEF RefsLive, VM
  <2>3. Buffer(m, m.stack[i]) \in [Lanes -> Value]
    BY <2>1, <2>2, BufferType
  <2> QED BY <1>2, <2>3 DEF Abstract, AValue
<1>3. CASE ~IsRef(m.stack[i])
  <2>1. m.stack[i].payload \in Value
    BY <1>1, <1>3 DEF Slot, IsRef
  <2> QED BY <1>3, <2>1 DEF Abstract, AValue
<1> QED BY <1>2, <1>3

LEMMA ValuesFacts ==
  ASSUME NEW m \in VM, m.vectorStackTop <= VectorSlots, RefsLive(m)
  PROVE  /\ Values(m) \in Seq(AValue)
         /\ Len(Values(m)) = Depth(m)
         /\ \A i \in 1 .. Depth(m) : Values(m)[i] = Abstract(m, m.stack[i])
<1>1. Depth(m) \in Nat
  BY TopAtTop
<1>2. \A i \in 1 .. Depth(m) : Abstract(m, m.stack[i]) \in AValue
  BY AbstractType
<1>3. Values(m) \in [1 .. Depth(m) -> AValue]
  BY <1>2 DEF Values
<1> QED BY <1>1, <1>3 DEF Values

(* What a slot stands for depends on the vectors' samples alone. *)
LEMMA AbstractSame ==
  ASSUME NEW m, NEW p, NEW slot, p.vectors = m.vectors
  PROVE  Abstract(p, slot) = Abstract(m, slot)
  BY DEF Abstract, Buffer

LEMMA ValuesPush ==
  ASSUME NEW m \in VM, m.vectorStackTop <= VectorSlots, RefsLive(m),
         NEW slot \in Slot, Abstract(m, slot) \in AValue
  PROVE  Values(Push(m, slot)) = Append(Values(m), Abstract(m, slot))
<1> DEFINE p == Push(m, slot)
           d == Depth(m)
           v == Values(m)
           a == Append(v, Abstract(m, slot))
<1>1. v \in Seq(AValue) /\ Len(v) = d /\ d \in Nat
      /\ \A i \in 1 .. d : v[i] = Abstract(m, m.stack[i])
  BY ValuesFacts, TopAtTop
<1>2. /\ a \in Seq(AValue) /\ Len(a) = d + 1 /\ a[d + 1] = Abstract(m, slot)
      /\ \A i \in 1 .. d : a[i] = v[i]
  <2> HIDE DEF v
  <2> QED BY <1>1, AppendProperties
<1>3. /\ Depth(p) = d + 1 /\ p.vectors = m.vectors /\ p.stack[d + 1] = slot
      /\ \A i \in 1 .. d : p.stack[i] = m.stack[i]
  BY PushFacts
<1>4. \A i \in 1 .. d + 1 : Abstract(p, p.stack[i]) = a[i]
  <2> TAKE i \in 1 .. d + 1
  <2>1. Abstract(p, p.stack[i]) = Abstract(m, p.stack[i])
    BY <1>3, AbstractSame
  <2> HIDE DEF a, v, p
  <2> QED BY <2>1, <1>1, <1>2, <1>3
<1>5. a = [i \in 1 .. d + 1 |-> a[i]]
  <2> HIDE DEF a
  <2> QED BY <1>1, <1>2
<1>6. Values(p) = a
  <2> HIDE DEF a, p, d
  <2> QED BY <1>3, <1>4, <1>5 DEF Values
<1> QED BY <1>6

LEMMA ValuesPop ==
  ASSUME NEW m \in VM, m.vectorStackTop <= VectorSlots, RefsLive(m),
         NEW n \in Nat, n <= Depth(m)
  PROVE  Values(PopN(m, n)) = SubSeq(Values(m), 1, Depth(m) - n)
<1> DEFINE p == PopN(m, n)
           d == Depth(m) - n
           v == Values(m)
           a == SubSeq(v, 1, d)
<1>1. v \in Seq(AValue) /\ Len(v) = Depth(m) /\ Depth(m) \in Nat /\ d \in 0 .. Depth(m)
      /\ \A i \in 1 .. Depth(m) : v[i] = Abstract(m, m.stack[i])
  BY ValuesFacts, TopAtTop
<1>2. a \in Seq(AValue) /\ Len(a) = d /\ \A i \in 1 .. d : a[i] = v[i]
  <2>1. \A i \in 1 .. d : v[i] \in AValue
    BY <1>1, ElementOfSeq
  <2> HIDE DEF v
  <2> QED BY <1>1, <2>1, SubSeqProperties
<1>3. /\ Depth(p) = d /\ p.vectors = m.vectors
      /\ \A i \in 1 .. d : p.stack[i] = m.stack[i]
  BY PopFacts
<1>4. \A i \in 1 .. d : Abstract(p, p.stack[i]) = a[i]
  <2> TAKE i \in 1 .. d
  <2>1. Abstract(p, p.stack[i]) = Abstract(m, p.stack[i])
    BY <1>3, AbstractSame
  <2> HIDE DEF a, v, p
  <2> QED BY <2>1, <1>1, <1>2, <1>3
<1>5. a = [i \in 1 .. d |-> a[i]]
  <2> HIDE DEF a
  <2> QED BY <1>1, <1>2
<1>6. Values(p) = a
  <2> HIDE DEF a, p, d
  <2> QED BY <1>3, <1>4, <1>5 DEF Values
<1> QED BY <1>6

(* The samples below a new vector are out of reach of what is written in it. *)
LEMMA ValuesAlloc ==
  ASSUME NEW m \in VM, m.vectorStackTop + FrameSlots <= VectorSlots, RefsLive(m),
         NEW buffer \in [Lanes -> Value]
  PROVE  Values(Store(Alloc(m), StrongRef(m.vectorStackTop), buffer)) =
           Append(Values(m), [kind |-> "vector", data |-> buffer])
<1> DEFINE top == m.vectorStackTop
           ref == StrongRef(top)
           p == Store(Alloc(m), ref, buffer)
           d == Depth(m)
           v == Values(m)
           new == [kind |-> "vector", data |-> buffer]
           a == Append(v, new)
<1>1. top \in Nat /\ top <= VectorSlots /\ d \in Nat
  BY TopAtTop, FrameSlotsAssumption, StackSizesAssumption DEF VM
<1>2. v \in Seq(AValue) /\ Len(v) = d
      /\ \A i \in 1 .. d : v[i] = Abstract(m, m.stack[i])
  BY <1>1, ValuesFacts
<1>3. /\ a \in Seq(AValue) /\ Len(a) = d + 1 /\ a[d + 1] = new
      /\ \A i \in 1 .. d : a[i] = v[i]
  <2>1. new \in AValue
    BY DEF AValue
  <2> HIDE DEF v, new
  <2> QED BY <1>2, <2>1, AppendProperties
<1>4. /\ Depth(p) = d + 1 /\ p.stack[d + 1] = ref
      /\ \A i \in 1 .. d : p.stack[i] = m.stack[i]
  <2>1. p.stack = Alloc(m).stack /\ Depth(p) = Depth(Alloc(m))
    BY StoreFacts
  <2> HIDE DEF p
  <2> QED BY <2>1, AllocFacts
<1>5. ref.payload = top /\ IsRef(ref)
  BY RefFields DEF IsRef
<1>6. p.vectors = [s \in 0 .. VectorSlots - 1 |->
                     IF s - top \in Lanes THEN buffer[s - top] ELSE m.vectors[s]]
  <2>1. Alloc(m) \in VM /\ Alloc(m).vectors = m.vectors
    BY AllocFacts
  <2> HIDE DEF ref
  <2> QED BY <2>1, <1>5 DEF Store, VM
<1>7. Buffer(p, ref) = buffer
  <2>1. \A lane \in Lanes : p.vectors[top + lane] = buffer[lane]
    <3> TAKE lane \in Lanes
    <3>1. top + lane \in 0 .. VectorSlots - 1 /\ (top + lane) - top = lane
      BY <1>1, FrameSlotsAssumption, StackSizesAssumption DEF Lanes
    <3> HIDE DEF p, top
    <3> QED BY <3>1, <1>6
  <2> HIDE DEF p, ref, top
  <2> QED BY <2>1, <1>5 DEF Buffer
<1>8. ASSUME NEW i \in 1 .. d, IsRef(m.stack[i])
      PROVE  Buffer(p, m.stack[i]) = Buffer(m, m.stack[i])
  <2>1. m.stack[i].payload \in Nat
    <3>1. m.stack[i] \in Slot
      BY ElementOfSeq DEF VM, Depth
    <3> QED BY <3>1, <1>8 DEF Slot, IsRef
  <2>2. m.stack[i].payload + FrameSlots <= top
    BY <1>8 DEF RefsLive
  <2>3. \A lane \in Lanes : p.vectors[m.stack[i].payload + lane] =
                            m.vectors[m.stack[i].payload + lane]
    <3> TAKE lane \in Lanes
    <3> DEFINE s == m.stack[i].payload + lane
    <3>1. s \in 0 .. VectorSlots - 1 /\ s < top
      <4> DEFINE x == m.stack[i].payload
      <4>1. x \in Nat /\ x + FrameSlots <= top /\ lane \in 0 .. FrameSlots - 1
        BY <2>1, <2>2 DEF Lanes
      <4> HIDE DEF x, top
      <4>2. x + lane \in 0 .. VectorSlots - 1 /\ x + lane < top
        BY <1>1, <4>1, FrameSlotsAssumption, StackSizesAssumption
      <4> QED BY <4>2 DEF x
    <3>2. ~(s - top \in Lanes)
      BY <1>1, <3>1, FrameSlotsAssumption DEF Lanes
    <3> HIDE DEF p, s, top
    <3>3. p.vectors[s] = m.vectors[s]
      BY <3>1, <3>2, <1>6
    <3> QED BY <3>3 DEF s
  <2> HIDE DEF p
  <2> QED BY <2>3 DEF Buffer
<1>9. \A i \in 1 .. d + 1 : Abstract(p, p.stack[i]) = a[i]
  <2> TAKE i \in 1 .. d + 1
  <2>1. CASE i \in 1 .. d
    <3>1. p.stack[i] = m.stack[i] /\ a[i] = Abstract(m, m.stack[i])
      <4> HIDE DEF p, a, v, d
      <4> QED BY <2>1, <1>2, <1>3, <1>4
    <3> HIDE DEF p, a
    <3> QED BY <3>1, <2>1, <1>8 DEF Abstract
  <2>2. CASE i = d + 1
    <3> HIDE DEF p, a, ref, d
    <3> QED BY <2>2, <1>3, <1>4, <1>5, <1>7 DEF Abstract
  <2> HIDE DEF p, a, d
  <2> QED BY <2>1, <2>2, <1>1
<1>10. a = [i \in 1 .. d + 1 |-> a[i]]
  <2> HIDE DEF a
  <2> QED BY <1>1, <1>3
<1>11. Values(p) = a
  <2> HIDE DEF a, p, d
  <2> QED BY <1>4, <1>9, <1>10 DEF Values
<1> QED BY <1>11

----------------------------------------------------------------------------
(* Each instruction does to the values what the machine of values does. *)

Top(n) == Abstract(vm, Get(vm, n))

LEMMA IRefinesFacts ==
  ASSUME IOwned
  PROVE  /\ vm \in VM /\ Depth(vm) \in Nat /\ ResultOffset \in Nat
         /\ Owned(vm) /\ RefsLive(vm) /\ vm.vectorStackTop <= VectorSlots
         /\ Len(values) = Depth(vm)
         /\ values \in Seq(AValue)
         /\ \A n \in 1 .. Depth(vm) : Machine!Nth(n) = Top(n) /\ Top(n) \in AValue
         /\ Machine!ResultOffset = ResultOffset
         /\ values = <<>> <=> Depth(vm) = 0
<1>1. vm \in VM /\ Depth(vm) \in Nat /\ ResultOffset \in Nat /\ Owned(vm)
      /\ vm.vectorStackTop <= VectorSlots
  BY OffsetFacts, TopAtTop DEF IOwned, IType, TypeOK, Fits
<1>2. RefsLive(vm)
  BY <1>1, OwnedRefsLive
<1>3. values \in Seq(AValue) /\ Len(values) = Depth(vm)
      /\ \A i \in 1 .. Depth(vm) : values[i] = Abstract(vm, vm.stack[i])
  BY <1>1, <1>2, ValuesFacts DEF values
<1>4. ASSUME NEW n \in 1 .. Depth(vm)
      PROVE  Machine!Nth(n) = Top(n) /\ Top(n) \in AValue
  <2>1. Depth(vm) + 1 - n \in 1 .. Depth(vm)
    BY <1>1
  <2>2. values[Len(values) + 1 - n] = Top(n)
    BY <1>3, <2>1 DEF Top, Get
  <2>3. Machine!Nth(n) = values[Len(values) + 1 - n]
    BY DEF Machine!Nth
  <2> QED BY <1>1, <1>2, <2>1, <2>2, <2>3, AbstractType DEF Top, Get
<1>5. values = <<>> <=> Depth(vm) = 0
  BY <1>3, EmptySeq
<1>6. Machine!ResultOffset = ResultOffset
  BY DEF Machine!ResultOffset, Machine!CurrentFrame, ResultOffset, CurrentFrame
<1> QED BY <1>1, <1>2, <1>3, <1>4, <1>5, <1>6

LEMMA StopSame ==
  ASSUME NEW reason, Stop(reason)
  PROVE  Machine!Stop(reason)
  BY DEF Stop, Machine!Stop, values

LEMMA ContinueReplaces ==
  ASSUME IOwned, NEW next, Continue(next),
         NEW n \in Nat, n <= Depth(vm), NEW result,
         Fits(next) => Values(next) = Append(SubSeq(values, 1, Depth(vm) - n), result)
  PROVE  Machine!Stop("overrun") \/ Machine!Replace(n, result)
<1>1. CASE ~Fits(next) /\ Stop("overrun")
  BY <1>1, StopSame
<1>2. CASE Fits(next) /\ vm' = next /\ UNCHANGED <<frames, status>>
  <2>1. values' = Append(SubSeq(values, 1, Len(values) - n), result)
    BY <1>2, IRefinesFacts DEF values
  <2> QED BY <1>2, <2>1, IRefinesFacts DEF Machine!Replace
<1> QED BY <1>1, <1>2 DEF Continue

LEMMA PopFaultReplaces ==
  ASSUME IOwned, NEW n \in Nat, ~CanPop(vm, n), PopFault(n), NEW result
  PROVE  Machine!Replace(n, result)
<1>1. DeallocsInOrder(vm, n)
  BY OwnedDeallocs, IRefinesFacts DEF Owned
<1>2. n > Depth(vm) /\ Stop("underflow")
  BY <1>1, IRefinesFacts DEF CanPop, PopFault
<1> QED BY <1>2, StopSame, IRefinesFacts DEF Machine!Replace

(* A push on what pop(n) leaves, seen as values. *)
LEMMA PopPushValues ==
  ASSUME IOwned, NEW n \in Nat, n <= Depth(vm),
         NEW slot \in Slot, Abstract(vm, slot) \in AValue
  PROVE  Values(Push(PopN(vm, n), slot)) =
           Append(SubSeq(values, 1, Depth(vm) - n), Abstract(vm, slot))
<1> DEFINE m == PopN(vm, n)
<1>1. m \in VM /\ Owned(m) /\ RefsLive(m) /\ m.vectors = vm.vectors
      /\ m.vectorStackTop <= VectorSlots
  <2>1. m \in VM /\ Owned(m) /\ m.vectors = vm.vectors
    BY IRefinesFacts, PopIsVM, PopOwned, PopFacts
  <2>2. m.vectorStackTop <= vm.vectorStackTop /\ m.vectorStackTop \in Nat
        /\ vm.vectorStackTop \in Nat
    <3>1. m.vectorStackTop = TopAt(vm, Depth(vm) - n)
      BY IRefinesFacts, PopFacts
    <3>2. TopAt(vm, Depth(vm) - n) <= vm.vectorStackTop
      BY IRefinesFacts, TopAtBelowTop DEF Owned
    <3> QED BY <3>1, <3>2, <2>1, IRefinesFacts DEF VM
  <2> QED BY <2>1, <2>2, IRefinesFacts, OwnedRefsLive, StackSizesAssumption
<1>2. Abstract(m, slot) = Abstract(vm, slot)
  BY <1>1, AbstractSame
<1>3. Values(m) = SubSeq(values, 1, Depth(vm) - n)
  BY IRefinesFacts, ValuesPop DEF values
<1> HIDE DEF m
<1>4. Values(Push(m, slot)) = Append(Values(m), Abstract(m, slot))
  BY <1>1, <1>2, ValuesPush
<1> QED BY <1>2, <1>3, <1>4 DEF m

LEMMA SubSeqAll ==
  ASSUME IOwned
  PROVE  SubSeq(values, 1, Depth(vm) - 0) = values
  BY IRefinesFacts, SubSeqFull

LEMMA PushValues ==
  ASSUME IOwned, NEW slot \in Slot, Abstract(vm, slot) \in AValue
  PROVE  Values(Push(vm, slot)) =
           Append(SubSeq(values, 1, Depth(vm) - 0), Abstract(vm, slot))
  BY SubSeqAll, IRefinesFacts, ValuesPush DEF values

LEMMA ScalarValues ==
  ASSUME NEW m, NEW x \in Value
  PROVE  /\ Scalar(x) \in Slot
         /\ Abstract(m, Scalar(x)) = Machine!ScalarValue(x)
         /\ Abstract(m, Scalar(x)) \in AValue
         /\ ~Machine!IsVector(Machine!ScalarValue(x))
  BY DEF Scalar, Slot, Abstract, IsRef, AValue, Machine!ScalarValue, Machine!IsVector

(* A scalar operand, seen as a value. *)
LEMMA TopScalar ==
  ASSUME IOwned, NEW n \in 1 .. Depth(vm), ~IsRef(Get(vm, n))
  PROVE  /\ Get(vm, n).payload \in Value
         /\ Machine!Nth(n) = [kind |-> "scalar",
                              data |-> [lane \in Lanes |-> Get(vm, n).payload]]
  BY IRefinesFacts, GetFacts DEF Top, Abstract

LEMMA StepSimulates ==
  ASSUME IOwned, NEW inst \in Instructions, inst.op \notin Undisciplined,
         OperandsFit(inst), Execute(inst)
  PROVE  Machine!Stop("overrun") \/ Machine!Perform(inst)
<1>1. /\ vm \in VM /\ Depth(vm) \in Nat /\ ResultOffset \in Nat
      /\ Machine!ResultOffset = ResultOffset
      /\ Len(values) = Depth(vm)
      /\ values = <<>> <=> Depth(vm) = 0
  BY IRefinesFacts
<1>2. inst \in Instruction
  BY InstructionsAssumption
<1>3. CASE inst.op = "PUSH" /\ PUSH(inst.operand)
  <2>1. inst.operand \in Value
    BY <1>2, <1>3 DEF Instruction, Flavours, VectorFlavours
  <2>2. Values(Push(vm, Scalar(inst.operand))) =
          Append(SubSeq(values, 1, Depth(vm) - 0), Machine!ScalarValue(inst.operand))
    BY <2>1, ScalarValues, PushValues
  <2>3. Continue(Push(vm, Scalar(inst.operand)))
    BY <1>3 DEF PUSH
  <2>4. Machine!Stop("overrun") \/ Machine!Replace(0, Machine!ScalarValue(inst.operand))
    BY <1>1, <2>2, <2>3, ContinueReplaces
  <2> QED BY <1>3, <2>4 DEF Machine!Perform
<1>4. CASE inst.op = "COPY" /\ COPY(inst.operand)
  <2> DEFINE n == inst.operand
  <2>1. n \in 1 .. Depth(vm) /\ Get(vm, n) \in Slot
        /\ Abstract(vm, Get(vm, n)) \in AValue /\ Machine!Nth(n) = Abstract(vm, Get(vm, n))
    BY <1>1, <1>4, GetFacts, IRefinesFacts DEF OperandsFit, Top
  <2>2. Values(Push(vm, Get(vm, n))) =
          Append(SubSeq(values, 1, Depth(vm) - 0), Machine!Nth(n))
    BY <2>1, PushValues
  <2>3. Continue(Push(vm, Get(vm, n)))
    BY <1>4 DEF COPY
  <2>4. Machine!Stop("overrun") \/ Machine!Replace(0, Machine!Nth(n))
    BY <1>1, <2>2, <2>3, ContinueReplaces
  <2> QED BY <1>1, <1>4, <2>1, <2>4 DEF Machine!Perform
<1>5. CASE inst.op = "REF_VEC" /\ REF_VEC(inst.operand)
  <2> DEFINE n == inst.operand
             weak == WeakRef(Get(vm, n).payload)
  <2>1. n \in 1 .. Depth(vm) /\ Get(vm, n) \in Slot
        /\ (IsRef(Get(vm, n)) => Get(vm, n).payload \in Nat)
        /\ Abstract(vm, Get(vm, n)) \in AValue /\ Machine!Nth(n) = Abstract(vm, Get(vm, n))
    BY <1>1, <1>5, GetFacts, IRefinesFacts DEF OperandsFit, Top
  <2>2. CASE IsRef(Get(vm, n)) /\ Continue(Push(vm, weak))
    <3>1. weak \in Slot /\ weak.payload = Get(vm, n).payload /\ IsRef(weak)
      BY <2>1, <2>2, RefFields DEF IsRef
    <3>2. Abstract(vm, weak) = Machine!Nth(n)
      <4> HIDE DEF weak
      <4> QED BY <2>1, <2>2, <3>1 DEF Abstract, Buffer
    <3>3. Values(Push(vm, weak)) =
            Append(SubSeq(values, 1, Depth(vm) - 0), Machine!Nth(n))
      BY <2>1, <3>1, <3>2, PushValues
    <3>4. Machine!Stop("overrun") \/ Machine!Replace(0, Machine!Nth(n))
      BY <1>1, <2>2, <3>3, ContinueReplaces
    <3> QED BY <1>1, <1>5, <2>1, <3>4 DEF Machine!Perform
  <2>3. CASE ~IsRef(Get(vm, n)) /\ Stop("reference")
    <3>1. Machine!Stop("reference")
      BY <2>3, StopSame
    <3>2. ~Machine!IsVector(Machine!Nth(n))
      BY <2>1, <2>3 DEF Abstract, Machine!IsVector
    <3> QED BY <1>1, <1>5, <2>1, <3>1, <3>2 DEF Machine!Perform
  <2> QED BY <1>5, <2>2, <2>3 DEF REF_VEC
<1>6. CASE inst.op = "DROP_S" /\ DROP_S(inst.operand)
  <2> DEFINE offset == inst.operand + ResultOffset + 1
  <2>1. offset \in Nat
    BY <1>1, <1>2, <1>6 DEF Instruction, Flavours, VectorFlavours
  <2>2. 1 \in 1 .. Depth(vm) /\ Get(vm, 1) \in Slot
        /\ Abstract(vm, Get(vm, 1)) \in AValue /\ Machine!Nth(1) = Abstract(vm, Get(vm, 1))
    BY <1>1, <1>6, GetFacts, IRefinesFacts DEF OperandsFit, Top
  <2>3. Machine!Stop("overrun") \/ Machine!Replace(offset, Machine!Nth(1))
    <3>1. CASE CanPop(vm, offset) /\ Continue(Push(PopN(vm, offset), Get(vm, 1)))
      <4>1. offset <= Depth(vm)
        BY <3>1 DEF CanPop
      <4>2. Values(Push(PopN(vm, offset), Get(vm, 1))) =
              Append(SubSeq(values, 1, Depth(vm) - offset), Machine!Nth(1))
        BY <2>1, <2>2, <4>1, PopPushValues
      <4> QED BY <2>1, <3>1, <4>1, <4>2, ContinueReplaces
    <3>2. CASE ~CanPop(vm, offset) /\ PopFault(offset)
      BY <2>1, <3>2, PopFaultReplaces
    <3> QED BY <1>6, <3>1, <3>2 DEF DROP_S
  <2> QED BY <1>1, <1>6, <2>2, <2>3 DEF Machine!Perform
<1>7. CASE inst.op = "FILL" /\ FILL
  <2> DEFINE m == PopN(vm, 1)
             buffer == [lane \in Lanes |-> Get(vm, 1).payload]
             next == Store(Alloc(m), StrongRef(m.vectorStackTop), buffer)
             result == Machine!VectorValue(Machine!Nth(1).data)
  <2>1. 1 \in 1 .. Depth(vm) /\ ~IsRef(Get(vm, 1))
    BY <1>1, <1>7 DEF OperandsFit, IsScalar, IsRef
  <2>2. buffer \in [Lanes -> Value] /\ Machine!Nth(1).data = buffer
    BY <2>1, TopScalar
  <2>3. m \in VM /\ RefsLive(m) /\ m.vectorStackTop \in Nat
    BY <2>1, IRefinesFacts, PopIsVM, PopOwned, OwnedRefsLive DEF VM
  <2>4. Values(m) = SubSeq(values, 1, Depth(vm) - 1)
    BY <2>1, IRefinesFacts, ValuesPop DEF values
  <2>5. Fits(next) => Values(next) = Append(SubSeq(values, 1, Depth(vm) - 1), result)
    <3>1. SUFFICES ASSUME Fits(next)
                   PROVE  Values(next) = Append(SubSeq(values, 1, Depth(vm) - 1), result)
      OBVIOUS
    <3>2. m.vectorStackTop + FrameSlots <= VectorSlots
      <4>1. next.vectorStackTop = m.vectorStackTop + FrameSlots
        <5> HIDE DEF m, buffer
        <5>1. Alloc(m).vectorStackTop = m.vectorStackTop + FrameSlots
          BY <2>3, AllocFacts
        <5> QED BY <5>1 DEF Store
      <4> HIDE DEF m, next
      <4> QED BY <3>1, <4>1 DEF Fits
    <3>3. Values(next) = Append(Values(m), [kind |-> "vector", data |-> buffer])
      <4> HIDE DEF m, buffer
      <4> QED BY <2>2, <2>3, <3>2, ValuesAlloc
    <3>4. result = [kind |-> "vector", data |-> buffer]
      <4> HIDE DEF buffer
      <4> QED BY <2>2 DEF Machine!VectorValue
    <3> HIDE DEF m, buffer, next, result
    <3> QED BY <2>4, <3>3, <3>4
  <2>6. Continue(next)
    BY <1>7 DEF FILL
  <2>7. Machine!Stop("overrun") \/ Machine!Replace(1, result)
    <3> HIDE DEF m, buffer, next, result
    <3> DEFINE n == 1
    <3>1. n \in Nat /\ n <= Depth(vm)
      BY <1>1, <2>1
    <3>2. Fits(next) => Values(next) = Append(SubSeq(values, 1, Depth(vm) - n), result)
      BY <2>5
    <3>3. Machine!Stop("overrun") \/ Machine!Replace(n, result)
      <4> HIDE DEF n
      <4> QED BY <2>6, <3>1, <3>2, ContinueReplaces
    <3> QED BY <3>3
  <2> QED BY <1>1, <1>7, <2>1, <2>7 DEF Machine!Perform
<1>8. CASE inst.op = "SS" /\ ScalarOp(inst)
  <2> DEFINE offset == 2 + inst.operand + ResultOffset
             x == Get(vm, 1).payload
             y == Get(vm, 2).payload
             result == Arith(inst.operation, x, y)
             binary == Machine!BinaryResult(inst.operation, Machine!Nth(1), Machine!Nth(2))
  <2>1. offset \in Nat /\ inst.operation \in Operations
    BY <1>1, <1>2, <1>8 DEF Instruction, Flavours, VectorFlavours
  <2>2. Depth(vm) >= 2 /\ ~IsRef(Get(vm, 1)) /\ ~IsRef(Get(vm, 2))
    BY <1>8 DEF OperandsFit, Flavours
  <2>3. /\ x \in Value /\ y \in Value
        /\ Machine!Nth(1) = [kind |-> "scalar", data |-> [lane \in Lanes |-> x]]
        /\ Machine!Nth(2) = [kind |-> "scalar", data |-> [lane \in Lanes |-> y]]
    BY <1>1, <2>2, TopScalar
  <2>4. result \in Value
    BY <2>1, <2>3, ArithAssumption
  <2>5. binary = Machine!ScalarValue(result)
    <3> HIDE DEF x, y
    <3> QED BY <2>3 DEF Machine!BinaryResult, Machine!ScalarValue, Machine!IsVector
  <2>6. Machine!Stop("overrun") \/ Machine!Replace(offset, binary)
    <3>1. CASE CanPop(vm, offset) /\ Continue(Push(PopN(vm, offset), Scalar(result)))
      <4>1. offset <= Depth(vm)
        BY <3>1 DEF CanPop
      <4>2. Values(Push(PopN(vm, offset), Scalar(result))) =
              Append(SubSeq(values, 1, Depth(vm) - offset), binary)
        <5> HIDE DEF offset, result, binary
        <5> QED BY <2>1, <2>4, <2>5, <4>1, ScalarValues, PopPushValues
      <4> HIDE DEF offset, result, binary
      <4> QED BY <2>1, <3>1, <4>1, <4>2, ContinueReplaces
    <3>2. CASE ~CanPop(vm, offset) /\ PopFault(offset)
      BY <2>1, <3>2, PopFaultReplaces
    <3> QED BY <1>8, <3>1, <3>2 DEF ScalarOp
  <2> QED BY <1>1, <1>8, <2>2, <2>6 DEF Machine!Perform, Machine!Flavours,
                                        Machine!VectorFlavours
<1>9. CASE inst.op = "CALL" /\ CALL(inst.operand)
  <2>1. CASE Stop("overrun")
    BY <2>1, StopSame
  <2>2. CASE /\ vm' = PopN(vm, 1)
             /\ frames' = Append(frames, NewFrame(inst.operand + ResultOffset))
             /\ UNCHANGED status
    <3>1. 1 <= Depth(vm)
      BY <1>9 DEF OperandsFit
    <3>2. values' = SubSeq(values, 1, Len(values) - 1)
      BY <1>1, <2>2, <3>1, IRefinesFacts, ValuesPop DEF values
    <3>3. Machine!NewFrame(inst.operand + ResultOffset) = NewFrame(inst.operand + ResultOffset)
      BY DEF Machine!NewFrame, NewFrame
    <3>4. Machine!Call(inst.operand)
      BY <1>1, <2>2, <3>1, <3>2, <3>3 DEF Machine!Call
    <3> QED BY <1>9, <3>4 DEF Machine!Perform
  <2> QED BY <1>9, <2>1, <2>2 DEF CALL
<1>10. CASE inst.op = "RET" /\ RET
  <2>1. Machine!MarkReturn(frames) = MarkReturn(frames)
    BY DEF Machine!MarkReturn, MarkReturn
  <2>2. Machine!Return
    BY <1>10, <2>1 DEF RET, Machine!Return, values
  <2> QED BY <1>10, <2>2 DEF Machine!Perform
<1>11. CASE inst.op = "EXIT" /\ EXIT
  <2>1. Machine!Caller(frames) = Caller(frames)
    BY DEF Machine!Caller, Caller
  <2>2. Machine!Exit
    BY <1>11, <2>1, StopSame DEF EXIT, Machine!Exit, values
  <2> QED BY <1>11, <2>2 DEF Machine!Perform
<1> QED BY <1>3, <1>4, <1>5, <1>6, <1>7, <1>8, <1>9, <1>10, <1>11
        DEF Execute, Undisciplined

LEMMA InitSimulates ==
  ASSUME Init
  PROVE  Machine!Init
<1>1. PICK param \in [Lanes -> Value] : vm = Store(Alloc(Fresh), StrongRef(0), param)
  BY DEF Init
<1>2. Fresh \in VM /\ Depth(Fresh) = 0 /\ Fresh.vectorStackTop = 0
  BY ZeroAssumption, EmptySeq DEF Fresh, VM, VectorStack, Depth
<1>3. RefsLive(Fresh)
  BY <1>2 DEF RefsLive
<1>4. values = Append(Values(Fresh), [kind |-> "vector", data |-> param])
  BY <1>1, <1>2, <1>3, ValuesAlloc, FrameSlotsAssumption, StackSizesAssumption DEF values
<1>5. Values(Fresh) \in Seq(AValue) /\ Len(Values(Fresh)) = 0
  BY <1>2, <1>3, ValuesFacts, StackSizesAssumption
<1>6. values = <<[kind |-> "vector", data |-> param]>>
  BY <1>4, <1>5, EmptySeq
<1>7. Machine!NewFrame(0) = NewFrame(0)
  BY DEF Machine!NewFrame, NewFrame
<1> QED BY <1>6, <1>7 DEF Init, Machine!Init, Machine!VectorValue

(* Without vector arithmetic, DROP_V and copies of strong references, the  *)
(* loop implements the machine of values (the opcode comments of           *)
(* Instruction.hpp).                                                       *)
THEOREM Refinement ==
  ASSUME DisciplinedInstructions
  PROVE  OwningSpec => ImplementsStackMachine
<1>1. Init => Machine!Init
  BY InitSimulates
<1>2. IOwned /\ [OwningNext]_vars => [Machine!Next]_(Machine!vars)
  <2> SUFFICES ASSUME IOwned, [OwningNext]_vars PROVE [Machine!Next]_(Machine!vars)
    OBVIOUS
  <2>1. CASE Step
    <3>1. status = "running"
      BY <2>1 DEF Step
    <3>2. PICK inst \in Instructions : OperandsFit(inst) /\ Execute(inst)
      BY <2>1 DEF Step
    <3>3. Machine!Stop("overrun") \/ Machine!Perform(inst)
      BY <3>2, StepSimulates DEF DisciplinedInstructions
    <3> QED BY <3>1, <3>3 DEF Machine!Next
  <2>2. CASE UNCHANGED vars
    BY <2>2 DEF vars, Machine!vars, values
  <2> QED BY <2>1, <2>2 DEF OwningNext, Next, Ended
<1>3. IOwned /\ [OwningNext]_vars => IOwned'
  BY IOwnedStep
<1>4. Init => IOwned
  BY InitOwned
<1> QED BY <1>1, <1>2, <1>3, <1>4, PTL DEF OwningSpec, ImplementsStackMachine, Machine!Spec
=============================================================================
