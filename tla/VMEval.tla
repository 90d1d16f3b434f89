------------------------------- MODULE VMEval -------------------------------
(***************************************************************************)
(* The evaluation loop (eval in src/lib/runtime/VMEval.cpp, lines 42-153), *)
(* run over an arbitrary program: each step executes any instruction of    *)
(* Instructions whose operands have the types the opcode documents.        *)
(* VMRun runs one given package instead.                                   *)
(*                                                                         *)
(* The C++ assertions are compiled in (the Makefile defines no NDEBUG): a  *)
(* failed one ends the process, and status tells which.  Writing past the  *)
(* end of an array is undefined behaviour: status becomes "overrun" and    *)
(* nothing more is said of the run.                                        *)
(***************************************************************************)
EXTENDS VMState, Instruction

CONSTANTS
  Instructions,  \* the instructions programs may use
  MaxFrames      \* bound: nesting of eval activations the C++ stack holds

ASSUME InstructionsAssumption == Instructions \subseteq Instruction
ASSUME MaxFramesAssumption == MaxFrames \in Nat

VARIABLES
  vm,       \* the VMState object
  frames,   \* the activations of eval, outermost first
  status    \* "running", "returned", or how the process ended

vars == <<vm, frames, status>>

Faults == {"underflow", "dealloc", "dereference", "reference", "overrun"}
Status == {"running", "returned"} \cup Faults

TypeOK ==
  /\ vm \in VM
  /\ frames \in Seq(Frame) /\ frames # <<>>
  /\ status \in Status

ResultOffset == CurrentFrame(frames).resultOffset

----------------------------------------------------------------------------
\* How an instruction ends.

Stop(reason) == status' = reason /\ UNCHANGED <<vm, frames>>

Continue(next) ==
  \/ /\ Fits(next)
     /\ vm' = next
     /\ UNCHANGED <<frames, status>>
  \/ ~Fits(next) /\ Stop("overrun")

\* pop(n) fails at the first slot, from the top, that breaks an assertion.
PopFault(n) ==
  Stop(IF DeallocsInOrder(vm, n) THEN "underflow" ELSE "dealloc")

----------------------------------------------------------------------------
\* The opcode's operands are on the stack, with the types it documents: COPY's
\* may be of any type, and reference() checks REF_VEC's itself.

OperandsFit(inst) ==
  /\ inst.op \in {"COPY", "REF_VEC"} => inst.operand \in 1 .. Depth(vm)
  /\ inst.op \in {"DROP_S", "FILL", "CALL"} => Depth(vm) >= 1 /\ IsScalar(Get(vm, 1))
  /\ inst.op = "DROP_V" => Depth(vm) >= 1 /\ IsRef(Get(vm, 1))
  /\ inst.op \in Flavours =>
       /\ Depth(vm) >= 2
       /\ IsRef(Get(vm, 1)) <=> inst.op \in {"VV", "VS"}
       /\ IsRef(Get(vm, 2)) <=> inst.op \in {"VV", "SV"}

----------------------------------------------------------------------------
\* The instructions.

PUSH(value) == Continue(Push(vm, Scalar(value)))

COPY(n) == Continue(Push(vm, Get(vm, n)))

REF_VEC_operand(n) == IsRef(Get(vm, n)) /\ Continue(Push(vm, WeakRef(n)))

REF_VEC(n) ==
  LET ref == Get(vm, n) IN
  \/ IsRef(ref) /\ Continue(Push(vm, WeakRef(ref.payload)))
  \/ ~IsRef(ref) /\ Stop("reference")

DROP_S(n) ==
  LET offset == n + ResultOffset + 1 IN
  \/ CanPop(vm, offset) /\ Continue(Push(PopN(vm, offset), Get(vm, 1)))
  \/ ~CanPop(vm, offset) /\ PopFault(offset)

DROP_V_noCopy(n) == Continue(Alloc(PopN(vm, n + ResultOffset + 1)))

(* newTop is compared with the payload as the code does, although the one  *)
(* is a scalar-stack index and the other a vector-stack index.  In         *)
(* uint32_t it wraps when offset > Depth, to more than any payload: the    *)
(* last disjunct.                                                          *)
DROP_V(n) ==
  LET offset == n + ResultOffset + 1
      src    == Get(vm, 1)
      newTop == Depth(vm) - offset
      popped == PopN(vm, offset)
  IN
  \/ /\ newTop < src.payload /\ offset <= Depth(vm)
     /\ \/ /\ CanDereference(vm, src) /\ CanPop(vm, offset)
           /\ Continue(Store(Alloc(popped), StrongRef(popped.vectorStackTop),
                             Buffer(vm, src)))
        \/ CanDereference(vm, src) /\ ~CanPop(vm, offset) /\ PopFault(offset)
        \/ ~CanDereference(vm, src) /\ Stop("dereference")
  \/ /\ newTop > src.payload
     /\ \/ CanPop(vm, offset) /\ Continue(Push(popped, WeakRef(src.payload)))
        \/ ~CanPop(vm, offset) /\ PopFault(offset)
  \/ newTop = src.payload /\ Continue(vm)
  \/ offset > Depth(vm) /\ PopFault(offset)

FILL ==
  LET popped == PopN(vm, 1) IN
  Continue(Store(Alloc(popped), StrongRef(popped.vectorStackTop),
                 [lane \in Lanes |-> Get(vm, 1).payload]))

CALL(n) ==
  \/ /\ Len(frames) < MaxFrames
     /\ vm' = PopN(vm, 1)
     /\ frames' = Append(frames, NewFrame(n + ResultOffset))
     /\ UNCHANGED status
  \/ Len(frames) >= MaxFrames /\ Stop("overrun")

(* vectorVectorOp, vectorScalarOp and scalarVectorOp: the operands that    *)
(* are vectors are dereferenced after the pops and the allocation, and     *)
(* the result's reference is pushed once by alloc and once more.           *)
VectorOp(inst) ==
  LET lhs    == Get(vm, 1)
      rhs    == Get(vm, 2)
      offset == 2 + inst.operand + ResultOffset
      popped == PopN(vm, offset)
      result == StrongRef(popped.vectorStackTop)
      next   == Push(Alloc(popped), result)
      Sample(slot, lane) ==
        IF IsRef(slot) THEN Buffer(next, slot)[lane] ELSE slot.payload
  IN
  \/ ~CanPop(vm, offset) /\ PopFault(offset)
  \/ /\ CanPop(vm, offset)
     /\ \A slot \in {lhs, rhs} : IsRef(slot) => CanDereference(next, slot)
     /\ Continue(Store(next, result,
          [lane \in Lanes |->
             Arith(inst.operation, Sample(lhs, lane), Sample(rhs, lane))]))
  \/ /\ CanPop(vm, offset)
     /\ \E slot \in {lhs, rhs} : IsRef(slot) /\ ~CanDereference(next, slot)
     /\ Stop("dereference")

ScalarOp_ignoresReturn(inst) ==
  LET offset == 2 + inst.operand
      result == Arith(inst.operation, Get(vm, 1).payload, Get(vm, 2).payload)
  IN
  \/ CanPop(vm, offset) /\ Continue(Push(PopN(vm, offset), Scalar(result)))
  \/ ~CanPop(vm, offset) /\ PopFault(offset)

ScalarOp(inst) ==
  LET offset == 2 + inst.operand + ResultOffset
      result == Arith(inst.operation, Get(vm, 1).payload, Get(vm, 2).payload)
  IN
  \/ CanPop(vm, offset) /\ Continue(Push(PopN(vm, offset), Scalar(result)))
  \/ ~CanPop(vm, offset) /\ PopFault(offset)

RET ==
  /\ frames' = MarkReturn(frames)
  /\ UNCHANGED <<vm, status>>

EXIT_fromMainToo == frames' = Caller(frames) /\ UNCHANGED <<vm, status>>

EXIT ==
  \/ /\ Len(frames) > 1
     /\ frames' = Caller(frames)
     /\ UNCHANGED <<vm, status>>
  \/ Len(frames) = 1 /\ Stop("returned")

\* One round of the loop: the switch on inst.operation.
Execute(inst) ==
  \/ inst.op = "PUSH"    /\ PUSH(inst.operand)
  \/ inst.op = "COPY"    /\ COPY(inst.operand)
  \/ inst.op = "REF_VEC" /\ REF_VEC(inst.operand)
  \/ inst.op = "DROP_S"  /\ DROP_S(inst.operand)
  \/ inst.op = "DROP_V"  /\ DROP_V(inst.operand)
  \/ inst.op = "FILL"    /\ FILL
  \/ inst.op = "CALL"    /\ CALL(inst.operand)
  \/ inst.op \in VectorFlavours /\ VectorOp(inst)
  \/ inst.op = "SS"      /\ ScalarOp(inst)
  \/ inst.op = "RET"     /\ RET
  \/ inst.op = "EXIT"    /\ EXIT

----------------------------------------------------------------------------
(* The caller has allocated a vector and copied its parameter into it      *)
(* (VMEval.cpp:172-175); the rest of both arrays is zero.                  *)

Fresh == [ stack |-> <<>>, vectorStackTop |-> 0,
           vectors |-> [s \in 0 .. VectorSlots - 1 |-> Zero] ]

Init ==
  /\ \E param \in [Lanes -> Value] : vm = Store(Alloc(Fresh), StrongRef(0), param)
  /\ frames = <<NewFrame(0)>>
  /\ status = "running"

Step ==
  /\ status = "running"
  /\ \E inst \in Instructions : OperandsFit(inst) /\ Execute(inst)

\* The process has ended.
Ended == status # "running" /\ UNCHANGED vars

Next == Step \/ Ended

Spec == Init /\ [][Next]_vars

(* COPY asks for no type: it copies a strong reference as it is, and the   *)
(* copy is a second owner of the vector.  The code generator, which copies *)
(* scalars only, emits no such COPY; a package written by hand may.        *)
CopiesStrongRef ==
  \E n \in 1 .. Depth(vm) : IsStrong(Get(vm, n)) /\ vm' = Push(vm, Get(vm, n))

\* The programs that copy no strong reference.
OwningNext == Next /\ ~CopiesStrongRef

OwningSpec == Init /\ [][OwningNext]_vars

----------------------------------------------------------------------------
\* Correctness.

(* "Vector slots are have exactly one strong reference" (VMState.hpp:32):   *)
(* every vector-stack slot in use belongs to the vector of exactly one     *)
(* strong reference on the stack, so that it is released exactly once.     *)
(* True of programs without vector arithmetic and DROP_V that copy no      *)
(* strong reference, as are the next three.                                *)
OneStrongRef == Covered(vm) /\ Separated(vm)

(* "No weak references to a vector exist below the vector's strong         *)
(* reference" (VMState.hpp:33), and the strong reference is still there:   *)
(* popping in LIFO order leaves no weak reference to a released vector.    *)
WeakAboveStrong == Anchored(vm)

(* Vectors are released in the reverse order of their allocation whatever  *)
(* pops such a program does: dealloc's assertion (VMState.hpp:184) never   *)
(* fires ("scalar slots are always popped in LIFO order", VMState.hpp:34). *)
DeallocNeverFails == status # "dealloc"

(* The vectors of successive strong references either are the same one (a  *)
(* vector operation's doubled reference) or lie end to end from the bottom *)
(* of the vector stack to its top.                                         *)
VectorsStacked == Stacked(vm)

(* Whatever the program, the only step after which the vectors no longer   *)
(* lie so is the COPY of a strong reference: no pop, no doubled reference  *)
(* and no vector moved by DROP_V disturbs them (VMEval.cpp:64-66, 96-121,  *)
(* 200-205).                                                               *)
OnlyCopiesUnstack == [][VectorsStacked /\ ~CopiesStrongRef => VectorsStacked']_vars

(* Whatever the program: a vector stack FrameSlots times as long as the    *)
(* scalar stack can never be overrun, however often references are copied, *)
(* strong ones too, doubled and dropped; and this holds again after        *)
(* popping down to any position.                                           *)
VectorStackBounded == Bounded(vm)

(* Whatever the program: a step writes to no vector but the one it leaves  *)
(* on top, so that every vector below keeps its samples.                   *)
OnlyTopVectorWritten ==
  [][\A s \in 0 .. VectorSlots - 1 :
       s < vm'.vectorStackTop - FrameSlots => vm'.vectors[s] = vm.vectors[s]]_vars

----------------------------------------------------------------------------
(* Programs that use no vector arithmetic and no DROP_V and copy no strong *)
(* reference cannot tell the two stacks from one stack of values: each     *)
(* step of the loop does to the values what StackMachine says.             *)

Abstract(m, slot) ==
  IF IsRef(slot)
    THEN [kind |-> "vector", data |-> Buffer(m, slot)]
    ELSE [kind |-> "scalar", data |-> [lane \in Lanes |-> slot.payload]]

Values(m) == [i \in 1 .. Depth(m) |-> Abstract(m, m.stack[i])]

values == Values(vm)

Machine ==
  INSTANCE StackMachine WITH
    Lanes <- Lanes, Instructions <- Instructions, values <- values, frames <- frames, status <- status

ImplementsStackMachine == Machine!Spec
=============================================================================
