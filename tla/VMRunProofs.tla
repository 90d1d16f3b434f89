---------------------------- MODULE VMRunProofs ----------------------------
(***************************************************************************)
(* Evaluating a package again gives what its first evaluation gave, for    *)
(* every package.                                                          *)
(*                                                                         *)
(* The loop is deterministic: what one round does to the machine's state   *)
(* is a function, NextConfig, of that state and of the package's code AS   *)
(* IT WAS LOADED.  That the code executed is not that code, but what the   *)
(* fixups of earlier rounds and earlier evaluations made of it, makes no   *)
(* difference: a PUSH_SYM pushes what the PUSH it becomes pushes.  So all  *)
(* evaluations run through one and the same sequence of states.            *)
(***************************************************************************)
EXTENDS VMRun, VMEvalProofs

----------------------------------------------------------------------------
\* One instruction, as a function of the stacks and the activations.

Stopped(m, fs, reason) == [vm |-> m, frames |-> fs, status |-> reason]

Continued(m, fs, next) ==
  IF Fits(next) THEN [vm |-> next, frames |-> fs, status |-> "running"]
                ELSE Stopped(m, fs, "overrun")

PopFaulted(m, fs, n) ==
  Stopped(m, fs, IF DeallocsInOrder(m, n) THEN "underflow" ELSE "dealloc")

\* pop(n), and then next.
Popping(m, fs, n, next) ==
  IF CanPop(m, n) THEN Continued(m, fs, next) ELSE PopFaulted(m, fs, n)

AfterDROP_V(m, fs, offset) ==
  LET src    == Get(m, 1)
      newTop == Depth(m) - offset
      popped == PopN(m, offset)
  IN
  IF offset > Depth(m) THEN PopFaulted(m, fs, offset)
  ELSE IF newTop < src.payload THEN
    IF CanDereference(m, src)
      THEN Popping(m, fs, offset,
             Store(Alloc(popped), StrongRef(popped.vectorStackTop), Buffer(m, src)))
      ELSE Stopped(m, fs, "dereference")
  ELSE IF newTop > src.payload THEN
    Popping(m, fs, offset, Push(popped, WeakRef(src.payload)))
  ELSE Continued(m, fs, m)

AfterVectorOp(m, fs, offset, operation) ==
  LET lhs    == Get(m, 1)
      rhs    == Get(m, 2)
      popped == PopN(m, offset)
      result == StrongRef(popped.vectorStackTop)
      next   == Push(Alloc(popped), result)
      Sample(slot, lane) ==
        IF IsRef(slot) THEN Buffer(next, slot)[lane] ELSE slot.payload
  IN
  IF CanPop(m, offset) /\ \E slot \in {lhs, rhs} : IsRef(slot) /\ ~CanDereference(next, slot)
    THEN Stopped(m, fs, "dereference")
    ELSE Popping(m, fs, offset,
           Store(next, result,
             [lane \in Lanes |-> Arith(operation, Sample(lhs, lane), Sample(rhs, lane))]))

AfterCALL(m, fs, n) ==
  IF Len(fs) < MaxFrames
    THEN [vm |-> PopN(m, 1), status |-> "running",
          frames |-> Append(fs, NewFrame(n + CurrentFrame(fs).resultOffset))]
    ELSE Stopped(m, fs, "overrun")

AfterEXIT(m, fs) ==
  IF Len(fs) > 1 THEN [vm |-> m, frames |-> Caller(fs), status |-> "running"]
                 ELSE Stopped(m, fs, "returned")

Outcome(m, fs, inst) ==
  LET offset == inst.operand + CurrentFrame(fs).resultOffset + 1 
      popped == 2 + inst.operand + CurrentFrame(fs).resultOffset IN
  CASE inst.op = "PUSH"    -> Continued(m, fs, Push(m, Scalar(inst.operand)))
    [] inst.op = "COPY"    -> Continued(m, fs, Push(m, Get(m, inst.operand)))
    [] inst.op = "REF_VEC" ->
         IF IsRef(Get(m, inst.operand))
           THEN Continued(m, fs, Push(m, WeakRef(Get(m, inst.operand).payload)))
           ELSE Stopped(m, fs, "reference")
    [] inst.op = "DROP_S"  -> Popping(m, fs, offset, Push(PopN(m, offset), Get(m, 1)))
    [] inst.op = "DROP_V"  -> AfterDROP_V(m, fs, offset)
    [] inst.op = "FILL"    ->
         Continued(m, fs, Store(Alloc(PopN(m, 1)), StrongRef(PopN(m, 1).vectorStackTop),
                                [lane \in Lanes |-> Get(m, 1).payload]))
    [] inst.op = "CALL"    -> AfterCALL(m, fs, inst.operand)
    [] inst.op \in VectorFlavours -> AfterVectorOp(m, fs, popped, inst.operation)
    [] inst.op = "SS"      ->
         Popping(m, fs, popped,
           Push(PopN(m, popped),
                Scalar(Arith(inst.operation, Get(m, 1).payload, Get(m, 2).payload))))
    [] inst.op = "RET"     -> [vm |-> m, frames |-> MarkReturn(fs), status |-> "running"]
    [] inst.op = "EXIT"    -> AfterEXIT(m, fs)

Now == [vm |-> vm, frames |-> frames, status |-> status]

LEMMA StopIsStopped ==
  ASSUME NEW reason, Stop(reason)
  PROVE  Now' = Stopped(vm, frames, reason)
  BY DEF Stop, Now, Stopped

LEMMA ContinueIsContinued ==
  ASSUME status = "running", NEW next, Continue(next)
  PROVE  Now' = Continued(vm, frames, next)
  BY DEF Continue, Stop, Now, Continued, Stopped

LEMMA PopFaultIsPopFaulted ==
  ASSUME NEW n, PopFault(n)
  PROVE  Now' = PopFaulted(vm, frames, n)
  BY DEF PopFault, Stop, Now, PopFaulted, Stopped

LEMMA PopsArePopping ==
  ASSUME status = "running", NEW n, NEW next,
         \/ CanPop(vm, n) /\ Continue(next)
         \/ ~CanPop(vm, n) /\ PopFault(n)
  PROVE  Now' = Popping(vm, frames, n, next)
  BY ContinueIsContinued, PopFaultIsPopFaulted DEF Popping

LEMMA DROP_VIsAfter ==
  ASSUME IType, status = "running", NEW n \in Nat, Depth(vm) >= 1, IsRef(Get(vm, 1)), DROP_V(n)
  PROVE  Now' = AfterDROP_V(vm, frames, n + ResultOffset + 1)
<1> DEFINE offset == n + ResultOffset + 1
           src    == Get(vm, 1)
           newTop == Depth(vm) - offset
           popped == PopN(vm, offset)
           copied == Store(Alloc(popped), StrongRef(popped.vectorStackTop), Buffer(vm, src))
           weak   == Push(popped, WeakRef(src.payload))
<1>1. Depth(vm) \in Nat /\ offset \in Nat /\ src.payload \in Nat
  BY OffsetFacts, TopAtTop, GetFacts DEF IType, TypeOK
<1>2. newTop \in Int /\ (offset <= Depth(vm) <=> ~(offset > Depth(vm)))
  BY <1>1
<1>3. CASE newTop < src.payload /\ offset <= Depth(vm) /\ CanDereference(vm, src)
           /\ ((CanPop(vm, offset) /\ Continue(copied)) \/ (~CanPop(vm, offset) /\ PopFault(offset)))
  <2>1. Now' = Popping(vm, frames, offset, copied)
    BY <1>3, PopsArePopping
  <2> QED BY <1>2, <1>3, <2>1 DEF AfterDROP_V
<1>4. CASE newTop < src.payload /\ offset <= Depth(vm) /\ ~CanDereference(vm, src)
           /\ Stop("dereference")
  BY <1>2, <1>4, StopIsStopped DEF AfterDROP_V
<1>5. CASE newTop > src.payload
           /\ ((CanPop(vm, offset) /\ Continue(weak)) \/ (~CanPop(vm, offset) /\ PopFault(offset)))
  <2>1. Now' = Popping(vm, frames, offset, weak)
    BY <1>5, PopsArePopping
  <2>2. ~(newTop < src.payload) /\ ~(offset > Depth(vm))
    BY <1>1, <1>5
  <2> QED BY <1>5, <2>1, <2>2 DEF AfterDROP_V
<1>6. CASE newTop = src.payload /\ Continue(vm)
  <2>1. ~(newTop < src.payload) /\ ~(newTop > src.payload) /\ ~(offset > Depth(vm))
    BY <1>1, <1>6
  <2> QED BY <1>6, <2>1, ContinueIsContinued DEF AfterDROP_V
<1>7. CASE offset > Depth(vm) /\ PopFault(offset)
  BY <1>7, PopFaultIsPopFaulted DEF AfterDROP_V
<1> QED BY <1>3, <1>4, <1>5, <1>6, <1>7 DEF DROP_V

LEMMA VectorOpIsAfter ==
  ASSUME status = "running", NEW inst, VectorOp(inst)
  PROVE  Now' = AfterVectorOp(vm, frames, 2 + inst.operand + ResultOffset, inst.operation)
<1> DEFINE lhs    == Get(vm, 1)
           rhs    == Get(vm, 2)
           offset == 2 + inst.operand + ResultOffset
           popped == PopN(vm, offset)
           result == StrongRef(popped.vectorStackTop)
           next   == Push(Alloc(popped), result)
           Sample(slot, lane) ==
             IF IsRef(slot) THEN Buffer(next, slot)[lane] ELSE slot.payload
           stored == Store(next, result,
             [lane \in Lanes |-> Arith(inst.operation, Sample(lhs, lane), Sample(rhs, lane))])
           Dangling == \E slot \in {lhs, rhs} : IsRef(slot) /\ ~CanDereference(next, slot)
<1>1. \/ ~CanPop(vm, offset) /\ PopFault(offset)
      \/ CanPop(vm, offset) /\ ~Dangling /\ Continue(stored)
      \/ CanPop(vm, offset) /\ Dangling /\ Stop("dereference")
  BY DEF VectorOp
<1>2. AfterVectorOp(vm, frames, offset, inst.operation) =
        IF CanPop(vm, offset) /\ Dangling
          THEN Stopped(vm, frames, "dereference")
          ELSE Popping(vm, frames, offset, stored)
  BY DEF AfterVectorOp
<1> HIDE DEF Dangling, stored, offset
<1>3. CASE CanPop(vm, offset) /\ Dangling /\ Stop("dereference")
  BY <1>2, <1>3, StopIsStopped DEF offset
<1>4. CASE ~(CanPop(vm, offset) /\ Dangling)
  <2>1. Now' = Popping(vm, frames, offset, stored)
    BY <1>1, <1>4, PopsArePopping
  <2> QED BY <1>2, <1>4, <2>1 DEF offset
<1> QED BY <1>1, <1>3, <1>4

(* One round of the loop computes Outcome, and nothing else.               *)
LEMMA ExecuteIsOutcome ==
  ASSUME IType, status = "running", NEW inst \in Instruction, OperandsFit(inst), Execute(inst)
  PROVE  Now' = Outcome(vm, frames, inst)
<1> DEFINE offset == inst.operand + ResultOffset + 1
           popped == 2 + inst.operand + ResultOffset
<1>1. Len(frames) \in Nat \ {0}
  BY OffsetFacts DEF IType
<1>2. CASE inst.op = "PUSH" /\ PUSH(inst.operand)
  <2>1. Now' = Continued(vm, frames, Push(vm, Scalar(inst.operand)))
    BY <1>2, ContinueIsContinued DEF PUSH
  <2> QED BY <1>2, <2>1 DEF Outcome, VectorFlavours
<1>3. CASE inst.op = "COPY" /\ COPY(inst.operand)
  <2>1. Now' = Continued(vm, frames, Push(vm, Get(vm, inst.operand)))
    BY <1>3, ContinueIsContinued DEF COPY
  <2> QED BY <1>3, <2>1 DEF Outcome, VectorFlavours
<1>4. CASE inst.op = "REF_VEC" /\ REF_VEC(inst.operand)
  <2>1. Now' = IF IsRef(Get(vm, inst.operand))
                 THEN Continued(vm, frames, Push(vm, WeakRef(Get(vm, inst.operand).payload)))
                 ELSE Stopped(vm, frames, "reference")
    BY <1>4, ContinueIsContinued, StopIsStopped DEF REF_VEC
  <2> QED BY <1>4, <2>1 DEF Outcome, VectorFlavours
<1>5. CASE inst.op = "DROP_S" /\ DROP_S(inst.operand)
  <2>1. Now' = Popping(vm, frames, offset, Push(PopN(vm, offset), Get(vm, 1)))
    BY <1>5, PopsArePopping DEF DROP_S
  <2> QED BY <1>5, <2>1 DEF Outcome, VectorFlavours, ResultOffset
<1>6. CASE inst.op = "DROP_V" /\ DROP_V(inst.operand)
  <2>1. inst.operand \in Nat
    BY <1>6 DEF Instruction, Flavours, VectorFlavours
  <2>2. Now' = AfterDROP_V(vm, frames, offset)
    BY <1>6, <2>1, DROP_VIsAfter DEF OperandsFit
  <2> QED BY <1>6, <2>2 DEF Outcome, VectorFlavours, ResultOffset
<1>7. CASE inst.op = "FILL" /\ FILL
  <2>1. Now' = Continued(vm, frames,
                 Store(Alloc(PopN(vm, 1)), StrongRef(PopN(vm, 1).vectorStackTop),
                       [lane \in Lanes |-> Get(vm, 1).payload]))
    BY <1>7, ContinueIsContinued DEF FILL
  <2> QED BY <1>7, <2>1 DEF Outcome, VectorFlavours
<1>8. CASE inst.op = "CALL" /\ CALL(inst.operand)
  <2>1. Now' = AfterCALL(vm, frames, inst.operand)
    <3>1. CASE Len(frames) < MaxFrames
      BY <1>1, <1>8, <3>1, MaxFramesAssumption DEF CALL, AfterCALL, Now, ResultOffset
    <3>2. CASE ~(Len(frames) < MaxFrames)
      BY <1>8, <3>2, StopIsStopped DEF CALL, AfterCALL
    <3> QED BY <3>1, <3>2
  <2> QED BY <1>8, <2>1 DEF Outcome, VectorFlavours
<1>9. CASE inst.op \in VectorFlavours /\ VectorOp(inst)
  <2>1. Now' = AfterVectorOp(vm, frames, popped, inst.operation)
    BY <1>9, VectorOpIsAfter
  <2> QED BY <1>9, <2>1 DEF Outcome, VectorFlavours, ResultOffset
<1>10. CASE inst.op = "SS" /\ ScalarOp(inst)
  <2>1. Now' = Popping(vm, frames, popped,
                 Push(PopN(vm, popped),
                      Scalar(Arith(inst.operation, Get(vm, 1).payload, Get(vm, 2).payload))))
    BY <1>10, PopsArePopping DEF ScalarOp
  <2> QED BY <1>10, <2>1 DEF Outcome, VectorFlavours, ResultOffset
<1>11. CASE inst.op = "RET" /\ RET
  <2>1. Now' = [vm |-> vm, frames |-> MarkReturn(frames), status |-> "running"]
    BY <1>11 DEF RET, Now
  <2> QED BY <1>11, <2>1 DEF Outcome, VectorFlavours
<1>12. CASE inst.op = "EXIT" /\ EXIT
  <2>1. Now' = AfterEXIT(vm, frames)
    <3>1. CASE Len(frames) > 1 /\ frames' = Caller(frames) /\ UNCHANGED <<vm, status>>
      BY <3>1 DEF AfterEXIT, Now
    <3>2. CASE Len(frames) = 1 /\ Stop("returned")
      BY <3>2, StopIsStopped DEF AfterEXIT
    <3> QED BY <1>12, <3>1, <3>2 DEF EXIT
  <2> QED BY <1>12, <2>1 DEF Outcome, VectorFlavours
<1> QED BY <1>2, <1>3, <1>4, <1>5, <1>6, <1>7, <1>8, <1>9, <1>10, <1>11, <1>12 DEF Execute

----------------------------------------------------------------------------
\* One round of the loop, as a function of the machine's state: which
\* instruction it executes is read from the package as it was loaded.

Fitting(m, inst) ==
  /\ inst.op \in {"COPY", "REF_VEC"} => inst.operand \in 1 .. Depth(m)
  /\ inst.op \in {"DROP_S", "FILL", "CALL"} => Depth(m) >= 1 /\ IsScalar(Get(m, 1))
  /\ inst.op = "DROP_V" => Depth(m) >= 1 /\ IsRef(Get(m, 1))
  /\ inst.op \in Flavours =>
       /\ Depth(m) >= 2
       /\ IsRef(Get(m, 1)) <=> inst.op \in {"VV", "VS"}
       /\ IsRef(Get(m, 2)) <=> inst.op \in {"VV", "SV"}

Performed(m, fs, inst) ==
  IF Fitting(m, inst) THEN Outcome(m, fs, inst) ELSE Stopped(m, fs, "illtyped")

\* What the package says at position i of its code.
Says(p, i, m, fs) ==
  IF i \notin DOMAIN p.code THEN Stopped(m, fs, "wild")
  ELSE IF p.code[i].op # "PUSH_SYM" THEN Performed(m, fs, p.code[i])
  ELSE IF p.code[i].symbol \notin DOMAIN p.symbols THEN Stopped(m, fs, "thrown")
  ELSE Performed(m, fs, [op |-> "PUSH", operand |-> p.symbols[p.code[i].symbol]])

MovedInstPtrs(c, next) ==
  IF next.status # "running" THEN c.instPtrs
  ELSE IF Len(next.frames) > Len(c.frames)
    THEN Append(Advance(c.instPtrs), Get(c.vm, 1).payload)
  ELSE IF Len(next.frames) < Len(c.frames) THEN Caller(c.instPtrs)
  ELSE Advance(c.instPtrs)

Config == [vm |-> vm, frames |-> frames, status |-> status, instPtrs |-> instPtrs]

NextConfig(p, c) ==
  LET next == Says(p, c.instPtrs[Len(c.instPtrs)] + 1, c.vm, c.frames) IN
  [ vm |-> next.vm, frames |-> next.frames, status |-> next.status,
    instPtrs |-> MovedInstPtrs(c, next) ]

\* A PUSH_SYM that found its symbol; what it may have been rewritten to.
Resolved(p, i) == p.code[i].op = "PUSH_SYM" /\ p.code[i].symbol \in DOMAIN p.symbols

FixedUp(p, i) == [op |-> "PUSH", operand |-> p.symbols[p.code[i].symbol]]

(* The code that is executed is the package's, but for fixups.             *)
CodeKept ==
  /\ DOMAIN code = DOMAIN package.code
  /\ code = [i \in DOMAIN code |-> code[i]]
  /\ \A i \in DOMAIN code :
       code[i] = package.code[i] \/ (Resolved(package, i) /\ code[i] = FixedUp(package, i))

RunType ==
  /\ package \in Packages
  /\ vm \in VM /\ Fits(vm)
  /\ frames \in Seq(Frame) /\ frames # <<>>

LEMMA PerformIsPerformed ==
  ASSUME RunType, status = "running", NEW inst \in Instruction, Perform(inst)
  PROVE  Now' = Performed(vm, frames, inst) /\ vm' \in VM /\ Fits(vm')
         /\ frames' \in Seq(Frame) /\ frames' # <<>>
<1>1. IType
  BY DEF RunType, IType, TypeOK, Status
<1>2. OperandsFit(inst) <=> Fitting(vm, inst)
  BY DEF OperandsFit, Fitting
<1>3. CASE OperandsFit(inst) /\ Execute(inst)
  <2>1. Now' = Outcome(vm, frames, inst)
    BY <1>1, <1>3, ExecuteIsOutcome
  <2>2. IType'
    BY <1>1, <1>3, ExecuteType
  <2> QED BY <1>2, <1>3, <2>1, <2>2 DEF Performed, IType, TypeOK
<1>4. CASE ~OperandsFit(inst) /\ Stop("illtyped")
  <2>1. Now' = Stopped(vm, frames, "illtyped")
    BY <1>4, StopIsStopped
  <2>2. vm' = vm /\ frames' = frames
    BY <1>4 DEF Stop
  <2> QED BY <1>2, <1>4, <2>1, <2>2 DEF Performed, RunType, Fits, Depth
<1> QED BY <1>3, <1>4 DEF Perform

(* What the package says is an instruction, if it says one.                *)
LEMMA InstructionsSaid ==
  ASSUME NEW p \in Packages, NEW i \in DOMAIN p.code
  PROVE  /\ p.code[i].op # "PUSH_SYM" => p.code[i] \in Instruction
         /\ Resolved(p, i) => FixedUp(p, i) \in Instruction
         /\ p.code[i] \in Instruction => p.code[i].op # "PUSH_SYM"
<1>1. p.code[i].op # "PUSH_SYM" => p.code[i] \in Instruction
  BY PackagesAssumption
<1>2. Resolved(p, i) => p.symbols[p.code[i].symbol] \in Value
  BY PackagesAssumption DEF Resolved
<1>3. Resolved(p, i) => FixedUp(p, i) \in Instruction
  BY <1>2 DEF FixedUp, Instruction
<1>4. p.code[i] \in Instruction => p.code[i].op # "PUSH_SYM"
  BY DEF Instruction, Flavours, VectorFlavours
<1> QED BY <1>1, <1>3, <1>4

(* A round executes what the package says, whether or not the instruction  *)
(* has been fixed up, and what it leaves in the code is a fixup at most.   *)
LEMMA FetchedIsSaid ==
  ASSUME RunType, CodeKept, status = "running", Evaluate
  PROVE  /\ Now' = Says(package, InstPtr + 1, vm, frames)
         /\ vm' \in VM /\ Fits(vm') /\ frames' \in Seq(Frame) /\ frames' # <<>>
         /\ \/ code' = code
            \/ /\ InstPtr + 1 \in DOMAIN code
               /\ Resolved(package, InstPtr + 1)
               /\ code' = [code EXCEPT ![InstPtr + 1] = FixedUp(package, InstPtr + 1)]
<1> DEFINE i == InstPtr + 1
<1>1. package \in Packages /\ DOMAIN code = DOMAIN package.code
  BY DEF RunType, CodeKept
<1>2. Fetched = code[i]
  BY DEF Fetched
<1>3. CASE i \notin DOMAIN code
  <2>1. Stop("wild") /\ code' = code
    BY <1>3 DEF Evaluate
  <2>2. Now' = Stopped(vm, frames, "wild") /\ vm' = vm /\ frames' = frames
    BY <2>1, StopIsStopped DEF Stop
  <2> QED BY <1>1, <1>3, <2>1, <2>2 DEF Says, RunType, Fits, Depth
<1>4. CASE i \in DOMAIN code /\ code[i] = package.code[i] /\ code[i].op # "PUSH_SYM"
  <2>1. Perform(code[i]) /\ code' = code
    BY <1>2, <1>4 DEF Evaluate
  <2>2. code[i] \in Instruction
    BY <1>1, <1>4, InstructionsSaid
  <2>3. Says(package, i, vm, frames) = Performed(vm, frames, code[i])
    BY <1>1, <1>4 DEF Says
  <2> QED BY <2>1, <2>2, <2>3, PerformIsPerformed
<1>5. CASE i \in DOMAIN code /\ Resolved(package, i) /\ code[i] = FixedUp(package, i)
  <2>1. code[i] \in Instruction /\ code[i].op # "PUSH_SYM"
    BY <1>1, <1>5, InstructionsSaid DEF FixedUp
  <2>2. Perform(code[i]) /\ code' = code
    BY <1>2, <1>5, <2>1 DEF Evaluate
  <2>3. Says(package, i, vm, frames) = Performed(vm, frames, code[i])
    BY <1>1, <1>5 DEF Says, Resolved, FixedUp
  <2> QED BY <2>1, <2>2, <2>3, PerformIsPerformed
<1>6. CASE i \in DOMAIN code /\ code[i] = package.code[i] /\ code[i].op = "PUSH_SYM"
  <2>1. PushSymbol
    BY <1>2, <1>6 DEF Evaluate
  <2>2. CASE Resolved(package, i)
    <3>1. FixedUp(package, i) \in Instruction
      BY <1>1, <1>6, <2>2, InstructionsSaid
    <3>2. Perform(FixedUp(package, i)) /\ code' = [code EXCEPT ![i] = FixedUp(package, i)]
      BY <1>2, <1>6, <2>1, <2>2 DEF PushSymbol, Resolved, Defined, lookup, Fixup, FixedUp
    <3>3. Says(package, i, vm, frames) = Performed(vm, frames, FixedUp(package, i))
      BY <1>1, <1>6, <2>2 DEF Says, Resolved, FixedUp
    <3> QED BY <1>6, <2>2, <3>1, <3>2, <3>3, PerformIsPerformed
  <2>3. CASE ~Resolved(package, i)
    <3>1. Stop("thrown") /\ code' = code /\ package.code[i].symbol \notin DOMAIN package.symbols
      BY <1>2, <1>6, <2>1, <2>3 DEF PushSymbol, Resolved, Defined
    <3>2. Now' = Stopped(vm, frames, "thrown") /\ vm' = vm /\ frames' = frames
      BY <3>1, StopIsStopped DEF Stop
    <3>3. Says(package, i, vm, frames) = Stopped(vm, frames, "thrown")
      BY <1>1, <1>6, <3>1 DEF Says
    <3> QED BY <3>1, <3>2, <3>3 DEF RunType, Fits, Depth
  <2> QED BY <2>2, <2>3
<1> QED BY <1>3, <1>4, <1>5, <1>6 DEF CodeKept

LEMMA EvaluateIsNextConfig ==
  ASSUME RunType, CodeKept, status = "running", Evaluate
  PROVE  Config' = NextConfig(package, Config) /\ RunType' /\ CodeKept'
<1> DEFINE next == Says(package, InstPtr + 1, vm, frames)
<1>1. Now' = next /\ package' = package
  BY FetchedIsSaid DEF Evaluate
<1>2. vm' = next.vm /\ frames' = next.frames /\ status' = next.status
  <2> HIDE DEF next
  <2> QED BY <1>1 DEF Now
<1>3. instPtrs' = MovedInstPtrs(Config, next)
  <2> HIDE DEF next
  <2> QED BY <1>2 DEF Evaluate, MoveInstPtrs, MovedInstPtrs, Config
<1>4. NextConfig(package, Config) =
        [vm |-> next.vm, frames |-> next.frames, status |-> next.status,
         instPtrs |-> MovedInstPtrs(Config, next)]
  BY DEF NextConfig, Config, InstPtr
<1>5. Config' = NextConfig(package, Config)
  <2> HIDE DEF next
  <2> QED BY <1>2, <1>3, <1>4 DEF Config
<1>6. RunType'
  BY <1>1, FetchedIsSaid DEF RunType, Fits, Depth
<1>7. CodeKept'
  <2>1. CASE code' = code
    BY <1>1, <2>1 DEF CodeKept, Resolved, FixedUp
  <2>2. CASE /\ InstPtr + 1 \in DOMAIN code
             /\ Resolved(package, InstPtr + 1)
             /\ code' = [code EXCEPT ![InstPtr + 1] = FixedUp(package, InstPtr + 1)]
    BY <1>1, <2>2 DEF CodeKept, Resolved, FixedUp
  <2> QED BY <2>1, <2>2, FetchedIsSaid
<1> QED BY <1>5, <1>6, <1>7

----------------------------------------------------------------------------
\* The states an evaluation of p comes to.

Trace(p, n, run) ==
  /\ run[0] = Started(p)
  /\ \A i \in 0 .. n - 1 :
       run[i].status = "running" /\ run[i + 1] = NextConfig(p, run[i])

Reaches(p, c) == \E n \in Nat : \E run : Trace(p, n, run) /\ run[n] = c

LEMMA StartedReached ==
  ASSUME NEW p
  PROVE  Reaches(p, Started(p))
<1> DEFINE run == [i \in {0} |-> Started(p)]
<1>1. Trace(p, 0, run) /\ run[0] = Started(p)
  BY DEF Trace
<1> HIDE DEF run
<1> QED BY <1>1 DEF Reaches

LEMMA NextReached ==
  ASSUME NEW p, NEW c, Reaches(p, c), c.status = "running"
  PROVE  Reaches(p, NextConfig(p, c))
<1>1. PICK n \in Nat : \E run : Trace(p, n, run) /\ run[n] = c
  BY DEF Reaches
<1>1a. PICK run : Trace(p, n, run) /\ run[n] = c
  BY <1>1
<1> DEFINE longer == [i \in 0 .. n + 1 |-> IF i <= n THEN run[i] ELSE NextConfig(p, c)]
<1>2. longer[0] = Started(p) /\ longer[n + 1] = NextConfig(p, c)
  BY <1>1a DEF Trace
<1>3. ASSUME NEW i \in 0 .. n
      PROVE  longer[i].status = "running" /\ longer[i + 1] = NextConfig(p, longer[i])
  <2>1. longer[i] = run[i]
    OBVIOUS
  <2>2. CASE i < n
    <3>1. longer[i + 1] = run[i + 1] /\ i \in 0 .. n - 1
      BY <2>2
    <3> QED BY <1>1a, <2>1, <3>1 DEF Trace
  <2>3. CASE i = n
    BY <1>1a, <1>2, <2>1, <2>3
  <2> QED BY <2>2, <2>3
<1> HIDE DEF longer
<1>4. Trace(p, n + 1, longer)
  BY <1>2, <1>3 DEF Trace
<1> QED BY <1>2, <1>4 DEF Reaches

(* Two runs of a package do not part: the first place where they differ    *)
(* would follow one where they agree.                                      *)
LEMMA RunsAgree ==
  ASSUME NEW p, NEW m \in Nat, NEW a, Trace(p, m, a), NEW n \in Nat, NEW b, Trace(p, n, b),
         NEW i \in Nat, i <= m, i <= n
  PROVE  a[i] = b[i]
<1> DEFINE Differ == {j \in Nat : j <= m /\ j <= n /\ a[j] # b[j]}
           l == Lowest(Differ)
<1> SUFFICES ASSUME Differ # {} PROVE FALSE
  OBVIOUS
<1>1. l \in Differ /\ \A j \in Differ : l <= j
  <2> HIDE DEF Differ
  <2>1. Differ \in SUBSET Nat
    BY DEF Differ
  <2> QED BY <2>1, LowestIsLeast
<1> HIDE DEF l
<1>2. l # 0
  BY <1>1 DEF Trace
<1>3. l - 1 \in Nat /\ l - 1 \notin Differ /\ l - 1 \in 0 .. m - 1 /\ l - 1 \in 0 .. n - 1
  BY <1>1, <1>2
<1>4. a[l - 1] = b[l - 1]
  BY <1>3
<1>5. a[(l - 1) + 1] = NextConfig(p, a[l - 1]) /\ b[(l - 1) + 1] = NextConfig(p, b[l - 1])
  BY <1>3 DEF Trace
<1>6. (l - 1) + 1 = l
  BY <1>1
<1> QED BY <1>1, <1>4, <1>5, <1>6

LEMMA EarlierEndAgrees ==
  ASSUME NEW p, NEW m \in Nat, NEW a, Trace(p, m, a), a[m].status # "running",
         NEW n \in Nat, NEW b, Trace(p, n, b), m <= n
  PROVE  m = n /\ a[m] = b[n]
<1>1. m <= m
  OBVIOUS
<1>2. a[m] = b[m]
  BY <1>1, RunsAgree
<1>3. CASE m < n
  <2>1. m \in 0 .. n - 1
    BY <1>3
  <2> QED BY <1>2, <2>1 DEF Trace
<1>4. m = n \/ m < n
  OBVIOUS
<1> QED BY <1>2, <1>3, <1>4

(* So there is one state, at most, in which the evaluations of p end.      *)
LEMMA EndsAgree ==
  ASSUME NEW p, NEW c, Reaches(p, c), c.status # "running",
         NEW d, Reaches(p, d), d.status # "running"
  PROVE  c = d
<1>1. PICK m \in Nat : \E a : Trace(p, m, a) /\ a[m] = c
  BY DEF Reaches
<1>1a. PICK a : Trace(p, m, a) /\ a[m] = c
  BY <1>1
<1>2. PICK n \in Nat : \E b : Trace(p, n, b) /\ b[n] = d
  BY DEF Reaches
<1>2a. PICK b : Trace(p, n, b) /\ b[n] = d
  BY <1>2
<1>3. CASE m <= n
  BY <1>1a, <1>2a, <1>3, EarlierEndAgrees
<1>4. CASE n <= m
  BY <1>1a, <1>2a, <1>4, EarlierEndAgrees
<1> QED BY <1>3, <1>4

----------------------------------------------------------------------------
\* What holds throughout.  Once there is a result, the state it was read
\* from is the one in which every evaluation of the package ends.

ReadFrom(c) ==
  /\ Reaches(package, c)
  /\ c.status = "returned" /\ CanDereference(c.vm, StrongRef(0))
  /\ \A i \in DOMAIN results : results[i] = Buffer(c.vm, StrongRef(0))

RunInv ==
  /\ RunType
  /\ CodeKept
  /\ status \in {"running", "returned"} => Reaches(package, Config)
  /\ results \in Seq([Lanes -> Value])
  /\ results # <<>> => status \in {"running", "returned", "done"} /\ \E c : ReadFrom(c)

LEMMA StartedType ==
  ASSUME NEW p \in Packages
  PROVE  /\ Started(p).vm \in VM /\ Fits(Started(p).vm)
         /\ Started(p).frames \in Seq(Frame) /\ Started(p).frames # <<>>
         /\ Started(p).status \in {"running", "thrown"}
<1>1. Fresh \in VM /\ Depth(Fresh) = 0 /\ Fresh.vectorStackTop = 0
  BY ZeroAssumption, EmptySeq DEF Fresh, VM, VectorStack, Depth
<1>2. p.param \in [Lanes -> Value]
  BY PackagesAssumption
<1> DEFINE m == Store(Alloc(Fresh), StrongRef(0), p.param)
<1>3. m \in VM
  BY <1>1, <1>2, AllocFacts, RefFields, StoreIsVM
<1>4. Depth(m) = 1 /\ m.vectorStackTop = FrameSlots
  <2>1. Depth(Alloc(Fresh)) = 1 /\ Alloc(Fresh).vectorStackTop = FrameSlots
    BY <1>1, AllocFacts, FrameSlotsAssumption
  <2> QED BY <2>1, StoreFacts
<1>5. Fits(m)
  BY <1>4, StackSizesAssumption DEF Fits
<1>6. NewFrame(0) \in Frame
  BY DEF NewFrame, Frame
<1>7. Started(p).vm = m
  BY DEF Started
<1>8. Started(p).frames = <<NewFrame(0)>> /\ Started(p).status \in {"running", "thrown"}
  BY DEF Started
<1> QED BY <1>3, <1>5, <1>6, <1>7, <1>8

LEMMA InitRun ==
  ASSUME RunInit
  PROVE  RunInv
<1>1. Config = Started(package)
  BY DEF RunInit, Config, Started
<1>2. Reaches(package, Config)
  BY <1>1, StartedReached
<1>3. RunType
  BY StartedType DEF RunInit, RunType
<1>4. CodeKept
  <2>1. package \in Packages /\ code = package.code
    BY DEF RunInit
  <2>2. package.code = [i \in DOMAIN package.code |-> package.code[i]]
    BY <2>1, PackagesAssumption
  <2> QED BY <2>1, <2>2 DEF CodeKept
<1> QED BY <1>2, <1>3, <1>4, EmptySeq DEF RunInit, RunInv

(* The end of an evaluation after a result is the end of the first one.    *)
LEMMA EvaluateRun ==
  ASSUME RunInv, Evaluate
  PROVE  RunInv'
<1>1. status = "running" /\ package' = package /\ results' = results
  BY DEF Evaluate
<1>2. Config' = NextConfig(package, Config) /\ RunType' /\ CodeKept'
  BY <1>1, EvaluateIsNextConfig DEF RunInv
<1>3. Reaches(package, Config')
  <2>1. Reaches(package, Config) /\ Config.status = "running"
    BY <1>1 DEF RunInv, Config
  <2> QED BY <1>2, <2>1, NextReached
<1>4. ASSUME results # <<>>
      PROVE  status' \in {"running", "returned", "done"} /\ (\E c : ReadFrom(c))'
  <2>1. PICK c : ReadFrom(c)
    BY <1>4 DEF RunInv
  <2>2. ReadFrom(c)'
    BY <1>1, <2>1 DEF ReadFrom
  <2>3. CASE status' # "running"
    <3>1. Config'.status = status'
      BY DEF Config
    <3>2. Config' = c
      BY <1>3, <2>1, <2>3, <3>1, EndsAgree DEF ReadFrom
    <3> QED BY <2>1, <2>2, <3>1, <3>2 DEF ReadFrom
  <2> QED BY <2>2, <2>3
<1> QED BY <1>1, <1>2, <1>3, <1>4 DEF RunInv

LEMMA ReadResultRun ==
  ASSUME RunInv, ReadResult
  PROVE  RunInv'
<1>1. /\ status = "returned"
      /\ package' = package /\ code' = code /\ vm' = vm /\ frames' = frames
  BY DEF ReadResult
<1>2. RunType' /\ CodeKept'
  BY <1>1 DEF RunInv, RunType, CodeKept, Fits, Depth, Resolved, FixedUp
<1>3. Reaches(package, Config) /\ Config.status = "returned" /\ Config.vm = vm
  BY <1>1 DEF RunInv, Config
<1> DEFINE ref == StrongRef(0)
<1>4. \A c : ReadFrom(c) => c = Config
  BY <1>3, EndsAgree DEF ReadFrom
<1>5. CASE CanDereference(vm, ref) /\ results' = Append(results, Buffer(vm, ref)) /\ status' = "done"
  <2>1. Buffer(vm, ref) \in [Lanes -> Value]
    BY RefFields, BufferType, FrameSlotsAssumption, StackSizesAssumption DEF RunInv, RunType
  <2>2. results' \in Seq([Lanes -> Value])
    BY <1>5, <2>1, AppendProperties DEF RunInv
  <2>3. ASSUME NEW i \in DOMAIN results' PROVE results'[i] = Buffer(vm, ref)
    <3>1. results \in Seq([Lanes -> Value])
      BY DEF RunInv
    <3>2. CASE i \in DOMAIN results
      <4>1. results # <<>>
        BY <3>2
      <4>2. ReadFrom(Config)
        BY <1>4, <4>1 DEF RunInv
      <4>3. results'[i] = results[i]
        BY <1>5, <2>1, <3>1, <3>2, AppendProperties, LenProperties
      <4> QED BY <1>3, <3>2, <4>2, <4>3 DEF ReadFrom
    <3>3. CASE i = Len(results) + 1
      BY <1>5, <2>1, <3>1, <3>3, AppendProperties
    <3>4. i \in DOMAIN results \/ i = Len(results) + 1
      BY <1>5, <2>1, <3>1, AppendProperties, LenProperties
    <3> QED BY <3>2, <3>3, <3>4
  <2>4. ASSUME NEW c, c = Config PROVE ReadFrom(c)'
    <3> HIDE DEF ref
    <3> QED BY <1>1, <1>3, <1>5, <2>3, <2>4 DEF ReadFrom, ref
  <2> QED BY <1>2, <1>5, <2>2, <2>4 DEF RunInv
<1>6. CASE ~CanDereference(vm, ref) /\ status' = "dereference" /\ results' = results
  <2>1. results = <<>>
    BY <1>3, <1>4, <1>6 DEF RunInv, ReadFrom
  <2> QED BY <1>2, <1>6, <2>1 DEF RunInv
<1> QED BY <1>5, <1>6 DEF ReadResult

LEMMA EvaluateAgainRun ==
  ASSUME RunInv, EvaluateAgain
  PROVE  RunInv'
<1>1. package' = package /\ code' = code /\ results' = results /\ package \in Packages
  BY DEF EvaluateAgain, RunInv, RunType
<1>2. RunType'
  BY <1>1, StartedType DEF EvaluateAgain, RunType, Fits, Depth
<1>3. CodeKept'
  BY <1>1 DEF RunInv, CodeKept, Resolved, FixedUp
<1>4. Config' = Started(package)
  BY DEF EvaluateAgain, Config, Started
<1>5. Reaches(package, Config')
  BY <1>4, StartedReached
<1>6. ASSUME results # <<>>
      PROVE  status' \in {"running", "returned", "done"} /\ (\E c : ReadFrom(c))'
  <2>1. PICK c : ReadFrom(c)
    BY <1>6 DEF RunInv
  <2>2. ReadFrom(c)'
    BY <1>1, <2>1 DEF ReadFrom
  <2>3. status' = Started(package).status /\ status' \in {"running", "thrown"}
    BY <1>1, StartedType DEF EvaluateAgain
  <2>4. CASE status' = "thrown"
    <3>1. Started(package) = c
      BY <2>1, <2>3, <2>4, StartedReached, EndsAgree DEF ReadFrom
    <3> QED BY <2>1, <2>3, <2>4, <3>1 DEF ReadFrom
  <2> QED BY <2>2, <2>3, <2>4
<1> QED BY <1>1, <1>2, <1>3, <1>5, <1>6 DEF RunInv

LEMMA RunInvStep ==
  ASSUME RunInv, [RunNext]_runVars
  PROVE  RunInv'
<1>1. CASE UNCHANGED runVars
  BY <1>1 DEF runVars, RunInv, RunType, Fits, Depth, CodeKept, Resolved, FixedUp, Config,
              ReadFrom
<1> QED BY <1>1, EvaluateRun, ReadResultRun, EvaluateAgainRun DEF RunNext, RunStep

(* Whatever the package, its code and its symbols: every evaluation that   *)
(* returns gives the same result, and after one that has, no later one     *)
(* ends in a failed lookup or a fault (VMEval.cpp:53-63).                  *)
THEOREM AlwaysAgree == RunSpec => []EvaluationsAgree
<1>1. RunInit => RunInv
  BY InitRun
<1>2. RunInv /\ [RunNext]_runVars => RunInv'
  BY RunInvStep
<1>3. RunInv => EvaluationsAgree
  BY DEF RunInv, ReadFrom, EvaluationsAgree
<1> QED BY <1>1, <1>2, <1>3, PTL DEF RunSpec

(* Evaluating a package changes nothing in its code but a PUSH_SYM whose   *)
(* symbol was found, and that only into the PUSH of the symbol's value.    *)
THEOREM OnlySymbolsRewritten == RunSpec => []CodeKept
<1>1. RunInit => RunInv
  BY InitRun
<1>2. RunInv /\ [RunNext]_runVars => RunInv'
  BY RunInvStep
<1>3. RunInv => CodeKept
  BY DEF RunInv
<1> QED BY <1>1, <1>2, <1>3, PTL DEF RunSpec

----------------------------------------------------------------------------
(* An evaluation is a program of VMEval: what is true of every program is  *)
(* true of whatever evaluates a package.                                   *)

LEMMA EvaluationExecutes ==
  ASSUME RunType, CodeKept, status = "running", Evaluate
  PROVE  \/ \E inst \in Instruction :
              /\ OperandsFit(inst) /\ Execute(inst)
              /\ inst.op # "PUSH" => \E i \in DOMAIN package.code : inst = package.code[i]
         \/ vm' = vm /\ status' # "dealloc"
<1> DEFINE i == InstPtr + 1
<1>1. package \in Packages /\ DOMAIN code = DOMAIN package.code /\ Fetched = code[i]
  BY DEF RunType, CodeKept, Fetched
<1>2. ASSUME NEW inst, Perform(inst)
      PROVE  (OperandsFit(inst) /\ Execute(inst)) \/ (vm' = vm /\ status' # "dealloc")
  BY <1>2 DEF Perform, Stop
<1>3. CASE i \notin DOMAIN code
  BY <1>3 DEF Evaluate, Stop
<1>4. CASE i \in DOMAIN code /\ code[i].op # "PUSH_SYM"
  <2>1. Perform(code[i])
    BY <1>1, <1>4 DEF Evaluate
  <2>2. code[i] = package.code[i] \/ (Resolved(package, i) /\ code[i] = FixedUp(package, i))
    BY <1>4 DEF CodeKept
  <2>3. code[i] \in Instruction
    BY <1>1, <1>4, <2>2, InstructionsSaid
  <2>4. code[i].op # "PUSH" => code[i] = package.code[i]
    BY <2>2 DEF FixedUp
  <2> HIDE DEF i
  <2> QED BY <1>1, <1>2, <1>4, <2>1, <2>3, <2>4
<1>5. CASE i \in DOMAIN code /\ code[i].op = "PUSH_SYM"
  <2>1. PushSymbol
    BY <1>1, <1>5 DEF Evaluate
  <2>2. CASE Stop("thrown")
    BY <2>2 DEF Stop
  <2>3. CASE Defined(Fetched.symbol) /\ Perform([op |-> "PUSH", operand |-> lookup(Fetched.symbol)])
    <3> DEFINE inst == [op |-> "PUSH", operand |-> lookup(Fetched.symbol)]
    <3>1. lookup(Fetched.symbol) \in Value
      BY <1>1, <2>3, PackagesAssumption DEF Defined, lookup
    <3>2. inst \in Instruction /\ inst.op = "PUSH"
      BY <3>1 DEF Instruction
    <3> HIDE DEF inst
    <3> QED BY <1>2, <2>3, <3>2 DEF inst
  <2> QED BY <2>1, <2>2, <2>3 DEF PushSymbol
<1> QED BY <1>3, <1>4, <1>5

LEMMA RunTypeIsType == RunType /\ status = "running" => IType
  BY DEF RunType, IType, TypeOK, Status

LEMMA StartedAgain ==
  ASSUME RunInv, EvaluateAgain
  PROVE  package.param \in [Lanes -> Value] /\ vm' = Store(Alloc(Fresh), StrongRef(0), package.param)
  BY PackagesAssumption DEF RunInv, RunType, EvaluateAgain, Started

LEMMA StartedFirst ==
  ASSUME RunInit
  PROVE  package.param \in [Lanes -> Value] /\ vm = Store(Alloc(Fresh), StrongRef(0), package.param)
  BY PackagesAssumption DEF RunInit, Started

LEMMA StackedRunStep ==
  ASSUME RunInv, [RunNext]_runVars
  PROVE  /\ VectorsStacked /\ ~CopiesStrongRef => VectorsStacked'
         /\ VectorStackBounded => VectorStackBounded'
<1> SUFFICES /\ Stacked(vm) /\ ~CopiesStrongRef => Stacked(vm')
             /\ Bounded(vm) => Bounded(vm')
  BY DEF VectorsStacked, VectorStackBounded, Stacked, Bounded, StrongPositions,
         StrongAbove, TopAt, Depth
<1>1. CASE Evaluate
  <2>1. status = "running" /\ RunType /\ CodeKept
    BY <1>1 DEF Evaluate, RunInv
  <2>2. CASE vm' = vm
    BY <2>2
  <2>3. ASSUME NEW inst \in Instruction, OperandsFit(inst), Execute(inst)
        PROVE  /\ Stacked(vm) /\ ~CopiesStrongRef => Stacked(vm')
               /\ Bounded(vm) => Bounded(vm')
    BY <2>1, <2>3, RunTypeIsType, StepShape, ShapedStacked
  <2> QED BY <1>1, <2>1, <2>2, <2>3, EvaluationExecutes
<1>2. CASE EvaluateAgain
  BY <1>2, StartedAgain, ParameterStacked
<1>3. CASE ReadResult \/ UNCHANGED runVars
  BY <1>3 DEF ReadResult, runVars
<1> QED BY <1>1, <1>2, <1>3 DEF RunNext, RunStep

LEMMA InitRunStacked ==
  ASSUME RunInit
  PROVE  RunInv /\ VectorsStacked /\ VectorStackBounded
  BY InitRun, StartedFirst, ParameterStacked DEF VectorsStacked, VectorStackBounded

(* Evaluating any package, for the first time or again, keeps its vectors  *)
(* stacked as long as it copies no strong reference (VMState.hpp:28-34).   *)
THEOREM EvaluationsStacked ==
  RunSpec /\ [][~CopiesStrongRef]_runVars => []VectorsStacked
<1>1. RunInit => RunInv /\ VectorsStacked
  BY InitRunStacked
<1>2. RunInv /\ VectorsStacked /\ [RunNext]_runVars /\ [~CopiesStrongRef]_runVars =>
        RunInv' /\ VectorsStacked'
  <2> SUFFICES ASSUME RunInv, VectorsStacked, [RunNext]_runVars, [~CopiesStrongRef]_runVars
               PROVE  VectorsStacked'
    BY RunInvStep
  <2>1. CASE ~CopiesStrongRef
    BY <2>1, StackedRunStep
  <2>2. CASE UNCHANGED runVars
    BY <2>2 DEF runVars, VectorsStacked
  <2> QED BY <2>1, <2>2
<1> QED BY <1>1, <1>2, PTL DEF RunSpec

(* Evaluating any package, whatever it copies, keeps the vector stack      *)
(* within FrameSlots slots for each scalar slot.                           *)
THEOREM EvaluationsBounded == RunSpec => []VectorStackBounded
<1>1. RunInit => RunInv /\ VectorStackBounded
  BY InitRunStacked
<1>2. RunInv /\ VectorStackBounded /\ [RunNext]_runVars => RunInv' /\ VectorStackBounded'
  BY RunInvStep, StackedRunStep
<1> QED BY <1>1, <1>2, PTL DEF RunSpec

(* Evaluating any package, no step writes to a vector below the one it     *)
(* leaves on top (VMEval.cpp:112-120, 200-205).                            *)
THEOREM EvaluationsWriteTop == RunSpec => OnlyTopVectorWritten
<1>1. ASSUME RunInv, [RunNext]_runVars, NEW s \in 0 .. VectorSlots - 1,
             s < vm'.vectorStackTop - FrameSlots
      PROVE  vm'.vectors[s] = vm.vectors[s]
  <2>1. CASE Evaluate
    <3>1. status = "running" /\ RunType /\ CodeKept
      BY <1>1, <2>1 DEF Evaluate, RunInv
    <3>2. ASSUME NEW inst \in Instruction, OperandsFit(inst), Execute(inst)
          PROVE  vm'.vectors[s] = vm.vectors[s]
      BY <1>1, <3>1, <3>2, RunTypeIsType, StepShape, ShapedKeepsBelow DEF IType
    <3> QED BY <2>1, <3>1, <3>2, EvaluationExecutes
  <2>2. CASE EvaluateAgain
    <3>1. Fresh \in VM /\ Depth(Fresh) = 0 /\ Fresh.vectorStackTop = 0
      BY ZeroAssumption, EmptySeq DEF Fresh, VM, VectorStack, Depth
    <3>2. Alloc(Fresh).vectorStackTop = FrameSlots
      BY <3>1, AllocFacts, FrameSlotsAssumption
    <3>3. vm'.vectorStackTop = FrameSlots
      BY <1>1, <2>2, <3>2, StartedAgain, StoreFacts
    <3> QED BY <1>1, <3>3, FrameSlotsAssumption
  <2>3. CASE ReadResult \/ UNCHANGED runVars
    BY <2>3 DEF ReadResult, runVars
  <2> QED BY <1>1, <2>1, <2>2, <2>3 DEF RunNext, RunStep
<1>2. RunInv /\ [RunNext]_runVars =>
        [\A s \in 0 .. VectorSlots - 1 :
           s < vm'.vectorStackTop - FrameSlots => vm'.vectors[s] = vm.vectors[s]]_vars
  BY <1>1
<1>3. RunInit => RunInv
  BY InitRun
<1>4. RunInv /\ [RunNext]_runVars => RunInv'
  BY RunInvStep
<1> QED BY <1>2, <1>3, <1>4, PTL DEF RunSpec, OnlyTopVectorWritten

\* The packages whose code has no vector arithmetic and no DROP_V.
DisciplinedPackages ==
  \A p \in Packages : \A i \in DOMAIN p.code : p.code[i].op \notin Undisciplined

OwnedUnfailed == Owned(vm) /\ status # "dealloc"

LEMMA OwnedUnfailedStep ==
  ASSUME DisciplinedPackages, RunInv, OwnedUnfailed, [RunNext]_runVars,
         [~CopiesStrongRef]_runVars
  PROVE  OwnedUnfailed'
<1> SUFFICES Owned(vm') /\ status' # "dealloc"
  BY DEF OwnedUnfailed, Owned, Covered, Covers, Separated, EndToEnd, Anchored,
         StrongPositions, StrongAbove, TopAt, Depth
<1>1. CASE Evaluate /\ ~CopiesStrongRef
  <2>1. status = "running" /\ RunType /\ CodeKept /\ package \in Packages
    BY <1>1 DEF Evaluate, RunInv, RunType
  <2>2. CASE vm' = vm /\ status' # "dealloc"
    BY <2>2 DEF OwnedUnfailed
  <2>3. ASSUME NEW inst \in Instruction, OperandsFit(inst), Execute(inst),
               inst.op # "PUSH" => \E i \in DOMAIN package.code : inst = package.code[i]
        PROVE  Owned(vm') /\ status' # "dealloc"
    <3>1. inst.op \notin Undisciplined
      BY <2>1, <2>3 DEF DisciplinedPackages, Undisciplined, VectorFlavours
    <3> QED BY <1>1, <2>1, <2>3, <3>1, RunTypeIsType, OwnedStep DEF IOwned, OwnedUnfailed
  <2> QED BY <1>1, <2>1, <2>2, <2>3, EvaluationExecutes
<1>2. CASE EvaluateAgain
  <2>1. status' \in {"running", "thrown"}
    BY <1>2 DEF EvaluateAgain, Started
  <2> QED BY <1>2, <2>1, StartedAgain, ParameterOwned
<1>3. CASE ReadResult \/ UNCHANGED runVars
  BY <1>3 DEF ReadResult, runVars, OwnedUnfailed
<1> QED BY <1>1, <1>2, <1>3 DEF RunNext, RunStep

(* Evaluating a package without vector arithmetic, DROP_V and copies of    *)
(* strong references, each vector has one strong reference below its weak  *)
(* ones, and the assertion in dealloc never fails (VMState.hpp:32-34,      *)
(* 184): what PUSH_SYM puts into the code is as harmless as what was there.*)
THEOREM EvaluationsDisciplined ==
  ASSUME DisciplinedPackages
  PROVE  RunSpec /\ [][~CopiesStrongRef]_runVars =>
           [](OneStrongRef /\ WeakAboveStrong /\ DeallocNeverFails)
<1>1. RunInit => RunInv /\ OwnedUnfailed
  <2> SUFFICES ASSUME RunInit
               PROVE  RunInv /\ OwnedUnfailed
    OBVIOUS
  <2>1. status # "dealloc"
    BY DEF RunInit, Started
  <2> QED BY <2>1, InitRun, StartedFirst, ParameterOwned DEF OwnedUnfailed
<1>2. RunInv /\ OwnedUnfailed /\ [RunNext]_runVars /\ [~CopiesStrongRef]_runVars =>
        RunInv' /\ OwnedUnfailed'
  BY RunInvStep, OwnedUnfailedStep
<1>3. OwnedUnfailed => OneStrongRef /\ WeakAboveStrong /\ DeallocNeverFails
  BY DEF OwnedUnfailed, Owned, OneStrongRef, WeakAboveStrong, DeallocNeverFails
<1> QED BY <1>1, <1>2, <1>3, PTL DEF RunSpec
=============================================================================
