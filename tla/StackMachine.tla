---------------------------- MODULE StackMachine ----------------------------
(***************************************************************************)
(* What the instruction set promises (the opcode comments of               *)
(* src/lib/runtime/Instruction.hpp): a stack of VALUES.  A vector on the   *)
(* stack is its samples; there are no references, no vector stack, and no  *)
(* order in which vectors must be released.  Every instruction replaces    *)
(* some of the topmost values by one result.                               *)
(*                                                                         *)
(* VMEval is shown to implement this machine for the instructions whose    *)
(* implementation keeps the promise.                                       *)
(***************************************************************************)
EXTENDS Instruction

CONSTANTS
  Lanes,        \* the sample positions of a vector
  Instructions  \* the instructions programs may use

VARIABLES values, frames, status

vars == <<values, frames, status>>

\* A scalar is the same sample at every position.
ScalarValue(x) == [kind |-> "scalar", data |-> [lane \in Lanes |-> x]]
VectorValue(b) == [kind |-> "vector", data |-> b]
IsVector(v) == v.kind = "vector"

Nth(n) == values[Len(values) + 1 - n]
ResultOffset == CurrentFrame(frames).resultOffset

BinaryResult(operation, lhs, rhs) ==
  [ kind |-> IF IsVector(lhs) \/ IsVector(rhs) THEN "vector" ELSE "scalar",
    data |-> [lane \in Lanes |-> Arith(operation, lhs.data[lane], rhs.data[lane])] ]

Stop(reason) == status' = reason /\ UNCHANGED <<values, frames>>

\* Replace the n topmost values by result.
Replace(n, result) ==
  \/ /\ n <= Len(values)
     /\ values' = Append(SubSeq(values, 1, Len(values) - n), result)
     /\ UNCHANGED <<frames, status>>
  \/ n > Len(values) /\ Stop("underflow")

Call(additional) ==
  /\ values # <<>>
  /\ values' = SubSeq(values, 1, Len(values) - 1)
  /\ frames' = Append(frames, NewFrame(additional + ResultOffset))
  /\ UNCHANGED status

Return ==
  /\ frames' = MarkReturn(frames)
  /\ UNCHANGED <<values, status>>

Exit ==
  \/ /\ Len(frames) > 1
     /\ frames' = Caller(frames)
     /\ UNCHANGED <<values, status>>
  \/ Len(frames) = 1 /\ Stop("returned")

Perform(inst) ==
  \/ inst.op = "PUSH" /\ Replace(0, ScalarValue(inst.operand))
  \/ /\ inst.op \in {"COPY", "REF_VEC"}
     /\ inst.operand \in 1 .. Len(values)
     /\ \/ Replace(0, Nth(inst.operand))
        \/ inst.op = "REF_VEC" /\ ~IsVector(Nth(inst.operand)) /\ Stop("reference")
  \/ /\ inst.op \in {"DROP_S", "DROP_V"}
     /\ values # <<>>
     /\ Replace(inst.operand + ResultOffset + 1, Nth(1))
  \/ /\ inst.op = "FILL"
     /\ values # <<>>
     /\ Replace(1, VectorValue(Nth(1).data))
  \/ /\ inst.op \in Flavours
     /\ Len(values) >= 2
     /\ Replace(2 + inst.operand + ResultOffset,
                BinaryResult(inst.operation, Nth(1), Nth(2)))
  \/ inst.op = "CALL" /\ Call(inst.operand)
  \/ inst.op = "RET" /\ Return
  \/ inst.op = "EXIT" /\ Exit

Init ==
  /\ \E param \in [Lanes -> Value] : values = <<VectorValue(param)>>
  /\ frames = <<NewFrame(0)>>
  /\ status = "running"

\* Memory is finite: a program may at any step need more than there is.
Next ==
  /\ status = "running"
  /\ Stop("overrun") \/ \E inst \in Instructions : Perform(inst)

Spec == Init /\ [][Next]_vars
=============================================================================
