---------------------------- MODULE Instruction ----------------------------
(***************************************************************************)
(* The instruction set (src/lib/runtime/Instruction.hpp), and the local    *)
(* state of one activation of the evaluation loop (eval in VMEval.cpp).    *)
(*                                                                         *)
(* The twelve arithmetic opcodes are one opcode per flavour (VV, VS, SV,   *)
(* SS) with the operation beside it.  PUSH_SYM never reaches this level:   *)
(* VMRun resolves it to the PUSH it is rewritten to.                       *)
(***************************************************************************)
EXTENDS Integers, Sequences, Data

VectorFlavours == {"VV", "VS", "SV"}
Flavours == VectorFlavours \cup {"SS"}

Instruction ==
  [op : {"PUSH"}, operand : Value]
    \cup [op : {"COPY", "REF_VEC", "DROP_S", "DROP_V", "CALL"}, operand : Nat]
    \cup [op : Flavours, operation : Operations, operand : Nat]
    \cup [op : {"FILL", "RET", "EXIT"}]

----------------------------------------------------------------------------
(* One activation of eval: popCount is its parameter, resultOffset its     *)
(* local variable.  The C++ call stack is a sequence of them.              *)

Frame == [popCount : Nat, resultOffset : Nat]

NewFrame(popCount) == [popCount |-> popCount, resultOffset |-> 0]

CurrentFrame(frames) == frames[Len(frames)]

\* RET: what the rest of the activation must pop beyond its own operands.
MarkReturn(frames) ==
  [frames EXCEPT ![Len(frames)] = [popCount |-> @.popCount, resultOffset |-> @.popCount]]

Caller(frames) == SubSeq(frames, 1, Len(frames) - 1)
=============================================================================
