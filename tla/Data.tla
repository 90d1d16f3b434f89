-------------------------------- MODULE Data --------------------------------
(***************************************************************************)
(* The 4-byte values the machine computes with (src/lib/runtime/Data.hpp)  *)
(* and the kernels of src/lib/runtime/VMOps.hpp on one of them.  The       *)
(* kernels treat every sample of a vector alike, so that nothing else is   *)
(* said of floating point.                                                 *)
(***************************************************************************)
EXTENDS Integers

CONSTANTS
  Value,           \* what a sample or a scalar slot's payload can hold
  Zero,            \* the value of zero-initialised memory
  Arith(_, _, _)   \* Arith(operation, lhs, rhs)

Operations == {"ADD", "MUL"}

ASSUME ZeroAssumption == Zero \in Value
ASSUME ArithAssumption ==
  \A o \in Operations, x, y \in Value : Arith(o, x, y) \in Value
=============================================================================
