-------------------------------- MODULE Types --------------------------------
(***************************************************************************)
(* The compile-time types (src/lib/compiler/Type.cpp and Type.hpp), the    *)
(* types of graph values (CFG.cpp) and typed symbols (TypedSymbol.hpp).    *)
(*                                                                         *)
(* There is one AnyType and one atomic type, F32; vectors and functions    *)
(* are compared by structure.  A type is a record, so that equal types are *)
(* equal records.                                                          *)
(***************************************************************************)
EXTENDS Naturals, Sequences

AnyType == [kind |-> "any"]

F32 == [kind |-> "atomic"]

FunctionType(result, params) == [kind |-> "function", result |-> result, params |-> params]

scalarVersion(type) == IF type.kind = "vector" THEN type.inner ELSE type

VectorType(type) == [kind |-> "vector", inner |-> scalarVersion(type)]

vectorVersion(type) == IF type.kind = "vector" THEN type ELSE VectorType(type)

functionVersion(type) == IF type.kind = "function" THEN type ELSE FunctionType(type, <<>>)

RECURSIVE subtypeOf(_, _)

FunctionSubtypeOf(type, super) ==
  \/ type.params = <<>> /\ subtypeOf(type.result, super)
  \/ /\ super.kind = "function"
     /\ subtypeOf(type.result, super.result)
     /\ Len(type.params) = Len(super.params)
     /\ \A i \in DOMAIN type.params : subtypeOf(super.params[i], type.params[i])

VectorSubtypeOf(type, super) ==
  subtypeOf(type.inner, IF super.kind = "vector" THEN super.inner ELSE super)

subtypeOf(type, super) ==
  \/ type = super \/ super = AnyType \/ type = AnyType
  \/ type.kind = "function" /\ FunctionSubtypeOf(type, super)
  \/ type.kind = "vector" /\ VectorSubtypeOf(type, super)

\* Null if neither is a subtype of the other.
intersectionType(lhs, rhs, Null) ==
  IF subtypeOf(lhs, rhs) THEN lhs ELSE IF subtypeOf(rhs, lhs) THEN rhs ELSE Null

\* cfg::Value::typeInFunction; Null also for an index out of its range.

RECURSIVE typeInFunction(_, _, _)
typeInFunction(v, fn, Null) ==
  CASE v.kind = "fp"    -> F32
    [] v.kind = "ref"   -> v.type
    [] v.kind = "param" -> IF v.index < Len(fn.params) THEN fn.params[v.index + 1] ELSE Null
    [] v.kind = "op"    -> intersectionType(typeInFunction(v.lhs, fn, Null),
                                            typeInFunction(v.rhs, fn, Null), Null)
    [] v.kind = "call"  -> LET type == typeInFunction(v.function, fn, Null) IN
                           IF type.kind = "function" THEN type.result ELSE Null

\* A function's name and type: what packages are keyed by.
TypedSymbol(type, name) == [type |-> type, name |-> name]
=============================================================================
