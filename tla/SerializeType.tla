---------------------------- MODULE SerializeType ----------------------------
(***************************************************************************)
(* Types as text (the printer of src/lib/compiler/SerializeType.cpp) and   *)
(* the mangled names of functions (TypedSymbol.cpp).                       *)
(*                                                                         *)
(* A text is a sequence of tokens, as in ParseUtil.                        *)
(***************************************************************************)
EXTENDS Types, SequencesExt

----------------------------------------------------------------------------
\* Printing: WriteMangledTypeName.

RECURSIVE TypeText(_)

acceptVector(type) == <<"v">> \o TypeText(type.inner)

acceptFunction(type) ==
  <<"[">>
    \o FlattenSeq([i \in DOMAIN type.params |-> TypeText(type.params[i]) \o <<":">>])
    \o TypeText(type.result) \o <<"]">>

TypeText(type) ==
  CASE type.kind = "vector"   -> acceptVector(type)
    [] type.kind = "atomic"   -> <<"F32">>
    [] type.kind = "any"      -> <<"Any">>
    [] type.kind = "function" -> acceptFunction(type)

MangledName_untyped(symbol) == symbol.name

\* The name that a function has in a vm::Package.
MangledName(symbol) == symbol.name \o <<"_">> \o TypeText(symbol.type)
=============================================================================
