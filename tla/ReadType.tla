------------------------------- MODULE ReadType -------------------------------
(***************************************************************************)
(* Reading types (the parser of src/lib/compiler/SerializeType.cpp).       *)
(***************************************************************************)
EXTENDS ParseUtil, SerializeType

typeTree == rule("typeTree")

vectorType ==
  reading([kind |-> "vector", inner |-> Unset],
    then(<<match("v"), receive("inner", typeTree), emit>>))

f32Type == then(<<match("F32"), emitValue(F32)>>)

anyType == then(<<match("Any"), emitValue(AnyType)>>)

functionType ==
  reading([kind |-> "types", types |-> <<>>],
    then(<<match("["), collect("types", delimited(typeTree, match(":"))), match("]"), emit>>))

TypeRules == [typeTree |-> either(<<vectorType, anyType, f32Type, functionType>>)]

RECURSIVE TypeOf(_)

\* The type that is constructed from what has been read: a function type's
\* last type is its result.
TypeOf(node) ==
  CASE node.kind = "vector" -> VectorType(TypeOf(node.inner))
    [] node.kind = "types"  ->
         LET types == [i \in DOMAIN node.types |-> TypeOf(node.types[i])] IN
         FunctionType(Last(types), Front(types))
    [] OTHER -> node

readType(text) ==
  LET end == read(text, TypeRules, typeTree) IN
  [end EXCEPT !.values = [i \in DOMAIN @ |-> TypeOf(@[i])]]
=============================================================================
