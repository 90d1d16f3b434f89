----------------------------- MODULE SerializeCFG -----------------------------
(***************************************************************************)
(* Graph values and packages (src/lib/compiler/CFG.hpp, CFG.cpp) and their *)
(* text (src/lib/compiler/SerializeCFG.cpp).  Values are those of Codegen; *)
(* a package takes typed symbols to values.                                *)
(***************************************************************************)
EXTENDS ReadType, StringifyUtil, TLC

----------------------------------------------------------------------------
CallFunc(function, params) == [kind |-> "call", function |-> function, params |-> params]

BinaryOp(flavour, operation, lhs, rhs) ==
  [kind |-> "op", flavour |-> flavour, operation |-> operation, lhs |-> lhs, rhs |-> rhs]

FunctionRef(name, type) == [kind |-> "ref", name |-> name, type |-> type]

ParamRef(index) == [kind |-> "param", index |-> index]

FPValue(value) == [kind |-> "fp", value |-> value]

RECURSIVE Equal(_, _)

EqualCollections(lhs, rhs) ==
  Len(lhs) = Len(rhs) /\ \A i \in DOMAIN lhs : Equal(lhs[i], rhs[i])

\* Value::operator==, to which the types of references do not matter.
Equal(lhs, rhs) ==
  /\ lhs.kind = rhs.kind
  /\ CASE lhs.kind = "call"  -> /\ Equal(lhs.function, rhs.function)
                                /\ EqualCollections(lhs.params, rhs.params)
       [] lhs.kind = "op"    -> /\ lhs.flavour = rhs.flavour /\ lhs.operation = rhs.operation
                                /\ Equal(lhs.lhs, rhs.lhs) /\ Equal(lhs.rhs, rhs.rhs)
       [] lhs.kind = "ref"   -> lhs.name = rhs.name
       [] lhs.kind = "param" -> lhs.index = rhs.index
       [] lhs.kind = "fp"    -> lhs.value = rhs.value

\* Package::operator==
EqualPackages(lhs, rhs) ==
  DOMAIN lhs = DOMAIN rhs /\ \A key \in DOMAIN lhs : Equal(lhs[key], rhs[key])

----------------------------------------------------------------------------
\* Reading.

\* The operation's name and the instruction it stands for.
Intrinsics ==
  [ add_vv |-> <<"VV", "ADD">>, add_sv |-> <<"SV", "ADD">>, add_vs |-> <<"VS", "ADD">>,
    add_ss |-> <<"SS", "ADD">>, mul_vv |-> <<"VV", "MUL">>, mul_sv |-> <<"SV", "MUL">>,
    mul_vs |-> <<"VS", "MUL">>, mul_ss |-> <<"SS", "MUL">> ]

valueTree == rule("valueTree")

callParams(out) == collect(out, then(<<whitespace, delimited(valueTree, whitespace)>>))

call ==
  taggedSExp("call",
    reading(CallFunc(Unset, <<>>),
      then(<<receive("function", valueTree), optional(callParams("params")), emit>>)))

operation ==
  LET Named(name) == then(<< match(name), set("flavour", Intrinsics[name][1]),
                             set("operation", Intrinsics[name][2]) >>)
  IN either(<< Named("add_vv"), Named("add_sv"), Named("add_vs"), Named("add_ss"),
               Named("mul_vv"), Named("mul_sv"), Named("mul_vs"), Named("mul_ss") >>)

primitive_swapped ==
  sExp(reading(BinaryOp(Unset, Unset, Unset, Unset),
    then(<< operation, whitespace, receive("rhs", valueTree), whitespace,
            receive("lhs", valueTree), emit >>)))

primitive ==
  sExp(reading(BinaryOp(Unset, Unset, Unset, Unset),
    then(<< operation, whitespace, receive("lhs", valueTree), whitespace,
            receive("rhs", valueTree), emit >>)))

functionRef ==
  taggedSExp("fn",
    reading(FunctionRef(<<>>, Unset),
      then(<<receive("name", anyIdentifier), whitespace, receive("type", functionType), emit>>)))

paramRef == taggedSExp("param", reading(ParamRef(<<>>), then(<<receive("index", integer), emit>>)))

scalar == taggedSExp("fp", reading(FPValue(<<>>), then(<<receive("value", real), emit>>)))

function ==
  sExp(reading([name |-> <<>>, type |-> Unset, value |-> Unset],
    then(<< receive("name", anyIdentifier), whitespace, receive("type", typeTree), whitespace,
            receive("value", valueTree), emit >>)))

package ==
  reading([functions |-> <<>>],
    then(<< optionalWhitespace, collect("functions", delimited(function, whitespace)),
            optionalWhitespace, emit >>))

GraphRules ==
  TypeRules @@ [valueTree |-> either(<<call, primitive, call, paramRef, scalar, functionRef>>)]

RECURSIVE ValueOf(_)

\* A value with the types that its references have been read for.
ValueOf(node) ==
  CASE node.kind = "ref"  -> [node EXCEPT !.type = TypeOf(@)]
    [] node.kind = "op"   -> [node EXCEPT !.lhs = ValueOf(@), !.rhs = ValueOf(@)]
    [] node.kind = "call" -> [node EXCEPT !.function = ValueOf(@),
                                          !.params = [i \in DOMAIN @ |-> ValueOf(@[i])]]
    [] OTHER -> node

\* result.functions[key] = val, for one function after the other.
PackageOf(functions) ==
  FoldLeft(LAMBDA before, f : (TypedSymbol(TypeOf(f.type), f.name) :> ValueOf(f.value)) @@ before,
           <<>>, functions)

readPackage(text) ==
  LET end == read(text, GraphRules, package) IN
  [end EXCEPT !.values = [i \in DOMAIN @ |-> PackageOf(@[i].functions)]]

----------------------------------------------------------------------------
\* Printing: CFGStringifier.

RECURSIVE ValueText(_)

acceptCall(v) ==
  Tagged("call", <<ValueText(v.function)>> \o [i \in DOMAIN v.params |-> ValueText(v.params[i])])

operationString(v) ==
  CHOOSE name \in DOMAIN Intrinsics : Intrinsics[name] = <<v.flavour, v.operation>>

acceptBinaryOp(v) == Bracketed(<< <<operationString(v)>>, ValueText(v.lhs), ValueText(v.rhs) >>)

acceptFunctionRef(v) == Tagged("fn", <<v.name, TypeText(v.type)>>)

acceptParamRef(v) == Tagged("param", <<v.index>>)

acceptFPValue(v) == Tagged("fp", <<NumberText(v.value)>>)

\* Value::visit
ValueText(v) ==
  CASE v.kind = "call"  -> acceptCall(v)
    [] v.kind = "op"    -> acceptBinaryOp(v)
    [] v.kind = "ref"   -> acceptFunctionRef(v)
    [] v.kind = "param" -> acceptParamRef(v)
    [] v.kind = "fp"    -> acceptFPValue(v)

acceptPackageFunction(key, value) ==
  Bracketed(<<key.name, TypeText(key.type), ValueText(value)>>)

\* The functions come in the order of an unordered_map: any.
acceptPackage(p) ==
  { Joined([i \in DOMAIN keys |-> acceptPackageFunction(keys[i], p[keys[i]])], TopLevel) :
    keys \in SetToSeqs(DOMAIN p) }
=============================================================================
