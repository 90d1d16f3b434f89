------------------------------ MODULE MCCodegen ------------------------------
(***************************************************************************)
(* Packages for Codegen.                                                   *)
(*                                                                         *)
(* Graphs: a function f of up to two parameters, whose graph is any well-  *)
(* typed one of up to three levels, beside the functions that it calls:    *)
(* one, pair and none, of one, two and no parameters.                      *)
(*                                                                         *)
(* Examples: each pair of the twelve functions of                          *)
(* src/test/compiler/codegen/examples, in one package.                     *)
(*                                                                         *)
(* Overloads: each pair of functions f of up to two parameters, of eight   *)
(* types from any to functions of functions and vectors of functions; and  *)
(* functions f and f_[F32], at the types where their names look alike.     *)
(***************************************************************************)
EXTENDS Codegen, SerializeType, TLC

MCValue == 0 .. 36
MCArith(operation, x, y) == IF operation = "ADD" THEN (x + y) % 37 ELSE (x * y) % 37

Fp(x)          == [kind |-> "fp", value |-> x]
Ref(symbol)    == [kind |-> "ref", name |-> symbol.name, type |-> symbol.type]
Param(index)   == [kind |-> "param", index |-> index]
Op(f, l, r)    == [kind |-> "op", flavour |-> f, operation |-> "ADD", lhs |-> l, rhs |-> r]
Call(symbol, ps) == [kind |-> "call", function |-> Ref(symbol), params |-> ps]

VF32 == VectorType(F32)
Fn(params, result) == FunctionType(result, params)

Ops(f, L, R) == {Op(f, l, r) : l \in L, r \in R}

One  == TypedSymbol(Fn(<<F32>>, F32), <<"one">>)
Pair == TypedSymbol(Fn(<<F32, F32>>, F32), <<"pair">>)
None == TypedSymbol(Fn(<<>>, F32), <<"none">>)

\* The parameters that are scalars, or vectors.
ParamsOf(params, type) == {Param(i - 1) : i \in {j \in DOMAIN params : params[j] = type}}

Scalars(params) == {Fp(1)} \cup ParamsOf(params, F32)
Vectors(params) == ParamsOf(params, VF32)

ScalarValues2(params) ==
  LET S == Scalars(params) IN
  S \cup Ops("SS", S, S) \cup {Call(One, <<s>>) : s \in S} \cup {Call(None, <<>>)}

VectorValues2(params) ==
  LET S == Scalars(params)
      V == Vectors(params)
  IN V \cup Ops("VV", V, V) \cup Ops("VS", V, S) \cup Ops("SV", S, V)

\* The graphs of each result type.
Graphs(params, result) ==
  LET S == ScalarValues2(params)
      V == VectorValues2(params)
  IN IF result = F32
       THEN S \cup Ops("SS", S, S) \cup {Call(One, <<s>>) : s \in S}
              \cup {Call(Pair, <<s, t>>) : s, t \in S}
     ELSE IF result = VF32
       THEN V \cup Ops("VV", V, V) \cup Ops("VS", V, S) \cup Ops("SV", S, V)
     ELSE {Ref(One)}

Shapes == { <<>>, <<F32>>, <<VF32>>, <<F32, F32>>, <<VF32, F32>> }

Others == (One :> Fp(2)) @@ (Pair :> Fp(3)) @@ (None :> Fp(4))

WithOperands(values) ==
  values \cup UNION {{Operand(v, i) : i \in 1 .. OperandCount(v)} : v \in values}

\* No graph here has more than three levels.
PartsOf(root) == WithOperands(WithOperands({root}))

CalledIn(root) == {SymbolOf(v) : v \in {part \in PartsOf(root) : part.kind = "ref"}}

\* A package of f and the functions it calls, or one that it does not.
With(symbol, root) ==
  LET called == IF CalledIn(root) = {} THEN {Pair} ELSE CalledIn(root) IN
  (symbol :> root) @@ [other \in called |-> Others[other]]

MCGraphs ==
  UNION { {With(TypedSymbol(Fn(params, result), <<"f">>), root) : root \in Graphs(params, result)} :
          params \in Shapes, result \in {F32, VF32, One.type} }

----------------------------------------------------------------------------
\* The examples' 4.1 and 4.0 are 1 and 0.

I(op, operand) == [op |-> op, operand |-> operand]
PushSym(symbol) == [op |-> "PUSH_SYM", symbol |-> symbol]
Add(flavour, operand) == [op |-> flavour, operation |-> "ADD", operand |-> operand]
Return == [op |-> "RET"]
Exit == [op |-> "EXIT"]

SS == <<F32, F32>>
VV == <<VF32, VF32>>

\* What the examples call, which their packages leave undefined.
vec     == TypedSymbol(Fn(<<>>, VF32), <<"vec">>)
vecFn   == TypedSymbol(Fn(<<F32>>, VF32), <<"vecFn">>)
scalFn  == TypedSymbol(Fn(<<F32>>, F32), <<"scalFn">>)
extFunc == TypedSymbol(Fn(<<>>, F32), <<"extFunc">>)

Callees == (vec :> Call(vec, <<>>)) @@ (vecFn :> Call(vec, <<>>)) @@ (scalFn :> Fp(3))

Vec == Call(vec, <<>>)

\* The examples' functions are all called test: here they have names of their own.
Example(name, params, result, root) == [symbol |-> TypedSymbol(Fn(params, result), <<name>>), root |-> root]

Given ==
  { Example("binop_ss", <<>>, F32, Op("SS", Fp(1), Fp(0))),
    Example("binop_sv", <<>>, VF32, Op("SV", Vec, Fp(0))),
    Example("binop_vs", <<>>, VF32, Op("VS", Fp(0), Vec)),
    Example("binop_vv", <<>>, VF32, Op("VV", Vec, Vec)),
    Example("overwrite_param_binop_scalar", SS, F32, Op("SS", Fp(1), Fp(0))),
    Example("overwrite_param_binop_vector", SS, VF32, Op("SV", Fp(1), Vec)),
    Example("overwrite_param_call_scalar", SS, F32, Call(scalFn, <<Fp(0)>>)),
    Example("overwrite_param_call_vector", SS, VF32, Call(vecFn, <<Fp(0)>>)),
    Example("overwrite_param_fp", SS, F32, Fp(1)),
    Example("overwrite_param_functionref", SS, extFunc.type, Ref(extFunc)),
    Example("overwrite_param_paramref_scalar", SS, F32, Param(1)),
    Example("overwrite_param_paramref_vec", VV, VF32, Param(1)) }

PushVec == <<PushSym(MangledName(vec)), I("CALL", 0)>>

Expect ==
  [ binop_ss |-> <<I("PUSH", 0), I("PUSH", 1), Return, Add("SS", 0), Exit>>,
    binop_sv |-> <<I("PUSH", 0)>> \o PushVec \o <<Return, Add("SV", 0), Exit>>,
    binop_vs |-> PushVec \o <<I("PUSH", 0), Return, Add("VS", 0), Exit>>,
    binop_vv |-> PushVec \o PushVec \o <<Return, Add("VV", 0), Exit>>,
    overwrite_param_binop_scalar |-> <<I("PUSH", 0), I("PUSH", 1), Return, Add("SS", 2), Exit>>,
    overwrite_param_binop_vector |-> PushVec \o <<I("PUSH", 1), Return, Add("SV", 2), Exit>>,
    overwrite_param_call_scalar |->
      <<I("PUSH", 0), PushSym(MangledName(scalFn)), Return, I("CALL", 2), Exit>>,
    overwrite_param_call_vector |->
      <<I("PUSH", 0), PushSym(MangledName(vecFn)), Return, I("CALL", 2), Exit>>,
    overwrite_param_fp |-> <<I("PUSH", 1), Return, I("DROP_S", 2), Exit>>,
    overwrite_param_functionref |-> <<PushSym(MangledName(extFunc)), Return, I("DROP_S", 2), Exit>>,
    overwrite_param_paramref_scalar |-> <<I("COPY", 2), Return, I("DROP_S", 2), Exit>>,
    overwrite_param_paramref_vec |-> <<I("REF_VEC", 2), Return, I("DROP_V", 2), Exit>> ]

MCExamples ==
  { (a.symbol :> a.root) @@ (b.symbol :> b.root) @@ Callees : a, b \in Given }

----------------------------------------------------------------------------
ParamTypes ==
  { AnyType, F32, VF32, Fn(<<>>, F32), Fn(<<F32>>, F32), Fn(<<VF32>>, F32),
    VectorType(Fn(<<F32>>, VF32)), Fn(<<Fn(<<>>, F32)>>, VF32) }

FTypes == {Fn(params, F32) : params \in UNION {[1 .. n -> ParamTypes] : n \in 0 .. 2}}

MCOverloads ==
  { (TypedSymbol(s, <<"f">>) :> Fp(1)) @@ (TypedSymbol(t, <<"f">>) :> Fp(2)) : s, t \in FTypes }
    \cup { (TypedSymbol(t, <<"f">>) :> Fp(1))
             @@ (TypedSymbol(Fn(<<>>, F32), <<"f", "_", "[", "F32", "]">>) :> Fp(2)) : t \in FTypes }

MCSources == MCGraphs \cup MCExamples \cup MCOverloads

----------------------------------------------------------------------------
Roots(sources) == UNION {{<<symbol.type, s[symbol]>> : symbol \in DOMAIN s} : s \in sources}

ValuesOf(sources) == UNION {{<<root[1], v>> : v \in PartsOf(root[2])} : root \in Roots(sources)}

MCGraphValues == ValuesOf(MCSources)

GraphType(v, type) == typeInFunction(v, type, [kind |-> "null"])

(* Each example compiles to the code its test expects, wherever in the      *)
(* package it comes to lie (src/test/compiler/codegen/examples).            *)
CompilesAsExpected ==
  \A symbol \in DOMAIN source \ pending :
    symbol.name[1] \in DOMAIN Expect => CodeOf(MangledName(symbol)) = Expect[symbol.name[1]]
=============================================================================
