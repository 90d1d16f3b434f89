----------------------------- MODULE MCBuildCFG ------------------------------
(***************************************************************************)
(* Sources of up to three declarations, main, f and g, in which            *)
(*   - main applies f, or an intrinsic, or the result of applying f, to    *)
(*     its parameter, a number or another application, or is one of these; *)
(*   - f and g have up to two parameters and call themselves, each other,  *)
(*     an intrinsic and what nobody declares, or are no functions at all.  *)
(***************************************************************************)
EXTENDS BuildAndCollect

N(x)     == [kind |-> "scalar", value |-> x]
Id(name) == [kind |-> "identifier", value |-> name]
Ap(function, params) == [kind |-> "apply", function |-> function, params |-> params]
Lambda(params, value) == [kind |-> "function", params |-> params, value |-> value]
Scope == [kind |-> "scope"]

x == Id("x")
Times == Id("*")
f == Id("f")
g == Id("g")

V == VectorType(F32)

MainBodies ==
  { x, f, Scope, Ap(Times, <<x, N(2)>>), Ap(f, <<x>>), Ap(f, <<N(1)>>), Ap(f, <<x, N(1)>>),
    Ap(f, <<N(1), x>>), Ap(f, <<x, x>>), Ap(f, <<g>>), Ap(f, <<Ap(g, <<x>>)>>), Ap(x, <<x>>),
    Ap(Ap(f, <<x>>), <<x>>) }

\* What f and g do, which call other.
Bodies(other, self) ==
  { x, N(3), other, Ap(Times, <<x, N(2)>>), Ap(other, <<x>>), Ap(other, <<N(1), x>>),
    Ap(self, <<N(1)>>), Ap(self, <<x, N(1)>>) }

Functions(other, self) ==
  { Lambda(params, value) : params \in {<<"x">>, <<"y", "x">>}, value \in Bodies(other, self) }
    \cup { N(4), other, Ap(Times, <<N(1), N(2)>>) }

\* What only f does.
MoreFunctions ==
  { Lambda(<<"x">>, Lambda(<<"y">>, x)), Lambda(<<"x", "x">>, x), Lambda(<<"x">>, Ap(Id("absent"), <<x>>)),
    Lambda(<<"x">>, Ap(Ap(f, <<x>>), <<x>>)), Lambda(<<"x">>, g) }

Decl(name, value) == [name |-> name, value |-> value]

Source(declarations, result) ==
  [ declarations |-> declarations,
    root         |-> TypedSymbol(FunctionType(result, <<V>>), "main") ]

Modules(result, seconds) ==
  { Source(<<Decl("main", Lambda(<<"x">>, main)), Decl("f", first), Decl("g", second)>>, result) :
      main \in MainBodies, first \in Functions(g, f) \cup MoreFunctions, second \in seconds }

MCModules ==
  Modules(V, Functions(f, g))
    \cup Modules(F32, {Lambda(<<"x">>, x), Lambda(<<"x">>, f), Lambda(<<"x">>, Ap(f, <<x>>)), N(4)})
    \cup { Source(<<Decl("main", N(0)), Decl("main", Lambda(<<"f">>, f)), Decl("f", N(1))>>, V),
           Source(<<Decl("f", N(1))>>, V) }

\* The intrinsics that these sources can request.
Products == RestrictDomain(IntrinsicPackage, LAMBDA key : key.name = "*")

MCSources == {Reified(s) : s \in MCModules}

(* The product of what g makes of a number and of the parameter: both      *)
(* products exist, but an operand is requested of any type.                *)
MCOperandCall ==
  { Reified(Source(<< Decl("main", Lambda(<<"x">>, Ap(Times, <<Ap(g, <<N(1)>>), x>>))),
                      Decl("g", Lambda(<<"x">>, x)) >>, V)) }
=============================================================================
