--------------------------- MODULE MCCompileAndRun ---------------------------
(***************************************************************************)
(* Packages for CompileAndRun: those of MCCodegen, without a main, those   *)
(* of MCVMRun, written by hand, and                                        *)
(*                                                                         *)
(* IllTyped: a function of an operation on a number and a function, at its *)
(* root, below it, or as a parameter.                                      *)
(*                                                                         *)
(* Composed: a function g of up to one parameter whose graph is a leaf or  *)
(* a sum of leaves; a function f of up to two whose graph is a leaf, a     *)
(* call of g, or a product of these; and a main that calls f at its root,  *)
(* or below it, or beside a call of g.                                     *)
(*                                                                         *)
(* OfVectors: a main that returns its parameter, adds to it, or hands it   *)
(* to a function f that returns it, adds to it or ignores it.              *)
(***************************************************************************)
EXTENDS CompileAndRun, MCCodegen, MCVMRun

Mismatch == Op("SS", Fp(1), Ref(One))

MCIllTyped ==
  { With(TypedSymbol(Fn(<<>>, F32), <<"f">>), root) :
    root \in {Mismatch, Op("SS", Fp(1), Mismatch), Call(One, <<Mismatch>>)} }

----------------------------------------------------------------------------

Sum(l, r)     == Op("SS", l, r)
Product(l, r) == [Op("SS", l, r) EXCEPT !.operation = "MUL"]

\* A function of scalars.
OfScalars(name, arity) == TypedSymbol(FunctionType(F32, [i \in 1 .. arity |-> F32]), <<name>>)

MainOf(result) == TypedSymbol(Fn(<<VF32>>, result), <<"main">>)

Leaves(arity) == {Fp(4)} \cup {Param(i) : i \in 0 .. arity - 1}

Calls(name, arity, passed) == {Call(OfScalars(name, arity), params) : params \in [1 .. arity -> passed]}

GRoots(arity) ==
  Leaves(arity) \cup {Sum(l, r) : l, r \in Leaves(arity)}

FRoots(arity, gArity) ==
  LET parts == Leaves(arity) \cup Calls("g", gArity, Leaves(arity)) IN
  parts \cup {Product(l, r) : l, r \in parts}

MainRoots(fArity, gArity) ==
  LET f == Call(OfScalars("f", fArity), [i \in 1 .. fArity |-> Fp(i + 1)])
      g == Call(OfScalars("g", gArity), [i \in 1 .. gArity |-> Fp(5)])
  IN {f, Sum(Fp(6), f), Sum(g, f)}

MCComposed ==
  UNION { { (MainOf(F32) :> main) @@ (OfScalars("f", fArity) :> f) @@ (OfScalars("g", gArity) :> g) :
            main \in MainRoots(fArity, gArity), f \in FRoots(fArity, gArity), g \in GRoots(gArity) } :
          fArity \in 0 .. 2, gArity \in 0 .. 1 }

----------------------------------------------------------------------------
\* The operations on a vector and a number.
WithANumber(v) == {v, Op("VS", v, Fp(4)), Op("SV", Fp(4), v)}

MCOfVectors ==
  LET f == TypedSymbol(Fn(<<VF32>>, VF32), <<"f">>)
      h == TypedSymbol(Fn(<<VF32>>, F32), <<"h">>)
      call == Call(f, <<Param(0)>>)
  IN { (MainOf(VF32) :> main) @@ (f :> root) :
       main \in WithANumber(Param(0)) \cup WithANumber(call) \cup {Op("VV", Param(0), call)},
       root \in WithANumber(Param(0)) }
     \cup { (MainOf(F32) :> main) @@ (h :> Fp(4)) :
            main \in {Call(h, <<Param(0)>>), Sum(Fp(6), Call(h, <<Param(0)>>))} }

----------------------------------------------------------------------------
MCSourcesAndComposed == MCSources \cup MCIllTyped \cup MCComposed \cup MCOfVectors
MCAllGraphValues == ValuesOf(MCSourcesAndComposed)

\* A function reads its parameter and adds to it.
MCReadsParam ==
  LET f == OfScalars("f", 1) IN
  { (MainOf(F32) :> Call(f, <<Fp(2)>>)) @@ (f :> Sum(Param(0), Fp(4))) }
MCReadsParamValues == ValuesOf(MCReadsParam)
=============================================================================
