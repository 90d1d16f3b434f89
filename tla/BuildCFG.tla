------------------------------- MODULE BuildCFG -------------------------------
(***************************************************************************)
(* From syntax trees to control-flow graphs (src/lib/compiler/BuildCFG.cpp *)
(* and Intrinsics.cpp): what building one declared function for one key    *)
(* does, for Reification to go through.                                    *)
(*                                                                         *)
(* A module is [declarations, root]: a sequence of [name, value], and the  *)
(* typed symbol to build.  Expressions (AST.hpp) are                       *)
(*   [kind |-> "scalar",     value]                                        *)
(*   [kind |-> "identifier", value]                                        *)
(*   [kind |-> "apply",      function, params]                             *)
(*   [kind |-> "function",   params, value]                                *)
(* and others, which are refused.  Graph values (CFG.hpp) are those of     *)
(* Codegen, with the type of a reference and without a binary operation's  *)
(* flavour, which follows from its operands' types.                        *)
(*                                                                         *)
(* Visiting an expression yields [effects, value]; once an effect fails    *)
(* there are no more, and no value.                                        *)
(***************************************************************************)
EXTENDS Types, Reification, Sequences, FiniteSetsExt, SequencesExt

Request(key) == [kind |-> "request", key |-> key]

Failure(how) == [effects |-> <<[kind |-> how]>>, value |-> Null]

Fails(effects) == effects # <<>> /\ Last(effects).kind # "request"

----------------------------------------------------------------------------
\* A scope is [function, paramNames]: the type and the names of the parameters.

Bound(name, scope) == \E i \in DOMAIN scope.paramNames : scope.paramNames[i] = name

\* Of parameters of the same name the last one is bound.
Binding(name, scope) ==
  [ kind  |-> "param",
    index |-> Max({i \in DOMAIN scope.paramNames : scope.paramNames[i] = name}) - 1 ]

FunctionRef(name, type) == [kind |-> "ref", name |-> name, type |-> type]

CallFunc(function, params) == [kind |-> "call", function |-> function, params |-> params]

\* ScopeContext::resolveIdentifier
resolveInScope(name, requestedType, scope) ==
  LET type == functionVersion(requestedType)
      ref  == FunctionRef(name, type)
  IN IF Bound(name, scope)
       THEN [effects |-> <<>>, value |-> Binding(name, scope)]
       ELSE [ effects |-> <<Request(TypedSymbol(type, name))>>,
              value   |-> IF requestedType.kind = "function" THEN ref ELSE CallFunc(ref, <<>>) ]

\* build's assertions, which read the value's type.
Asserted(built, requestedType, scope) ==
  LET type == typeInFunction(built.value, scope.function, Null) IN
  IF type = Null
    THEN [effects |-> Append(built.effects, [kind |-> "undefined"]), value |-> Null]
    ELSE IF ~subtypeOf(type, requestedType) \/ type = AnyType
      THEN [effects |-> Append(built.effects, [kind |-> "assert"]), value |-> Null]
      ELSE built

RECURSIVE build(_, _, _)

\* The next operand, and its type.
WithOperand(before, built, scope) ==
  IF Fails(built.effects)
    THEN [before EXCEPT !.effects = @ \o built.effects]
    ELSE [ effects |-> before.effects \o built.effects,
           values  |-> Append(before.values, built.value),
           types   |-> Append(before.types, typeInFunction(built.value, scope.function, Null)) ]

\* The operands from the first on, up to one that fails.
Operands(params, scope) ==
  FoldLeft(LAMBDA before, param :
             IF Fails(before.effects) THEN before
                                      ELSE WithOperand(before, build(param, AnyType, scope), scope),
           [effects |-> <<>>, values |-> <<>>, types |-> <<>>], params)

Call_reversed(effects, fnSite, operands) ==
  [ effects |-> effects,
    value   |-> IF Fails(effects) THEN Null ELSE CallFunc(fnSite.value, Reverse(operands.values)) ]

Call(effects, fnSite, operands) ==
  [ effects |-> effects,
    value   |-> IF Fails(effects) THEN Null ELSE CallFunc(fnSite.value, operands.values) ]

acceptApply(s, requestedType, scope) ==
  LET operands == Operands(s.params, scope)
      fnSite   == build(s.function, FunctionType(requestedType, operands.types), scope)
  IN IF Fails(operands.effects)
       THEN [effects |-> operands.effects, value |-> Null]
       ELSE Call(operands.effects \o fnSite.effects, fnSite, operands)

\* ScopeContext::build
build(expr, requestedType, scope) ==
  LET built == CASE expr.kind = "scalar"     -> [ effects |-> <<>>,
                                                  value   |-> [kind |-> "fp", value |-> expr.value] ]
                 [] expr.kind = "identifier" -> resolveInScope(expr.value, requestedType, scope)
                 [] expr.kind = "apply"      -> acceptApply(expr, requestedType, scope)
                 [] OTHER                    -> Failure("throw")
  IN IF Fails(built.effects) THEN built ELSE Asserted(built, requestedType, scope)

----------------------------------------------------------------------------
\* GlobalContext: the declarations, and what building one of them does.

DeclaredAs(s, name) == {i \in DOMAIN s.declarations : s.declarations[i].name = name}

DeclaresName(s, key) == DeclaredAs(s, key.name) # {}

\* Of declarations of the same name the last one counts.
SourceOf(s, name) == s.declarations[Max(DeclaredAs(s, name))].value

Reify(s, key) ==
  LET expr  == SourceOf(s, key.name)
      isFn  == expr.kind = "function"
      scope == [ function   |-> key.type,
                 paramNames |-> IF isFn THEN expr.params ELSE <<>> ]
      built == build(IF isFn THEN expr.value ELSE expr, key.type.result, scope)
  IN [effects |-> built.effects, root |-> built.value]

\* Typed symbols are built on request.  These are the ones that requests can
\* lead to before the process's stack ends.
RECURSIVE Requestable(_, _, _)
Requestable(s, keys, depth) ==
  LET effects == UNION {ToSet(Reify(s, key).effects) : key \in {k \in keys : DeclaresName(s, k)}}
      more    == {effect.key : effect \in {e \in effects : e.kind = "request"}} \ keys
  IN IF depth = 0 \/ more = {} THEN keys ELSE Requestable(s, keys \cup more, depth - 1)

Reified(s) ==
  LET keys == Requestable(s, {s.root}, MaxDepth + 1) IN
  [ declarations |-> s.declarations,
    root         |-> s.root,
    bodies       |-> [key \in {k \in keys : DeclaresName(s, k)} |-> Reify(s, key)] ]

\* addBinaryOpIntrinsic, for each operation and each pair of operand types.
IntrinsicKey(operation, lhs, rhs) ==
  TypedSymbol(FunctionType(intersectionType(lhs, rhs, Null), <<lhs, rhs>>), operation)

IntrinsicOp(operation) ==
  [ kind |-> "op", operation |-> operation,
    lhs |-> [kind |-> "param", index |-> 0], rhs |-> [kind |-> "param", index |-> 1] ]

IntrinsicPackage ==
  LET keys == { IntrinsicKey(operation, lhs, rhs) :
                  operation \in {"+", "*"}, lhs, rhs \in {F32, VectorType(F32)} }
  IN [key \in keys |-> IntrinsicOp(key.name)]

----------------------------------------------------------------------------
\* What sources and packages denote: terms over the root's parameters.

CONSTANT Fuel   \* bound: how deep calls are followed

Diverges == [term |-> "diverges"]

Constant(x) == [term |-> "constant", value |-> x]

Argument(i) == [term |-> "argument", index |-> i]

Operation(name, args) == [term |-> "operation", name |-> name, args |-> args]

RECURSIVE Evaluate(_, _, _, _), Apply(_, _, _, _)

\* A name applied to arguments.  A declared value is a function of none.
Apply(s, name, args, fuel) ==
  IF DeclaredAs(s, name) = {} THEN Operation(name, args)
  ELSE IF fuel = 0 THEN Diverges
  ELSE LET expr == SourceOf(s, name) IN
       IF expr.kind = "function"
         THEN Evaluate(s, expr.value, [i \in DOMAIN expr.params \cap DOMAIN args |->
                [name |-> expr.params[i], value |-> args[i]]], fuel - 1)
         ELSE Evaluate(s, expr, <<>>, fuel - 1)

\* An operand's value, or the function at the head of an application.
Evaluate(s, expr, env, fuel) ==
  LET Value(e)   == Evaluate(s, e, env, fuel)
      Local(n)   == {i \in DOMAIN env : env[i].name = n}
  IN CASE expr.kind = "scalar" -> Constant(expr.value)
       [] expr.kind = "identifier" ->
            IF Local(expr.value) # {} THEN env[Max(Local(expr.value))].value
                                      ELSE Apply(s, expr.value, <<>>, fuel)
       [] expr.kind = "apply" ->
            LET args == [i \in DOMAIN expr.params |-> Value(expr.params[i])] IN
            Apply(s, expr.function.value, args, fuel)

RECURSIVE Denote(_, _, _, _)

\* A graph's value; functions are looked up in the package, as at run time.
Denote(v, functions, args, fuel) ==
  LET Value(operand) == Denote(operand, functions, args, fuel) IN
  CASE v.kind = "fp"    -> Constant(v.value)
    [] v.kind = "param" -> args[v.index + 1]
    [] v.kind = "op"    -> Operation(v.operation, <<Value(v.lhs), Value(v.rhs)>>)
    [] v.kind = "call"  ->
         LET key    == TypedSymbol(v.function.type, v.function.name)
             passed == [i \in DOMAIN v.params |-> Value(v.params[i])]
         IN IF key \in DOMAIN Intrinsics THEN Denote(functions[key], functions, passed, fuel)
            ELSE IF fuel = 0 THEN Diverges
            ELSE Denote(functions[key], functions, passed, fuel - 1)

----------------------------------------------------------------------------
\* Correctness.

IsName(expr) == expr.kind = "identifier"

\* No function is the result of applying another one.
RECURSIVE FirstOrder(_)
FirstOrder(expr) ==
  CASE expr.kind = "apply"    -> IsName(expr.function)
                                   /\ \A i \in DOMAIN expr.params : FirstOrder(expr.params[i])
    [] expr.kind = "function" -> FirstOrder(expr.value)
    [] OTHER                  -> TRUE

RECURSIVE LookedUpIn(_)

\* The functions that running a graph looks up.
LookedUpIn(v) ==
  CASE v.kind = "ref"  -> {TypedSymbol(v.type, v.name)}
    [] v.kind = "op"   -> LookedUpIn(v.lhs) \cup LookedUpIn(v.rhs)
    [] v.kind = "call" -> UNION {LookedUpIn(part) : part \in {v.function} \cup ToSet(v.params)}
    [] OTHER           -> {}

\* The package denotes what the source does.
Denotes(functions) ==
  LET args == [i \in DOMAIN source.root.type.params |-> Argument(i)] IN
  Denote(functions[source.root], functions, args, Fuel)
    = Apply(source, source.root.name, args, Fuel + 1)

AllFirstOrder == \A i \in DOMAIN source.declarations : FirstOrder(source.declarations[i].value)

(* First-order sources are requested at finitely many types, whatever      *)
(* refers to what: building them ends, in bounded stack.                   *)
FirstOrderEnds == AllFirstOrder => outcome # "overflow"

(* "Visitor should always return a correct CFG type" (BuildCFG.cpp:219).   *)
VisitorReturnsCorrectType == outcome # "assert"
=============================================================================
