------------------------------- MODULE Codegen -------------------------------
(***************************************************************************)
(* Code generation (src/lib/compiler/Codegen.cpp): a package of            *)
(* control-flow graphs to a package of instructions.  The code of its      *)
(* functions is laid out one after the other, and a symbol table tells     *)
(* where each begins; the functions are compiled in any order, as the code *)
(* iterates over an unordered_map.                                         *)
(*                                                                         *)
(* A cfg::Package takes a function's typed symbol to the root value of its *)
(* graph; its code has the symbol's mangled name.  The values of CFG.hpp   *)
(* are                                                                     *)
(*   [kind |-> "fp",    value]                       FPValue               *)
(*   [kind |-> "ref",   name, type]                  FunctionRef           *)
(*   [kind |-> "param", index]                       ParamRef              *)
(*   [kind |-> "op",    flavour, operation, lhs, rhs]  BinaryOp            *)
(*   [kind |-> "call",  function, params]            CallFunc              *)
(*                                                                         *)
(* The visitor's C++ recursion is a stack of visits, each with the number  *)
(* of operands it has emitted.  A step begins or ends the visit of one     *)
(* value; the visit of a function's root ends its compilation.             *)
(***************************************************************************)
EXTENDS Instruction, FiniteSets

CONSTANTS
  Sources,       \* the packages to compile
  GraphValues,   \* their graphs' values, each with its function's type: <<type, value>>
  NameOf(_),     \* the name of a typed symbol
  TypeIn(_, _),  \* a value's type in a function of a type
  Additional     \* how many slots of its caller's a function may have to pop

SymbolOf(ref) == [type |-> ref.type, name |-> ref.name]

IsLeaf(v) == v.kind \in {"fp", "ref", "param"}

\* The operands of a value, in the order they are emitted: right to left, so
\* that the first is on top, and a call's function above its parameters.
OperandCount(v) ==
  CASE IsLeaf(v) -> 0 [] v.kind = "op" -> 2 [] v.kind = "call" -> Len(v.params) + 1

Operand(v, i) ==
  CASE v.kind = "op"   -> IF i = 1 THEN v.rhs ELSE v.lhs
    [] v.kind = "call" -> IF i <= Len(v.params) THEN v.params[Len(v.params) + 1 - i] ELSE v.function

(* Graphs are made of values with the fields above.  They read parameters  *)
(* the function has, and pass as many as the called function's type takes. *)
WellFormed(v, type) ==
  \/ v.kind = "fp" /\ v = [kind |-> "fp", value |-> v.value]
  \/ v.kind = "ref" /\ v = [kind |-> "ref", name |-> v.name, type |-> v.type]
  \/ v.kind = "param" /\ v = [kind |-> "param", index |-> v.index]
       /\ v.index \in 0 .. Len(type.params) - 1
  \/ v.kind = "op" /\ v = [ kind |-> "op", flavour |-> v.flavour, operation |-> v.operation,
                            lhs |-> v.lhs, rhs |-> v.rhs ]
       /\ v.flavour \in Flavours
  \/ v.kind = "call" /\ v = [kind |-> "call", function |-> v.function, params |-> v.params]
       /\ LET arity == Len(TypeIn(v.function, type).params) IN
          arity \in Nat /\ v.params = [i \in 1 .. arity |-> v.params[i]]

\* The values of the packages' graphs are among these.
Hold(values) ==
  /\ \A s \in Sources : \A symbol \in DOMAIN s : <<symbol.type, s[symbol]>> \in values
  /\ \A graphValue \in values :
       LET type == graphValue[1]
           v    == graphValue[2]
       IN /\ graphValue = <<type, v>> /\ Len(type.params) \in Nat
          /\ WellFormed(v, type)
          /\ \A i \in 1 .. OperandCount(v) : <<type, Operand(v, i)>> \in values

ASSUME GraphsAssumption == Additional \subseteq Nat /\ Hold(GraphValues)

VARIABLES
  source,    \* the cfg::Package
  pending,   \* the typed symbols still to be compiled, or being compiled
  output,    \* the vm::Package: code and symbols
  context,   \* the CodegenFunction of the function being compiled
  visits,    \* the visits of its values: [value, emitted]
  aborted    \* an assertion has failed, or a null type has been asked

compileVars == <<source, pending, output, context, visits, aborted>>

----------------------------------------------------------------------------
\* CodegenFunction and the helpers of CodegenValue.

Context(symbol) ==
  [ symbol       |-> symbol,
    stackSize    |-> 0,
    unusedParams |-> 0 .. Len(symbol.type.params) - 1 ]

\* Between two functions.
NoContext == [symbol |-> <<>>, stackSize |-> 0, unusedParams |-> {}]

Visit(v) == [value |-> v, emitted |-> 0]

Visited == visits[Len(visits)].value

\* The visited value is the root of the function's graph.
returnNode == Len(visits) = 1

popCount_always == Cardinality(context.unusedParams)

popCount == IF returnNode THEN Cardinality(context.unusedParams) ELSE 0

Cleanup_noExit(inst, explicitPop, dropOp) == << [op |-> "RET"], inst >>

Cleanup_returnsLate(inst, explicitPop, dropOp) ==
  IF explicitPop /\ popCount # 0
    THEN << inst, [op |-> dropOp, operand |-> popCount], [op |-> "RET"], [op |-> "EXIT"] >>
    ELSE << [op |-> "RET"], inst, [op |-> "EXIT"] >>

\* An instruction of a function's root: as the function's result, with cleanup.
Cleanup(inst, explicitPop, dropOp) ==
  IF explicitPop /\ popCount # 0
    THEN << inst, [op |-> "RET"], [op |-> dropOp, operand |-> popCount], [op |-> "EXIT"] >>
    ELSE << [op |-> "RET"], inst, [op |-> "EXIT"] >>

\* The code that emit(inst) adds, and the parameters it leaves unused.
emit(inst, explicitPop, dropOp) ==
  IF returnNode THEN Cleanup(inst, explicitPop, dropOp) ELSE <<inst>>

Emitted == IF returnNode THEN [context EXCEPT !.unusedParams = {}] ELSE context

pushValue(ctx) == [ctx EXCEPT !.stackSize = @ + 1]

popOperands_keepsAll(ctx, count) == ctx

popOperands(ctx, count) == [ctx EXCEPT !.stackSize = @ - (count - 1)]

\* 1 is the top of the stack.
paramOffset(index) == context.stackSize + index + 1

markUsed_forgets(ctx, index) == ctx

markUsed(ctx, index) == [ctx EXCEPT !.unusedParams = @ \ {index}]

CanMark(index) == returnNode \/ index \in context.unusedParams

----------------------------------------------------------------------------
\* The value visitors.

\* The visitor calls itself for the next operand.
EmitOperand ==
  LET visit == visits[Len(visits)] IN
  /\ visit.emitted < OperandCount(visit.value)
  /\ visits' = Append(visits, Visit(Operand(visit.value, visit.emitted + 1)))
  /\ UNCHANGED <<source, pending, output, context, aborted>>

\* It returns to the visit of which this was an operand; from the root's, to
\* the package loop, by whose assertion no parameter is unused.
Leave(instructions, next, asserted) ==
  /\ output' = [output EXCEPT !.code = @ \o instructions]
  /\ aborted' = (~asserted \/ (returnNode /\ next.unusedParams # {}))
  /\ visits' = IF returnNode THEN <<>>
               ELSE [SubSeq(visits, 1, Len(visits) - 1) EXCEPT ![Len(visits) - 1].emitted = @ + 1]
  /\ context' = IF returnNode THEN NoContext ELSE next
  /\ pending' = IF returnNode THEN pending \ {context.symbol} ELSE pending
  /\ UNCHANGED source

acceptFPValue ==
  LET inst == [op |-> "PUSH", operand |-> Visited.value] IN
  /\ Visited.kind = "fp"
  /\ Leave(emit(inst, TRUE, "DROP_S"), pushValue(Emitted), TRUE)

acceptFunctionRef ==
  LET inst == [op |-> "PUSH_SYM", symbol |-> NameOf(SymbolOf(Visited))] IN
  /\ Visited.kind = "ref"
  /\ Leave(emit(inst, TRUE, "DROP_S"), pushValue(Emitted), TRUE)

acceptParamRef ==
  LET index  == Visited.index
      offset == paramOffset(index)
      code   == IF TypeIn(Visited, context.symbol.type).kind = "vector"
                  THEN emit([op |-> "REF_VEC", operand |-> offset], TRUE, "DROP_V")
                  ELSE emit([op |-> "COPY", operand |-> offset], TRUE, "DROP_S")
  IN /\ Visited.kind = "param"
     /\ Leave(code, pushValue(markUsed(Emitted, index)), CanMark(index))

\* isVector() of the operation's type comes before its instruction: where the
\* operands' types have no intersection there is no type to ask.
acceptBinaryOp ==
  LET inst == [op |-> Visited.flavour, operation |-> Visited.operation, operand |-> popCount]
      type == TypeIn(Visited, context.symbol.type)
  IN
  /\ Visited.kind = "op"
  /\ visits[Len(visits)].emitted = 2
  /\ \/ type.kind # "null" /\ Leave(emit(inst, FALSE, "DROP_S"), popOperands(Emitted, 2), TRUE)
     \/ /\ type.kind = "null"
        /\ aborted' = TRUE
        /\ UNCHANGED <<source, pending, output, context, visits>>

acceptCall ==
  LET count == Len(Visited.params) + 1
      inst  == [op |-> "CALL", operand |-> popCount]
  IN /\ Visited.kind = "call"
     /\ visits[Len(visits)].emitted = count
     /\ Leave(emit(inst, FALSE, "DROP_S"), popOperands(Emitted, count), TRUE)

\* cfg::Value::visit
acceptValue ==
  /\ visits # <<>>
  /\ EmitOperand \/ acceptFPValue \/ acceptFunctionRef \/ acceptParamRef
       \/ acceptBinaryOp \/ acceptCall

----------------------------------------------------------------------------
\* The package loop.

\* The table once name is the function whose code begins after the first start.
Named(symbols, name, start) ==
  [n \in DOMAIN symbols \cup {name} |-> IF n = name THEN start ELSE symbols[n]]

BeginFunction(symbol) ==
  /\ visits = <<>>
  /\ output' = [output EXCEPT !.symbols = Named(@, NameOf(symbol), Len(output.code))]
  /\ context' = Context(symbol)
  /\ visits' = <<Visit(source[symbol])>>
  /\ UNCHANGED <<source, pending, aborted>>

CompileInit ==
  /\ source \in Sources
  /\ pending = DOMAIN source
  /\ output = [code |-> <<>>, symbols |-> [name \in {} |-> 0]]
  /\ context = NoContext
  /\ visits = <<>>
  /\ aborted = FALSE

CompileNext ==
  /\ ~aborted
  /\ acceptValue \/ \E symbol \in pending : BeginFunction(symbol)

CompileSpec == CompileInit /\ [][CompileNext]_compileVars

----------------------------------------------------------------------------
(* What a function's code does, for whatever function it is given: opcode  *)
(* by opcode as Instruction.hpp has it, on a stack that holds values of    *)
(* the function's graph.  The slots below belong to the caller.  A CALL is *)
(* one step, which leaves the value that calls.                            *)

\* A compiled function's code: from its symbol to the first EXIT.
CodeOf(name) ==
  LET start == output.symbols[name] + 1
      size  == Len(output.code)
      ends  == {i \in start .. size : output.code[i].op = "EXIT"} \cup {size}
  IN SubSeq(output.code, start, CHOOSE i \in ends : \A j \in ends : i <= j)

\* The code so far of the function being compiled.
CurrentCode ==
  SubSeq(output.code, output.symbols[NameOf(context.symbol)] + 1, Len(output.code))

References == {v \in {graphValue[2] : graphValue \in GraphValues} : v.kind = "ref"}

\* The functions that names stand for.
Called == [name \in {NameOf(SymbolOf(v)) : v \in References} |->
             CHOOSE v \in References : NameOf(SymbolOf(v)) = name]

\* As the function is entered, to pop additional slots of its caller's.
\* resultOffset and additional are its activation's resultOffset and popCount.
Entered(type, additional) ==
  LET size == additional + Len(type.params) IN
  [ stack |-> [i \in 1 .. size |-> IF i <= additional THEN [kind |-> "caller", slot |-> i]
                                   ELSE [kind |-> "param", index |-> size - i]],
    resultOffset |-> 0, additional |-> additional, underflow |-> FALSE ]

Replace(m, n, v) ==
  [m EXCEPT !.stack = Append(SubSeq(@, 1, Len(@) - n), v),
            !.underflow = @ \/ n > Len(m.stack)]

Effect(inst, m, type) ==
  LET size   == Len(m.stack)
      Nth(n) == IF n \in 1 .. size THEN m.stack[size + 1 - n] ELSE [kind |-> "none"]
      pops   == inst.operand + m.resultOffset
      count  == Len(TypeIn(Nth(1), type).params)
  IN
  CASE inst.op = "PUSH"     -> Replace(m, 0, [kind |-> "fp", value |-> inst.operand])
    [] inst.op = "PUSH_SYM" -> Replace(m, 0, Called[inst.symbol])
    [] inst.op \in {"COPY", "REF_VEC"}  -> Replace(m, 0, Nth(inst.operand))
    [] inst.op \in {"DROP_S", "DROP_V"} -> Replace(m, 1 + pops, Nth(1))
    [] inst.op \in Flavours ->
         Replace(m, 2 + pops, [ kind |-> "op", flavour |-> inst.op, operation |-> inst.operation,
                                lhs |-> Nth(1), rhs |-> Nth(2) ])
    [] inst.op = "CALL" ->
         Replace(m, 1 + count + pops, [ kind |-> "call", function |-> Nth(1),
                                        params |-> [i \in 1 .. count |-> Nth(i + 1)] ])
    [] inst.op = "RET"  -> [m EXCEPT !.resultOffset = m.additional]
    [] inst.op = "EXIT" -> m

Executed(code, type, additional) ==
  LET after[i \in 0 .. Len(code)] ==
        IF i = 0 THEN Entered(type, additional) ELSE Effect(code[i], after[i - 1], type)
  IN after[Len(code)]

Result(symbol, additional) == Executed(CodeOf(NameOf(symbol)), symbol.type, additional)

\* How often the code reads a parameter.
Reads(code) == Cardinality({i \in DOMAIN code : code[i].op \in {"COPY", "REF_VEC"}})

----------------------------------------------------------------------------
\* Correctness.

(* A function's mangled name leads to code that computes the function's    *)
(* graph: its constants, references, parameters and operands, each in its  *)
(* place, whatever lies on the stack below (Codegen.cpp:66-124, 200-201).  *)
FunctionsFound ==
  \A symbol \in DOMAIN source \ pending : \A additional \in Additional :
    LET stack == Result(symbol, additional).stack IN
    stack # <<>> /\ stack[Len(stack)] = source[symbol]

(* The result of a function takes the place of its parameters, except that *)
(* each one read below the root leaves a slot, and of what its caller has  *)
(* it pop.  A leaf of a function without parameters pops nothing           *)
(* (Codegen.cpp:43-45 and 128-159).                                        *)
PopsUnreadParams ==
  \A symbol \in DOMAIN source \ pending : \A additional \in Additional :
    LET m    == Result(symbol, additional)
        kept == IF ~IsLeaf(source[symbol]) THEN Reads(CodeOf(NameOf(symbol)))
                ELSE IF Len(symbol.type.params) = 0 THEN additional ELSE 0
    IN /\ ~m.underflow
       /\ Len(m.stack) = kept + 1
       /\ \A i \in 1 .. kept : m.stack[i] = Entered(symbol.type, additional).stack[i]

(* "# values that would be on the stack above the function's parameters at *)
(* runtime when the current instruction is executed" (Codegen.cpp:37-41),  *)
(* for every instruction up to the root's.                                 *)
StackSizeCounts ==
  visits # <<>> =>
    LET type == context.symbol.type IN
    context.stackSize + Len(type.params) = Len(Executed(CurrentCode, type, 0).stack)

(* No graph of well-typed operations makes the compiler's own assertions   *)
(* fail (Codegen.cpp:189 and 214).                                         *)
NeverAborts == ~aborted
=============================================================================
