------------------------- MODULE SerializeInstruction -------------------------
(***************************************************************************)
(* Instructions and packages of them (src/lib/runtime/Instruction.hpp) and *)
(* their text (src/lib/runtime/SerializeInstruction.cpp).                  *)
(***************************************************************************)
EXTENDS ParseUtil, StringifyUtil, TLC

\* A new Instruction: only the type of its operand is initialised.
NewInstruction == [operation |-> Unset, operandType |-> "U32", operand |-> Unset]

----------------------------------------------------------------------------
\* Reading.

typedValue ==
  then(<< match("f32"), spaces, receive("operand", real), set("operandType", "F32") >>)

label ==
  reading([label |-> <<>>], then(<<match("."), receive("label", anyIdentifier), emit>>))

intOperand == receive("operand", integer)

symbolOperand == receive("operand", anyIdentifier)

Arithmetic == <<"add_vv", "add_sv", "add_vs", "add_ss", "mul_vv", "mul_sv", "mul_vs", "mul_ss">>

\* One alternative: the name, in one or two tokens, and the operand, if any.
Alternative(name, operands) ==
  then([i \in DOMAIN name |-> match(name[i])] \o operands
         \o <<set("operation", name), emit>>)

Operand(name, content) == <<require(name, then(<<spaces, content>>))>>

\* The alternatives share one Instruction.
instruction ==
  LET IntOp(name)   == Alternative(<<name>>, Operand(name, intOperand))
      PlainOp(name) == Alternative(<<name>>, <<>>)
  IN reading(NewInstruction, either(
       << Alternative(<<"push", "_sym">>, Operand("push_sym", symbolOperand)),
          Alternative(<<"push">>, Operand("push", typedValue)),
          IntOp("copy"), PlainOp("fill"), IntOp("ref_vec"), IntOp("drop_s"), IntOp("drop_v") >>
       \o [i \in DOMAIN Arithmetic |-> IntOp(Arithmetic[i])]
       \o <<IntOp("call"), PlainOp("ret"), PlainOp("exit")>>))

packageLine == either(<<label, instruction>>)

package ==
  reading([lines |-> <<>>],
    then(<< optionalWhitespace,
            collect("lines", delimited(then(<<optionalWhitespace, packageLine>>), newline)),
            optionalWhitespace, emit >>))

IsLabel(line) == "label" \in DOMAIN line

receiveLabel_nextOffset(p, line) ==
  [p EXCEPT !.symbols = (line.label :> Len(p.code) + 1) @@ @]

\* A label means the offset of what comes next.
receiveLabel(p, line) == [p EXCEPT !.symbols = (line.label :> Len(p.code)) @@ @]

receiveInstruction(p, line) == [p EXCEPT !.code = Append(@, line)]

PackageOf(lines) ==
  FoldLeft(LAMBDA p, line : IF IsLabel(line) THEN receiveLabel(p, line) ELSE receiveInstruction(p, line),
           [code |-> <<>>, symbols |-> <<>>], lines)

readPackage(text) ==
  LET end == read(text, <<>>, package) IN
  [end EXCEPT !.values = [i \in DOMAIN @ |-> PackageOf(@[i].lines)]]

----------------------------------------------------------------------------
\* Printing.

stringifyTypedValue(inst) == <<"f32", " ">> \o NumberText(inst.operand)

InstructionText(inst) ==
  inst.operation
    \o (IF inst.operation \in {<<"fill">>, <<"ret">>, <<"exit">>} THEN <<>>
        ELSE IF inst.operation = <<"push">> THEN <<" ">> \o stringifyTypedValue(inst)
        ELSE <<" ">> \o inst.operand)

LabelText(labels) ==
  IF labels = <<>> THEN <<>>
  ELSE <<"\n">> \o FlattenSeq([i \in DOMAIN labels |-> <<".">> \o labels[i] \o <<"\n">>])

\* The labels of one offset come in the order of an unordered_multimap: any.
PackageText(p) ==
  { FlattenSeq([i \in DOMAIN p.code |->
      LabelText(SelectSeq(labels, LAMBDA name : p.symbols[name] = i - 1))
        \o InstructionText(p.code[i]) \o <<"\n">>]) :
    labels \in SetToSeqs(DOMAIN p.symbols) }

----------------------------------------------------------------------------
\* Instruction::operator==: FILL compares an operand that nobody set, so that
\* its outcome is undefined.

Equal(lhs, rhs) ==
  CASE lhs.operation # rhs.operation -> {FALSE}
    [] lhs.operation \in {<<"ret">>, <<"exit">>} -> {TRUE}
    [] lhs.operation = <<"fill">> -> BOOLEAN
    [] OTHER -> { /\ lhs.operation = <<"push">> => lhs.operandType = rhs.operandType
                  /\ lhs.operand = rhs.operand }

\* Package::operator==: the outcomes there can be.
EqualPackages(lhs, rhs) ==
  IF lhs.symbols # rhs.symbols \/ Len(lhs.code) # Len(rhs.code) THEN {FALSE}
  ELSE { \A i \in DOMAIN lhs.code : outcome[i] :
         outcome \in {o \in [DOMAIN lhs.code -> BOOLEAN] :
                        \A i \in DOMAIN lhs.code : o[i] \in Equal(lhs.code[i], rhs.code[i])} }
=============================================================================
