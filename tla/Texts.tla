-------------------------------- MODULE Texts --------------------------------
(***************************************************************************)
(* Reading a text, printing what was read, reading that back and comparing *)
(* the two (src/test/runners/SerializationTest.hpp), for each format that  *)
(* has a parser and a printer: types, data, instructions, graphs and       *)
(* syntax trees; and for source texts, which are read as syntax trees and  *)
(* printed as these (src/test/compiler/syntax/main.cpp).                   *)
(***************************************************************************)
EXTENDS ParseUtil, FiniteSetsExt

CONSTANT Inputs   \* the texts, each with its format

VARIABLES
  input,               \* the text and its format
  phase,
  errors,              \* of the last reading: where, and the line it is reported at
  inputValue,
  serialized,
  unserializedValue

textVars == <<input, phase, errors, inputValue, serialized, unserializedValue>>

TypeFormat        == INSTANCE ReadType
DataFormat        == INSTANCE SerializeData
InstructionFormat == INSTANCE SerializeInstruction
GraphFormat       == INSTANCE SerializeCFG
TreeFormat        == INSTANCE SerializeAST
Source            == INSTANCE Syntax

----------------------------------------------------------------------------
\* What a text of each format is read as.
ReadAs(format, text) ==
  CASE format = "type"        -> TypeFormat!readType(text)
    [] format = "data"        -> DataFormat!readData(text)
    [] format = "instruction" -> InstructionFormat!readPackage(text)
    [] format = "graph"       -> GraphFormat!readPackage(text)
    [] format = "tree"        -> TreeFormat!readTree(text)
    [] format = "source"      -> Source!readSource(text)

\* The format that what was read is printed in.
PrintedAs(format) == IF format = "source" THEN "tree" ELSE format

\* The texts that a value may be printed as.
Serializations(format, value) ==
  CASE format = "type"        -> {TypeFormat!TypeText(value)}
    [] format = "data"        -> {DataFormat!DataText(value)}
    [] format = "instruction" -> InstructionFormat!PackageText(value)
    [] format = "graph"       -> GraphFormat!acceptPackage(value)
    [] format = "tree"        -> {TreeFormat!acceptModule(value)}

\* The outcomes that comparing two values may have.
Comparisons(format, lhs, rhs) ==
  CASE format = "instruction" -> InstructionFormat!EqualPackages(lhs, rhs)
    [] format = "graph"       -> {GraphFormat!EqualPackages(lhs, rhs)}
    [] OTHER                  -> {lhs = rhs}

\* The errors of a text, each with a line that it may be reported at.
Reports(end, text) ==
  LET lines == [i \in DOMAIN end.errors |-> lineNos(text, end.errors[i].offset)] IN
  { [i \in DOMAIN lines |-> [offset |-> end.errors[i].offset, line |-> reported[i]]] :
      reported \in {r \in [DOMAIN lines -> UNION Range(lines)] : \A i \in DOMAIN lines : r[i] \in lines[i]} }

----------------------------------------------------------------------------
TextInit ==
  /\ input \in Inputs
  /\ phase = "given"
  /\ errors = <<>>
  /\ inputValue = Unset /\ serialized = <<>> /\ unserializedValue = Unset

\* receivePointerValue keeps the last value emitted.
ReadInput ==
  LET end == ReadAs(input.format, input.text) IN
  /\ phase = "given"
  /\ \/ /\ end.accepted
        /\ inputValue' = Last(end.values)
        /\ phase' = "read"
        /\ UNCHANGED errors
     \/ /\ ~end.accepted
        /\ phase' = "invalid input"
        /\ errors' \in Reports(end, input.text)
        /\ UNCHANGED inputValue
  /\ UNCHANGED <<input, serialized, unserializedValue>>

Serialize ==
  /\ phase = "read"
  /\ phase' = "serialized"
  /\ serialized' \in Serializations(PrintedAs(input.format), inputValue)
  /\ UNCHANGED <<input, errors, inputValue, unserializedValue>>

ReadBack ==
  LET end == ReadAs(PrintedAs(input.format), serialized) IN
  /\ phase = "serialized"
  /\ \/ /\ end.accepted
        /\ unserializedValue' = Last(end.values)
        /\ phase' = "read back"
        /\ UNCHANGED errors
     \/ /\ ~end.accepted
        /\ phase' = "invalid serialization"
        /\ errors' \in Reports(end, serialized)
        /\ UNCHANGED unserializedValue
  /\ UNCHANGED <<input, inputValue, serialized>>

Compare ==
  /\ phase = "read back"
  /\ \E equal \in Comparisons(PrintedAs(input.format), unserializedValue, inputValue) :
       phase' = IF equal THEN "passed" ELSE "failed"
  /\ UNCHANGED <<input, errors, inputValue, serialized, unserializedValue>>

TextNext == ReadInput \/ Serialize \/ ReadBack \/ Compare

TextSpec == TextInit /\ [][TextNext]_textVars

----------------------------------------------------------------------------
\* What is lost between a text and the value read from it, or back.

Accepted == phase \notin {"given", "invalid input"}

\* The expressions in an expression.
RECURSIVE Parts(_)
Parts(e) ==
  LET PartsOf(expressions) == UNION {Parts(part) : part \in expressions} IN
  {e} \cup CASE e.kind = "operators" ->
                  Parts(e.lhs) \cup PartsOf({e.terms[i].operand : i \in DOMAIN e.terms})
             [] e.kind = "apply"     -> Parts(e.function) \cup PartsOf(Range(e.params))
             [] e.kind = "function"  -> Parts(e.value)
             [] e.kind = "scope"     ->
                  Parts(e.value) \cup PartsOf({e.bindings[i].value : i \in DOMAIN e.bindings})
             [] OTHER -> {}

Expressions ==
  IF PrintedAs(input.format) # "tree" THEN {}
  ELSE UNION {Parts(inputValue.declarations[i].value) : i \in DOMAIN inputValue.declarations}

\* An expression that begins like another kind of expression.  What is tried
\* for that kind and rejected leaves what it has emitted.
KeywordApplied ==
  \E e \in Expressions :
    /\ e.kind = "apply"
    /\ e.function.kind = "identifier"
    /\ e.function.value \in {<<"let">>, <<"operators">>, <<"\\">>}

\* A function without parameters, or whose value could be one more: its text
\* is that of an application of the backslash.
FunctionLost ==
  \E e \in Expressions :
    e.kind = "function" /\ (e.params = <<>> \/ e.value.kind = "identifier")

\* A label that no instruction follows is not printed.
LabelLost ==
  /\ input.format = "instruction"
  /\ \E name \in DOMAIN inputValue.symbols : inputValue.symbols[name] >= Len(inputValue.code)

\* More digits than are printed.
DigitsLost == "000000" \in Range(input.text)

Lossy == FunctionLost \/ LabelLost \/ DigitsLost

\* FILL's operand, which is compared, is whatever its memory held.
ComparesFill ==
  /\ input.format = "instruction"
  /\ \E i \in DOMAIN inputValue.code : inputValue.code[i].operation = <<"fill">>

(* What was read and printed is read back as the same value, and compares  *)
(* equal to it, in each format; but labels at a package's end, functions   *)
(* with no parameter or an identifier as their value, and digits beyond    *)
(* the sixth are lost, and a FILL may compare unequal to itself            *)
(* (SerializationTest.hpp:8, "Ensure that serialized values unserialize as *)
(* an equal value").                                                       *)
ReadsBack ==
  phase \in {"passed", "failed", "invalid serialization"} /\ ~KeywordApplied =>
    /\ Lossy <=> unserializedValue # inputValue
    /\ Lossy => phase # "passed"
    /\ phase = "failed" => Lossy \/ ComparesFill

\* Without the space between tokens, which is the formats' own.
Tokens(text) == SelectSeq(text, LAMBDA token : token \notin whitespaceChar)

\* Where a text defines a label or a function.
Definitions(text) ==
  LET Count(k, token) == Cardinality({j \in 1 .. k : text[j] = token}) IN
  IF input.format = "instruction"
    THEN {k \in DOMAIN text : text[k] = "." /\ (k = 1 \/ text[k - 1] \in whitespaceChar)}
    ELSE {k \in DOMAIN text : text[k] = "(" /\ Count(k - 1, "(") = Count(k - 1, ")")}

Defined ==
  CASE input.format = "instruction" -> DOMAIN inputValue.symbols
    [] input.format = "graph"       -> DOMAIN inputValue
    [] OTHER -> {}

\* Different texts of one value: a name defined twice, vectors of vectors, and
\* numbers with zeros that do not count.
SeveralTexts ==
  \/ /\ input.format \in {"instruction", "graph"}
     /\ Cardinality(Definitions(input.text)) > Cardinality(Defined)
  \/ \E k \in 1 .. Len(input.text) - 1 : input.text[k] = "v" /\ input.text[k + 1] = "v"
  \/ "0" \in Range(input.text)

(* A text that is accepted says nothing that is not in the value it is     *)
(* read as: but for white space, it is one of the texts that the value is  *)
(* printed as (the grammars and printers of Serialize*.cpp).               *)
AsWritten ==
  Accepted /\ input.format # "source" /\ ~KeywordApplied /\ ~LabelLost /\ ~DigitsLost /\ ~SeveralTexts =>
    \E text \in Serializations(input.format, inputValue) : Tokens(text) = Tokens(input.text)

(* A module's source is read as the module that it was written for, its    *)
(* operators set apart, if it has one declaration.  Of several nothing is  *)
(* left but the first, with the "; name =" of the others for operators;    *)
(* and one with a bracket, a backslash or a bar in an operator's name is   *)
(* refused (Syntax.cpp:11, 20 and 179-183).                                *)
SourceIsRead ==
  "meant" \in DOMAIN input =>
    /\ phase # "given" => (phase = "invalid input" <=> input.meant = Unset)
    /\ Accepted => /\ Len(inputValue.declarations) = 1
                    /\ inputValue = input.meant <=> Len(input.meant.declarations) = 1

(* "Return the line # of the current cursor" (ParseUtil.hpp:101): the line *)
(* of an error is one more than there are line ends before it.             *)
ErrorsNameTheirLine ==
  \A i \in DOMAIN errors :
    LET text == IF phase = "invalid input" THEN input.text ELSE serialized IN
    errors[i].line = 1 + Cardinality({k \in 1 .. errors[i].offset : text[k] = "\n"})
=============================================================================
