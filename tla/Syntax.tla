-------------------------------- MODULE Syntax --------------------------------
(***************************************************************************)
(* The source language (src/lib/compiler/Syntax.cpp): a module is a        *)
(* sequence of functions, read as the trees of SerializeAST.               *)
(***************************************************************************)
EXTENDS SerializeAST

\* Ranges of characters: what lies between two brackets is one of them.
parens == roundParens \cup {"[", "\\", "]", "{", "|", "}"}

notVariableHead == whitespaceChar \cup parens \cup digitChar \cup uppercase \cup punctuation

variableName ==
  identifierString(noneOf(notVariableHead), noneOf(notVariableHead \ (uppercase \cup digitChar)))

\* The first is no parenthesis and nothing that begins a variable.
operatorName == identifierString(oneOf((digitChar \cup uppercase \cup punctuation) \ parens),
                                 noneOf(whitespaceChar \cup parens))

expression == rule("expression")

parenthesizedExpression ==
  then(<<match("("), optionalWhitespace, expression, optionalWhitespace, match(")")>>)

scalarLiteral == reading(Scalar(<<>>), then(<<receive("value", real), emit>>))

variable == reading(Identifier(<<>>), then(<<receive("value", variableName), emit>>))

applyTerm == either(<<scalarLiteral, variable, parenthesizedExpression>>)

apply ==
  reading(Apply(Unset, <<>>),
    then(<< receive("function", applyTerm), whitespace,
            collect("params", delimited(applyTerm, whitespace)), emit >>))

binaryOperand == either(<<apply, applyTerm>>)

binaryOpTerm ==
  reading(Term(<<>>, Unset),
    then(<< receive("symbol", operatorName), optionalWhitespace,
            receive("operand", binaryOperand), emit >>))

binaryOpSequence_oneTerm ==
  reading(OperatorSequence(Unset, <<>>),
    then(<< receive("lhs", binaryOperand), optionalWhitespace,
            collect("terms", binaryOpTerm), emit >>))

binaryOpSequence ==
  reading(OperatorSequence(Unset, <<>>),
    then(<< receive("lhs", binaryOperand), optionalWhitespace,
            collect("terms", delimited(binaryOpTerm, optionalWhitespace)), emit >>))

\* The declared value is a function, also of no parameters.
topLevelFunction ==
  reading([name |-> <<>>, params |-> <<>>, value |-> Unset],
    then(<< receive("name", variableName), spaces,
            optional(collect("params", delimited(variableName, spaces))),
            optional(spaces), match("="), optionalWhitespace,
            receive("value", expression), optionalWhitespace, match(";"), emit >>))

sourceModule ==
  reading(Module(<<>>),
    then(<< optionalWhitespace, collect("declarations", delimited(topLevelFunction, newline)),
            optionalWhitespace, emit >>))

SourceRules == [expression |-> either(<<binaryOpSequence, binaryOperand>>)]

\* The functions as the declarations that they are emitted as.
Declared(functions) ==
  Module([i \in DOMAIN functions |->
            Declaration(functions[i].name, Function(functions[i].params, functions[i].value))])

readSource(text) ==
  LET end == read(text, SourceRules, sourceModule) IN
  [end EXCEPT !.values = [i \in DOMAIN @ |-> Declared(@[i].declarations)]]
=============================================================================
