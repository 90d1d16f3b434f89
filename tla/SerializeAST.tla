----------------------------- MODULE SerializeAST -----------------------------
(***************************************************************************)
(* Syntax trees (src/lib/compiler/AST.hpp) and their text                  *)
(* (src/lib/compiler/SerializeAST.cpp): the parser's rules by their names  *)
(* in the source, and the printer.                                         *)
(***************************************************************************)
EXTENDS ParseUtil, StringifyUtil

----------------------------------------------------------------------------
\* Trees.  Names and numbers are sequences of tokens.

Scalar(value) == [kind |-> "scalar", value |-> value]

Identifier(value) == [kind |-> "identifier", value |-> value]

Term(symbol, operand) == [symbol |-> symbol, operand |-> operand]

OperatorSequence(lhs, terms) == [kind |-> "operators", lhs |-> lhs, terms |-> terms]

Apply(function, params) == [kind |-> "apply", function |-> function, params |-> params]

Function(params, value) == [kind |-> "function", params |-> params, value |-> value]

LexicalScope(bindings, value) == [kind |-> "scope", bindings |-> bindings, value |-> value]

Declaration(name, value) == [name |-> name, value |-> value]

Module(declarations) == [declarations |-> declarations]

----------------------------------------------------------------------------
\* Reading.

expressionTree == rule("expressionTree")

declaration ==
  taggedSExp("let",
    reading(Declaration(<<>>, Unset),
      then(<<receive("name", anyIdentifier), whitespace, receive("value", expressionTree), emit>>)))

lexicalScope ==
  sExp(reading(LexicalScope(<<>>, Unset),
    then(<< collect("bindings", delimited(declaration, whitespace)), whitespace,
            receive("value", expressionTree), emit >>)))

functionDef ==
  taggedSExp("\\",
    reading(Function(<<>>, Unset),
      then(<< collect("params", delimited(anyIdentifier, whitespace)), whitespace,
              receive("value", expressionTree), emit >>)))

functionCall ==
  sExp(reading(Apply(Unset, <<>>),
    then(<< receive("function", expressionTree), whitespace,
            collect("params", delimited(expressionTree, whitespace)), emit >>)))

identifier == reading(Identifier(<<>>), then(<<receive("value", anyIdentifier), emit>>))

operatorSequenceTerm ==
  sExp(reading(Term(<<>>, Unset),
    then(<<receive("symbol", anyIdentifier), whitespace, receive("operand", expressionTree), emit>>)))

operatorSequence ==
  taggedSExp("operators",
    reading(OperatorSequence(Unset, <<>>),
      then(<< receive("lhs", expressionTree), whitespace,
              collect("terms", delimited(operatorSequenceTerm, whitespace)), emit >>)))

scalar == reading(Scalar(<<>>), then(<<receive("value", real), emit>>))

module ==
  reading(Module(<<>>),
    then(<< optionalWhitespace,
            collect("declarations", delimited(declaration, optionalWhitespace)),
            optionalWhitespace, emit >>))

TreeRules ==
  [ expressionTree |-> either(<< lexicalScope, functionDef, operatorSequence, functionCall,
                                 identifier, scalar >>) ]

readTree(text) == read(text, TreeRules, module)

----------------------------------------------------------------------------
\* Printing: ASTStringifier.

RECURSIVE ExpressionText(_)

Texts(expressions) == [i \in DOMAIN expressions |-> ExpressionText(expressions[i])]

acceptDeclaration(s) == Tagged("let", <<s.name, ExpressionText(s.value)>>)

acceptLexicalScope(s) ==
  Bracketed([i \in DOMAIN s.bindings |-> acceptDeclaration(s.bindings[i])]
              \o <<ExpressionText(s.value)>>)

acceptFunction(s) == Tagged("\\", s.params \o <<ExpressionText(s.value)>>)

acceptApply(s) == Bracketed(<<ExpressionText(s.function)>> \o Texts(s.params))

acceptOperatorSequence(s) ==
  LET TermText(term) == Bracketed(<<term.symbol, ExpressionText(term.operand)>>) IN
  Tagged("operators", <<ExpressionText(s.lhs)>> \o [i \in DOMAIN s.terms |-> TermText(s.terms[i])])

\* Expression::visit
ExpressionText(s) ==
  CASE s.kind = "scalar"     -> NumberText(s.value)
    [] s.kind = "identifier" -> s.value
    [] s.kind = "operators"  -> acceptOperatorSequence(s)
    [] s.kind = "apply"      -> acceptApply(s)
    [] s.kind = "function"   -> acceptFunction(s)
    [] s.kind = "scope"      -> acceptLexicalScope(s)

acceptModule(s) ==
  Joined([i \in DOMAIN s.declarations |-> acceptDeclaration(s.declarations[i])], TopLevel)
=============================================================================
