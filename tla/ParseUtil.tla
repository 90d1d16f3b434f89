------------------------------ MODULE ParseUtil ------------------------------
(***************************************************************************)
(* The parser combinators (src/lib/support/ParseUtil.hpp).  A grammar is   *)
(* data, one record per combinator; Parse runs it on a text.               *)
(*                                                                         *)
(* A text is a sequence of tokens: runs of characters that no parser tells *)
(* apart.  None of the strings that parsers match ends inside one.  A name *)
(* is a sequence of tokens, and so is a number.                            *)
(*                                                                         *)
(* Actions.  A parser emits values, its enclosing parser receives them in  *)
(* the fields of the object that it is reading, the node.  What a rejected *)
(* parser has emitted, or assigned, stays: only the offset goes back.      *)
(***************************************************************************)
EXTENDS Naturals, Sequences, FiniteSets, SequencesExt

----------------------------------------------------------------------------
\* Character sets.  What is in none of them is a word that begins with a
\* lower-case letter.

roundParens    == {"(", ")"}
digitChar      == {"0", "1", "2", "3", "4", "5", "6", "7", "8", "9", "000000"}
uppercase      == {"F32", "Any"}
punctuation    == {"\\", "=", ";", "+", "*", "-", ".", ":", ",", "#", "|", "[", "]", "{", "}"}
whitespaceChar == {" ", "\n", "\t"}

----------------------------------------------------------------------------
\* Grammars.

match(token) == [op |-> "match", chars |-> {token}]

oneOf(chars) == [op |-> "match", chars |-> chars]

\* Any character but these.
noneOf(chars) == [op |-> "matchNot", chars |-> chars]

eof == [op |-> "eof"]

\* lhs >> rhs >> ...
then(parts) == [op |-> "then", parts |-> parts]

\* state >> lhs ?: state >> rhs ?: ...
either(parts) == [op |-> "either", parts |-> parts]

optional(content) == [op |-> "optional", content |-> content]

repeat(content) == [op |-> "repeat", content |-> content]

require(msg, content) == [op |-> "require", msg |-> msg, content |-> content]

emit == [op |-> "emit"]

emitValue(value) == [op |-> "emitValue", value |-> value]

set(field, value) == [op |-> "set", field |-> field, value |-> value]

\* The grammar of that name.
rule(name) == [op |-> "rule", name |-> name]

\* content, with a result of its own to read.
reading(result, content) == [op |-> "reading", result |-> result, content |-> content]

receive(field, content) == [op |-> "receive", field |-> field, content |-> content]

collect(field, content) == [op |-> "collect", field |-> field, content |-> content]

\* Emits the tokens that content matches.
chars(content) == [op |-> "chars", content |-> content]

\* Emits the number that content matches.
number(content) == [op |-> "number", content |-> content]

spaces             == repeat(match(" "))
newline            == repeat(match("\n"))
whitespace         == repeat(oneOf(whitespaceChar))
optionalWhitespace == optional(whitespace)

delimited(member, delimiter) ==
  then(<<member, optional(repeat(then(<<delimiter, member>>)))>>)

sExp(content) ==
  then(<<match("("), optionalWhitespace, content, optionalWhitespace, match(")")>>)

taggedSExp(tag, content) == sExp(then(<<match(tag), whitespace, content>>))

identifierString(head, tail) == chars(then(<<head, optional(repeat(tail))>>))

\* identifierString with its usual character sets.
anyIdentifier ==
  identifierString(noneOf(whitespaceChar \cup roundParens \cup digitChar),
                   noneOf(whitespaceChar \cup roundParens))

integer == number(repeat(oneOf(digitChar)))

real == number(then(<< repeat(oneOf(digitChar)),
                       optional(then(<<match("."), repeat(oneOf(digitChar))>>)) >>))

----------------------------------------------------------------------------
\* Running a grammar.

\* What nothing has been read for.
Unset == [unset |-> TRUE]

State == [offset |-> 0, ok |-> TRUE, node |-> Unset, out |-> <<>>, errors |-> <<>>]

Reject(s) == [s EXCEPT !.ok = FALSE]

advance(s) == [s EXCEPT !.offset = @ + 1]

Emit(s, value) == [s EXCEPT !.out = Append(@, value)]

\* What is left of a rejected parser when another one is tried in its place.
Retry(rejected, s) == [rejected EXCEPT !.ok = TRUE, !.offset = s.offset]

Consumed(in, s, next) == SubSeq(in.text, s.offset + 1, next.offset)

\* A number as its shortest digits, which are the same for the same number.
NumberOf(digits) ==
  LET IsZero(i) == digits[i] \in {"0", "000000"}
      point == SelectInSeq(digits, LAMBDA d : d = ".")
      whole == IF point = 0 THEN Len(digits) ELSE point - 1
      first == CHOOSE i \in 1 .. whole : /\ i = whole \/ ~IsZero(i)
                                         /\ \A j \in 1 .. i - 1 : IsZero(j)
      last  == CHOOSE i \in whole .. Len(digits) : /\ i = whole \/ (i # point /\ ~IsZero(i))
                                                   /\ \A j \in i + 1 .. Len(digits) : j = point \/ IsZero(j)
  IN SubSeq(digits, first, last)

\* A value is printed to six significant digits: of the numbers that have more,
\* these are whole millions and what is less than a millionth above a digit.
NumberText(value) ==
  IF "000000" \notin ToSet(value) THEN value
  ELSE IF Len(value) = 2 THEN <<value[1], "e+06">> ELSE <<value[1]>>

\* A string is the sequence of its characters.
Chars(text) == FoldLeft(LAMBDA count, token : count + Len(token), 0, text)

\* State::lineNo at an offset: it counts the line ends not before the cursor
\* but as many characters from it on.  What it reads behind the text is
\* undefined: each character there may be a line end or not.
lineNos(text, offset) ==
  LET before == Chars(SubSeq(text, 1, offset))
      seen   == {i \in DOMAIN text :
                   /\ text[i] = "\n"
                   /\ Chars(SubSeq(text, 1, i - 1)) \in before .. 2 * before - 1}
      behind == IF 2 * before - 1 > Chars(text) THEN 2 * before - 1 - Chars(text) ELSE 0
  IN {1 + Cardinality(seen) + k : k \in 0 .. behind}

fail(in, s, msg) == Reject([s EXCEPT !.errors = Append(@, [offset |-> s.offset, msg |-> msg])])

RECURSIVE Parse(_, _, _)

Matched(in, g, s, negated) ==
  IF s.offset < Len(in.text) /\ (in.text[s.offset + 1] \in g.chars) # negated
    THEN advance(s) ELSE Reject(s)

\* operator>>
Sequenced(in, g, s) ==
  IF g.parts = <<>> THEN s
  ELSE LET next == Parse(in, Head(g.parts), s) IN
       IF next.ok THEN Parse(in, then(Tail(g.parts)), next) ELSE next

FirstOf(in, g, s) ==
  LET first == Parse(in, Head(g.parts), s) IN
  IF first.ok \/ Len(g.parts) = 1
    THEN first ELSE Parse(in, either(Tail(g.parts)), Retry(first, s))

Tried(in, g, s) ==
  LET next == Parse(in, g.content, s) IN IF next.ok THEN next ELSE Retry(next, s)

Repeated(in, g, s) ==
  LET next == Parse(in, g.content, s) IN
  IF next.ok THEN Parse(in, optional(g), next) ELSE next

Required(in, g, s) ==
  LET next == Parse(in, g.content, s) IN
  IF next.ok THEN next ELSE fail(in, Retry(next, s), g.msg)

Read(in, g, s) ==
  [Parse(in, g.content, [s EXCEPT !.node = g.result]) EXCEPT !.node = s.node]

\* The last value emitted, or every one.
Received(in, g, s) ==
  LET next == Parse(in, g.content, [s EXCEPT !.out = <<>>])
      node == IF next.out = <<>> THEN next.node
              ELSE [next.node EXCEPT ![g.field] =
                      IF g.op = "receive" THEN Last(next.out) ELSE @ \o next.out]
  IN [next EXCEPT !.out = s.out, !.node = node]

EmitConsumed(in, g, s) ==
  LET next == Parse(in, g.content, s) IN
  IF ~next.ok THEN next
  ELSE Emit(next, IF g.op = "number" THEN NumberOf(Consumed(in, s, next)) ELSE Consumed(in, s, next))

\* in has the text and the rules, a function from names to grammars.
Parse(in, g, s) ==
  CASE g.op = "match"     -> Matched(in, g, s, FALSE)
    [] g.op = "matchNot"  -> Matched(in, g, s, TRUE)
    [] g.op = "eof"       -> IF s.offset = Len(in.text) THEN s ELSE Reject(s)
    [] g.op = "then"      -> Sequenced(in, g, s)
    [] g.op = "either"    -> FirstOf(in, g, s)
    [] g.op = "optional"  -> Tried(in, g, s)
    [] g.op = "repeat"    -> Repeated(in, g, s)
    [] g.op = "require"   -> Required(in, g, s)
    [] g.op = "emit"      -> Emit(s, s.node)
    [] g.op = "emitValue" -> Emit(s, g.value)
    [] g.op = "set"       -> [s EXCEPT !.node[g.field] = g.value]
    [] g.op = "rule"      -> Parse(in, in.rules[g.name], s)
    [] g.op = "reading"   -> Read(in, g, s)
    [] g.op \in {"receive", "collect"} -> Received(in, g, s)
    [] g.op \in {"chars", "number"}    -> EmitConsumed(in, g, s)

\* parse::read, with the caller's action: its value and the errors.
read(text, rules, g) ==
  LET end == Parse([text |-> text, rules |-> rules], then(<<g, eof>>), State)
  IN [accepted |-> end.ok, values |-> end.out, errors |-> end.errors]
=============================================================================
