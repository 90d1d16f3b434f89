---------------------------- MODULE StringifyUtil ----------------------------
(***************************************************************************)
(* Printing S-expressions (Stringifier in                                  *)
(* src/lib/support/StringifyUtil.hpp), as texts of ParseUtil's tokens: what *)
(* each call of atom, compound or begin writes is a part, and parts are    *)
(* separated within the innermost brackets.                                *)
(***************************************************************************)
EXTENDS Sequences, SequencesExt

Joined(parts, separator) ==
  FlattenSeq([i \in DOMAIN parts |-> IF i = 1 THEN parts[i] ELSE separator \o parts[i]])

\* printSep, in brackets and outside.  One tab stands for the indentation.
Indented == <<"\n", "\t">>
TopLevel == <<"\n">>

\* begin and end around what is printed between them.
Bracketed(parts) == <<"(">> \o Joined(parts, Indented) \o <<")">>

Tagged(tag, parts) == Bracketed(<< <<tag>> >> \o parts)
=============================================================================
