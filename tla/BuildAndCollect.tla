--------------------------- MODULE BuildAndCollect ---------------------------
(***************************************************************************)
(* Building and collecting, for sources and their graphs: what the         *)
(* collector's visitor comes to in a graph (src/lib/compiler/GC-CFG.cpp),  *)
(* and what a package denotes at either end.                               *)
(***************************************************************************)
EXTENDS BuildCFG, ReifyAndCollect

\* The functions that a graph refers to, in the order in which a visitor comes
\* to them.
RECURSIVE VisitedIn(_)

VisitedIn(v) ==
  CASE v.kind = "ref"  -> <<TypedSymbol(v.type, v.name)>>
    [] v.kind = "op"   -> VisitedIn(v.lhs) \o VisitedIn(v.rhs)
    [] v.kind = "call" -> VisitedIn(v.function)
                            \o FlattenSeq([i \in DOMAIN v.params |-> VisitedIn(v.params[i])])
    [] OTHER           -> <<>>

(* The package denotes what the source does, before the collection and     *)
(* after it, for functions requested at several types, that call           *)
(* themselves or each other, and that bind names which others declare.     *)
DenotesSource ==
  Whole /\ AllFirstOrder => Resolved(Standing) /\ Denotes(Standing)
=============================================================================
