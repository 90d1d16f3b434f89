-------------------------------- MODULE GCCFG --------------------------------
(***************************************************************************)
(* Removing the functions a package's root does not need                   *)
(* (src/lib/compiler/GC-CFG.cpp): a mark phase, which visits the control   *)
(* flow graph of a function and, at each function reference in it, the     *)
(* graph of the function referred to; and a sweep phase.                   *)
(*                                                                         *)
(* Of a graph only its function references count, in the order in which    *)
(* the visitor comes to them (a call's function first, then its            *)
(* parameters; a binary operation's left operand, then its right one).     *)
(* The C++ call stack is a sequence of visits, one for each graph that is  *)
(* being visited, each with the references it still has to come to.        *)
(***************************************************************************)
EXTENDS Naturals, Sequences, FiniteSets

CONSTANTS
  Key,        \* typed symbols
  Packages    \* the packages: from the keys defined to their graphs' references

ASSUME KeyAssumption == IsFiniteSet(Key)
ASSUME PackagesAssumption ==
  \A refs \in Packages : \E defined \in SUBSET Key : refs \in [defined -> Seq(Key)]

VARIABLES
  root,       \* the start function's key
  refs,       \* the package as gcCFG is given it
  functions,  \* the keys that the package still defines
  marked,     \* MarkCFGFunctions::marked
  visits,     \* the graphs being visited, outermost first
  unswept,    \* the records the sweep's iterator has not come to
  status      \* "starting", "marking", "sweeping", "done"; "undefined": thrown

gcVars == <<root, refs, functions, marked, visits, unswept, status>>

----------------------------------------------------------------------------
GCInit ==
  /\ root \in Key
  /\ refs \in Packages
  /\ functions = DOMAIN refs
  /\ marked = {}
  /\ visits = <<>>
  /\ unswept = {}
  /\ status = "starting"

Start ==
  /\ status = "starting"
  /\ \/ /\ root \in functions
        /\ marked' = {root}
        /\ visits' = <<refs[root]>>
        /\ status' = "marking"
     \/ /\ root \notin functions
        /\ status' = "undefined"
        /\ UNCHANGED <<marked, visits>>
  /\ UNCHANGED <<root, refs, functions, unswept>>

Current == visits[Len(visits)]

Enclosing == SubSeq(visits, 1, Len(visits) - 1)

\* The visits once the current one has come to its next reference.
Advanced == Append(Enclosing, Tail(Current))

FirstRef_unmarked(key) ==
  /\ marked' = IF key \in functions THEN marked ELSE marked \cup {key}
  /\ \/ key \in functions /\ visits' = Append(Advanced, refs[key])
     \/ key \notin functions /\ visits' = Advanced

FirstRef_unvisited(key) == marked' = marked \cup {key} /\ visits' = Advanced

\* A function referred to for the first time, which the package may not define.
FirstRef(key) ==
  /\ marked' = marked \cup {key}
  /\ \/ key \in functions /\ visits' = Append(Advanced, refs[key])
     \/ key \notin functions /\ visits' = Advanced

acceptFunctionRef ==
  /\ status = "marking" /\ visits # <<>>
  /\ Current # <<>>
  /\ \/ Head(Current) \in marked /\ visits' = Advanced /\ UNCHANGED marked
     \/ Head(Current) \notin marked /\ FirstRef(Head(Current))
  /\ UNCHANGED <<root, refs, functions, unswept, status>>

\* The visit of a graph returns.
Leave ==
  /\ status = "marking" /\ visits # <<>>
  /\ Current = <<>>
  /\ visits' = Enclosing
  /\ UNCHANGED <<root, refs, functions, marked, unswept, status>>

BeginSweep ==
  /\ status = "marking" /\ visits = <<>>
  /\ unswept' = functions
  /\ status' = "sweeping"
  /\ UNCHANGED <<root, refs, functions, marked, visits>>

Sweep_marked(key) ==
  /\ status = "sweeping"
  /\ key \in unswept
  /\ unswept' = unswept \ {key}
  /\ functions' = IF key \in marked THEN functions \ {key} ELSE functions
  /\ UNCHANGED <<root, refs, marked, visits, status>>

Sweep_erasedIterator(key) ==
  /\ status = "sweeping"
  /\ key \in unswept
  /\ unswept' = IF key \in marked THEN unswept \ {key} ELSE unswept
  /\ functions' = IF key \in marked THEN functions ELSE functions \ {key}
  /\ UNCHANGED <<root, refs, marked, visits, status>>

Sweep_noAdvance(key) ==
  /\ status = "sweeping"
  /\ key \in unswept
  /\ unswept' = IF key \in marked THEN unswept ELSE unswept \ {key}
  /\ functions' = IF key \in marked THEN functions ELSE functions \ {key}
  /\ UNCHANGED <<root, refs, marked, visits, status>>

\* The iterator comes to the records in the hash table's order: any order.
Sweep(key) ==
  /\ status = "sweeping"
  /\ key \in unswept
  /\ unswept' = unswept \ {key}
  /\ functions' = IF key \in marked THEN functions ELSE functions \ {key}
  /\ UNCHANGED <<root, refs, marked, visits, status>>

EndSweep ==
  /\ status = "sweeping" /\ unswept = {}
  /\ status' = "done"
  /\ UNCHANGED <<root, refs, functions, marked, visits, unswept>>

GCStep ==
  \/ Start \/ acceptFunctionRef \/ Leave \/ BeginSweep \/ EndSweep
  \/ \E key \in unswept : Sweep(key)

Returned == status \in {"done", "undefined"} /\ UNCHANGED gcVars

GCNext == GCStep \/ Returned

(* One thread, which nothing blocks.                                       *)
GCSpec == GCInit /\ [][GCNext]_gcVars /\ WF_gcVars(GCStep)

----------------------------------------------------------------------------
\* Correctness.

GCTypeOK ==
  /\ root \in Key
  /\ functions \subseteq DOMAIN refs
  /\ marked \subseteq Key
  /\ visits \in Seq(Seq(Key))
  /\ unswept \subseteq functions
  /\ status \in {"starting", "marking", "sweeping", "done", "undefined"}

RefsOf(key) == {refs[key][i] : i \in DOMAIN refs[key]}

\* S holds the root, and what the functions in it refer to.
Closed(S) == root \in S /\ \A key \in S \cap DOMAIN refs : RefsOf(key) \subseteq S

\* What running the root may look up: the least closed set.
Needed ==
  LET closed == {S \in SUBSET Key : Closed(S)} IN {key \in Key : \A S \in closed : key \in S}

(* When gcCFG returns the package defines what the root needs, of what it  *)
(* defined before, and nothing else.                                       *)
KeepsWhatIsNeeded == status = "done" => functions = Needed \cap DOMAIN refs

(* At no point, not half way through the sweep either, has a function been *)
(* erased that the root needs.                                             *)
NeverErasesNeeded == Needed \cap DOMAIN refs \subseteq functions

(* Each graph is visited at most once at a time: however the functions     *)
(* refer to each other, the visitor's recursion is no deeper than the      *)
(* package has functions (GC-CFG.cpp:32-36, marked before the visit).      *)
RecursionBounded == Len(visits) <= Cardinality(DOMAIN refs)

(* The mark phase ends in spite of cycles, and the sweep after it.         *)
Terminates == <>(status \in {"done", "undefined"})
=============================================================================
