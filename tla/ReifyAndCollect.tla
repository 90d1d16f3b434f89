--------------------------- MODULE ReifyAndCollect ---------------------------
(***************************************************************************)
(* A module is built and what its root does not need is collected          *)
(* (src/test/compiler/build-cfg/main.cpp): the package that Reification    *)
(* returns, with all the intrinsics, is what GCCFG is given.               *)
(*                                                                         *)
(* Of a graph two things are known: the functions that running it looks    *)
(* up, and those that the collector's visitor comes to.  BuildAndCollect   *)
(* defines them for the graphs of BuildCFG.                                *)
(***************************************************************************)
EXTENDS Reification

CONSTANTS
  ReferredBy(_),  \* the keys that a graph looks up
  References(_)   \* the keys that a visitor of it comes to, in order

\* What the functions of a package can be, and the keys they have.
Keys == DOMAIN Intrinsics \cup UNION {DOMAIN s.bodies : s \in Sources}

\* The graph is finished; what it looks up is in the set, and visited.
LooksUp(graph, keys) ==
  /\ graph # Null
  /\ ReferredBy(graph) \subseteq keys
  /\ References(graph) \in Seq(ReferredBy(graph))
  /\ \A key \in ReferredBy(graph) : \E i \in DOMAIN References(graph) : References(graph)[i] = key

ASSUME KeysAssumption == IsFiniteSet(Keys)
ASSUME IntrinsicsAssumption ==
  \A key \in DOMAIN Intrinsics : LooksUp(Intrinsics[key], DOMAIN Intrinsics)
ASSUME BodiesAssumption ==
  \A s \in Sources : \A key \in DOMAIN s.bodies :
    LET effects == s.bodies[key].effects IN
    (\A i \in DOMAIN effects : effects[i].kind = "request") =>
      LooksUp(s.bodies[key].root, {effects[i].key : i \in DOMAIN effects})

VARIABLES refs, functions, marked, visits, unswept, status   \* of GCCFG

collectVars == <<refs, functions, marked, visits, unswept, status>>

Packages == UNION {[defined -> Seq(Keys)] : defined \in SUBSET Keys}

Collector == INSTANCE GCCFG WITH Key <- Keys, root <- source.root

----------------------------------------------------------------------------
BuildAndCollectInit ==
  /\ BuildInit
  /\ refs = <<>> /\ functions = {} /\ marked = {} /\ visits = <<>> /\ unswept = {}
  /\ status = "waiting"

Build == BuildStep /\ UNCHANGED collectVars

\* gcCFG is called with what buildCFG has returned.
Collect ==
  /\ outcome = "returned" /\ status = "waiting"
  /\ refs' = [key \in DOMAIN package |-> References(package[key])]
  /\ functions' = DOMAIN package
  /\ status' = "starting"
  /\ UNCHANGED <<marked, visits, unswept>>
  /\ UNCHANGED buildVars

CollectStep == UNCHANGED buildVars /\ Collector!GCStep

BuildAndCollectStep == Build \/ Collect \/ CollectStep

\* The test ends with the package, or when building it has failed.
Stopped ==
  /\ Ended
  /\ outcome = "returned" => status \in {"done", "undefined"}

BuildAndCollectNext ==
  BuildAndCollectStep \/ (Stopped /\ UNCHANGED <<buildVars, collectVars>>)

(* One thread, which nothing blocks.                                       *)
BuildAndCollectSpec ==
  /\ BuildAndCollectInit
  /\ [][BuildAndCollectNext]_<<buildVars, collectVars>>
  /\ WF_<<buildVars, collectVars>>(BuildAndCollectStep)

----------------------------------------------------------------------------
\* Correctness.

\* The package when it is whole: as it is returned, and as it is collected.
Whole == outcome = "returned" /\ status \in {"waiting", "done"}

Left == IF status = "waiting" THEN DOMAIN package ELSE functions

Standing == [key \in Left |-> package[key]]

\* Each function that a function of the package refers to, at the type it is
\* referred to, is in it and finished.
Resolved(defined) ==
  \A key \in DOMAIN defined :
    defined[key] # Null /\ ReferredBy(defined[key]) \subseteq DOMAIN defined

(* Each function a graph of the package refers to, at the type it refers   *)
(* to it, is in the package and finished, before what is not needed has    *)
(* been collected and after: lookup cannot fail at run time (FunctionRefs  *)
(* are made apart from the requests, BuildCFG.cpp:184-207, and visited     *)
(* apart from both, GC-CFG.cpp:16-43).                                     *)
ReferencesResolved ==
  Whole => source.root \in DOMAIN Standing /\ Resolved(Standing)

(* Every build ends, if with the end of the process's stack, and every     *)
(* package that is built is collected: its root is always found.           *)
BuiltAndCollected == <>(Ended /\ (outcome = "returned" => status = "done"))
=============================================================================
