----------------------------- MODULE Reification -----------------------------
(***************************************************************************)
(* How BuildCFG (src/lib/compiler/BuildCFG.cpp) goes through a module's    *)
(* functions: from the root, each function is built once for each type it  *)
(* is requested at, and building one may request others, or itself, before *)
(* it is finished.                                                         *)
(*                                                                         *)
(* Building a declared function for a key does something that depends on   *)
(* the module alone: it requests other functions in a certain order, may   *)
(* fail after some of them, and otherwise yields the root of a graph.  So  *)
(* a source is [root, bodies]: the key to build, and for each key of a     *)
(* declared name that can be requested a record of effects, a sequence of  *)
(*   [kind |-> "request", key |-> key]                                     *)
(*   [kind |-> "throw" or "assert" or "undefined"]                         *)
(* and root.  BuildCFG defines them for source expressions.                *)
(*                                                                         *)
(* The C++ call stack is a sequence of frames, one for each function that  *)
(* is being built, each with the position of its next effect.              *)
(***************************************************************************)
EXTENDS Naturals, Sequences, FiniteSets

CONSTANTS
  Sources,     \* what may be built
  Intrinsics,  \* the package before: from keys to roots
  Null,        \* the entry of a function that is being built
  MaxDepth     \* bound: nested builds for which the process has stack

ASSUME SourcesAssumption ==
  \A s \in Sources : \A key \in DOMAIN s.bodies :
    /\ IsFiniteSet(DOMAIN s.bodies[key].effects)
    /\ \A i \in DOMAIN s.bodies[key].effects :
         s.bodies[key].effects[i].kind \in {"request", "throw", "assert", "undefined"}
ASSUME MaxDepthAssumption == MaxDepth \in Nat

VARIABLES
  source,   \* the ast::Module
  package,  \* the cfg::Package: from keys to roots
  frames,   \* the functions being built, outermost first
  outcome   \* "starting", "building"; "returned", "throw", "assert",
            \* "undefined" behaviour, stack "overflow"

buildVars == <<source, package, frames, outcome>>

----------------------------------------------------------------------------
BuildInit ==
  /\ source \in Sources
  /\ package = Intrinsics
  /\ frames = <<>>
  /\ outcome = "starting"

Current == frames[Len(frames)]

Enclosing == SubSeq(frames, 1, Len(frames) - 1)

Declares(key) == key \in DOMAIN source.bodies

Effects(key) == source.bodies[key].effects

\* The frames once the current one has gone on to its next effect.
Advanced == Append(Enclosing, [Current EXCEPT !.next = @ + 1])

Store(key, root) ==
  package' = [k \in DOMAIN package \cup {key} |-> IF k = key THEN root ELSE package[k]]

\* The entry may be Null: callers leave what they get alone.
CacheHit(key, callers) ==
  /\ key \in DOMAIN package
  /\ frames' = callers
  /\ outcome' = "building"
  /\ UNCHANGED package

SourceHit_entersLate(key, callers) ==
  /\ key \notin DOMAIN package
  /\ Declares(key)
  /\ Len(callers) < MaxDepth
  /\ frames' = Append(callers, [key |-> key, next |-> 1])
  /\ outcome' = "building"
  /\ UNCHANGED package

SourceHit(key, callers) ==
  /\ key \notin DOMAIN package
  /\ Declares(key)
  /\ Len(callers) < MaxDepth
  /\ Store(key, Null)
  /\ frames' = Append(callers, [key |-> key, next |-> 1])
  /\ outcome' = "building"

Fail(how) == outcome' = how /\ UNCHANGED <<package, frames>>

\* GlobalContext::resolveIdentifier
resolveIdentifier(key, callers) ==
  \/ CacheHit(key, callers)
  \/ SourceHit(key, callers)
  \/ key \notin DOMAIN package /\ ~Declares(key) /\ Fail("throw")
  \/ /\ key \notin DOMAIN package /\ Declares(key) /\ Len(callers) = MaxDepth
     /\ Fail("overflow")

Start ==
  /\ outcome = "starting"
  /\ resolveIdentifier(source.root, <<>>)
  /\ UNCHANGED source

Effect ==
  /\ outcome = "building" /\ frames # <<>>
  /\ Current.next \in DOMAIN Effects(Current.key)
  /\ LET effect == Effects(Current.key)[Current.next] IN
     \/ effect.kind = "request" /\ resolveIdentifier(effect.key, Advanced)
     \/ effect.kind # "request" /\ Fail(effect.kind)
  /\ UNCHANGED source

Finish_copiesEntry ==
  /\ outcome = "building" /\ frames # <<>>
  /\ DOMAIN Effects(Current.key) \subseteq 1 .. Current.next - 1
  /\ frames' = Enclosing
  /\ UNCHANGED <<source, package, outcome>>

Finish ==
  /\ outcome = "building" /\ frames # <<>>
  /\ DOMAIN Effects(Current.key) \subseteq 1 .. Current.next - 1
  /\ Store(Current.key, source.bodies[Current.key].root)
  /\ frames' = Enclosing
  /\ UNCHANGED <<source, outcome>>

Return ==
  /\ outcome = "building" /\ frames = <<>>
  /\ outcome' = "returned"
  /\ UNCHANGED <<source, package, frames>>

BuildStep == Start \/ Effect \/ Finish \/ Return

Ended == outcome \notin {"starting", "building"}

BuildNext == BuildStep \/ (Ended /\ UNCHANGED buildVars)

(* One thread, which nothing blocks.                                       *)
BuildSpec == BuildInit /\ [][BuildNext]_buildVars /\ WF_buildVars(BuildStep)

----------------------------------------------------------------------------
\* Correctness.

Frame == [key : DOMAIN package, next : Nat \ {0}]

BuildTypeOK ==
  /\ DOMAIN Intrinsics \subseteq DOMAIN package
  /\ frames \in Seq(Frame)

Declared == DOMAIN package \ DOMAIN Intrinsics

Requests(key) ==
  { Effects(key)[i].key : i \in {j \in DOMAIN Effects(key) : Effects(key)[j].kind = "request"} }

(* A package that is returned has every function finished, and all that   *)
(* its functions requested, in spite of the unfinished entries that        *)
(* functions which refer to themselves or to each other were given on the  *)
(* way (BuildCFG.cpp:234-238 and 245).                                     *)
PackageComplete ==
  outcome = "returned" =>
    /\ source.root \in DOMAIN package
    /\ \A key \in Declared :
         package[key] = source.bodies[key].root /\ Requests(key) \subseteq DOMAIN package
=============================================================================
