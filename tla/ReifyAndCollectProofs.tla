------------------------ MODULE ReifyAndCollectProofs ------------------------
(***************************************************************************)
(* Theorems about Reification and ReifyAndCollect, for every source:       *)
(* whatever its functions request of each other, and fail in.              *)
(*                                                                         *)
(* The inductive invariant: a declared function in the package is finished *)
(* or one of the frames on the call stack builds it, and what a frame has  *)
(* gone past are requests whose functions are in the package.  The package *)
(* only grows, so that a function's requests are still there when it is    *)
(* finished; and when no frame is left every function is finished.         *)
(*                                                                         *)
(* A second invariant, of the frames alone: no two build the same          *)
(* function, because each enters it before anything is requested.  A deep  *)
(* call stack therefore needs as many functions.                           *)
(*                                                                         *)
(* At the end: of the package that is returned, every reference is         *)
(* resolved, and stays so through the collection, by the theorems about    *)
(* the collector.                                                          *)
(***************************************************************************)
EXTENDS ReifyAndCollect, SequenceTheorems, FiniteSetTheorems, TLAPS

FrameOf(D) == [key : D, next : Nat \ {0}]

OnStack(fs, key) == \E i \in 1 .. Len(fs) : fs[i].key = key

\* The frame builds a declared function; what it has gone past are requests,
\* which D answers.
PassedBy(frame, D) ==
  /\ Declares(frame.key)
  /\ \A e \in DOMAIN Effects(frame.key) \cap (1 .. frame.next - 1) :
       Effects(frame.key)[e].kind = "request" /\ Effects(frame.key)[e].key \in D

Passed(fs, D) == \A i \in 1 .. Len(fs) : PassedBy(fs[i], D)

OnlyRequests(key) == \A e \in DOMAIN Effects(key) : Effects(key)[e].kind = "request"

Finished(key) ==
  /\ Declares(key) /\ OnlyRequests(key)
  /\ package[key] = source.bodies[key].root
  /\ Requests(key) \subseteq DOMAIN package

IFinished == \A key \in Declared : OnStack(frames, key) \/ Finished(key)

IOutcome ==
  /\ outcome \in {"building", "returned"} => source.root \in DOMAIN package
  /\ outcome \in {"starting", "returned"} => frames = <<>>

BuildInv ==
  /\ source \in Sources
  /\ BuildTypeOK
  /\ Passed(frames, DOMAIN package)
  /\ IFinished
  /\ IOutcome

----------------------------------------------------------------------------
(* Frames stay frames as the package grows.                                *)
LEMMA FramesGrow ==
  ASSUME NEW D, NEW E, D \subseteq E, NEW fs \in Seq(FrameOf(D))
  PROVE  fs \in Seq(FrameOf(E))
<1>1. \A i \in 1 .. Len(fs) : fs[i] \in FrameOf(D)
  BY ElementOfSeq
<1>2. \A i \in 1 .. Len(fs) : fs[i] \in FrameOf(E)
  BY <1>1 DEF FrameOf
<1>3. Len(fs) \in Nat /\ fs = [i \in 1 .. Len(fs) |-> fs[i]]
  BY SeqDef
<1> QED
  BY <1>2, <1>3, SeqDef

LEMMA FrontOfSeq ==
  ASSUME NEW S, NEW s \in Seq(S), s # <<>>
  PROVE  /\ SubSeq(s, 1, Len(s) - 1) \in Seq(S)
         /\ Len(SubSeq(s, 1, Len(s) - 1)) = Len(s) - 1
         /\ \A i \in 1 .. Len(s) - 1 : SubSeq(s, 1, Len(s) - 1)[i] = s[i]
BY SMTT(30), LenProperties, ElementOfSeq, SubSeqProperties

(* All frames but the current one.                                         *)
LEMMA EnclosingFrames ==
  ASSUME NEW D, frames \in Seq(FrameOf(D)), frames # <<>>
  PROVE  /\ Len(frames) \in Nat \ {0} /\ Current \in FrameOf(D)
         /\ Enclosing \in Seq(FrameOf(D)) /\ Len(Enclosing) = Len(frames) - 1
         /\ \A i \in 1 .. Len(frames) - 1 : Enclosing[i] = frames[i]
<1>1. Len(frames) \in Nat \ {0} /\ Current \in FrameOf(D)
  BY DEF Current
<1>2. /\ Enclosing \in Seq(FrameOf(D)) /\ Len(Enclosing) = Len(frames) - 1
      /\ \A i \in 1 .. Len(frames) - 1 : Enclosing[i] = frames[i]
  BY FrontOfSeq DEF Enclosing
<1> QED
  BY <1>1, <1>2

(* A frame that goes on keeps its function, and the others.                *)
LEMMA AdvancedFrames ==
  ASSUME NEW D, frames \in Seq(FrameOf(D)), frames # <<>>
  PROVE  /\ Advanced \in Seq(FrameOf(D)) /\ Len(Advanced) = Len(frames)
         /\ Advanced[Len(frames)] = [key |-> Current.key, next |-> Current.next + 1]
         /\ \A i \in 1 .. Len(frames) - 1 : Advanced[i] = frames[i]
         /\ \A key : OnStack(frames, key) => OnStack(Advanced, key)
<1> DEFINE n == Len(frames)
           gone == [Current EXCEPT !.next = @ + 1]
<1>1. /\ n \in Nat \ {0} /\ Current \in FrameOf(D)
      /\ Enclosing \in Seq(FrameOf(D)) /\ Len(Enclosing) = n - 1
      /\ \A i \in 1 .. n - 1 : Enclosing[i] = frames[i]
  BY EnclosingFrames
<1>2. gone = [key |-> Current.key, next |-> Current.next + 1] /\ gone \in FrameOf(D)
  BY <1>1 DEF FrameOf
<1>3. /\ Advanced \in Seq(FrameOf(D)) /\ Len(Advanced) = n
      /\ Advanced[n] = gone /\ \A i \in 1 .. n - 1 : Advanced[i] = frames[i]
  BY <1>1, <1>2 DEF Advanced
<1>4. ASSUME NEW key, OnStack(frames, key)
      PROVE  OnStack(Advanced, key)
  <2>1. PICK i \in 1 .. n : frames[i].key = key
    BY <1>4 DEF OnStack
  <2>2. CASE i = n
    BY <2>1, <2>2, <1>1, <1>2, <1>3 DEF OnStack, Current
  <2>3. CASE i # n
    BY <2>1, <2>3, <1>1, <1>3 DEF OnStack
  <2> QED
    BY <2>2, <2>3
<1> QED
  BY <1>2, <1>3, <1>4

(* What has been passed stays answered by a larger package.                *)
LEMMA PassedGrows ==
  ASSUME NEW D, NEW E, D \subseteq E, NEW fs, Passed(fs, D)
  PROVE  Passed(fs, E)
  BY DEF Passed, PassedBy

----------------------------------------------------------------------------
(* Resolving an identifier, for callers that will have gone past their     *)
(* request of it.                                                          *)
LEMMA Resolving ==
  ASSUME BuildInv, NEW key, NEW callers,
         outcome = "building" \/ key = source.root,
         callers \in Seq(FrameOf(DOMAIN package)),
         Passed(callers, DOMAIN package \cup {key}),
         \A k : OnStack(frames, k) => OnStack(callers, k),
         resolveIdentifier(key, callers), UNCHANGED source
  PROVE  BuildInv'
<1> USE DEF BuildInv, BuildTypeOK
<1>1. CASE CacheHit(key, callers)
  <2>1. /\ key \in DOMAIN package /\ frames' = callers /\ outcome' = "building"
        /\ package' = package
    BY <1>1 DEF CacheHit
  <2>2. BuildTypeOK'
    BY <2>1 DEF Frame, FrameOf
  <2>3. Passed(frames, DOMAIN package)'
    <3>1. DOMAIN package \cup {key} = DOMAIN package
      BY <2>1
    <3> QED
      BY <3>1, <2>1 DEF Passed, PassedBy, Declares, Effects
  <2>4. IFinished'
    <3> SUFFICES ASSUME NEW k \in Declared'
                 PROVE  OnStack(frames, k)' \/ Finished(k)'
      BY DEF IFinished
    <3>1. k \in Declared
      BY <2>1 DEF Declared
    <3>2. CASE OnStack(frames, k)
      <4>1. OnStack(callers, k)
        BY <3>2
      <4> QED
        BY <4>1, <2>1 DEF OnStack
    <3>3. CASE Finished(k)
      BY <3>3, <2>1 DEF Finished, Requests, Effects, Declares, OnlyRequests
    <3> QED
      BY <3>1, <3>2, <3>3 DEF IFinished
  <2>5. IOutcome'
    BY <2>1 DEF IOutcome
  <2> QED
    BY <2>2, <2>3, <2>4, <2>5
<1>2. CASE SourceHit(key, callers)
  <2> DEFINE D == DOMAIN package
             frame == [key |-> key, next |-> 1]
  <2>1. /\ key \notin D /\ outcome' = "building"
        /\ package' = [k \in D \cup {key} |-> IF k = key THEN Null ELSE package[k]]
        /\ frames' = Append(callers, frame)
    BY <1>2 DEF SourceHit, Store
  <2>2. DOMAIN package' = D \cup {key} /\ \A k \in D : package'[k] = package[k]
    BY <2>1
  <2>3. callers \in Seq(FrameOf(D \cup {key})) /\ frame \in FrameOf(D \cup {key})
    <3>1. D \subseteq D \cup {key} /\ callers \in Seq(FrameOf(D))
      OBVIOUS
    <3>2. callers \in Seq(FrameOf(D \cup {key}))
      BY <3>1, FramesGrow
    <3>3. frame \in FrameOf(D \cup {key})
      BY DEF FrameOf
    <3> QED
      BY <3>2, <3>3
  <2>4. /\ frames' \in Seq(FrameOf(D \cup {key})) /\ Len(callers) \in Nat
        /\ Len(frames') = Len(callers) + 1 /\ frames'[Len(callers) + 1] = frame
        /\ \A i \in 1 .. Len(callers) : frames'[i] = callers[i]
    BY <2>1, <2>3
  <2>5. BuildTypeOK'
    BY <2>2, <2>4 DEF Frame, FrameOf
  <2>6. Passed(frames, DOMAIN package)'
    <3> SUFFICES ASSUME NEW i \in 1 .. Len(frames')
                 PROVE  PassedBy(frames[i], DOMAIN package)'
      BY DEF Passed
    <3>1. CASE i \in 1 .. Len(callers)
      <4>1. PassedBy(callers[i], D \cup {key}) /\ frames'[i] = callers[i]
        BY <3>1, <2>4 DEF Passed
      <4> QED
        BY <4>1, <2>2 DEF PassedBy, Declares, Effects
    <3>2. CASE i = Len(callers) + 1
      <4>1. frames'[i] = frame /\ 1 .. frame.next - 1 = {}
        BY <3>2, <2>4
      <4>2. Declares(key)'
        BY <1>2 DEF SourceHit, Declares
      <4> QED
        BY <4>1, <4>2 DEF PassedBy, Declares
    <3> QED
      BY <3>1, <3>2, <2>4
  <2>7. IFinished'
    <3> SUFFICES ASSUME NEW k \in Declared'
                 PROVE  OnStack(frames, k)' \/ Finished(k)'
      BY DEF IFinished
    <3>1. CASE k = key
      BY <3>1, <2>4 DEF OnStack
    <3>2. CASE k # key
      <4>1. k \in D /\ k \in Declared
        BY <3>2, <2>2 DEF Declared
      <4>2. CASE OnStack(frames, k)
        <5>1. PICK i \in 1 .. Len(callers) : callers[i].key = k
          BY <4>2 DEF OnStack
        <5>2. i \in 1 .. Len(frames') /\ frames'[i].key = k
          BY <5>1, <2>4
        <5> QED
          BY <5>2 DEF OnStack
      <4>3. CASE Finished(k)
        BY <4>3, <4>1, <2>2 DEF Finished, Requests, Effects, Declares, OnlyRequests
      <4> QED
        BY <4>1, <4>2, <4>3 DEF IFinished
    <3> QED
      BY <3>1, <3>2
  <2>8. IOutcome'
    BY <2>1, <2>2 DEF IOutcome
  <2> QED
    BY <2>5, <2>6, <2>7, <2>8
<1>3. CASE \/ key \notin DOMAIN package /\ ~Declares(key) /\ Fail("throw")
           \/ /\ key \notin DOMAIN package /\ Declares(key) /\ Len(callers) = MaxDepth
              /\ Fail("overflow")
  <2>1. UNCHANGED <<source, package, frames>> /\ outcome' \in {"throw", "overflow"}
    BY <1>3 DEF Fail
  <2> QED
    BY <2>1 DEF Passed, PassedBy, Declares, Effects, IFinished, Finished, Declared, OnStack, Requests,
                IOutcome, Frame, OnlyRequests
<1> QED
  BY <1>1, <1>2, <1>3 DEF resolveIdentifier

(* The root is resolved with no callers.                                   *)
LEMMA StartStep ==
  ASSUME BuildInv, Start
  PROVE  BuildInv'
<1>1. /\ outcome = "starting" /\ UNCHANGED source
      /\ resolveIdentifier(source.root, <<>>)
  BY DEF Start
<1>2. frames = <<>>
  BY <1>1 DEF BuildInv, IOutcome
<1>3. /\ <<>> \in Seq(FrameOf(DOMAIN package))
      /\ Passed(<<>>, DOMAIN package \cup {source.root})
  BY DEF Passed
<1>4. \A k : OnStack(frames, k) => OnStack(<<>>, k)
  BY <1>2
<1> QED
  BY <1>1, <1>3, <1>4, Resolving

(* Each of the effects of the current function.                            *)
LEMMA EffectStep ==
  ASSUME BuildInv, Effect
  PROVE  BuildInv'
<1> DEFINE n == Len(frames)
           effect == Effects(Current.key)[Current.next]
           D == DOMAIN package
<1>1. /\ outcome = "building" /\ frames # <<>> /\ UNCHANGED source
      /\ Current.next \in DOMAIN Effects(Current.key)
      /\ frames \in Seq(FrameOf(D))
  BY DEF Effect, BuildInv, BuildTypeOK, Frame, FrameOf
<1>2. n \in Nat \ {0} /\ Current \in FrameOf(D)
  BY <1>1, EnclosingFrames
<1>3. CASE effect.kind = "request" /\ resolveIdentifier(effect.key, Advanced)
  <2>1. /\ Advanced \in Seq(FrameOf(D)) /\ Len(Advanced) = n
        /\ Advanced[n] = [key |-> Current.key, next |-> Current.next + 1]
        /\ \A i \in 1 .. n - 1 : Advanced[i] = frames[i]
        /\ \A key : OnStack(frames, key) => OnStack(Advanced, key)
    BY <1>1, AdvancedFrames
  <2>2. Passed(frames, D \cup {effect.key})
    <3>1. Passed(frames, D)
      BY DEF BuildInv
    <3> QED
      BY <3>1, PassedGrows
  <2>3. Passed(Advanced, D \cup {effect.key})
    <3> SUFFICES ASSUME NEW i \in 1 .. n
                 PROVE  PassedBy(Advanced[i], D \cup {effect.key})
      BY <2>1 DEF Passed
    <3>1. CASE i # n
      <4>1. Advanced[i] = frames[i]
        BY <3>1, <2>1, <1>2
      <4>2. PassedBy(frames[i], D \cup {effect.key})
        BY <2>2 DEF Passed
      <4> QED
        BY <4>1, <4>2
    <3>2. CASE i = n
      <4>1. PassedBy(Current, D \cup {effect.key})
        <5>1. n \in 1 .. n
          BY <1>2
        <5> QED
          BY <2>2, <5>1 DEF Passed, Current
      <4> SUFFICES ASSUME NEW e \in DOMAIN Effects(Current.key) \cap (1 .. Current.next)
                   PROVE  /\ Effects(Current.key)[e].kind = "request"
                          /\ Effects(Current.key)[e].key \in D \cup {effect.key}
        <5>1. Advanced[i] = [key |-> Current.key, next |-> Current.next + 1]
          BY <3>2, <2>1
        <5>2. Advanced[i].key = Current.key /\ Advanced[i].next - 1 = Current.next
          BY <5>1, <1>2 DEF FrameOf
        <5>3. Declares(Current.key)
          BY <4>1 DEF PassedBy
        <5> QED
          BY <5>2, <5>3 DEF PassedBy
      <4>2. CASE e = Current.next
        BY <4>2, <1>3
      <4>3. CASE e # Current.next
        <5>1. e \in 1 .. Current.next - 1
          BY <4>3, <1>2 DEF FrameOf
        <5> QED
          BY <5>1, <4>1 DEF PassedBy
      <4> QED
        BY <4>2, <4>3
    <3> QED
      BY <3>1, <3>2
  <2> QED
    BY <2>1, <2>3, <1>1, <1>3, Resolving
<1>4. CASE effect.kind # "request" /\ Fail(effect.kind)
  <2>1. effect.kind \in {"throw", "assert", "undefined"}
    <3>1. n \in 1 .. n
      BY <1>2
    <3>2. source \in Sources /\ Current.key \in DOMAIN source.bodies
      BY <3>1 DEF BuildInv, Passed, PassedBy, Declares, Current
    <3>3. effect.kind \in {"request", "throw", "assert", "undefined"}
      BY <3>2, <1>1, SourcesAssumption DEF Effects
    <3> QED
      BY <1>4, <3>3
  <2>2. UNCHANGED <<source, package, frames>> /\ outcome' = effect.kind
    BY <1>1, <1>4 DEF Fail
  <2> QED
    BY <2>1, <2>2, <1>1 DEF BuildInv, BuildTypeOK, Passed, PassedBy, Declares, Effects,
                      IFinished, Finished, Declared, OnStack, Requests, IOutcome, Frame, OnlyRequests
<1> QED
  BY <1>3, <1>4 DEF Effect

(* The current function is stored: it has gone past all it requests.       *)
LEMMA FinishStep ==
  ASSUME BuildInv, Finish
  PROVE  BuildInv'
<1> DEFINE n == Len(frames)
           D == DOMAIN package
           key == Current.key
<1>1. /\ outcome = "building" /\ frames # <<>> /\ UNCHANGED <<source, outcome>>
      /\ DOMAIN Effects(key) \subseteq 1 .. Current.next - 1
      /\ frames' = Enclosing
      /\ package' = [k \in D \cup {key} |->
                       IF k = key THEN source.bodies[key].root ELSE package[k]]
      /\ frames \in Seq(FrameOf(D))
  BY DEF Finish, Store, BuildInv, BuildTypeOK, Frame, FrameOf
<1>2. /\ n \in Nat \ {0} /\ Current \in FrameOf(D)
      /\ Enclosing \in Seq(FrameOf(D)) /\ Len(Enclosing) = n - 1
      /\ \A i \in 1 .. n - 1 : Enclosing[i] = frames[i]
  BY <1>1, EnclosingFrames
<1>3. key \in D
  BY <1>2 DEF FrameOf
<1>4. /\ DOMAIN package' = D /\ package'[key] = source.bodies[key].root
      /\ \A k \in D : k # key => package'[k] = package[k]
  BY <1>1, <1>3
<1>5. BuildTypeOK'
  BY <1>1, <1>2, <1>4 DEF BuildInv, BuildTypeOK, Frame, FrameOf
<1>6. Passed(frames, DOMAIN package)'
  <2> SUFFICES ASSUME NEW i \in 1 .. n - 1
               PROVE  PassedBy(frames[i], DOMAIN package)'
    BY <1>1, <1>2 DEF Passed
  <2>1. i \in 1 .. n /\ frames'[i] = frames[i]
    BY <1>1, <1>2
  <2>2. PassedBy(frames[i], D)
    BY <2>1 DEF BuildInv, Passed
  <2> QED
    BY <2>1, <2>2, <1>1, <1>4 DEF PassedBy, Declares, Effects
<1>7. IFinished'
  <2> SUFFICES ASSUME NEW k \in Declared'
               PROVE  OnStack(frames, k)' \/ Finished(k)'
    BY DEF IFinished
  <2>1. k \in Declared
    BY <1>4 DEF Declared
  <2>2. CASE k = key
    <3>1. n \in 1 .. n
      BY <1>2
    <3>2. PassedBy(Current, D)
      BY <3>1 DEF BuildInv, Passed, Current
    <3>3. /\ Declares(key) /\ OnlyRequests(key)
          /\ \A e \in DOMAIN Effects(key) : Effects(key)[e].key \in D
      BY <3>2, <1>1 DEF PassedBy, OnlyRequests
    <3>4. Requests(key) \subseteq D
      BY <3>3 DEF Requests
    <3> QED
      BY <2>2, <3>3, <3>4, <1>1, <1>4 DEF Finished, Requests, Effects, Declares, OnlyRequests
  <2>3. CASE k # key /\ OnStack(frames, k)
    <3>1. PICK i \in 1 .. n : frames[i].key = k
      BY <2>3 DEF OnStack
    <3>2. i # n
      BY <3>1, <2>3 DEF Current
    <3>3. i \in 1 .. Len(frames') /\ frames'[i].key = k
      BY <3>1, <3>2, <1>1, <1>2
    <3> QED
      BY <3>3 DEF OnStack
  <2>4. CASE k # key /\ Finished(k)
    BY <2>4, <2>1, <1>1, <1>4 DEF Declared, Finished, Requests, Effects, Declares, OnlyRequests
  <2> QED
    BY <2>1, <2>2, <2>3, <2>4 DEF BuildInv, IFinished
<1>8. IOutcome'
  BY <1>1, <1>4 DEF BuildInv, IOutcome
<1> QED
  BY <1>1, <1>5, <1>6, <1>7, <1>8 DEF BuildInv

----------------------------------------------------------------------------
LEMMA InitBuildInv == BuildInit => BuildInv
<1> SUFFICES ASSUME BuildInit
             PROVE  BuildInv
  OBVIOUS
<1>1. frames = <<>> /\ package = Intrinsics /\ source \in Sources /\ outcome = "starting"
  BY DEF BuildInit
<1>2. frames \in Seq(Frame) /\ 1 .. Len(frames) = {}
  BY <1>1
<1>3. Declared = {}
  BY <1>1 DEF Declared
<1> QED
  BY <1>1, <1>2, <1>3 DEF BuildInv, BuildTypeOK, Passed, IFinished, IOutcome

LEMMA StepBuildInv == BuildInv /\ [BuildNext]_buildVars => BuildInv'
<1> SUFFICES ASSUME BuildInv, [BuildNext]_buildVars
             PROVE  BuildInv'
  OBVIOUS
<1>1. CASE Start
  BY <1>1, StartStep
<1>2. CASE Effect
  BY <1>2, EffectStep
<1>3. CASE Finish
  BY <1>3, FinishStep
<1>4. CASE Return
  <2>1. /\ outcome = "building" /\ outcome' = "returned" /\ frames = <<>>
        /\ UNCHANGED <<source, package, frames>>
    BY <1>4 DEF Return
  <2> QED
    BY <2>1 DEF BuildInv, BuildTypeOK, Passed, PassedBy, Declares, Effects, IFinished, Finished,
                Declared, OnStack, Requests, IOutcome, Frame, OnlyRequests
<1>5. CASE UNCHANGED buildVars
  BY <1>5 DEF buildVars, BuildInv, BuildTypeOK, Passed, PassedBy, Declares, Effects, IFinished,
              Finished, Declared, OnStack, Requests, IOutcome, Frame, OnlyRequests
<1> QED
  BY <1>1, <1>2, <1>3, <1>4, <1>5 DEF BuildNext, BuildStep

(* The invariant holds whatever the source, its recursion included.        *)
THEOREM BuildInvariant == BuildSpec => []BuildInv
  BY InitBuildInv, StepBuildInv, PTL DEF BuildSpec

(* The package keeps the intrinsics, and every frame on the call stack     *)
(* builds a function that has its entry (BuildCFG.cpp:245).                *)
THEOREM BuildTypeCorrect == BuildSpec => []BuildTypeOK
<1>1. BuildInv => BuildTypeOK
  BY DEF BuildInv
<1> QED
  BY <1>1, BuildInvariant, PTL

(* A package that is returned is complete: no entry of a function in       *)
(* progress is left in it, and all that its functions request of each      *)
(* other is there (BuildCFG.cpp:230-263).                                  *)
THEOREM PackageAlwaysComplete == BuildSpec => []PackageComplete
<1>1. BuildInv => PackageComplete
  <2> SUFFICES ASSUME BuildInv, outcome = "returned"
               PROVE  /\ source.root \in DOMAIN package
                      /\ \A key \in Declared : Finished(key)
    BY DEF PackageComplete, Finished
  <2>1. frames = <<>> /\ source.root \in DOMAIN package
    BY DEF BuildInv, IOutcome
  <2>2. \A key : ~OnStack(frames, key)
    BY <2>1 DEF OnStack
  <2> QED
    BY <2>1, <2>2 DEF BuildInv, IFinished
<1> QED
  BY <1>1, BuildInvariant, PTL

----------------------------------------------------------------------------
\* How deep builds nest.

KeysDiffer(fs) == \A i, j \in 1 .. Len(fs) : fs[i].key = fs[j].key => i = j

\* Every function of the source may be being built at the same time.
StackSuffices == Cardinality(DOMAIN source.bodies) <= MaxDepth

IOverflow ==
  IsFiniteSet(DOMAIN source.bodies) /\ StackSuffices => outcome # "overflow"

NestInv == BuildInv /\ KeysDiffer(frames) /\ IOverflow

(* Functions that are declared, and differ, are no more than are declared. *)
LEMMA AsManyAsDeclared ==
  ASSUME NEW S, IsFiniteSet(S), NEW n \in Nat, NEW key,
         \A i \in 1 .. n : key[i] \in S,
         \A i, j \in 1 .. n : key[i] = key[j] => i = j
  PROVE  n <= Cardinality(S)
<1> DEFINE f == [i \in 1 .. n |-> key[i]]
<1>1. f \in Injection(1 .. n, S)
  BY DEF Injection, IsInjective
<1>2. Cardinality(1 .. n) = n
  BY FS_Interval
<1>3. Cardinality(1 .. n) <= Cardinality(S)
  BY <1>1, FS_Injection
<1> QED
  BY <1>2, <1>3

(* No more functions are being built than the source has.                  *)
LEMMA FramesAreFew ==
  ASSUME IsFiniteSet(DOMAIN source.bodies), NEW D, NEW fs \in Seq(FrameOf(D)),
         KeysDiffer(fs), \A i \in 1 .. Len(fs) : Declares(fs[i].key)
  PROVE  Len(fs) <= Cardinality(DOMAIN source.bodies)
<1> DEFINE n == Len(fs)
           key == [i \in 1 .. n |-> fs[i].key]
<1>1. n \in Nat /\ \A i \in 1 .. n : key[i] = fs[i].key
  OBVIOUS
<1>2. /\ \A i \in 1 .. n : key[i] \in DOMAIN source.bodies
      /\ \A i, j \in 1 .. n : key[i] = key[j] => i = j
  BY <1>1 DEF Declares, KeysDiffer
<1> HIDE DEF n, key
<1> QED
  BY <1>1, <1>2, AsManyAsDeclared DEF n

(* The current frame goes on: it builds the same function.                 *)
LEMMA AdvancedDiffer ==
  ASSUME NEW D, frames \in Seq(FrameOf(D)), frames # <<>>, KeysDiffer(frames)
  PROVE  KeysDiffer(Advanced) /\ \A i \in 1 .. Len(frames) : Advanced[i].key = frames[i].key
<1> DEFINE n == Len(frames)
<1>1. /\ Len(Advanced) = n
      /\ Advanced[n] = [key |-> Current.key, next |-> Current.next + 1]
      /\ \A i \in 1 .. n - 1 : Advanced[i] = frames[i]
  BY AdvancedFrames
<1>2. n \in Nat \ {0}
  BY EnclosingFrames
<1>3. \A i \in 1 .. n : Advanced[i].key = frames[i].key
  BY <1>1, <1>2 DEF Current
<1> QED
  BY <1>1, <1>3 DEF KeysDiffer

(* Of the callers of a function that is not in the package none builds it, *)
(* and they are fewer than are declared.                                   *)
LEMMA ResolvingNests ==
  ASSUME BuildInv, KeysDiffer(frames), NEW key, NEW callers,
         outcome \in {"starting", "building"},
         callers \in Seq(FrameOf(DOMAIN package)), KeysDiffer(callers),
         \A i \in 1 .. Len(callers) : Declares(callers[i].key),
         resolveIdentifier(key, callers), UNCHANGED source
  PROVE  (KeysDiffer(frames) /\ IOverflow)'
<1> DEFINE D == DOMAIN package
           n == Len(callers)
           frame == [key |-> key, next |-> 1]
           fs == Append(callers, frame)
<1>1. CASE CacheHit(key, callers)
  BY <1>1 DEF CacheHit, KeysDiffer, IOverflow
<1>2. ASSUME key \notin D, Declares(key)
      PROVE  /\ fs \in Seq(FrameOf(D \cup {key})) /\ KeysDiffer(fs) /\ Len(fs) = n + 1
             /\ \A i \in 1 .. Len(fs) : Declares(fs[i].key)
  <2>1. callers \in Seq(FrameOf(D \cup {key}))
    <3>1. D \subseteq D \cup {key}
      OBVIOUS
    <3> QED
      BY <3>1, FramesGrow
  <2>2. frame \in FrameOf(D \cup {key})
    BY DEF FrameOf
  <2>3. /\ fs \in Seq(FrameOf(D \cup {key})) /\ n \in Nat /\ Len(fs) = n + 1
        /\ fs[n + 1] = frame /\ \A i \in 1 .. n : fs[i] = callers[i]
    BY <2>1, <2>2
  <2>4. \A i \in 1 .. n : fs[i].key \in D /\ fs[i].key # key
    <3>1. \A i \in 1 .. n : callers[i] \in FrameOf(D)
      BY ElementOfSeq
    <3> QED
      BY <3>1, <2>3, <1>2 DEF FrameOf
  <2>5. \A i, j \in 1 .. n : fs[i].key = fs[j].key => i = j
    BY <2>3 DEF KeysDiffer
  <2>6. fs[n + 1].key = key
    BY <2>3
  <2> HIDE DEF fs, frame
  <2>7. KeysDiffer(fs)
    BY <2>3, <2>4, <2>5, <2>6 DEF KeysDiffer
  <2>8. \A i \in 1 .. Len(fs) : Declares(fs[i].key)
    BY <2>3, <2>6, <1>2
  <2> QED
    BY <2>3, <2>7, <2>8
<1>3. CASE SourceHit(key, callers)
  BY <1>2, <1>3 DEF SourceHit, IOverflow
<1>4. CASE key \notin D /\ ~Declares(key) /\ Fail("throw")
  BY <1>4 DEF Fail, KeysDiffer, IOverflow
<1>5. CASE key \notin D /\ Declares(key) /\ n = MaxDepth /\ Fail("overflow")
  <2>1. ASSUME IsFiniteSet(DOMAIN source.bodies)
        PROVE  ~StackSuffices
    <3>1. Len(fs) = MaxDepth + 1
      BY <1>2, <1>5
    <3>2. Len(fs) <= Cardinality(DOMAIN source.bodies)
      <4> HIDE DEF fs
      <4> QED
        BY <1>2, <1>5, <2>1, FramesAreFew
    <3>3. Cardinality(DOMAIN source.bodies) \in Nat
      BY <2>1, FS_CardinalityType
    <3> HIDE DEF fs
    <3> QED
      BY <3>1, <3>2, <3>3, MaxDepthAssumption DEF StackSuffices
  <2>2. UNCHANGED frames
    BY <1>5 DEF Fail
  <2>3. KeysDiffer(frames)'
    BY <2>2 DEF KeysDiffer
  <2>4. IOverflow'
    BY <2>1 DEF IOverflow, StackSuffices
  <2> QED
    BY <2>3, <2>4
<1> QED
  BY <1>1, <1>3, <1>4, <1>5 DEF resolveIdentifier

LEMMA StepNests == NestInv /\ [BuildNext]_buildVars => NestInv'
<1> SUFFICES ASSUME NestInv, [BuildNext]_buildVars
             PROVE  NestInv'
  OBVIOUS
<1>1. BuildInv'
  BY StepBuildInv DEF NestInv
<1> DEFINE D == DOMAIN package
<1>2. /\ frames \in Seq(FrameOf(D)) /\ KeysDiffer(frames)
      /\ \A i \in 1 .. Len(frames) : Declares(frames[i].key)
  BY DEF NestInv, BuildInv, BuildTypeOK, Frame, FrameOf, Passed, PassedBy
<1>3. CASE Start
  <2> DEFINE callers == <<>>
  <2>1. /\ callers \in Seq(FrameOf(D)) /\ KeysDiffer(callers)
        /\ \A i \in 1 .. Len(callers) : Declares(callers[i].key)
    BY DEF KeysDiffer
  <2>2. outcome \in {"starting", "building"} /\ UNCHANGED source
        /\ resolveIdentifier(source.root, callers)
    BY <1>3 DEF Start
  <2>3. BuildInv
    BY DEF NestInv
  <2> HIDE DEF callers
  <2>4. (KeysDiffer(frames) /\ IOverflow)'
    BY <1>2, <2>1, <2>2, <2>3, ResolvingNests
  <2> QED
    BY <1>1, <2>4 DEF NestInv
<1>4. CASE Effect
  <2>1. outcome = "building" /\ frames # <<>> /\ UNCHANGED source
    BY <1>4 DEF Effect
  <2>2. CASE resolveIdentifier(Effects(Current.key)[Current.next].key, Advanced)
    <3>1. KeysDiffer(Advanced) /\ \A i \in 1 .. Len(frames) : Advanced[i].key = frames[i].key
      BY <1>2, <2>1, AdvancedDiffer
    <3>2. Advanced \in Seq(FrameOf(D)) /\ Len(Advanced) = Len(frames)
      BY <1>2, <2>1, AdvancedFrames
    <3>3. \A i \in 1 .. Len(Advanced) : Declares(Advanced[i].key)
      BY <1>2, <3>1, <3>2
    <3> QED
      BY <1>1, <1>2, <2>1, <2>2, <3>1, <3>2, <3>3, ResolvingNests DEF NestInv
  <2>3. CASE /\ Effects(Current.key)[Current.next].kind # "request"
             /\ Fail(Effects(Current.key)[Current.next].kind)
    <3>1. Effects(Current.key)[Current.next].kind # "overflow"
      <4>1. Current.next \in DOMAIN Effects(Current.key)
        BY <1>4 DEF Effect
      <4>2. Len(frames) \in 1 .. Len(frames)
        BY <1>2, <2>1, EnclosingFrames
      <4>3. source \in Sources /\ Current.key \in DOMAIN source.bodies
        BY <1>2, <4>2 DEF NestInv, BuildInv, Declares, Current
      <4> QED
        BY <4>1, <4>3, SourcesAssumption DEF Effects
    <3>2. UNCHANGED frames /\ outcome' # "overflow"
      BY <2>3, <3>1 DEF Fail
    <3> QED
      BY <1>1, <1>2, <3>2 DEF NestInv, KeysDiffer, IOverflow
  <2> QED
    BY <1>4, <2>2, <2>3 DEF Effect
<1>5. CASE Finish
  <2>1. frames # <<>> /\ frames' = Enclosing /\ outcome' = "building"
    BY <1>5 DEF Finish
  <2>2. /\ Len(frames) \in Nat \ {0} /\ Len(Enclosing) = Len(frames) - 1
        /\ \A i \in 1 .. Len(frames) - 1 : Enclosing[i] = frames[i]
    BY <1>2, <2>1, EnclosingFrames
  <2>3. KeysDiffer(Enclosing)
    BY <1>2, <2>2 DEF KeysDiffer
  <2> QED
    BY <1>1, <2>1, <2>3 DEF NestInv, KeysDiffer, IOverflow
<1>6. CASE Return
  BY <1>1, <1>2, <1>6 DEF Return, NestInv, KeysDiffer, IOverflow
<1>7. CASE UNCHANGED buildVars
  BY <1>1, <1>7 DEF buildVars, NestInv, KeysDiffer, IOverflow, StackSuffices
<1> QED
  BY <1>3, <1>4, <1>5, <1>6, <1>7 DEF BuildNext, BuildStep

LEMMA NestInvariant == BuildSpec => []NestInv
<1>1. BuildInit => NestInv
  BY InitBuildInv DEF BuildInit, NestInv, KeysDiffer, IOverflow
<1> QED
  BY <1>1, StepNests, PTL DEF BuildSpec

\* What a recursion of functions through each other needs of the call stack.
NestingBounded ==
  IsFiniteSet(DOMAIN source.bodies) =>
    /\ Len(frames) <= Cardinality(DOMAIN source.bodies)
    /\ Cardinality(DOMAIN source.bodies) <= MaxDepth => outcome # "overflow"

(* However the functions of a source call each other, and themselves, the  *)
(* builder's recursion is no deeper than there are functions that can be   *)
(* requested, and a process with stack for as many never runs out of it:   *)
(* a function's entry is there before its body is looked at                *)
(* (BuildCFG.cpp:230-247).                                                 *)
THEOREM RecursionNests == BuildSpec => []NestingBounded
<1>1. NestInv => NestingBounded
  <2> SUFFICES ASSUME NestInv, IsFiniteSet(DOMAIN source.bodies)
               PROVE  /\ Len(frames) <= Cardinality(DOMAIN source.bodies)
                      /\ StackSuffices => outcome # "overflow"
    BY DEF NestingBounded, StackSuffices
  <2>1. /\ frames \in Seq(FrameOf(DOMAIN package)) /\ KeysDiffer(frames)
        /\ \A i \in 1 .. Len(frames) : Declares(frames[i].key)
    BY DEF NestInv, BuildInv, BuildTypeOK, Frame, FrameOf, Passed, PassedBy
  <2>2. Len(frames) <= Cardinality(DOMAIN source.bodies)
    BY <2>1, FramesAreFew
  <2> QED
    BY <2>2 DEF NestInv, IOverflow
<1> QED
  BY <1>1, NestInvariant, PTL

\* What a step does to the functions that no frame builds.
KeepsFinished ==
  \A key \in DOMAIN package :
    ~OnStack(frames, key) =>
      key \in DOMAIN package' /\ ~OnStack(frames, key)' /\ package'[key] = package[key]

LEMMA StepKeeps == BuildInv /\ [BuildNext]_buildVars => [KeepsFinished]_buildVars
<1> SUFFICES ASSUME BuildInv, BuildStep, NEW key \in DOMAIN package, ~OnStack(frames, key)
             PROVE  /\ key \in DOMAIN package' /\ ~OnStack(frames, key)'
                    /\ package'[key] = package[key]
  BY DEF BuildNext, KeepsFinished
<1> DEFINE D == DOMAIN package
<1>1. frames \in Seq(FrameOf(D)) /\ key \in D
  BY DEF BuildInv, BuildTypeOK, Frame, FrameOf
<1>2. ASSUME NEW k, NEW callers \in Seq(FrameOf(D)), resolveIdentifier(k, callers),
             ~OnStack(callers, key)
      PROVE  /\ key \in DOMAIN package' /\ ~OnStack(frames, key)'
             /\ package'[key] = package[key]
  <2>1. CASE SourceHit(k, callers)
    <3>1. /\ k \notin D /\ frames' = Append(callers, [key |-> k, next |-> 1])
          /\ package' = [x \in D \cup {k} |-> IF x = k THEN Null ELSE package[x]]
      BY <2>1 DEF SourceHit, Store
    <3>2. /\ Len(callers) \in Nat /\ Len(frames') = Len(callers) + 1
          /\ frames'[Len(callers) + 1].key = k
          /\ \A i \in 1 .. Len(callers) : frames'[i] = callers[i]
      BY <3>1
    <3>3. ~OnStack(frames, key)'
      BY <3>1, <3>2, <1>1, <1>2 DEF OnStack
    <3> QED
      BY <3>1, <3>3, <1>1
  <2>2. CASE ~SourceHit(k, callers)
    BY <2>2, <1>2 DEF resolveIdentifier, CacheHit, Fail, OnStack
  <2> QED
    BY <2>1, <2>2
<1>3. CASE Start
  <2>1. <<>> \in Seq(FrameOf(D)) /\ ~OnStack(<<>>, key)
    BY DEF OnStack
  <2> QED
    BY <1>2, <1>3, <2>1 DEF Start
<1>4. CASE Effect
  <2>1. frames # <<>>
    BY <1>4 DEF Effect
  <2>2. CASE resolveIdentifier(Effects(Current.key)[Current.next].key, Advanced)
    <3>1. Advanced \in Seq(FrameOf(D))
      BY <1>1, <2>1, AdvancedFrames
    <3>2. ~OnStack(Advanced, key)
      <4>1. /\ Len(Advanced) = Len(frames) /\ Len(frames) \in Nat \ {0}
            /\ Advanced[Len(frames)].key = frames[Len(frames)].key
            /\ \A i \in 1 .. Len(frames) - 1 : Advanced[i] = frames[i]
        BY <1>1, <2>1, AdvancedFrames, EnclosingFrames DEF Current
      <4> QED
        BY <4>1 DEF OnStack
    <3> QED
      BY <1>2, <2>2, <3>1, <3>2
  <2>3. CASE Fail(Effects(Current.key)[Current.next].kind)
    BY <2>3 DEF Fail, OnStack
  <2> QED
    BY <1>4, <2>2, <2>3 DEF Effect
<1>5. CASE Finish
  <2>1. /\ frames # <<>> /\ frames' = Enclosing
        /\ package' = [x \in D \cup {Current.key} |->
                         IF x = Current.key THEN source.bodies[Current.key].root ELSE package[x]]
    BY <1>5 DEF Finish, Store
  <2>2. /\ Len(frames) \in Nat \ {0} /\ Len(Enclosing) = Len(frames) - 1
        /\ \A i \in 1 .. Len(frames) - 1 : Enclosing[i] = frames[i]
    BY <1>1, <2>1, EnclosingFrames
  <2>3. key # Current.key /\ ~OnStack(Enclosing, key)
    BY <2>2 DEF OnStack, Current
  <2> QED
    BY <2>1, <2>3, <1>1 DEF OnStack
<1>6. CASE Return
  BY <1>6 DEF Return, OnStack
<1> QED
  BY <1>3, <1>4, <1>5, <1>6 DEF BuildStep

(* A function is built once: when no frame builds it any more its entry is *)
(* final, and whoever requests it later gets that entry                    *)
(* (BuildCFG.cpp:234-238).                                                 *)
THEOREM BuiltOnce == BuildSpec => [][KeepsFinished]_buildVars
  BY StepKeeps, BuildInvariant, PTL DEF BuildSpec

----------------------------------------------------------------------------
\* What is built at all.

\* S holds the root, and what building the functions in it requests.
RequestClosed(S) ==
  /\ source.root \in S
  /\ \A key \in (S \cap DOMAIN source.bodies) \ DOMAIN Intrinsics : Requests(key) \subseteq S

\* What compiling the root may ask for: the least such set.
Wanted == {key \in Keys : \A S \in SUBSET Keys : RequestClosed(S) => key \in S}

\* No closed set lacks a function that has been built.
IWanted == \A S \in SUBSET Keys : RequestClosed(S) => Declared \subseteq S

WantedInv == BuildInv /\ IWanted /\ \A key \in DOMAIN Intrinsics : ~OnStack(frames, key)

(* What the root, or a function that is being built, requests is wanted.   *)
LEMMA ResolvingWanted ==
  ASSUME BuildInv, IWanted, NEW key, NEW callers, resolveIdentifier(key, callers),
         \A S \in SUBSET Keys : RequestClosed(S) => key \in S, UNCHANGED source
  PROVE  IWanted'
<1>1. DOMAIN package' \subseteq DOMAIN package \cup {key}
  BY DEF resolveIdentifier, CacheHit, SourceHit, Store, Fail
<1>2. \A S : RequestClosed(S)' => RequestClosed(S)
  BY DEF RequestClosed, Requests, Effects
<1> QED
  BY <1>1, <1>2 DEF IWanted, Declared

LEMMA StepWanted == WantedInv /\ [BuildNext]_buildVars => WantedInv'
<1> SUFFICES ASSUME WantedInv, [BuildNext]_buildVars
             PROVE  WantedInv'
  OBVIOUS
<1>1. BuildInv' /\ \A key \in DOMAIN Intrinsics : ~OnStack(frames, key)'
  <2>1. BuildInv' /\ [KeepsFinished]_buildVars
    BY StepBuildInv, StepKeeps DEF WantedInv
  <2> QED
    BY <2>1 DEF WantedInv, BuildInv, BuildTypeOK, KeepsFinished, buildVars, OnStack
<1>2. CASE Start
  <2>1. IWanted'
    BY <1>2, ResolvingWanted DEF WantedInv, Start, RequestClosed
  <2> QED
    BY <1>1, <2>1 DEF WantedInv
<1>3. CASE Effect
  <2> DEFINE effect == Effects(Current.key)[Current.next]
  <2>1. /\ frames # <<>> /\ UNCHANGED source
        /\ Current.next \in DOMAIN Effects(Current.key)
    BY <1>3 DEF Effect
  <2>2. CASE effect.kind = "request" /\ resolveIdentifier(effect.key, Advanced)
    <3>0. frames \in Seq(FrameOf(DOMAIN package)) /\ Passed(frames, DOMAIN package)
      BY DEF WantedInv, BuildInv, BuildTypeOK, Frame, FrameOf
    <3>1. Len(frames) \in 1 .. Len(frames) /\ Current \in FrameOf(DOMAIN package)
      BY <2>1, <3>0, EnclosingFrames
    <3>2. /\ Current.key \in DOMAIN source.bodies /\ OnStack(frames, Current.key)
          /\ Current.key \in DOMAIN package
      BY <3>0, <3>1 DEF Passed, PassedBy, Declares, Current, OnStack, FrameOf
    <3>3. Current.key \in Declared /\ Current.key \notin DOMAIN Intrinsics
      BY <3>2 DEF WantedInv, Declared
    <3>4. effect.key \in Requests(Current.key)
      BY <2>1, <2>2 DEF Requests
    <3>5. \A S \in SUBSET Keys : RequestClosed(S) => effect.key \in S
      BY <3>2, <3>3, <3>4 DEF WantedInv, IWanted, RequestClosed
    <3>6. BuildInv /\ IWanted
      BY DEF WantedInv
    <3> HIDE DEF effect
    <3>7. IWanted'
      BY <2>1, <2>2, <3>5, <3>6, ResolvingWanted
    <3> QED
      BY <1>1, <3>7 DEF WantedInv
  <2>3. CASE Fail(effect.kind)
    BY <1>1, <2>1, <2>3 DEF Fail, WantedInv, IWanted, RequestClosed, Requests, Effects, Declared
  <2> QED
    BY <1>3, <2>2, <2>3 DEF Effect
<1>4. CASE Finish
  <2>1. frames # <<>> /\ UNCHANGED source /\ DOMAIN package' = DOMAIN package \cup {Current.key}
    BY <1>4 DEF Finish, Store
  <2>2. Current.key \in DOMAIN package
    BY <2>1, EnclosingFrames DEF WantedInv, BuildInv, BuildTypeOK, Frame, FrameOf
  <2> QED
    BY <1>1, <2>1, <2>2 DEF WantedInv, IWanted, RequestClosed, Requests, Effects, Declared
<1>5. CASE Return \/ UNCHANGED buildVars
  BY <1>1, <1>5
     DEF Return, buildVars, WantedInv, IWanted, RequestClosed, Requests, Effects, Declared
<1> QED
  BY <1>2, <1>3, <1>4, <1>5 DEF BuildNext, BuildStep

\* A returned package defines the intrinsics, and what the root asks for.
BuildsWhatIsWanted == outcome = "returned" => DOMAIN package = DOMAIN Intrinsics \cup Wanted

(* Whatever the order of requests and however they recur, a returned       *)
(* package has a function at a type exactly if building the root asks for  *)
(* it, directly or on the way (BuildCFG.cpp:230-263).                      *)
THEOREM BuiltAsWanted == BuildSpec => []BuildsWhatIsWanted
<1>1. BuildInit => WantedInv
  <2> SUFFICES ASSUME BuildInit
               PROVE  IWanted /\ \A key \in DOMAIN Intrinsics : ~OnStack(frames, key)
    BY InitBuildInv DEF WantedInv
  <2> QED
    BY DEF BuildInit, IWanted, Declared, OnStack
<1>2. WantedInv => BuildsWhatIsWanted
  <2> SUFFICES ASSUME WantedInv, outcome = "returned"
               PROVE  DOMAIN package = DOMAIN Intrinsics \cup Wanted
    BY DEF BuildsWhatIsWanted
  <2>1. /\ source \in Sources /\ source.root \in DOMAIN package
        /\ DOMAIN Intrinsics \subseteq DOMAIN package
        /\ \A key \in Declared : Finished(key)
    BY DEF WantedInv, BuildInv, BuildTypeOK, IOutcome, IFinished, OnStack
  <2>2. DOMAIN package \subseteq Keys
    BY <2>1 DEF Keys, Declared, Finished, Declares
  <2>3. RequestClosed(DOMAIN package)
    BY <2>1 DEF RequestClosed, Declared, Finished
  <2>4. Declared \subseteq Wanted
    BY <2>2 DEF WantedInv, IWanted, Wanted, Declared
  <2> QED
    BY <2>1, <2>2, <2>3, <2>4 DEF Wanted, Declared
<1> QED
  BY <1>1, <1>2, StepWanted, PTL DEF BuildSpec

----------------------------------------------------------------------------
(* Why building ends: with every step there is less left to do.            *)

Unbuilt == DOMAIN source.bodies \ DOMAIN package

\* What a frame has left: its effects, and to finish.
LeftOf(frame) == {0} \cup (DOMAIN Effects(frame.key) \ (1 .. frame.next - 1))

AheadOf(fs) == UNION {{i} \X LeftOf(fs[i]) : i \in 1 .. Len(fs)}

LeftToBuild == <<Cardinality(Unbuilt), Cardinality(AheadOf(frames))>>

\* The build starts, or ends, or has less left to do: a request may put a frame
\* on the call stack, but only by entering one function more.
NearerToEnd ==
  \/ outcome = "starting" /\ outcome' # "starting"
  \/ outcome = "building" /\ outcome' \notin {"starting", "building"}
  \/ /\ outcome = "building" /\ outcome' = "building"
     /\ \/ LeftToBuild[1]' < LeftToBuild[1]
        \/ LeftToBuild[1]' = LeftToBuild[1] /\ LeftToBuild[2]' < LeftToBuild[2]

LEMMA PairAhead ==
  ASSUME NEW fs, NEW i, NEW e
  PROVE  <<i, e>> \in AheadOf(fs) <=> i \in 1 .. Len(fs) /\ e \in LeftOf(fs[i])
  BY DEF AheadOf

LEMMA ProperSubset ==
  ASSUME NEW S, IsFiniteSet(S), NEW T, T \subseteq S, NEW x \in S, x \notin T
  PROVE  Cardinality(T) < Cardinality(S)
<1>1. IsFiniteSet(T) /\ Cardinality(T) <= Cardinality(S) /\ Cardinality(T) # Cardinality(S)
  BY FS_Subset
<1>2. Cardinality(T) \in Nat /\ Cardinality(S) \in Nat
  BY <1>1, FS_CardinalityType
<1> QED
  BY <1>1, <1>2

(* A build is finite.                                                      *)
LEMMA LeftFinite ==
  ASSUME BuildInv
  PROVE  IsFiniteSet(Unbuilt) /\ IsFiniteSet(AheadOf(frames)) /\ LeftToBuild \in Nat \X Nat
<1> DEFINE I == 1 .. Len(frames)
           f == [i \in I |-> {i} \X LeftOf(frames[i])]
           R == {f[i] : i \in I}
<1>1. source \in Sources /\ frames \in Seq(Frame) /\ Passed(frames, DOMAIN package)
  BY DEF BuildInv, BuildTypeOK
<1>2. IsFiniteSet(Unbuilt)
  <2>1. Unbuilt \subseteq Keys
    BY <1>1 DEF Unbuilt, Keys
  <2> QED
    BY <2>1, KeysAssumption, FS_Subset
<1>3. IsFiniteSet(I)
  <2>1. 1 \in Int /\ Len(frames) \in Int
    BY <1>1
  <2> QED
    BY <2>1, FS_Interval, Zenon
<1>4. f \in Surjection(I, R)
  BY DEF Surjection
<1>5. IsFiniteSet(R)
  <2> HIDE DEF f, I, R
  <2> QED
    BY <1>3, <1>4, FS_Surjection
<1>6. ASSUME NEW i \in I
      PROVE  IsFiniteSet({i} \X LeftOf(frames[i]))
  <2>1. frames[i].key \in DOMAIN source.bodies
    BY <1>1 DEF Passed, PassedBy, Declares
  <2>2. IsFiniteSet(DOMAIN Effects(frames[i].key))
    BY <1>1, <2>1, SourcesAssumption DEF Effects
  <2>3. IsFiniteSet(DOMAIN Effects(frames[i].key) \ (1 .. frames[i].next - 1))
    BY <2>2, FS_Difference
  <2>4. IsFiniteSet({i}) /\ IsFiniteSet({0})
    BY FS_Singleton
  <2>5. IsFiniteSet(LeftOf(frames[i]))
    BY <2>3, <2>4, FS_Union DEF LeftOf
  <2> QED
    BY <2>4, <2>5, FS_Product
<1>7. AheadOf(frames) = UNION R /\ \A T \in R : IsFiniteSet(T)
  BY <1>6 DEF AheadOf
<1>8. IsFiniteSet(AheadOf(frames))
  <2> HIDE DEF R
  <2> QED
    BY <1>5, <1>7, FS_UNION
<1> QED
  BY <1>2, <1>8, FS_CardinalityType DEF LeftToBuild

(* Frames that have less left, or fewer frames.                            *)
LEMMA LessAhead ==
  ASSUME BuildInv, NEW fs, 1 .. Len(fs) \subseteq 1 .. Len(frames),
         \A k \in 1 .. Len(fs) : LeftOf(fs[k]) \subseteq LeftOf(frames[k]),
         NEW i \in 1 .. Len(frames), NEW e \in LeftOf(frames[i]),
         ~(i \in 1 .. Len(fs) /\ e \in LeftOf(fs[i]))
  PROVE  Cardinality(AheadOf(fs)) < Cardinality(AheadOf(frames))
<1>1. AheadOf(fs) \subseteq AheadOf(frames)
  <2> SUFFICES ASSUME NEW p \in AheadOf(fs)
               PROVE  p \in AheadOf(frames)
    OBVIOUS
  <2>1. PICK k \in 1 .. Len(fs) : p \in {k} \X LeftOf(fs[k])
    BY Zenon DEF AheadOf
  <2>2. k \in 1 .. Len(frames) /\ p \in {k} \X LeftOf(frames[k])
    BY <2>1
  <2> QED
    BY <2>2, Zenon DEF AheadOf
<1>2. <<i, e>> \in AheadOf(frames) /\ <<i, e>> \notin AheadOf(fs)
  BY PairAhead
<1> QED
  BY <1>1, <1>2, LeftFinite, ProperSubset

LEMMA StepNearer == BuildInv /\ BuildStep => NearerToEnd
<1> SUFFICES ASSUME BuildInv, BuildStep
             PROVE  NearerToEnd
  OBVIOUS
<1> DEFINE n == Len(frames)
<1>1. frames \in Seq(FrameOf(DOMAIN package)) /\ Passed(frames, DOMAIN package) /\ source \in Sources
  BY DEF BuildInv, BuildTypeOK, Frame, FrameOf
<1>2. CASE Start
  BY <1>2 DEF Start, resolveIdentifier, CacheHit, SourceHit, Fail, NearerToEnd
<1>3. CASE Effect
  <2> DEFINE key == Effects(Current.key)[Current.next].key
             kind == Effects(Current.key)[Current.next].kind
  <2>1. /\ outcome = "building" /\ frames # <<>> /\ UNCHANGED source
        /\ Current.next \in DOMAIN Effects(Current.key)
    BY <1>3 DEF Effect
  <2>2. n \in Nat \ {0} /\ Current \in FrameOf(DOMAIN package) /\ Current = frames[n]
    BY <1>1, <2>1, EnclosingFrames DEF Current
  <2>3. CASE CacheHit(key, Advanced)
    <3>1. frames' = Advanced /\ outcome' = "building" /\ package' = package
      BY <2>3 DEF CacheHit
    <3>2. /\ Len(Advanced) = n
          /\ Advanced[n] = [key |-> Current.key, next |-> Current.next + 1]
          /\ \A i \in 1 .. n - 1 : Advanced[i] = frames[i]
      BY <1>1, <2>1, AdvancedFrames
    <3>3. LeftOf(Advanced[n]) \subseteq LeftOf(frames[n]) /\ Current.next \notin LeftOf(Advanced[n])
      <4>1. Current.next \in Nat \ {0}
        BY <2>2 DEF FrameOf
      <4>2. LeftOf(Advanced[n]) = {0} \cup (DOMAIN Effects(Current.key) \ (1 .. Current.next))
        BY <3>2, <4>1 DEF LeftOf
      <4>3. LeftOf(frames[n]) = {0} \cup (DOMAIN Effects(Current.key) \ (1 .. Current.next - 1))
        BY <2>2 DEF LeftOf
      <4> QED
        BY <4>1, <4>2, <4>3
    <3>4. Current.next \in LeftOf(frames[n])
      BY <2>1, <2>2 DEF LeftOf, FrameOf
    <3>5. \A i \in 1 .. n : LeftOf(Advanced[i]) \subseteq LeftOf(frames[i])
      <4> SUFFICES ASSUME NEW i \in 1 .. n
                   PROVE  LeftOf(Advanced[i]) \subseteq LeftOf(frames[i])
        OBVIOUS
      <4>1. CASE i = n
        BY <4>1, <3>3
      <4>2. CASE i # n
        BY <4>2, <2>2, <3>2
      <4> QED
        BY <4>1, <4>2
    <3>6. n \in 1 .. n /\ 1 .. Len(Advanced) = 1 .. n
      BY <2>2, <3>2
    <3>7. Cardinality(AheadOf(Advanced)) < Cardinality(AheadOf(frames))
      BY <3>3, <3>4, <3>5, <3>6, LessAhead
    <3>8. Unbuilt' = Unbuilt /\ AheadOf(frames)' = AheadOf(Advanced)
      BY <2>1, <3>1 DEF Unbuilt, AheadOf, LeftOf, Effects
    <3> QED
      BY <2>1, <3>1, <3>7, <3>8 DEF NearerToEnd, LeftToBuild
  <2>4. CASE SourceHit(key, Advanced)
    <3>1. /\ key \in Unbuilt /\ outcome' = "building"
          /\ DOMAIN package' = DOMAIN package \cup {key}
      BY <2>4 DEF SourceHit, Store, Declares, Unbuilt
    <3>2. Unbuilt' \subseteq Unbuilt /\ key \notin Unbuilt'
      BY <2>1, <3>1 DEF Unbuilt
    <3>3. Cardinality(Unbuilt') < Cardinality(Unbuilt)
      BY <3>1, <3>2, LeftFinite, ProperSubset
    <3> QED
      BY <2>1, <3>1, <3>3 DEF NearerToEnd, LeftToBuild
  <2>5. CASE outcome' \in {"throw", "assert", "undefined", "overflow"}
    BY <2>1, <2>5 DEF NearerToEnd
  <2>6. kind \in {"request", "throw", "assert", "undefined"}
    <3>1. n \in 1 .. n
      BY <2>2
    <3>2. Current.key \in DOMAIN source.bodies
      BY <1>1, <2>2, <3>1 DEF Passed, PassedBy, Declares
    <3> QED
      BY <1>1, <2>1, <3>2, SourcesAssumption DEF Effects
  <2> QED
    BY <1>3, <2>3, <2>4, <2>5, <2>6 DEF Effect, resolveIdentifier, Fail
<1>4. CASE Finish
  <2>1. /\ outcome = "building" /\ outcome' = "building" /\ UNCHANGED source
        /\ frames # <<>> /\ frames' = Enclosing
        /\ DOMAIN package' = DOMAIN package \cup {Current.key}
    BY <1>4 DEF Finish, Store
  <2>2. /\ n \in Nat \ {0} /\ Current \in FrameOf(DOMAIN package) /\ Len(Enclosing) = n - 1
        /\ \A i \in 1 .. n - 1 : Enclosing[i] = frames[i]
    BY <1>1, <2>1, EnclosingFrames
  <2>3. /\ 1 .. Len(Enclosing) \subseteq 1 .. n /\ n \in 1 .. n /\ n \notin 1 .. Len(Enclosing)
        /\ \A i \in 1 .. Len(Enclosing) : LeftOf(Enclosing[i]) \subseteq LeftOf(frames[i])
    BY <2>2
  <2>4. Cardinality(AheadOf(Enclosing)) < Cardinality(AheadOf(frames))
    <3>1. 0 \in LeftOf(frames[n])
      BY DEF LeftOf
    <3> QED
      BY <2>3, <3>1, LessAhead
  <2>5. Unbuilt' = Unbuilt /\ AheadOf(frames)' = AheadOf(Enclosing)
    BY <2>1, <2>2 DEF Unbuilt, AheadOf, LeftOf, Effects, FrameOf
  <2> QED
    BY <2>1, <2>4, <2>5 DEF NearerToEnd, LeftToBuild
<1>5. CASE Return
  BY <1>5 DEF Return, NearerToEnd
<1> QED
  BY <1>2, <1>3, <1>4, <1>5 DEF BuildStep

(* However functions request each other, and themselves, no build of       *)
(* finitely many functions goes on for ever: every step brings its end     *)
(* nearer in a well-founded order (BuildCFG.cpp:230-263).                  *)
THEOREM BuildsEnd ==
  BuildSpec => [](LeftToBuild \in Nat \X Nat) /\ [][NearerToEnd]_buildVars
<1>1. BuildInv => LeftToBuild \in Nat \X Nat
  BY LeftFinite
<1>2. BuildInv /\ [BuildNext]_buildVars => [NearerToEnd]_buildVars
  BY StepNearer DEF BuildNext
<1> QED
  BY <1>1, <1>2, BuildInvariant, PTL DEF BuildSpec

----------------------------------------------------------------------------
(* The builder and the collector together.                                 *)

GC == INSTANCE GCCFGProofs WITH Key <- Keys, root <- source.root

ReferencesOf == [key \in DOMAIN package |-> References(package[key])]

\* No function that is built has the key of an intrinsic.
IIntrinsics ==
  \A key \in DOMAIN Intrinsics : ~OnStack(frames, key) /\ package[key] = Intrinsics[key]

\* The collector is given the package that was returned.
ICollecting ==
  \/ status = "waiting" /\ marked = {} /\ visits = <<>> /\ unswept = {}
  \/ status # "waiting" /\ outcome = "returned" /\ refs = ReferencesOf /\ GC!GCInv

TogetherInv == BuildInv /\ IIntrinsics /\ ICollecting

LEMMA SeqGrows ==
  ASSUME NEW S, NEW T, S \subseteq T, NEW s \in Seq(S)
  PROVE  s \in Seq(T)
<1>1. \A i \in 1 .. Len(s) : s[i] \in T
  BY ElementOfSeq
<1>2. Len(s) \in Nat /\ s = [i \in 1 .. Len(s) |-> s[i]]
  BY SeqDef
<1> QED
  BY <1>1, <1>2, SeqDef

(* The collector's assumptions are met.                                    *)
LEMMA CollectorKeys == GC!IsFiniteSet(Keys)
  BY KeysAssumption DEF GC!IsFiniteSet, IsFiniteSet

LEMMA CollectorPackages ==
  \A rs \in Packages : \E defined \in SUBSET Keys : rs \in [defined -> Seq(Keys)]
  BY DEF Packages

LEMMA CollectorStarts == GC!GCInit' => GC!GCInv'
<1>1. GC!GCInit => GC!GCInv
  BY CollectorKeys, CollectorPackages, GC!InitialState
<1> QED
  BY <1>1, PTL

LEMMA CollectorSteps == Collector!GCStep => GC!GCStep
  BY DEF Collector!GCStep, Collector!Start, Collector!acceptFunctionRef, Collector!FirstRef,
         Collector!Leave, Collector!BeginSweep, Collector!Sweep, Collector!EndSweep,
         Collector!Current, Collector!Enclosing, Collector!Advanced,
         GC!GCStep, GC!Start, GC!acceptFunctionRef, GC!FirstRef, GC!Leave, GC!BeginSweep, GC!Sweep,
         GC!EndSweep, GC!Current, GC!Enclosing, GC!Advanced

(* What a graph of a returned package looks up is in the package.          *)
LEMMA ReturnedGraphs ==
  ASSUME BuildInv, IIntrinsics, outcome = "returned"
  PROVE  /\ source.root \in DOMAIN package /\ DOMAIN package \subseteq Keys
         /\ \A key \in DOMAIN package : LooksUp(package[key], DOMAIN package)
<1>1. /\ source \in Sources /\ source.root \in DOMAIN package
      /\ DOMAIN Intrinsics \subseteq DOMAIN package
      /\ \A key \in Declared : Finished(key)
  BY DEF BuildInv, BuildTypeOK, IOutcome, IFinished, OnStack
<1>2. \A key \in Declared : key \in DOMAIN source.bodies
  BY <1>1 DEF Finished, Declares
<1>3. DOMAIN package \subseteq Keys
  BY <1>1, <1>2 DEF Keys, Declared
<1>4. ASSUME NEW key \in DOMAIN Intrinsics
      PROVE  LooksUp(package[key], DOMAIN package)
  BY <1>1, IntrinsicsAssumption DEF IIntrinsics, LooksUp
<1>5. ASSUME NEW key \in Declared
      PROVE  LooksUp(package[key], DOMAIN package)
  <2> DEFINE effects == source.bodies[key].effects
             requested == {effects[i].key : i \in DOMAIN effects}
  <2>1. Finished(key)
    BY <1>1
  <2>2. package[key] = source.bodies[key].root /\ \A i \in DOMAIN effects : effects[i].kind = "request"
    BY <2>1 DEF Finished, OnlyRequests, Effects
  <2>3. requested \subseteq DOMAIN package
    BY <2>1 DEF Finished, OnlyRequests, Requests, Effects
  <2>4. LooksUp(package[key], requested)
    BY <1>1, <1>2, <2>2, BodiesAssumption
  <2> QED
    BY <2>3, <2>4 DEF LooksUp
<1> QED
  BY <1>1, <1>3, <1>4, <1>5 DEF Declared

(* It is a package as the collector expects it.                            *)
LEMMA ReturnedPackage ==
  ASSUME BuildInv, IIntrinsics, outcome = "returned"
  PROVE  source.root \in Keys /\ ReferencesOf \in Packages
<1>1. /\ source.root \in DOMAIN package /\ DOMAIN package \subseteq Keys
      /\ \A key \in DOMAIN package : LooksUp(package[key], DOMAIN package)
  BY ReturnedGraphs
<1>2. ASSUME NEW key \in DOMAIN package
      PROVE  References(package[key]) \in Seq(Keys)
  <2>1. /\ References(package[key]) \in Seq(ReferredBy(package[key]))
        /\ ReferredBy(package[key]) \subseteq Keys
    BY <1>1 DEF LooksUp
  <2> QED
    BY <2>1, SeqGrows
<1> QED
  BY <1>1, <1>2 DEF ReferencesOf, Packages

----------------------------------------------------------------------------
(* Building goes on while the collector waits, and keeps the intrinsics.   *)
LEMMA BuildTogether ==
  ASSUME TogetherInv, Build
  PROVE  TogetherInv'
<1>1. BuildStep /\ UNCHANGED collectVars
  BY DEF Build
<1>2. BuildInv' /\ [KeepsFinished]_buildVars
  BY <1>1, StepBuildInv, StepKeeps DEF TogetherInv, BuildNext
<1>3. status = "waiting" /\ UNCHANGED <<status, marked, visits, unswept>>
  BY <1>1 DEF TogetherInv, ICollecting, collectVars, BuildStep, Start, Effect, Finish, Return
<1>4. IIntrinsics'
  BY <1>2 DEF TogetherInv, BuildInv, BuildTypeOK, IIntrinsics, KeepsFinished, buildVars, OnStack
<1> QED
  BY <1>2, <1>3, <1>4 DEF TogetherInv, ICollecting

LEMMA UnchangedBuild ==
  ASSUME BuildInv, IIntrinsics, UNCHANGED buildVars
  PROVE  (BuildInv /\ IIntrinsics)' /\ ReferencesOf' = ReferencesOf
<1>1. BuildInv'
  BY StepBuildInv
<1> QED
  BY <1>1 DEF buildVars, IIntrinsics, OnStack, ReferencesOf

(* The collector starts on the package in its initial state.               *)
LEMMA CollectTogether ==
  ASSUME TogetherInv, Collect
  PROVE  TogetherInv'
<1>1. (BuildInv /\ IIntrinsics)' /\ ReferencesOf' = ReferencesOf
  BY UnchangedBuild DEF TogetherInv, Collect
<1>2. outcome = "returned" /\ outcome' = "returned" /\ refs' = ReferencesOf /\ source' = source
  BY DEF Collect, buildVars, ReferencesOf
<1>3. source.root \in Keys /\ ReferencesOf \in Packages
  BY <1>2, ReturnedPackage DEF TogetherInv
<1>4. GC!GCInit'
  BY <1>2, <1>3 DEF TogetherInv, ICollecting, Collect, GC!GCInit, ReferencesOf
<1>5. GC!GCInv'
  BY <1>4, CollectorStarts
<1> QED
  BY <1>1, <1>2, <1>5 DEF TogetherInv, ICollecting, Collect

(* The collector goes on, and leaves the package as it was given.          *)
LEMMA CollectStepTogether ==
  ASSUME TogetherInv, CollectStep
  PROVE  TogetherInv'
<1>1. (BuildInv /\ IIntrinsics)' /\ ReferencesOf' = ReferencesOf
  BY UnchangedBuild DEF TogetherInv, CollectStep
<1>2. GC!GCStep /\ UNCHANGED outcome
  BY CollectorSteps DEF CollectStep, buildVars
<1>3. status # "waiting" /\ refs' = refs /\ status' # "waiting"
  BY <1>2 DEF GC!GCStep, GC!Start, GC!acceptFunctionRef, GC!Leave, GC!BeginSweep, GC!Sweep, GC!EndSweep
<1>4. outcome = "returned" /\ refs = ReferencesOf /\ GC!GCInv
  BY <1>3 DEF TogetherInv, ICollecting
<1>5. GC!GCInv'
  BY <1>2, <1>4, CollectorKeys, CollectorPackages, GC!StepInductive DEF GC!GCNext
<1> QED
  BY <1>1, <1>2, <1>3, <1>4, <1>5 DEF TogetherInv, ICollecting

LEMMA TogetherInvariant == BuildAndCollectSpec => []TogetherInv
<1>1. BuildAndCollectInit => TogetherInv
  <2> SUFFICES ASSUME BuildAndCollectInit
               PROVE  TogetherInv
    OBVIOUS
  <2>1. BuildInv
    BY InitBuildInv DEF BuildAndCollectInit
  <2>2. IIntrinsics
    BY DEF BuildAndCollectInit, BuildInit, IIntrinsics, OnStack
  <2> QED
    BY <2>1, <2>2 DEF BuildAndCollectInit, TogetherInv, ICollecting
<1>2. TogetherInv /\ [BuildAndCollectNext]_<<buildVars, collectVars>> => TogetherInv'
  <2> SUFFICES ASSUME TogetherInv, [BuildAndCollectNext]_<<buildVars, collectVars>>
               PROVE  TogetherInv'
    OBVIOUS
  <2>1. CASE BuildAndCollectStep
    BY <2>1, BuildTogether, CollectTogether, CollectStepTogether DEF BuildAndCollectStep
  <2>2. CASE UNCHANGED <<buildVars, collectVars>>
    <3>1. (BuildInv /\ IIntrinsics)' /\ ReferencesOf' = ReferencesOf
      BY <2>2, UnchangedBuild DEF TogetherInv
    <3>2. UNCHANGED collectVars /\ UNCHANGED <<outcome, source>>
      BY <2>2 DEF buildVars
    <3>3. GC!GCInv => GC!GCInv'
      BY <3>2, CollectorKeys, CollectorPackages, GC!StepInductive DEF GC!gcVars, collectVars
    <3> QED
      BY <3>1, <3>2, <3>3 DEF TogetherInv, ICollecting, collectVars
  <2> QED
    BY <2>1, <2>2 DEF BuildAndCollectNext
<1> QED
  BY <1>1, <1>2, PTL DEF BuildAndCollectSpec

(* Whatever a source's functions refer to, and whichever of them the root  *)
(* needs: each function that a function of the package refers to is in it, *)
(* as it is returned and when it has been collected, so that no lookup     *)
(* fails at run time (BuildCFG.cpp:184-207, GC-CFG.cpp:16-43).             *)
THEOREM ReferencesAlwaysResolved == BuildAndCollectSpec => []ReferencesResolved
<1>1. TogetherInv => ReferencesResolved
  <2> SUFFICES ASSUME TogetherInv, Whole
               PROVE  source.root \in DOMAIN Standing /\ Resolved(Standing)
    BY DEF ReferencesResolved
  <2> DEFINE D == DOMAIN package
  <2>1. source.root \in D /\ \A key \in D : LooksUp(package[key], D)
    BY ReturnedGraphs DEF TogetherInv, Whole
  <2>2. DOMAIN Standing = Left /\ \A key \in Left : Standing[key] = package[key]
    BY DEF Standing
  <2>3. CASE status = "waiting"
    BY <2>1, <2>2, <2>3 DEF Left, Resolved, LooksUp
  <2>4. CASE status = "done"
    <3>1. refs = ReferencesOf /\ GC!GCInv /\ Left = functions
      BY <2>4 DEF TogetherInv, ICollecting, Left
    <3>2. DOMAIN refs = D /\ \A key \in D : GC!RefsOf(key) = ReferredBy(package[key])
      <4>1. DOMAIN refs = D /\ \A key \in D : refs[key] = References(package[key])
        BY <3>1 DEF ReferencesOf
      <4> SUFFICES ASSUME NEW key \in D
                   PROVE  GC!RefsOf(key) = ReferredBy(package[key])
        BY <4>1
      <4>2. /\ refs[key] \in Seq(ReferredBy(package[key]))
            /\ \A k \in ReferredBy(package[key]) : \E i \in DOMAIN refs[key] : refs[key][i] = k
        BY <2>1, <4>1 DEF LooksUp
      <4>3. \A i \in DOMAIN refs[key] : refs[key][i] \in ReferredBy(package[key])
        BY <4>2
      <4> QED
        BY <4>2, <4>3 DEF GC!RefsOf
    <3>3. \A key \in DOMAIN refs : GC!RefsOf(key) \subseteq DOMAIN refs
      BY <2>1, <3>2 DEF LooksUp
    <3>4. /\ source.root \in functions
          /\ \A key \in functions : GC!RefsOf(key) \subseteq functions
      BY <2>1, <2>4, <3>1, <3>2, <3>3, CollectorKeys, CollectorPackages, GC!NothingDangles
    <3>5. functions \subseteq D
      BY <3>1, <3>2 DEF GC!GCInv, GC!GCTypeOK
    <3> QED
      BY <2>1, <2>2, <3>1, <3>2, <3>4, <3>5 DEF Resolved, LooksUp
  <2> QED
    BY <2>3, <2>4 DEF Whole
<1> QED
  BY <1>1, TogetherInvariant, PTL
=============================================================================
