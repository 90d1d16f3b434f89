----------------------------- MODULE GCCFGProofs -----------------------------
(***************************************************************************)
(* Theorems about GCCFG, for every package of finitely many functions.     *)
(*                                                                         *)
(* The inductive invariant is tri-colour: what a marked function refers to *)
(* is marked too, or still to be come to by one of the visits on the call  *)
(* stack; and everything marked or still to be come to lies in every       *)
(* closed set.  When no visit is left the marked functions are therefore a *)
(* closed set and the least one.                                           *)
(***************************************************************************)
EXTENDS GCCFG, FiniteSetTheorems, SequenceTheorems, TLAPS

\* Some visit has still to come to key.
IsPending(vs, key) == \E i \in 1 .. Len(vs) : \E j \in 1 .. Len(vs[i]) : vs[i][j] = key

\* A package's graphs refer to keys.
IRefs == DOMAIN refs \subseteq Key /\ \A key \in DOMAIN refs : refs[key] \in Seq(Key)

\* Before and during the mark phase nothing has been erased.
IUnswept == status \in {"starting", "marking", "undefined"} => functions = DOMAIN refs

\* Nothing is marked, or to be visited, that some closed set lacks.
INeeded ==
  \A S \in SUBSET Key : Closed(S) =>
    marked \subseteq S /\ \A key \in Key : IsPending(visits, key) => key \in S

\* What a marked function refers to has been, or will be, come to.
IReferred ==
  \A key \in marked \cap DOMAIN refs : \A ref \in RefsOf(key) :
    ref \in marked \/ IsPending(visits, ref)

IStatus ==
  /\ status = "starting" => marked = {} /\ visits = <<>>
  /\ status \in {"marking", "sweeping", "done"} => root \in marked
  /\ status \in {"sweeping", "done"} => visits = <<>>
  /\ status = "undefined" => root \notin DOMAIN refs
  /\ status = "done" => unswept = {}

\* The sweep has erased what is neither marked nor ahead of the iterator.
ISwept ==
  status \in {"sweeping", "done"} =>
    \A key \in DOMAIN refs : key \in functions <=> key \in marked \/ key \in unswept

\* Each graph on the call stack is that of another marked function.
IDepth == Len(visits) <= Cardinality(marked \cap DOMAIN refs)

GCInv ==
  /\ IRefs
  /\ GCTypeOK
  /\ IUnswept
  /\ INeeded
  /\ IReferred
  /\ IStatus
  /\ ISwept
  /\ IDepth

----------------------------------------------------------------------------
(* A sequence without its last element.                                    *)
LEMMA FrontOfSeq ==
  ASSUME NEW S, NEW s \in Seq(S), s # <<>>
  PROVE  LET front == SubSeq(s, 1, Len(s) - 1) IN
         /\ front \in Seq(S) /\ Len(front) = Len(s) - 1
         /\ \A i \in 1 .. Len(s) - 1 : front[i] = s[i]
  BY SMTT(30), LenProperties, ElementOfSeq, SubSeqProperties

(* The visit that comes to its next reference keeps all the others.        *)
LEMMA AdvancedVisits ==
  ASSUME visits \in Seq(Seq(Key)), visits # <<>>, Current # <<>>
  PROVE  /\ Current \in Seq(Key) /\ Head(Current) \in Key
         /\ Advanced \in Seq(Seq(Key)) /\ Len(Advanced) = Len(visits)
         /\ \A key \in Key :
              IsPending(visits, key) <=> key = Head(Current) \/ IsPending(Advanced, key)
<1> DEFINE n == Len(visits)
<1>1. n \in Nat \ {0} /\ Current \in Seq(Key) /\ Len(Current) \in Nat \ {0}
  BY DEF Current
<1>2. Enclosing \in Seq(Seq(Key)) /\ Len(Enclosing) = n - 1
      /\ \A i \in 1 .. n - 1 : Enclosing[i] = visits[i]
  BY <1>1, FrontOfSeq DEF Enclosing
<1>3. Tail(Current) \in Seq(Key) /\ Len(Tail(Current)) = Len(Current) - 1
      /\ \A j \in 1 .. Len(Current) - 1 : Tail(Current)[j] = Current[j + 1]
  BY <1>1
<1>4. Advanced \in Seq(Seq(Key)) /\ Len(Advanced) = n
      /\ Advanced[n] = Tail(Current) /\ \A i \in 1 .. n - 1 : Advanced[i] = visits[i]
  BY <1>1, <1>2, <1>3 DEF Advanced
<1>5. Head(Current) = Current[1] /\ Head(Current) \in Key
  BY <1>1
<1>6. ASSUME NEW key \in Key, IsPending(visits, key)
      PROVE  key = Head(Current) \/ IsPending(Advanced, key)
  <2>0. PICK i \in 1 .. n : \E j \in 1 .. Len(visits[i]) : visits[i][j] = key
    BY <1>6 DEF IsPending
  <2>1. PICK j \in 1 .. Len(visits[i]) : visits[i][j] = key
    BY <2>0
  <2>2. CASE i < n
    <3>1. i \in 1 .. Len(Advanced) /\ Advanced[i] = visits[i]
      BY <2>2, <1>1, <1>4
    <3> QED
      BY <3>1, <2>1, Zenon DEF IsPending
  <2>3. CASE i = n /\ j = 1
    BY <2>1, <2>3, <1>5 DEF Current
  <2>4. CASE i = n /\ j > 1
    <3>1. visits[i] = Current
      BY <2>4 DEF Current
    <3>2. j - 1 \in 1 .. Len(Advanced[n]) /\ Advanced[n][j - 1] = key
      BY <2>1, <2>4, <3>1, <1>1, <1>3, <1>4
    <3>3. n \in 1 .. Len(Advanced)
      BY <1>1, <1>4
    <3> QED
      BY <3>2, <3>3, Zenon DEF IsPending
  <2> QED
    BY <2>1, <2>2, <2>3, <2>4, <1>1
<1>7. IsPending(visits, Head(Current))
  BY <1>1, <1>5 DEF IsPending, Current
<1>8. ASSUME NEW key \in Key, IsPending(Advanced, key)
      PROVE  IsPending(visits, key)
  <2>0. PICK i \in 1 .. n : \E j \in 1 .. Len(Advanced[i]) : Advanced[i][j] = key
    BY <1>8, <1>4 DEF IsPending
  <2>1. PICK j \in 1 .. Len(Advanced[i]) : Advanced[i][j] = key
    BY <2>0
  <2>2. CASE i < n
    <3>1. i \in 1 .. Len(visits) /\ Advanced[i] = visits[i]
      BY <2>2, <1>1, <1>4
    <3> QED
      BY <3>1, <2>1, Zenon DEF IsPending
  <2>3. CASE i = n
    <3>1. j + 1 \in 1 .. Len(visits[n]) /\ visits[n][j + 1] = key
      BY <2>1, <2>3, <1>1, <1>3, <1>4 DEF Current
    <3> QED
      BY <3>1, <1>1 DEF IsPending
  <2> QED
    BY <2>1, <2>2, <2>3, <1>1
<1> QED
  BY <1>1, <1>4, <1>5, <1>6, <1>7, <1>8

(* What a visit more, of the graph s, adds.                                *)
LEMMA MoreVisits ==
  ASSUME NEW vs \in Seq(Seq(Key)), NEW s \in Seq(Key), NEW key
  PROVE  /\ Append(vs, s) \in Seq(Seq(Key)) /\ Len(Append(vs, s)) = Len(vs) + 1
         /\ IsPending(Append(vs, s), key) <=>
              IsPending(vs, key) \/ \E j \in 1 .. Len(s) : s[j] = key
<1>1. /\ Append(vs, s) \in Seq(Seq(Key)) /\ Len(Append(vs, s)) = Len(vs) + 1
      /\ Append(vs, s)[Len(vs) + 1] = s
      /\ \A i \in 1 .. Len(vs) : Append(vs, s)[i] = vs[i]
  OBVIOUS
<1>2. Len(vs) \in Nat
  OBVIOUS
<1>3. ASSUME IsPending(Append(vs, s), key)
      PROVE  IsPending(vs, key) \/ \E j \in 1 .. Len(s) : s[j] = key
  <2>1. PICK i \in 1 .. Len(vs) + 1 :
          \E j \in 1 .. Len(Append(vs, s)[i]) : Append(vs, s)[i][j] = key
    BY <1>1, <1>3 DEF IsPending
  <2>2. CASE i = Len(vs) + 1
    BY <2>1, <2>2, <1>1
  <2>3. CASE i \in 1 .. Len(vs)
    BY <2>1, <2>3, <1>1 DEF IsPending
  <2> QED
    BY <2>2, <2>3, <1>2
<1>4. ASSUME IsPending(vs, key)
      PROVE  IsPending(Append(vs, s), key)
  <2>1. PICK i \in 1 .. Len(vs) : \E j \in 1 .. Len(vs[i]) : vs[i][j] = key
    BY <1>4 DEF IsPending
  <2>2. i \in 1 .. Len(Append(vs, s)) /\ Append(vs, s)[i] = vs[i]
    BY <1>1, <1>2
  <2> QED
    BY <2>1, <2>2, Zenon DEF IsPending
<1>5. ASSUME \E j \in 1 .. Len(s) : s[j] = key
      PROVE  IsPending(Append(vs, s), key)
  BY <1>1, <1>2, <1>5 DEF IsPending
<1> QED
  BY <1>1, <1>3, <1>4, <1>5

(* The visit that returns had nothing left to come to.                     *)
LEMMA FewerVisits ==
  ASSUME visits \in Seq(Seq(Key)), visits # <<>>, Current = <<>>
  PROVE  /\ Enclosing \in Seq(Seq(Key)) /\ Len(Enclosing) = Len(visits) - 1
         /\ \A key : IsPending(visits, key) <=> IsPending(Enclosing, key)
<1> DEFINE n == Len(visits)
<1>1. n \in Nat \ {0}
  OBVIOUS
<1>2. Enclosing \in Seq(Seq(Key)) /\ Len(Enclosing) = n - 1
      /\ \A i \in 1 .. n - 1 : Enclosing[i] = visits[i]
  BY <1>1, FrontOfSeq DEF Enclosing
<1>3. Len(visits[n]) = 0
  BY DEF Current
<1>4. ASSUME NEW key, IsPending(visits, key)
      PROVE  IsPending(Enclosing, key)
  <2>1. PICK i \in 1 .. n : \E j \in 1 .. Len(visits[i]) : visits[i][j] = key
    BY <1>4 DEF IsPending
  <2>2. i # n
    BY <2>1, <1>3
  <2>3. i \in 1 .. Len(Enclosing) /\ Enclosing[i] = visits[i]
    BY <2>2, <1>1, <1>2
  <2> QED
    BY <2>1, <2>3, Zenon DEF IsPending
<1>5. ASSUME NEW key, IsPending(Enclosing, key)
      PROVE  IsPending(visits, key)
  <2>1. PICK i \in 1 .. Len(Enclosing) : \E j \in 1 .. Len(Enclosing[i]) : Enclosing[i][j] = key
    BY <1>5 DEF IsPending
  <2>2. i \in 1 .. Len(visits) /\ Enclosing[i] = visits[i]
    BY <1>1, <1>2
  <2> QED
    BY <2>1, <2>2, Zenon DEF IsPending
<1> QED
  BY <1>2, <1>4, <1>5

(* The functions of a package are finitely many.                           *)
LEMMA MarkedFinite ==
  ASSUME IRefs, NEW S
  PROVE  /\ IsFiniteSet(S \cap DOMAIN refs)
         /\ \A key \in DOMAIN refs \ S :
              Cardinality((S \cup {key}) \cap DOMAIN refs) = Cardinality(S \cap DOMAIN refs) + 1
         /\ \A key : Cardinality(S \cap DOMAIN refs) <= Cardinality((S \cup {key}) \cap DOMAIN refs)
         /\ Cardinality(S \cap DOMAIN refs) <= Cardinality(DOMAIN refs)
         /\ Cardinality(S \cap DOMAIN refs) \in Nat
<1>1. IsFiniteSet(DOMAIN refs)
  BY KeyAssumption, FS_Subset DEF IRefs
<1>2. \A T : IsFiniteSet(T \cap DOMAIN refs) /\ Cardinality(T \cap DOMAIN refs) <= Cardinality(DOMAIN refs)
      /\ Cardinality(T \cap DOMAIN refs) \in Nat
  BY <1>1, FS_Subset, FS_CardinalityType
<1>3. ASSUME NEW key \in DOMAIN refs \ S
      PROVE  Cardinality((S \cup {key}) \cap DOMAIN refs) = Cardinality(S \cap DOMAIN refs) + 1
  <2>1. (S \cup {key}) \cap DOMAIN refs = (S \cap DOMAIN refs) \cup {key}
    OBVIOUS
  <2> QED
    BY <1>2, <2>1, FS_AddElement
<1>4. ASSUME NEW key
      PROVE  Cardinality(S \cap DOMAIN refs) <= Cardinality((S \cup {key}) \cap DOMAIN refs)
  <2>1. S \cap DOMAIN refs \subseteq (S \cup {key}) \cap DOMAIN refs
    OBVIOUS
  <2> QED
    BY <1>2, <2>1, FS_Subset
<1> QED
  BY <1>2, <1>3, <1>4

----------------------------------------------------------------------------
LEMMA InitialState == GCInit => GCInv
<1> SUFFICES ASSUME GCInit PROVE GCInv
  OBVIOUS
<1>1. PICK defined \in SUBSET Key : refs \in [defined -> Seq(Key)]
  BY PackagesAssumption DEF GCInit
<1>2. IRefs
  BY <1>1 DEF IRefs
<1>3. ~ \E key : IsPending(visits, key)
  BY DEF GCInit, IsPending
<1>4. IDepth
  <2>1. Cardinality(marked \cap DOMAIN refs) \in Nat
    BY <1>2, MarkedFinite
  <2> QED
    BY <2>1 DEF GCInit, IDepth
<1> QED
  BY <1>2, <1>3, <1>4
     DEF GCInit, GCInv, GCTypeOK, IUnswept, INeeded, IReferred, IStatus, ISwept

LEMMA StartInductive == GCInv /\ Start => GCInv'
<1> SUFFICES ASSUME GCInv, Start PROVE GCInv'
  OBVIOUS
<1> USE DEF GCInv, Start
<1>1. CASE root \notin functions
  <2>1. status' = "undefined" /\ UNCHANGED <<root, refs, functions, marked, visits, unswept>>
    BY <1>1
  <2>2. (IRefs /\ GCTypeOK /\ IUnswept /\ IStatus /\ ISwept /\ IDepth)'
    BY <1>1, <2>1 DEF IRefs, GCTypeOK, IUnswept, IStatus, ISwept, IDepth
  <2>3. (INeeded /\ IReferred)'
    BY <2>1 DEF INeeded, IReferred, Closed, RefsOf, IsPending
  <2> QED
    BY <2>2, <2>3
<1>2. CASE root \in functions
  <2>1. functions = DOMAIN refs /\ root \in DOMAIN refs /\ refs[root] \in Seq(Key)
    BY <1>2 DEF IUnswept, IRefs
  <2>2. visits' = Append(<<>>, refs[root]) /\ marked' = {root} /\ status' = "marking"
    BY <1>2, <2>1
  <2>3. /\ visits' \in Seq(Seq(Key)) /\ Len(visits') = 1
        /\ \A key : IsPending(visits', key) <=> \E j \in 1 .. Len(refs[root]) : refs[root][j] = key
    BY <2>1, <2>2, MoreVisits, <<>> \in Seq(Seq(Key)) DEF IsPending
  <2>4. \A key : IsPending(visits', key) <=> key \in RefsOf(root)
    BY <2>1, <2>3 DEF RefsOf
  <2>5. (IRefs /\ GCTypeOK /\ IUnswept /\ IStatus /\ ISwept)'
    BY <2>1, <2>2, <2>3 DEF IRefs, GCTypeOK, IUnswept, IStatus, ISwept
  <2>6. INeeded'
    BY <2>1, <2>2, <2>4 DEF INeeded, Closed, RefsOf
  <2>7. IReferred'
    BY <2>2, <2>4 DEF IReferred, RefsOf
  <2>8. IDepth'
    <3>1. Cardinality(({} \cup {root}) \cap DOMAIN refs) = Cardinality({} \cap DOMAIN refs) + 1
      BY <2>1, MarkedFinite
    <3>2. Cardinality({} \cap DOMAIN refs) = 0 /\ {} \cup {root} = {root}
      BY FS_EmptySet
    <3> QED
      BY <3>1, <3>2, <2>2, <2>3 DEF IDepth
  <2> QED
    BY <2>5, <2>6, <2>7, <2>8
<1> QED
  BY <1>1, <1>2

LEMMA acceptFunctionRefInductive == GCInv /\ acceptFunctionRef => GCInv'
<1> SUFFICES ASSUME GCInv, acceptFunctionRef PROVE GCInv'
  OBVIOUS
<1> USE DEF GCInv
<1> DEFINE key == Head(Current)
<1>1. /\ visits \in Seq(Seq(Key)) /\ visits # <<>> /\ Current # <<>> /\ status = "marking"
      /\ UNCHANGED <<root, refs, functions, unswept, status>>
  BY DEF GCTypeOK, acceptFunctionRef
<1>2. /\ key \in Key
      /\ Advanced \in Seq(Seq(Key)) /\ Len(Advanced) = Len(visits)
      /\ \A k \in Key : IsPending(visits, k) <=> k = key \/ IsPending(Advanced, k)
  BY <1>1, AdvancedVisits
<1>3. functions = DOMAIN refs /\ IRefs /\ marked \subseteq Key
  BY <1>1 DEF IUnswept, GCTypeOK
<1>4. \A k \in DOMAIN refs : RefsOf(k) \subseteq Key
  BY <1>3 DEF IRefs, RefsOf
<1> HIDE DEF key
<1>5. CASE key \in marked \/ key \notin functions
  <2>1. visits' = Advanced /\ marked' = marked \cup {key}
    BY <1>5 DEF acceptFunctionRef, FirstRef, key
  <2>2. (IRefs /\ GCTypeOK /\ IUnswept /\ IStatus /\ ISwept)'
    BY <1>1, <1>2, <1>3, <2>1 DEF IRefs, GCTypeOK, IUnswept, IStatus, ISwept
  <2>3. INeeded'
    BY <1>1, <1>2, <2>1 DEF INeeded, Closed, RefsOf
  <2>4. IReferred'
    <3> SUFFICES ASSUME NEW k \in marked' \cap DOMAIN refs, NEW ref \in RefsOf(k)
                 PROVE  ref \in marked' \/ IsPending(visits', ref)
      BY <1>1 DEF IReferred, RefsOf
    <3>1. k \in marked
      BY <1>5, <1>3, <2>1
    <3>2. ref \in marked \/ IsPending(visits, ref)
      BY <3>1 DEF IReferred
    <3> QED
      BY <3>2, <1>2, <1>4, <2>1
  <2>5. IDepth'
    <3>1. Cardinality(marked \cap DOMAIN refs) <= Cardinality(marked' \cap DOMAIN refs)
      BY <1>3, <2>1, MarkedFinite
    <3>2. Cardinality(marked \cap DOMAIN refs) \in Nat /\ Cardinality(marked' \cap DOMAIN refs) \in Nat
      BY <1>3, MarkedFinite
    <3> QED
      BY <3>1, <3>2, <1>1, <1>2, <2>1 DEF IDepth
  <2> QED
    BY <2>2, <2>3, <2>4, <2>5
<1>6. CASE key \notin marked /\ key \in functions
  <2>1. visits' = Append(Advanced, refs[key]) /\ marked' = marked \cup {key}
    BY <1>6 DEF acceptFunctionRef, FirstRef, key
  <2>2. key \in DOMAIN refs /\ refs[key] \in Seq(Key)
    BY <1>3, <1>6 DEF IRefs
  <2>3. /\ visits' \in Seq(Seq(Key)) /\ Len(visits') = Len(visits) + 1
        /\ \A k : IsPending(visits', k) <=>
             IsPending(Advanced, k) \/ \E j \in 1 .. Len(refs[key]) : refs[key][j] = k
    BY <1>2, <2>1, <2>2, MoreVisits
  <2>4. \A k : IsPending(visits', k) <=> IsPending(Advanced, k) \/ k \in RefsOf(key)
    <3>1. \A k : k \in RefsOf(key) <=> \E j \in 1 .. Len(refs[key]) : refs[key][j] = k
      BY <2>2 DEF RefsOf
    <3> QED
      BY <2>3, <3>1
  <2>5. (IRefs /\ GCTypeOK /\ IUnswept /\ IStatus /\ ISwept)'
    BY <1>1, <1>2, <1>3, <2>1, <2>3 DEF IRefs, GCTypeOK, IUnswept, IStatus, ISwept
  <2>6. INeeded'
    <3> SUFFICES ASSUME NEW S \in SUBSET Key, Closed(S)
                 PROVE  marked' \subseteq S /\ \A k \in Key : IsPending(visits', k) => k \in S
      BY <1>1 DEF INeeded, Closed, RefsOf
    <3>1. key \in S /\ marked \subseteq S /\ \A k \in Key : IsPending(Advanced, k) => k \in S
      BY <1>2 DEF INeeded
    <3>2. RefsOf(key) \subseteq S
      BY <3>1, <2>2 DEF Closed
    <3> QED
      BY <3>1, <3>2, <2>1, <2>4
  <2>7. IReferred'
    <3> SUFFICES ASSUME NEW k \in marked' \cap DOMAIN refs, NEW ref \in RefsOf(k)
                 PROVE  ref \in marked' \/ IsPending(visits', ref)
      BY <1>1 DEF IReferred, RefsOf
    <3>1. CASE k = key
      BY <3>1, <2>4
    <3>2. CASE k \in marked
      <4>1. ref \in marked \/ IsPending(visits, ref)
        BY <3>2 DEF IReferred
      <4> QED
        BY <4>1, <1>2, <1>4, <2>1, <2>4
    <3> QED
      BY <3>1, <3>2, <2>1
  <2>8. IDepth'
    <3>1. Cardinality(marked' \cap DOMAIN refs) = Cardinality(marked \cap DOMAIN refs) + 1
      BY <1>3, <1>6, <2>1, <2>2, MarkedFinite
    <3>2. Cardinality(marked \cap DOMAIN refs) \in Nat
      BY <1>3, MarkedFinite
    <3> QED
      BY <3>1, <3>2, <1>1, <2>3 DEF IDepth
  <2> QED
    BY <2>5, <2>6, <2>7, <2>8
<1> QED
  BY <1>5, <1>6

LEMMA LeaveInductive == GCInv /\ Leave => GCInv'
<1> SUFFICES ASSUME GCInv, Leave PROVE GCInv'
  OBVIOUS
<1> USE DEF GCInv
<1>1. /\ visits \in Seq(Seq(Key)) /\ visits # <<>> /\ Current = <<>>
      /\ visits' = Enclosing /\ status = "marking"
      /\ UNCHANGED <<root, refs, functions, marked, unswept, status>>
  BY DEF GCTypeOK, Leave
<1>2. /\ visits' \in Seq(Seq(Key)) /\ Len(visits') = Len(visits) - 1
      /\ \A k : IsPending(visits, k) <=> IsPending(visits', k)
  BY <1>1, FewerVisits
<1>3. (IRefs /\ GCTypeOK /\ IUnswept /\ IStatus /\ ISwept)'
  BY <1>1, <1>2 DEF IRefs, GCTypeOK, IUnswept, IStatus, ISwept
<1>4. INeeded'
  BY <1>1, <1>2 DEF INeeded, Closed, RefsOf
<1>5. IReferred'
  BY <1>1, <1>2 DEF IReferred, RefsOf
<1>6. IDepth'
  <2>1. Cardinality(marked \cap DOMAIN refs) \in Nat
    BY MarkedFinite
  <2> QED
    BY <1>1, <1>2, <2>1 DEF IDepth
<1> QED
  BY <1>3, <1>4, <1>5, <1>6

(* Without a visit left, the marked functions are a closed set.            *)
LEMMA MarkedClosed ==
  ASSUME GCInv, visits = <<>>, status \in {"marking", "sweeping", "done"}
  PROVE  Closed(marked)
<1>1. \A key : ~IsPending(visits, key)
  BY DEF IsPending
<1> QED
  BY <1>1 DEF GCInv, IReferred, IStatus, Closed

(* When the collector has returned, what is left of a package in which     *)
(* every reference was defined has its references defined: nothing that is *)
(* kept refers to what was erased.                                         *)
LEMMA NothingDangles ==
  ASSUME GCInv, status = "done", root \in DOMAIN refs,
         \A key \in DOMAIN refs : RefsOf(key) \subseteq DOMAIN refs
  PROVE  root \in functions /\ \A key \in functions : RefsOf(key) \subseteq functions
<1>1. Closed(marked)
  BY MarkedClosed DEF GCInv, IStatus
<1>2. functions = marked \cap DOMAIN refs
  BY DEF GCInv, GCTypeOK, ISwept, IStatus
<1> QED
  BY <1>1, <1>2 DEF Closed

LEMMA SweepInductive ==
  GCInv /\ (BeginSweep \/ EndSweep \/ \E key \in unswept : Sweep(key)) => GCInv'
<1> SUFFICES ASSUME GCInv, BeginSweep \/ EndSweep \/ \E key \in unswept : Sweep(key)
             PROVE  GCInv'
  OBVIOUS
<1> USE DEF GCInv
<1>1. UNCHANGED <<root, refs, marked, visits>>
  BY DEF BeginSweep, EndSweep, Sweep
<1>2. INeeded' /\ IReferred' /\ IRefs' /\ IDepth'
  BY <1>1 DEF INeeded, IReferred, IRefs, IDepth, Closed, RefsOf
<1>3. CASE BeginSweep
  BY <1>2, <1>3 DEF BeginSweep, GCTypeOK, IUnswept, IStatus, ISwept
<1>4. CASE EndSweep
  BY <1>2, <1>4 DEF EndSweep, GCTypeOK, IUnswept, IStatus, ISwept
<1>5. ASSUME NEW key \in unswept, Sweep(key)
      PROVE  GCInv'
  BY <1>2, <1>5 DEF Sweep, GCTypeOK, IUnswept, IStatus, ISwept
<1> QED
  BY <1>3, <1>4, <1>5

----------------------------------------------------------------------------
LEMMA StepInductive == GCInv /\ [GCNext]_gcVars => GCInv'
<1> SUFFICES ASSUME GCInv, [GCNext]_gcVars PROVE GCInv'
  OBVIOUS
<1>1. CASE GCStep
  BY <1>1, StartInductive, acceptFunctionRefInductive, LeaveInductive, SweepInductive DEF GCStep
<1>2. CASE UNCHANGED gcVars
  BY <1>2 DEF gcVars, GCInv, IRefs, GCTypeOK, IUnswept, INeeded, IReferred, IStatus, ISwept,
              IDepth, Closed, RefsOf, IsPending
<1> QED
  BY <1>1, <1>2 DEF GCNext, Returned

(* The invariant holds in every state of every run.                        *)
THEOREM GCInvariant == GCSpec => []GCInv
  BY InitialState, StepInductive, PTL DEF GCSpec

(* Nothing the root needs is erased, at any point (GC-CFG.cpp:67-76).      *)
THEOREM NothingNeededErased == GCSpec => []NeverErasesNeeded
<1>1. GCInv => NeverErasesNeeded
  <2> SUFFICES ASSUME GCInv, NEW key \in Needed \cap DOMAIN refs
               PROVE  key \in functions
    BY DEF NeverErasesNeeded
  <2>1. CASE functions = DOMAIN refs
    BY <2>1
  <2>2. CASE status \in {"sweeping", "done"}
    <3>1. Closed(marked) /\ marked \in SUBSET Key
      BY <2>2, MarkedClosed DEF GCInv, IStatus, GCTypeOK
    <3>2. key \in marked
      BY <3>1 DEF Needed
    <3> QED
      BY <3>2, <2>2 DEF GCInv, ISwept
  <2> QED
    BY <2>1, <2>2 DEF GCInv, IUnswept, GCTypeOK
<1> QED
  BY <1>1, GCInvariant, PTL

(* What is left is what the root needs, whatever the package's functions,  *)
(* their references and the order of the sweep.                            *)
THEOREM WhatIsNeededKept == GCSpec => []KeepsWhatIsNeeded
<1>1. GCInv => KeepsWhatIsNeeded
  <2> SUFFICES ASSUME GCInv, status = "done" PROVE functions = Needed \cap DOMAIN refs
    BY DEF KeepsWhatIsNeeded
  <2>1. Closed(marked) /\ marked \in SUBSET Key
    BY MarkedClosed DEF GCInv, IStatus, GCTypeOK
  <2>2. marked = Needed
    BY <2>1 DEF GCInv, INeeded, Needed
  <2> QED
    BY <2>2 DEF GCInv, GCTypeOK, IStatus, ISwept
<1> QED
  BY <1>1, GCInvariant, PTL

(* The visitor recurses no deeper than the package has functions.          *)
THEOREM RecursionIsBounded == GCSpec => []RecursionBounded
<1>1. GCInv => RecursionBounded
  <2> SUFFICES ASSUME GCInv PROVE RecursionBounded
    OBVIOUS
  <2>1. Cardinality(marked \cap DOMAIN refs) <= Cardinality(DOMAIN refs)
        /\ Cardinality(marked \cap DOMAIN refs) \in Nat
    BY MarkedFinite DEF GCInv
  <2>2. Len(visits) \in Nat /\ Cardinality(DOMAIN refs) \in Nat
    BY MarkedFinite, FS_CardinalityType, FS_Subset, KeyAssumption DEF GCInv, GCTypeOK, IRefs
  <2> QED
    BY <2>1, <2>2 DEF GCInv, IDepth, RecursionBounded
<1> QED
  BY <1>1, GCInvariant, PTL

(* The state stays well typed.                                             *)
THEOREM GCTypeCorrect == GCSpec => []GCTypeOK
<1>1. GCInv => GCTypeOK
  BY DEF GCInv
<1> QED
  BY <1>1, GCInvariant, PTL

----------------------------------------------------------------------------
(* Why the collector ends: what is left to do gets less with every step.   *)

Unmarked == DOMAIN refs \ marked

\* What the visits have left: their references, and to return.
ToCome(vs) == UNION {{i} \X (0 .. Len(vs[i])) : i \in 1 .. Len(vs)}

LeftToDo == <<Cardinality(Unmarked), Cardinality(ToCome(visits)), Cardinality(unswept)>>

\* A later phase, or less left to do in the same one: a mark phase may lengthen
\* the visits, but only by marking one function more.
NearerToEnd ==
  \/ status = "starting" /\ status' \in {"marking", "undefined"}
  \/ /\ status = "marking" /\ status' = "marking"
     /\ \/ LeftToDo[1]' < LeftToDo[1]
        \/ LeftToDo[1]' = LeftToDo[1] /\ LeftToDo[2]' < LeftToDo[2]
  \/ status = "marking" /\ status' = "sweeping"
  \/ status = "sweeping" /\ status' = "sweeping" /\ LeftToDo[3]' < LeftToDo[3]
  \/ status = "sweeping" /\ status' = "done"

LEMMA ProperSubset ==
  ASSUME NEW S, IsFiniteSet(S), NEW T, T \subseteq S, NEW x \in S, x \notin T
  PROVE  Cardinality(T) < Cardinality(S) /\ Cardinality(T) \in Nat /\ Cardinality(S) \in Nat
<1>1. IsFiniteSet(T) /\ Cardinality(T) <= Cardinality(S) /\ Cardinality(T) # Cardinality(S)
  BY FS_Subset
<1>2. Cardinality(T) \in Nat /\ Cardinality(S) \in Nat
  BY <1>1, FS_CardinalityType
<1> QED
  BY <1>1, <1>2

LEMMA PairToCome ==
  ASSUME NEW vs \in Seq(Seq(Key)), NEW i, NEW j
  PROVE  <<i, j>> \in ToCome(vs) <=> i \in 1 .. Len(vs) /\ j \in 0 .. Len(vs[i])
  BY DEF ToCome

LEMMA ToComeFinite ==
  ASSUME NEW vs \in Seq(Seq(Key))
  PROVE  IsFiniteSet(ToCome(vs))
<1> DEFINE I == 1 .. Len(vs)
           f == [i \in I |-> {i} \X (0 .. Len(vs[i]))]
           R == {f[i] : i \in I}
<1>1. IsFiniteSet(I)
  <2>1. Len(vs) \in Nat
    OBVIOUS
  <2> QED
    BY <2>1, FS_Interval
<1>2. f \in Surjection(I, R)
  BY DEF Surjection
<1>3. IsFiniteSet(R)
  <2> HIDE DEF f, I, R
  <2> QED
    BY <1>1, <1>2, FS_Surjection
<1>4. ASSUME NEW i \in I
      PROVE  IsFiniteSet({i} \X (0 .. Len(vs[i])))
  <2>1. Len(vs[i]) \in Nat
    OBVIOUS
  <2>2. IsFiniteSet({i})
    BY FS_Singleton
  <2>3. IsFiniteSet(0 .. Len(vs[i]))
    <3>1. 0 \in Int /\ Len(vs[i]) \in Int
      BY <2>1
    <3> QED
      BY <3>1, FS_Interval, Zenon
  <2> QED
    BY <2>2, <2>3, FS_Product
<1>5. \A T \in R : IsFiniteSet(T)
  BY <1>4
<1>6. ToCome(vs) = UNION R
  BY DEF ToCome
<1> HIDE DEF R
<1> QED
  BY <1>3, <1>5, <1>6, FS_UNION

(* Shorter visits, or fewer, have less to come to.                         *)
LEMMA LessToCome ==
  ASSUME NEW vs \in Seq(Seq(Key)), NEW ws \in Seq(Seq(Key)), Len(ws) <= Len(vs),
         \A i \in 1 .. Len(ws) : Len(ws[i]) <= Len(vs[i]),
         NEW i \in 1 .. Len(vs), NEW j \in 0 .. Len(vs[i]),
         ~(i \in 1 .. Len(ws) /\ j \in 0 .. Len(ws[i]))
  PROVE  Cardinality(ToCome(ws)) < Cardinality(ToCome(vs))
<1>1. ASSUME NEW k \in 1 .. Len(ws)
      PROVE  k \in 1 .. Len(vs) /\ 0 .. Len(ws[k]) \subseteq 0 .. Len(vs[k])
  <2>1. Len(ws) \in Nat /\ Len(vs) \in Nat
    OBVIOUS
  <2>2. k \in 1 .. Len(vs)
    BY <2>1
  <2>3. Len(ws[k]) \in Nat /\ Len(vs[k]) \in Nat /\ Len(ws[k]) <= Len(vs[k])
    BY <2>2, ElementOfSeq, LenProperties
  <2> QED
    BY <2>2, <2>3
<1>2. ToCome(ws) \subseteq ToCome(vs)
  <2> SUFFICES ASSUME NEW p \in ToCome(ws)
               PROVE  p \in ToCome(vs)
    OBVIOUS
  <2>1. PICK k \in 1 .. Len(ws) : p \in {k} \X (0 .. Len(ws[k]))
    BY Zenon DEF ToCome
  <2>2. k \in 1 .. Len(vs) /\ 0 .. Len(ws[k]) \subseteq 0 .. Len(vs[k])
    BY <1>1
  <2>3. p \in {k} \X (0 .. Len(vs[k]))
    BY <2>1, <2>2
  <2> QED
    BY <2>2, <2>3, Zenon DEF ToCome
<1>3. <<i, j>> \in ToCome(vs) /\ <<i, j>> \notin ToCome(ws)
  BY PairToCome
<1>4. IsFiniteSet(ToCome(vs))
  BY ToComeFinite
<1> QED
  BY <1>2, <1>3, <1>4, ProperSubset

(* A visit that comes to a reference has one less to come to.              *)
LEMMA AdvancedLess ==
  ASSUME visits \in Seq(Seq(Key)), visits # <<>>, Current # <<>>
  PROVE  Cardinality(ToCome(Advanced)) < Cardinality(ToCome(visits))
<1> DEFINE n == Len(visits)
<1>1. /\ n \in Nat \ {0} /\ Current = visits[n]
      /\ Current \in Seq(Key) /\ Len(Current) \in Nat \ {0}
  BY DEF Current
<1>2. /\ Enclosing \in Seq(Seq(Key)) /\ Len(Enclosing) = n - 1
      /\ \A i \in 1 .. n - 1 : Enclosing[i] = visits[i]
  BY <1>1, FrontOfSeq DEF Enclosing
<1>3. Tail(Current) \in Seq(Key) /\ Len(Tail(Current)) = Len(Current) - 1
  BY <1>1
<1>4. /\ Advanced \in Seq(Seq(Key)) /\ Len(Advanced) = n /\ Advanced[n] = Tail(Current)
      /\ \A i \in 1 .. n - 1 : Advanced[i] = visits[i]
  BY <1>1, <1>2, <1>3 DEF Advanced
<1>5. \A i \in 1 .. n : Len(Advanced[i]) <= Len(visits[i])
  <2> SUFFICES ASSUME NEW i \in 1 .. n
               PROVE  Len(Advanced[i]) <= Len(visits[i])
    OBVIOUS
  <2>1. Len(visits[i]) \in Nat
    BY ElementOfSeq, LenProperties
  <2>2. CASE i = n
    BY <2>2, <1>1, <1>3, <1>4
  <2>3. CASE i # n
    <3>1. Advanced[i] = visits[i]
      BY <2>3, <1>1, <1>4
    <3> HIDE DEF n
    <3> QED
      BY <2>1, <3>1
  <2> QED
    BY <2>2, <2>3
<1>6. /\ n \in 1 .. n /\ Len(Current) \in 0 .. Len(visits[n])
      /\ ~(Len(Current) \in 0 .. Len(Advanced[n]))
  BY <1>1, <1>3, <1>4
<1>7. Len(Advanced) <= n
  BY <1>1, <1>4
<1> QED
  BY <1>4, <1>5, <1>6, <1>7, LessToCome

(* So has a visit that returns.                                            *)
LEMMA EnclosingLess ==
  ASSUME visits \in Seq(Seq(Key)), visits # <<>>, Current = <<>>
  PROVE  Cardinality(ToCome(Enclosing)) < Cardinality(ToCome(visits))
<1> DEFINE n == Len(visits)
<1>1. n \in Nat \ {0} /\ Len(visits[n]) = 0
  BY DEF Current
<1>2. /\ Enclosing \in Seq(Seq(Key)) /\ Len(Enclosing) = n - 1
      /\ \A i \in 1 .. n - 1 : Enclosing[i] = visits[i]
  BY <1>1, FrontOfSeq DEF Enclosing
<1>3. \A i \in 1 .. n - 1 : Len(Enclosing[i]) <= Len(visits[i])
  <2>1. ASSUME NEW i \in 1 .. n
        PROVE  Len(visits[i]) \in Nat
    BY ElementOfSeq, LenProperties
  <2> QED
    BY <2>1, <1>1, <1>2
<1>4. n \in 1 .. n /\ 0 \in 0 .. Len(visits[n]) /\ ~(n \in 1 .. Len(Enclosing))
  BY <1>1, <1>2
<1>5. Len(Enclosing) <= n
  BY <1>1, <1>2
<1> QED
  BY <1>2, <1>3, <1>4, <1>5, LessToCome

(* What is left to do is measured by numbers.                              *)
LEMMA LeftToDoCounts ==
  ASSUME GCInv
  PROVE  /\ LeftToDo \in Nat \X Nat \X Nat
         /\ IsFiniteSet(Unmarked) /\ IsFiniteSet(unswept)
<1>1. IsFiniteSet(DOMAIN refs)
  BY KeyAssumption, FS_Subset DEF GCInv, IRefs
<1>2. IsFiniteSet(Unmarked) /\ IsFiniteSet(unswept)
  BY <1>1, FS_Subset DEF GCInv, GCTypeOK, Unmarked
<1>3. IsFiniteSet(ToCome(visits))
  BY ToComeFinite DEF GCInv, GCTypeOK
<1> QED
  BY <1>2, <1>3, FS_CardinalityType DEF LeftToDo

LEMMA StepNearer == GCInv /\ GCStep => NearerToEnd
<1> SUFFICES ASSUME GCInv, GCStep
             PROVE  NearerToEnd
  OBVIOUS
<1>1. /\ visits \in Seq(Seq(Key)) /\ IsFiniteSet(Unmarked) /\ IsFiniteSet(unswept)
      /\ unswept \subseteq functions
  BY LeftToDoCounts DEF GCInv, GCTypeOK
<1>2. CASE Start
  BY <1>2 DEF Start, NearerToEnd
<1>3. CASE acceptFunctionRef
  <2> DEFINE key == Head(Current)
  <2>1. /\ status = "marking" /\ status' = "marking" /\ UNCHANGED <<refs, functions>>
        /\ visits # <<>> /\ Current # <<>>
    BY <1>3 DEF acceptFunctionRef
  <2>2. functions = DOMAIN refs
    BY <2>1 DEF GCInv, IUnswept
  <2> HIDE DEF key
  <2>3. CASE key \in marked \/ key \notin functions
    <3>1. visits' = Advanced /\ marked' = marked \cup {key}
      BY <1>3, <2>3 DEF acceptFunctionRef, FirstRef, key
    <3>2. Unmarked' = Unmarked
      BY <2>1, <2>2, <2>3, <3>1 DEF Unmarked
    <3>3. Cardinality(ToCome(visits')) < Cardinality(ToCome(visits))
      BY <1>1, <2>1, <3>1, AdvancedLess
    <3> QED
      BY <2>1, <3>2, <3>3 DEF NearerToEnd, LeftToDo
  <2>4. CASE key \notin marked /\ key \in functions
    <3>1. marked' = marked \cup {key}
      BY <1>3, <2>4 DEF acceptFunctionRef, FirstRef, key
    <3>2. Unmarked' \subseteq Unmarked /\ key \in Unmarked /\ key \notin Unmarked'
      BY <2>1, <2>2, <2>4, <3>1 DEF Unmarked
    <3>3. Cardinality(Unmarked') < Cardinality(Unmarked)
      BY <1>1, <3>2, ProperSubset
    <3> QED
      BY <2>1, <3>3 DEF NearerToEnd, LeftToDo
  <2> QED
    BY <2>3, <2>4
<1>4. CASE Leave
  <2>1. /\ status = "marking" /\ status' = "marking" /\ UNCHANGED <<refs, marked>>
        /\ visits # <<>> /\ Current = <<>> /\ visits' = Enclosing
    BY <1>4 DEF Leave
  <2>2. Cardinality(ToCome(visits')) < Cardinality(ToCome(visits))
    BY <1>1, <2>1, EnclosingLess
  <2>3. Unmarked' = Unmarked
    BY <2>1 DEF Unmarked
  <2> QED
    BY <2>1, <2>2, <2>3 DEF NearerToEnd, LeftToDo
<1>5. CASE BeginSweep \/ EndSweep
  BY <1>5 DEF BeginSweep, EndSweep, NearerToEnd
<1>6. ASSUME NEW key \in unswept, Sweep(key)
      PROVE  NearerToEnd
  <2>1. status = "sweeping" /\ status' = "sweeping" /\ unswept' = unswept \ {key}
    BY <1>6 DEF Sweep
  <2>2. Cardinality(unswept') < Cardinality(unswept)
    BY <1>1, <2>1, ProperSubset
  <2> QED
    BY <2>1, <2>2 DEF NearerToEnd, LeftToDo
<1> QED
  BY <1>2, <1>3, <1>4, <1>5, <1>6 DEF GCStep

(* Cycles of references cannot keep the collector busy for ever: every     *)
(* step brings its end nearer in a well-founded order, for packages of any *)
(* size.  What Terminates adds is that the thread goes on                  *)
(* (GC-CFG.cpp:29-41 and 67-77).                                           *)
THEOREM StepsAreNumbered ==
  GCSpec => [](LeftToDo \in Nat \X Nat \X Nat) /\ [][NearerToEnd]_gcVars
<1>1. GCInv => LeftToDo \in Nat \X Nat \X Nat
  BY LeftToDoCounts
<1>2. GCInv /\ [GCNext]_gcVars => [NearerToEnd]_gcVars
  BY StepNearer DEF GCNext, Returned
<1> QED
  BY <1>1, <1>2, GCInvariant, PTL DEF GCSpec
=============================================================================
