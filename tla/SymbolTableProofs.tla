-------------------------- MODULE SymbolTableProofs --------------------------
(***************************************************************************)
(* Theorems about SymbolTable, for any threads, strings and number of ids. *)
(*                                                                         *)
(* The table and the names are each other's inverse but for the one string *)
(* that the thread holding the mutex has entered in the table and not yet  *)
(* among the names.  Names are only ever added, so that what was issued    *)
(* stays true.  Seen when no thread holds the mutex, the names are those   *)
(* that Interning has, and each call changes them in one step.             *)
(***************************************************************************)
EXTENDS SymbolTable, SequenceTheorems, TLAPS

IFunctions == DOMAIN call = Thread /\ DOMAIN answer = Thread

\* The threads in a lock_guard's scope.
IMutex ==
  \A t \in Thread : lock = t <=> pc[t] \in {"finding", "storing", "reading", "unlocking"}

ICalls ==
  \A t \in Thread :
    /\ pc[t] \in {"finding", "storing"} => call[t].op = "get"
    /\ pc[t] = "reading" => call[t].op \in {"name", "print"}
    /\ pc[t] # "idle" /\ call[t].op = "name" => Issued(call[t].id)

\* A name's symbol is the one the table has.
INames ==
  \A i \in 1 .. Len(symbolValues) :
    symbolValues[i] \in DOMAIN table /\ table[symbolValues[i]] = i - 1

\* The table's string s has a name.
Named(s) == table[s] < Len(symbolValues) /\ symbolValues[table[s] + 1] = s

ITable ==
  \A s \in DOMAIN table :
    Named(s) \/ \E t \in Thread : pc[t] = "storing" /\ call[t].str = s

IStoring ==
  \A t \in Thread :
    pc[t] = "storing" => /\ call[t].str \in DOMAIN table
                         /\ table[call[t].str] = Len(symbolValues)
                         /\ answer[t] = [id |-> Len(symbolValues)]

IAnswers ==
  \A t \in Thread :
    pc[t] = "unlocking" =>
      /\ call[t].op = "get" =>
           /\ call[t].str \in DOMAIN table /\ Named(call[t].str)
           /\ answer[t] = [id |-> table[call[t].str]]
      /\ call[t].op \in {"name", "print"} =>
           answer[t] = [name |-> IF call[t].id >= Len(symbolValues)
                                   THEN Invalid ELSE symbolValues[call[t].id + 1]]

SymbolInv ==
  /\ SymbolTypeOK
  /\ IFunctions
  /\ IMutex
  /\ ICalls
  /\ INames
  /\ ITable
  /\ IStoring
  /\ IAnswers
  /\ NamesKept

----------------------------------------------------------------------------
LEMMA SymbolInitial == SymbolInit => SymbolInv
<1> SUFFICES ASSUME SymbolInit PROVE SymbolInv
  OBVIOUS
<1>1. SymbolTypeOK /\ IFunctions
  <2>1. DOMAIN table = {} /\ symbolValues \in Seq(String) /\ lock \in Thread \cup {Free}
    BY DEF SymbolInit
  <2>2. /\ pc \in [Thread -> Labels] /\ \A t \in Thread : pc[t] = "idle"
        /\ DOMAIN call = Thread /\ DOMAIN answer = Thread
    BY DEF SymbolInit, Labels
  <2>3. issued \subseteq Issue /\ aborted \in BOOLEAN
    BY DEF SymbolInit
  <2> QED
    BY <2>1, <2>2, <2>3 DEF SymbolTypeOK, IFunctions
<1>2. IMutex /\ ICalls /\ IStoring /\ IAnswers
  BY FreeAssumption DEF SymbolInit, IMutex, ICalls, IStoring, IAnswers
<1>3. INames /\ ITable /\ NamesKept
  BY DEF SymbolInit, INames, ITable, NamesKept
<1> QED
  BY <1>1, <1>2, <1>3 DEF SymbolInv

LEMMA BeginInductive ==
  ASSUME SymbolInv, NEW t \in Thread, NEW c \in Call, Begin(t, c)
  PROVE  SymbolInv'
<1> USE DEF SymbolInv, Begin, Goto
<1>1. (SymbolTypeOK /\ IFunctions)'
  BY DEF SymbolTypeOK, IFunctions, Labels
<1>2. (IMutex /\ ICalls /\ INames /\ ITable /\ IStoring /\ IAnswers /\ NamesKept)'
  BY DEF SymbolTypeOK, IFunctions, IMutex, ICalls, Issued, INames, ITable, IStoring, IAnswers,
         NamesKept, Named
<1> QED
  BY <1>1, <1>2

LEMMA AcquireInductive ==
  ASSUME SymbolInv, NEW t \in Thread, Acquire(t)
  PROVE  SymbolInv'
<1> USE DEF SymbolInv, Acquire, Goto
<1>1. (SymbolTypeOK /\ IFunctions)'
  BY DEF SymbolTypeOK, IFunctions, Labels
<1>2. call[t].op \in {"get", "name", "print"}
  BY DEF SymbolTypeOK, Call
<1>3. (IMutex /\ ICalls)'
  BY <1>2, FreeAssumption DEF SymbolTypeOK, IMutex, ICalls, Issued
<1>4. (INames /\ ITable /\ IStoring /\ IAnswers /\ NamesKept)'
  BY DEF SymbolTypeOK, IFunctions, INames, ITable, IStoring, IAnswers, NamesKept, Named
<1> QED
  BY <1>1, <1>3, <1>4

LEMMA HitInductive ==
  ASSUME SymbolInv, NEW t \in Thread, Hit(t)
  PROVE  SymbolInv'
<1> USE DEF SymbolInv, Hit, Goto
<1>1. call[t].op = "get" /\ lock = t
  BY DEF ICalls, IMutex
<1>2. (SymbolTypeOK /\ IFunctions)'
  BY <1>1 DEF SymbolTypeOK, IFunctions, Labels
<1>3. (IMutex /\ ICalls /\ INames /\ ITable /\ IStoring /\ NamesKept)'
  BY <1>1 DEF SymbolTypeOK, IFunctions, IMutex, ICalls, Issued, INames, ITable, IStoring, NamesKept, Named
<1>4. Named(call[t].str)
  <2>1. ~ \E u \in Thread : pc[u] = "storing"
    BY <1>1 DEF IMutex
  <2> QED
    BY <2>1 DEF ITable
<1>5. IAnswers'
  BY <1>1, <1>4 DEF SymbolTypeOK, IFunctions, IAnswers, IMutex, Named
<1> QED
  BY <1>2, <1>3, <1>5

LEMMA MissInductive ==
  ASSUME SymbolInv, NEW t \in Thread, Miss(t)
  PROVE  SymbolInv'
<1> USE DEF SymbolInv, Miss, Goto
<1> DEFINE str == call[t].str
<1>1. call[t].op = "get" /\ lock = t /\ str \in String
  BY DEF ICalls, IMutex, SymbolTypeOK, Call
<1>2. CASE aborted' = TRUE /\ UNCHANGED <<table, answer, pc>>
  BY <1>2 DEF SymbolTypeOK, IFunctions, IMutex, ICalls, Issued, INames, ITable, IStoring, IAnswers,
              NamesKept, Named, Labels
<1>3. ASSUME NEW id \in Id, NextId(id),
             table' = [s \in DOMAIN table \cup {str} |-> IF s = str THEN id ELSE table[s]],
             answer' = [answer EXCEPT ![t] = [id |-> id]],
             pc' = [pc EXCEPT ![t] = "storing"], UNCHANGED aborted
      PROVE  SymbolInv'
  <2> HIDE DEF str
  <2>0. str \notin DOMAIN table /\ id = Len(symbolValues) /\ UNCHANGED <<symbolValues, lock, call, issued>>
    BY <1>3 DEF NextId, str
  <2>1. /\ DOMAIN table' = DOMAIN table \cup {str} /\ table'[str] = id
        /\ \A s \in DOMAIN table : table'[s] = table[s]
    BY <1>3, <2>0
  <2>2. (SymbolTypeOK /\ IFunctions)'
    <3>1. DOMAIN table' \subseteq String /\ \A s \in DOMAIN table' : table'[s] \in Id
      BY <1>1, <1>3, <2>0, <2>1 DEF SymbolTypeOK
    <3>2. /\ DOMAIN answer' = Thread /\ DOMAIN call' = Thread /\ pc' \in [Thread -> Labels]
          /\ \A u \in Thread : u # t => answer'[u] = answer[u] /\ pc'[u] = pc[u]
          /\ pc'[t] = "storing"
      BY <1>3, <2>0 DEF SymbolTypeOK, IFunctions, Labels
    <3>3. /\ \A u \in Thread : pc'[u] # "idle" => call'[u] \in Call
          /\ \A u \in Thread : pc'[u] = "unlocking" =>
               answer'[u] \in IF call'[u].op = "get" THEN [id : Id] ELSE [name : String \cup {Invalid}]
      BY <3>2, <2>0 DEF SymbolTypeOK
    <3> QED
      <4>1. aborted' \in BOOLEAN
        BY <1>3 DEF SymbolTypeOK
      <4>2. symbolValues' \in Seq(String) /\ lock' \in Thread \cup {Free} /\ issued' \subseteq Issue
        BY <2>0 DEF SymbolTypeOK
      <4> QED
        BY <3>1, <3>2, <3>3, <4>1, <4>2 DEF SymbolTypeOK, IFunctions
  <2>3. (IMutex /\ ICalls)'
    BY <1>1, <1>3, <2>0 DEF SymbolTypeOK, IMutex, ICalls, Issued
  <2>4. (INames /\ NamesKept)'
    BY <2>0, <2>1 DEF INames, NamesKept
  <2>5. ITable'
    BY <1>1, <1>3, <2>0, <2>1 DEF ITable, Named, SymbolTypeOK, IMutex, str
  <2>6. IStoring'
    BY <1>1, <1>3, <2>0, <2>1 DEF IStoring, SymbolTypeOK, IFunctions, IMutex, str
  <2>7. IAnswers'
    BY <1>1, <1>3, <2>0, <2>1 DEF IAnswers, SymbolTypeOK, IFunctions, IMutex, Named
  <2> QED
    BY <2>2, <2>3, <2>4, <2>5, <2>6, <2>7
<1> QED
  BY <1>2, <1>3

LEMMA StoreInductive ==
  ASSUME SymbolInv, NEW t \in Thread, Store(t)
  PROVE  SymbolInv'
<1> USE DEF SymbolInv, Store, Goto
<1> DEFINE str == call[t].str
<1> DEFINE n == Len(symbolValues)
<1>1. call[t].op = "get" /\ lock = t /\ str \in DOMAIN table /\ str \in String
      /\ table[str] = n /\ answer[t] = [id |-> n]
  BY DEF ICalls, IMutex, IStoring, SymbolTypeOK
<1>2. /\ symbolValues' \in Seq(String) /\ Len(symbolValues') = n + 1 /\ n \in Nat
      /\ symbolValues'[n + 1] = str
      /\ \A i \in 1 .. n : symbolValues'[i] = symbolValues[i]
  BY <1>1 DEF SymbolTypeOK
<1>3. UNCHANGED <<table, lock, call, answer, issued, aborted>> /\ pc' = [pc EXCEPT ![t] = "unlocking"]
  OBVIOUS
<1> HIDE DEF str, n, Store
<1>4. (SymbolTypeOK /\ IFunctions)'
  <2>1. n \in Id
    BY <1>1 DEF SymbolTypeOK
  <2> QED
    <3>1. pc' \in [Thread -> Labels] /\ pc'[t] = "unlocking"
          /\ \A u \in Thread : u # t => pc'[u] = pc[u]
      BY <1>3 DEF SymbolTypeOK, Labels
    <3>2. /\ \A u \in Thread : pc'[u] # "idle" => call'[u] \in Call
          /\ \A u \in Thread : pc'[u] = "unlocking" =>
               answer'[u] \in IF call'[u].op = "get" THEN [id : Id] ELSE [name : String \cup {Invalid}]
      <4>1. answer'[t] \in [id : Id] /\ call'[t].op = "get"
        BY <1>1, <1>3, <2>1
      <4>2. \A u \in Thread : call'[u] = call[u] /\ answer'[u] = answer[u]
        BY <1>3
      <4>3. pc[t] = "storing"
        BY DEF Store
      <4> QED
        BY <4>1, <4>2, <4>3, <3>1 DEF SymbolTypeOK
    <3> QED
      BY <1>2, <1>3, <3>1, <3>2 DEF SymbolTypeOK, IFunctions
<1>5. (IMutex /\ ICalls)'
  BY <1>1, <1>3 DEF SymbolTypeOK, IMutex, ICalls, Issued
<1>6. INames'
  BY <1>1, <1>2, <1>3 DEF INames, n
<1>7. \A s \in DOMAIN table : Named(s)'
  <2> SUFFICES ASSUME NEW s \in DOMAIN table PROVE Named(s)'
    OBVIOUS
  <2>1. CASE s = str
    BY <2>1, <1>1, <1>2, <1>3 DEF Named
  <2>2. CASE s # str
    <3>1. Named(s)
      BY <1>1, <2>2 DEF ITable, IMutex, str
    <3>2. table[s] \in Nat
      BY DEF SymbolTypeOK, Id
    <3> QED
      BY <3>1, <3>2, <1>2, <1>3 DEF Named, n
  <2> QED
    BY <2>1, <2>2
<1>8. ITable' /\ IStoring'
  BY <1>1, <1>3, <1>7 DEF ITable, IStoring, IMutex, SymbolTypeOK
<1>9. IAnswers'
  BY <1>1, <1>3, <1>7 DEF IAnswers, IMutex, SymbolTypeOK, str
<1>10. NamesKept'
  <2> SUFFICES ASSUME NEW symbol \in issued
               PROVE  symbol.id < n + 1 /\ symbolValues'[symbol.id + 1] = symbol.str
    BY <1>2, <1>3 DEF NamesKept
  <2>1. symbol.id \in Nat /\ symbol.id < n /\ symbolValues[symbol.id + 1] = symbol.str
    BY DEF NamesKept, SymbolTypeOK, Issue, Id, n
  <2> QED
    BY <2>1, <1>2
<1> QED
  BY <1>4, <1>5, <1>6, <1>8, <1>9, <1>10

(* The mutex keeps a reader from an array that is being moved, and what is *)
(* converted to a string is in the array.                                  *)
LEMMA ReadsAreChecked ==
  ASSUME SymbolInv, NEW t \in Thread, pc[t] = "reading"
  PROVE  /\ ~Moving
         /\ call[t].id \in Nat /\ Len(symbolValues) \in Nat
         /\ call[t].op = "name" => call[t].id < Len(symbolValues)
<1>1. ~Moving
  BY DEF SymbolInv, IMutex, Moving
<1>2. call[t].op \in {"name", "print"} /\ call[t] \in Call
  BY DEF SymbolInv, ICalls, SymbolTypeOK
<1>3. call[t].id \in Nat /\ Len(symbolValues) \in Nat
  BY <1>2 DEF SymbolInv, SymbolTypeOK, Call, Id
<1>4. call[t].op = "name" => call[t].id < Len(symbolValues)
  BY DEF SymbolInv, ICalls, Issued, NamesKept
<1> QED
  BY <1>1, <1>3, <1>4

\* What is read, either way.
NameOf(id) == IF id >= Len(symbolValues) THEN Invalid ELSE symbolValues[id + 1]

LEMMA ReadAnswersName ==
  ASSUME SymbolInv, NEW t \in Thread, Convert(t) \/ Output(t)
  PROVE  AnswerName(t, NameOf(call[t].id))
<1>1. ~Moving /\ call[t].id \in Nat /\ Len(symbolValues) \in Nat
      /\ (call[t].op = "name" => call[t].id < Len(symbolValues))
  BY ReadsAreChecked DEF Convert, Output
<1>2. CASE Convert(t)
  BY <1>1, <1>2 DEF Convert, NameAt, NameOf
<1>3. CASE Output(t)
  BY <1>1, <1>3 DEF Output, NameAt, NameOf
<1> QED
  BY <1>2, <1>3

LEMMA ReadInductive ==
  ASSUME SymbolInv, NEW t \in Thread, Convert(t) \/ Output(t)
  PROVE  SymbolInv'
<1>0. AnswerName(t, NameOf(call[t].id)) /\ pc[t] = "reading"
  BY ReadAnswersName DEF Convert, Output
<1> USE <1>0 DEF SymbolInv, AnswerName, Goto
<1>1. call[t].op \in {"name", "print"} /\ lock = t /\ call[t].id \in Id
  BY DEF ICalls, IMutex, SymbolTypeOK, Call
<1>2. NameOf(call[t].id) \in String \cup {Invalid}
  <2>1. call[t].id \in Nat /\ Len(symbolValues) \in Nat
    BY <1>1 DEF Id, SymbolTypeOK
  <2> QED
    BY <2>1, ElementOfSeq DEF SymbolTypeOK, NameOf
<1>3. (SymbolTypeOK /\ IFunctions)'
  BY <1>1, <1>2 DEF SymbolTypeOK, IFunctions, Labels
<1>4. (IMutex /\ ICalls /\ INames /\ ITable /\ IStoring /\ NamesKept)'
  BY <1>1 DEF SymbolTypeOK, IFunctions, IMutex, ICalls, INames, ITable, IStoring, NamesKept, Named, Issued
<1>5. IAnswers'
  BY <1>1 DEF SymbolTypeOK, IFunctions, IAnswers, IMutex, Named, NameOf
<1> QED
  BY <1>3, <1>4, <1>5

LEMMA ReturnInductive ==
  ASSUME SymbolInv, NEW t \in Thread, Return(t)
  PROVE  SymbolInv'
<1> USE DEF SymbolInv, Return, Goto
<1>1. lock = t /\ lock' = Free /\ call[t] \in Call /\ UNCHANGED <<table, symbolValues, call, aborted>>
  BY DEF IMutex, SymbolTypeOK
<1>2. issued' \subseteq Issue /\ NamesKept'
  <2>1. CASE call[t].op = "get"
    <3>1. /\ call[t].str \in String /\ answer[t].id \in Id
          /\ Named(call[t].str) /\ answer[t].id = table[call[t].str]
      <4>1. /\ call[t].str \in DOMAIN table /\ Named(call[t].str)
            /\ answer[t] = [id |-> table[call[t].str]]
        BY <2>1 DEF IAnswers
      <4>2. call[t].str \in String /\ table[call[t].str] \in Id
        BY <4>1 DEF SymbolTypeOK
      <4> QED
        BY <4>1, <4>2
    <3> QED
      BY <2>1, <3>1, <1>1 DEF NamesKept, Named, SymbolTypeOK, Issue
  <2>2. CASE call[t].op # "get"
    BY <2>2, <1>1 DEF NamesKept, SymbolTypeOK
  <2> QED
    BY <2>1, <2>2
<1>3. (SymbolTypeOK /\ IFunctions)'
  BY <1>1, <1>2 DEF SymbolTypeOK, IFunctions, Labels
<1>4. (IMutex /\ ICalls /\ INames /\ ITable /\ IStoring /\ IAnswers)'
  BY <1>1, FreeAssumption DEF SymbolTypeOK, IFunctions, IMutex, ICalls, Issued, INames, ITable, IStoring,
     IAnswers, Named
<1> QED
  BY <1>2, <1>3, <1>4

----------------------------------------------------------------------------
(* The invariant holds in every state of every run.                        *)
THEOREM SymbolInvariant == SymbolSpec => []SymbolInv
<1>1. SymbolInv /\ [SymbolNext]_symbolVars => SymbolInv'
  <2> SUFFICES ASSUME SymbolInv, [SymbolNext]_symbolVars PROVE SymbolInv'
    OBVIOUS
  <2>1. ASSUME NEW t \in Thread, NEW c \in Call, Begin(t, c) PROVE SymbolInv'
    BY <2>1, BeginInductive
  <2>2. ASSUME NEW t \in Thread, Proceed(t) PROVE SymbolInv'
    BY <2>2, AcquireInductive, HitInductive, MissInductive, StoreInductive, ReadInductive,
       ReturnInductive DEF Proceed
  <2>3. CASE UNCHANGED symbolVars
    BY <2>3 DEF symbolVars, SymbolInv, SymbolTypeOK, IFunctions, IMutex, ICalls, Issued, INames, ITable,
                IStoring, IAnswers, NamesKept, Named
  <2> QED
    BY <2>1, <2>2, <2>3 DEF SymbolNext
<1> QED
  BY <1>1, SymbolInitial, PTL DEF SymbolSpec

(* Symbols are equal exactly if their strings are (Symbol.hpp:15-17).      *)
THEOREM SymbolsAlwaysIdentify == SymbolSpec => []SymbolsIdentify
<1>1. SymbolInv => SymbolsIdentify
  <2> SUFFICES ASSUME SymbolInv, NEW a \in issued, NEW b \in issued
               PROVE  a.id = b.id <=> a.str = b.str
    BY DEF SymbolsIdentify
  <2>1. /\ a.id \in Nat /\ a.id < Len(symbolValues) /\ symbolValues[a.id + 1] = a.str
        /\ b.id \in Nat /\ b.id < Len(symbolValues) /\ symbolValues[b.id + 1] = b.str
    BY DEF SymbolInv, NamesKept, SymbolTypeOK, Issue, Id
  <2>2. Len(symbolValues) \in Nat
    BY DEF SymbolInv, SymbolTypeOK
  <2>3. table[a.str] = a.id /\ table[b.str] = b.id
    <3>1. ASSUME NEW symbol \in {a, b}
          PROVE  table[symbol.str] = symbol.id
      <4>1. PICK i \in 1 .. Len(symbolValues) : i = symbol.id + 1 /\ symbolValues[i] = symbol.str
        BY <2>1, <2>2
      <4>2. table[symbolValues[i]] = i - 1
        BY DEF SymbolInv, INames
      <4> QED
        BY <4>1, <4>2, <2>1
    <3> QED
      BY <3>1
  <2> QED
    BY <2>1, <2>3
<1> QED
  BY <1>1, SymbolInvariant, PTL

(* A symbol's name stays among the names (Symbol.cpp:43-57).               *)
THEOREM NamesAlwaysKept == SymbolSpec => []NamesKept
<1>1. SymbolInv => NamesKept
  BY DEF SymbolInv
<1> QED
  BY <1>1, SymbolInvariant, PTL

(* Reading an issued symbol returns its string.                            *)
THEOREM AlwaysReadsName == SymbolSpec => []ReadsName
<1>1. SymbolInv => ReadsName
  <2> SUFFICES ASSUME SymbolInv, NEW t \in Thread, NEW symbol \in issued,
                      pc[t] = "unlocking", call[t].op \in {"name", "print"}, call[t].id = symbol.id
               PROVE  answer[t] = [name |-> symbol.str]
    BY DEF ReadsName
  <2>1. symbol.id \in Nat /\ symbol.id < Len(symbolValues) /\ symbolValues[symbol.id + 1] = symbol.str
    BY DEF SymbolInv, NamesKept, SymbolTypeOK, Issue, Id
  <2>2. Len(symbolValues) \in Nat /\ ~(symbol.id >= Len(symbolValues))
    BY <2>1 DEF SymbolInv, SymbolTypeOK
  <2> QED
    BY <2>1, <2>2 DEF SymbolInv, IAnswers
<1> QED
  BY <1>1, SymbolInvariant, PTL

\* No thread that waits for the mutex sees the table ahead of the names.
TableMatchesNames ==
  lock = Free =>
    /\ DOMAIN table = Names
    /\ \A i \in DOMAIN symbolValues : table[symbolValues[i]] = i - 1

(* Whenever the mutex is free, table and names are inverse.                *)
THEOREM TableAlwaysMatches == SymbolSpec => []TableMatchesNames
<1>1. SymbolInv => TableMatchesNames
  <2> SUFFICES ASSUME SymbolInv, lock = Free
               PROVE  /\ DOMAIN table = Names
                      /\ \A i \in DOMAIN symbolValues : table[symbolValues[i]] = i - 1
    BY DEF TableMatchesNames
  <2>1. \A s \in DOMAIN table : Named(s) /\ table[s] \in Nat
    BY FreeAssumption DEF SymbolInv, IMutex, ITable, SymbolTypeOK, Id
  <2>2. DOMAIN symbolValues = 1 .. Len(symbolValues) /\ Len(symbolValues) \in Nat
    BY DEF SymbolInv, SymbolTypeOK
  <2>3. DOMAIN table \subseteq Names
    BY <2>1, <2>2 DEF Named, Names
  <2> QED
    BY <2>2, <2>3 DEF SymbolInv, INames, Names
<1> QED
  BY <1>1, SymbolInvariant, PTL

(* The table's state stays well typed.                                     *)
THEOREM SymbolTypeCorrect == SymbolSpec => []SymbolTypeOK
<1>1. SymbolInv => SymbolTypeOK
  BY DEF SymbolInv
<1> QED
  BY <1>1, SymbolInvariant, PTL
----------------------------------------------------------------------------
(* The table seen as Interning sees it.                                    *)

LEMMA KnownIds ==
  ASSUME SymbolInv
  PROVE  /\ Len(symbolValues) \in Nat
         /\ DOMAIN knownIds = Names
         /\ Names \subseteq DOMAIN table
         /\ \A s \in Names : knownIds[s] = table[s] /\ table[s] \in 0 .. Len(symbolValues) - 1
         /\ \A i \in 1 .. Len(symbolValues) :
              symbolValues[i] \in Names /\ knownIds[symbolValues[i]] = i - 1
         /\ Interned!Used = 0 .. Len(symbolValues) - 1
<1>1. Len(symbolValues) \in Nat /\ DOMAIN symbolValues = 1 .. Len(symbolValues)
  BY DEF SymbolInv, SymbolTypeOK
<1>2. \A i \in 1 .. Len(symbolValues) : symbolValues[i] \in DOMAIN table /\ table[symbolValues[i]] = i - 1
  BY DEF SymbolInv, INames
<1>3. Names = {symbolValues[i] : i \in 1 .. Len(symbolValues)}
  BY <1>1 DEF Names
<1>4. DOMAIN knownIds = Names /\ \A s \in Names : knownIds[s] = table[s]
  BY DEF knownIds
<1>5. \A s \in Names : \E i \in 1 .. Len(symbolValues) : s = symbolValues[i] /\ table[s] = i - 1
  BY <1>2, <1>3
<1>6. /\ Names \subseteq DOMAIN table
      /\ \A s \in Names : table[s] \in 0 .. Len(symbolValues) - 1
  BY <1>1, <1>2, <1>5
<1>7. \A i \in 1 .. Len(symbolValues) : symbolValues[i] \in Names /\ knownIds[symbolValues[i]] = i - 1
  BY <1>2, <1>3, <1>4
<1>8. Interned!Used = 0 .. Len(symbolValues) - 1
  <2>1. Interned!Used \subseteq 0 .. Len(symbolValues) - 1
    BY <1>4, <1>6 DEF Interned!Used
  <2>2. ASSUME NEW id \in 0 .. Len(symbolValues) - 1
        PROVE  id \in Interned!Used
    <3>1. id + 1 \in 1 .. Len(symbolValues) /\ (id + 1) - 1 = id
      BY <1>1
    <3>2. symbolValues[id + 1] \in Names /\ knownIds[symbolValues[id + 1]] = id
      BY <1>7, <3>1
    <3> QED
      BY <1>4, <3>2 DEF Interned!Used
  <2> QED
    BY <2>1, <2>2
<1> QED
  BY <1>1, <1>4, <1>6, <1>7, <1>8

(* A string in the table that no thread is storing has its name.           *)
LEMMA FoundIsKnown ==
  ASSUME SymbolInv, NEW t \in Thread, pc[t] = "finding", call[t].str \in DOMAIN table
  PROVE  call[t].str \in Names
<1>1. \A u \in Thread : pc[u] # "storing"
  BY DEF SymbolInv, IMutex
<1>2. Named(call[t].str) /\ table[call[t].str] \in Nat
  BY <1>1 DEF SymbolInv, ITable, SymbolTypeOK, Id
<1> QED
  BY <1>2 DEF Named, Names, SymbolInv, SymbolTypeOK

(* What a step leaves alone of what callers see.                           *)
LEMMA SeenByCallers ==
  ASSUME SymbolInv, NEW t \in Thread
  PROVE  /\ pc[t] # "idle" => calls[t] = call[t] /\ call[t] \in Call /\ calls[t] # Nothing
         /\ pc[t] = "idle" => calls[t] = Nothing
         /\ pc[t] = "unlocking" => answers[t] = answer[t] /\ answers[t] # Nothing
         /\ pc[t] # "unlocking" => answers[t] = Nothing
<1>1. \A c \in Call : c # Nothing
  BY DEF Call, Nothing
<1>2. pc[t] = "unlocking" => answer[t] # Nothing
  BY DEF SymbolInv, SymbolTypeOK, Nothing
<1> QED
  BY <1>1, <1>2 DEF calls, answers, SymbolInv, SymbolTypeOK

LEMMA SameIds ==
  ASSUME symbolValues' = symbolValues, \A s \in Names : table'[s] = table[s]
  PROVE  knownIds' = knownIds
<1>1. Names' = Names
  BY DEF Names
<1> QED
  BY <1>1 DEF knownIds

----------------------------------------------------------------------------
(* Each step is one of Interning, or none.                                 *)

LEMMA BeginSimulates ==
  ASSUME SymbolInv, NEW t \in Thread, NEW c \in Call, Begin(t, c)
  PROVE  Interned!Begin(t, c)
<1>1. knownIds' = knownIds
  BY SameIds DEF Begin
<1>2. calls[t] = Nothing
  BY SeenByCallers DEF Begin
<1>3. calls' = [calls EXCEPT ![t] = c]
  BY DEF Begin, Goto, calls, SymbolInv, SymbolTypeOK, IFunctions
<1>4. answers' = answers
  BY DEF Begin, Goto, answers, SymbolInv, SymbolTypeOK
<1> QED
  BY <1>1, <1>2, <1>3, <1>4 DEF Begin, Interned!Begin, Issued

LEMMA AcquireSimulates ==
  ASSUME SymbolInv, NEW t \in Thread, Acquire(t)
  PROVE  UNCHANGED Interned!vars
<1>1. knownIds' = knownIds
  BY SameIds DEF Acquire
<1>2. calls' = calls
  BY DEF Acquire, Goto, calls, SymbolInv, SymbolTypeOK
<1>3. answers' = answers
  BY DEF Acquire, Goto, answers, SymbolInv, SymbolTypeOK
<1> QED
  BY <1>1, <1>2, <1>3 DEF Acquire, Interned!vars

\* A thread's call has come to an answer.
LEMMA Answered ==
  ASSUME SymbolInv, NEW t \in Thread, pc[t] \notin {"idle", "unlocking"}, Goto(t, "unlocking"),
         call' = call, NEW a, answer' = [answer EXCEPT ![t] = a] \/ (answer' = answer /\ answer[t] = a)
  PROVE  calls' = calls /\ answers' = [answers EXCEPT ![t] = a]
<1>1. calls' = calls
  BY DEF Goto, calls, SymbolInv, SymbolTypeOK
<1>2. answers' = [answers EXCEPT ![t] = a]
  BY DEF Goto, answers, SymbolInv, SymbolTypeOK, IFunctions
<1> QED
  BY <1>1, <1>2

LEMMA HitSimulates ==
  ASSUME SymbolInv, NEW t \in Thread, Hit(t)
  PROVE  Interned!Find(t)
<1>1. knownIds' = knownIds
  BY SameIds DEF Hit
<1>2. call[t].str \in Names /\ knownIds[call[t].str] = table[call[t].str]
  BY FoundIsKnown, KnownIds DEF Hit
<1>3. Interned!Pending(t, "get") /\ calls[t] = call[t]
  BY SeenByCallers DEF Hit, Interned!Pending, SymbolInv, ICalls
<1>4. calls' = calls /\ answers' = [answers EXCEPT ![t] = [id |-> table[call[t].str]]]
  BY Answered DEF Hit
<1> QED
  BY <1>1, <1>2, <1>3, <1>4, KnownIds DEF Hit, Interned!Find, Interned!Answer

LEMMA MissSimulates ==
  ASSUME SymbolInv, NEW t \in Thread, Miss(t)
  PROVE  Interned!Exhaust(t) \/ UNCHANGED Interned!vars
<1>1. call[t].str \notin Names /\ pc[t] = "finding"
  BY KnownIds DEF Miss
<1>2. \A s \in Names : table'[s] = table[s]
  BY <1>1, KnownIds DEF Miss
<1>3. knownIds' = knownIds
  BY <1>2, SameIds DEF Miss
<1>4. CASE \E id \in Id : NextId(id)
  <2>1. calls' = calls
    BY <1>1, <1>4 DEF Miss, Goto, calls, SymbolInv, SymbolTypeOK
  <2>2. answers' = answers
    BY <1>1, <1>4 DEF Miss, Goto, answers, SymbolInv, SymbolTypeOK, IFunctions
  <2> QED
    BY <1>3, <1>4, <2>1, <2>2 DEF Miss, Interned!vars
<1>5. CASE ~ \E id \in Id : NextId(id)
  <2>1. calls' = calls /\ answers' = answers /\ issued' = issued /\ aborted' = TRUE
    BY <1>5 DEF Miss, calls, answers
  <2>2. Interned!Pending(t, "get") /\ calls[t] = call[t]
    BY <1>1, SeenByCallers DEF Interned!Pending, SymbolInv, ICalls
  <2>3. Id \subseteq Interned!Used
    BY <1>5, KnownIds, MaxIdAssumption DEF NextId, Id
  <2> QED
    BY <1>1, <1>3, <2>1, <2>2, <2>3, KnownIds DEF Interned!Exhaust
<1> QED
  BY <1>4, <1>5

LEMMA StoreSimulates ==
  ASSUME SymbolInv, NEW t \in Thread, Store(t)
  PROVE  Interned!Enter(t)
<1> DEFINE str == call[t].str
           n   == Len(symbolValues)
<1>1. /\ pc[t] = "storing" /\ str \in DOMAIN table /\ table[str] = n /\ answer[t] = [id |-> n]
      /\ call[t].op = "get" /\ n \in Nat /\ n \in Id
  BY KnownIds DEF Store, SymbolInv, IStoring, ICalls, SymbolTypeOK
<1>2. str \notin Names
  BY <1>1, KnownIds
<1>3. Names' = Names \cup {str}
  <2>1. symbolValues \in Seq(String) /\ str \in String
    BY <1>1 DEF SymbolInv, SymbolTypeOK, Call
  <2>2. /\ DOMAIN symbolValues' = 1 .. n + 1 /\ symbolValues'[n + 1] = str
        /\ \A i \in 1 .. n : symbolValues'[i] = symbolValues[i]
    BY <1>1, <2>1, AppendProperties DEF Store
  <2>3. DOMAIN symbolValues = 1 .. n
    BY <2>1
  <2>4. ASSUME NEW s \in Names'
        PROVE  s \in Names \cup {str}
    BY <1>1, <2>2, <2>3, <2>4 DEF Names
  <2>5. ASSUME NEW s \in Names \cup {str}
        PROVE  s \in Names'
    BY <1>1, <2>2, <2>3, <2>5 DEF Names
  <2> QED
    BY <2>4, <2>5
<1>4. knownIds' = [s \in DOMAIN knownIds \cup {str} |-> IF s = str THEN n ELSE knownIds[s]]
  BY <1>1, <1>2, <1>3 DEF knownIds, Store
<1>5. n \in Id \ Interned!Used
  BY <1>1, KnownIds
<1>6. Interned!Pending(t, "get") /\ calls[t] = call[t]
  BY <1>1, SeenByCallers DEF Interned!Pending
<1>7. calls' = calls /\ answers' = [answers EXCEPT ![t] = [id |-> n]]
  BY <1>1, Answered DEF Store
<1>8. issued' = issued /\ aborted' = aborted
  BY DEF Store
<1> HIDE DEF n
<1> QED
  BY <1>2, <1>4, <1>5, <1>6, <1>7, <1>8, KnownIds DEF Interned!Enter, Interned!Answer

LEMMA ReadSimulates ==
  ASSUME SymbolInv, NEW t \in Thread, Convert(t) \/ Output(t)
  PROVE  Interned!Name(t)
<1> DEFINE id == call[t].id
           a  == [name |-> NameOf(id)]
<1>0. AnswerName(t, NameOf(id)) /\ pc[t] = "reading" /\ call[t].op \in {"name", "print"}
  BY ReadAnswersName DEF Convert, Output
<1>1. knownIds' = knownIds
  BY <1>0, SameIds DEF AnswerName
<1>2. id \in Nat /\ Len(symbolValues) \in Nat /\ (call[t].op = "name" => id < Len(symbolValues))
  BY <1>0, ReadsAreChecked
<1>3. Interned!Pending(t, call[t].op) /\ calls[t] = call[t]
  BY <1>0, SeenByCallers DEF Interned!Pending
<1>4. calls' = calls /\ answers' = [answers EXCEPT ![t] = a]
  BY <1>0, Answered DEF AnswerName
<1>5. Interned!Answer(t, a) /\ aborted' = aborted
  BY <1>0, <1>4 DEF AnswerName, Interned!Answer
<1>6. CASE id >= Len(symbolValues)
  <2>1. id \notin Interned!Used /\ a = [name |-> Invalid] /\ call[t].op = "print"
    BY <1>0, <1>2, <1>6, KnownIds DEF NameOf
  <2> HIDE DEF a
  <2> QED
    BY <1>1, <1>3, <1>5, <2>1 DEF Interned!Name
<1>7. CASE ~(id >= Len(symbolValues))
  <2>1. id + 1 \in 1 .. Len(symbolValues) /\ (id + 1) - 1 = id
    BY <1>2, <1>7, KnownIds
  <2>2. symbolValues[id + 1] \in DOMAIN knownIds /\ knownIds[symbolValues[id + 1]] = id
    BY <2>1, KnownIds
  <2>3. a = [name |-> symbolValues[id + 1]]
    BY <1>7 DEF NameOf
  <2> HIDE DEF a
  <2> QED
    BY <1>0, <1>1, <1>3, <1>5, <2>2, <2>3 DEF Interned!Name
<1> QED
  BY <1>6, <1>7

LEMMA ReturnSimulates ==
  ASSUME SymbolInv, NEW t \in Thread, Return(t)
  PROVE  Interned!Return(t)
<1>1. knownIds' = knownIds
  BY SameIds DEF Return
<1>2. calls[t] = call[t] /\ answers[t] = answer[t] /\ answers[t] # Nothing
  BY SeenByCallers DEF Return
<1>3. calls' = [calls EXCEPT ![t] = Nothing]
  BY DEF Return, Goto, calls, SymbolInv, SymbolTypeOK
<1>4. answers' = [answers EXCEPT ![t] = Nothing]
  <2>1. pc' = [pc EXCEPT ![t] = "idle"] /\ answer' = [answer EXCEPT ![t] = Nothing]
    BY DEF Return, Goto
  <2>2. pc \in [Thread -> Labels] /\ DOMAIN answer = Thread
    BY DEF SymbolInv, SymbolTypeOK, IFunctions
  <2> QED
    BY <2>1, <2>2 DEF answers
<1> QED
  BY <1>1, <1>2, <1>3, <1>4 DEF Return, Interned!Return

(* The calls of any threads look as if made one at a time, however the     *)
(* threads interleave inside them (Symbol.cpp:17-57).                      *)
THEOREM CallsAreAtomic == SymbolSpec => ImplementsInterning
<1>1. SymbolInit => Interned!Init
  <2> SUFFICES ASSUME SymbolInit
               PROVE  Interned!Init
    OBVIOUS
  <2>1. knownIds = [s \in {} |-> 0]
    BY DEF SymbolInit, knownIds, Names
  <2>2. calls = [t \in Thread |-> Nothing] /\ answers = [t \in Thread |-> Nothing]
    BY DEF SymbolInit, calls, answers
  <2> QED
    BY <2>1, <2>2 DEF SymbolInit, Interned!Init
<1>2. SymbolInv /\ [SymbolNext]_symbolVars => [Interned!Next]_(Interned!vars)
  <2> SUFFICES ASSUME SymbolInv, [SymbolNext]_symbolVars
               PROVE  [Interned!Next]_(Interned!vars)
    OBVIOUS
  <2>1. ASSUME NEW t \in Thread, NEW c \in Call, ~aborted, Begin(t, c)
        PROVE  Interned!Next
    BY <2>1, BeginSimulates DEF Interned!Next
  <2>2. ASSUME NEW t \in Thread, Proceed(t)
        PROVE  [Interned!Next]_(Interned!vars)
    <3>1. ~aborted
      BY <2>2 DEF Proceed
    <3>2. CASE Acquire(t)
      BY <3>2, AcquireSimulates
    <3>3. CASE Miss(t)
      BY <3>1, <3>3, MissSimulates DEF Interned!Next
    <3>4. CASE Hit(t) \/ Store(t) \/ Convert(t) \/ Output(t) \/ Return(t)
      BY <3>1, <3>4, HitSimulates, StoreSimulates, ReadSimulates, ReturnSimulates
         DEF Interned!Next
    <3> QED
      BY <2>2, <3>2, <3>3, <3>4 DEF Proceed
  <2>3. CASE UNCHANGED symbolVars
    BY <2>3 DEF symbolVars, Interned!vars, knownIds, Names, calls, answers
  <2> QED
    BY <2>1, <2>2, <2>3 DEF SymbolNext
<1> QED
  BY <1>1, <1>2, SymbolInvariant, PTL DEF SymbolSpec, ImplementsInterning, Interned!Spec
=============================================================================
