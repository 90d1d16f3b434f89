----------------------------- MODULE SymbolTable -----------------------------
(***************************************************************************)
(* Interned symbols (src/lib/support/Symbol.cpp and Symbol.hpp): threads   *)
(* turn strings into symbols and symbols back into strings, over one table *)
(* and one array of names that a mutex guards.                             *)
(*                                                                         *)
(* A Symbol is its id.  A default-constructed Symbol's id is not           *)
(* initialised: any id can be printed, and operator<< takes care of it.    *)
(* The conversion to std::string does not: it is made of symbols that get  *)
(* returned (the repository itself never makes it).                        *)
(***************************************************************************)
EXTENDS Integers, Sequences, FiniteSets

CONSTANTS
  Thread,
  String,
  MaxId,      \* UINT32_MAX
  Free        \* the mutex, unlocked

ASSUME MaxIdAssumption == MaxId \in Nat
ASSUME FreeAssumption == Free \notin Thread

Id == 0 .. MaxId

VARIABLES
  table,         \* from the strings met so far to ids
  symbolValues,  \* the strings by id (sequences count from 1, ids from 0)
  lock,          \* the thread in a lock_guard's scope, or Free
  pc,            \* where each thread is
  call,          \* what each thread called: get, the conversion (name) or operator<< (print)
  answer,        \* what the call is about to return
  issued,        \* the symbols in the program: the strings and the ids got for them
  aborted        \* get's assertion has failed

symbolVars == <<table, symbolValues, lock, pc, call, answer, issued, aborted>>

Call == [op : {"get"}, str : String] \cup [op : {"name", "print"}, id : Id]

Issue == [str : String, id : Id]

Names == {symbolValues[i] : i \in DOMAIN symbolValues}

Invalid == "<invalid symbol>"

Undefined == "<undefined>"   \* what a read outside the array, or during its move, gives

Nothing == [none |-> TRUE]

----------------------------------------------------------------------------
SymbolInit ==
  /\ table = [s \in {} |-> 0]
  /\ symbolValues = <<>>
  /\ lock = Free
  /\ pc = [t \in Thread |-> "idle"]
  /\ call \in [Thread -> {[op |-> "none"]}]
  /\ answer = [t \in Thread |-> Nothing]
  /\ issued = {}
  /\ aborted = FALSE

Goto(t, label) == pc' = [pc EXCEPT ![t] = label]

Issued(id) == \E symbol \in issued : symbol.id = id

Begin(t, c) ==
  /\ pc[t] = "idle"
  /\ c.op = "name" => Issued(c.id)
  /\ Goto(t, "locking")
  /\ call' = [call EXCEPT ![t] = c]
  /\ UNCHANGED <<table, symbolValues, lock, answer, issued, aborted>>

Acquire_unguarded(t) ==
  /\ pc[t] = "locking"
  /\ lock' = t
  /\ Goto(t, IF call[t].op = "get" THEN "finding" ELSE "reading")
  /\ UNCHANGED <<table, symbolValues, call, answer, issued, aborted>>

Acquire_onlyToGet(t) ==
  /\ pc[t] = "locking"
  /\ call[t].op = "get" => lock = Free
  /\ lock' = IF call[t].op = "get" THEN t ELSE lock
  /\ Goto(t, IF call[t].op = "get" THEN "finding" ELSE "reading")
  /\ UNCHANGED <<table, symbolValues, call, answer, issued, aborted>>

Acquire(t) ==
  /\ pc[t] = "locking"
  /\ lock = Free
  /\ lock' = t
  /\ Goto(t, IF call[t].op = "get" THEN "finding" ELSE "reading")
  /\ UNCHANGED <<table, symbolValues, call, answer, issued, aborted>>

Hit_fromOne(t) ==
  /\ pc[t] = "finding"
  /\ call[t].str \in DOMAIN table
  /\ answer' = [answer EXCEPT ![t] = [id |-> table[call[t].str] + 1]]
  /\ Goto(t, "unlocking")
  /\ UNCHANGED <<table, symbolValues, lock, call, issued, aborted>>

Hit(t) ==
  /\ pc[t] = "finding"
  /\ call[t].str \in DOMAIN table
  /\ answer' = [answer EXCEPT ![t] = [id |-> table[call[t].str]]]
  /\ Goto(t, "unlocking")
  /\ UNCHANGED <<table, symbolValues, lock, call, issued, aborted>>

NextId_unchecked(id) == id = Len(symbolValues) % (MaxId + 1)

\* The id for a new symbol, if there is one.
NextId(id) == Len(symbolValues) <= MaxId /\ id = Len(symbolValues)

Miss_waitsForAnId(t) ==
  /\ pc[t] = "finding"
  /\ call[t].str \notin DOMAIN table
  /\ \/ \E id \in Id :
          /\ NextId(id)
          /\ table' = [s \in DOMAIN table \cup {call[t].str} |->
                         IF s = call[t].str THEN id ELSE table[s]]
          /\ answer' = [answer EXCEPT ![t] = [id |-> id]]
          /\ Goto(t, "storing")
     \/ ~ (\E id \in Id : NextId(id)) /\ UNCHANGED <<table, answer, pc>>
  /\ UNCHANGED <<symbolValues, lock, call, issued, aborted>>

Miss(t) ==
  /\ pc[t] = "finding"
  /\ call[t].str \notin DOMAIN table
  /\ \/ \E id \in Id :
          /\ NextId(id)
          /\ table' = [s \in DOMAIN table \cup {call[t].str} |->
                         IF s = call[t].str THEN id ELSE table[s]]
          /\ answer' = [answer EXCEPT ![t] = [id |-> id]]
          /\ Goto(t, "storing")
          /\ UNCHANGED aborted
     \/ /\ ~ \E id \in Id : NextId(id)
        /\ aborted' = TRUE
        /\ UNCHANGED <<table, answer, pc>>
  /\ UNCHANGED <<symbolValues, lock, call, issued>>

\* push_back is done.  While a thread is at "storing" it is under way, and
\* the array may be moving.
Store(t) ==
  /\ pc[t] = "storing"
  /\ symbolValues' = Append(symbolValues, call[t].str)
  /\ Goto(t, "unlocking")
  /\ UNCHANGED <<table, lock, call, answer, issued, aborted>>

Moving == \E t \in Thread : pc[t] = "storing"

\* symbolValues[id], which checks nothing.
NameAt(id) ==
  IF Moving \/ id >= Len(symbolValues) THEN Undefined ELSE symbolValues[id + 1]

AnswerName(t, name) ==
  /\ answer' = [answer EXCEPT ![t] = [name |-> name]]
  /\ Goto(t, "unlocking")
  /\ UNCHANGED <<table, symbolValues, lock, call, issued, aborted>>

\* operator std::string
Convert(t) ==
  /\ pc[t] = "reading"
  /\ call[t].op = "name"
  /\ AnswerName(t, NameAt(call[t].id))

\* operator<<
Output(t) ==
  /\ pc[t] = "reading"
  /\ call[t].op = "print"
  /\ AnswerName(t, IF ~Moving /\ call[t].id >= Len(symbolValues)
                     THEN Invalid ELSE NameAt(call[t].id))

Return(t) ==
  /\ pc[t] = "unlocking"
  /\ lock' = Free
  /\ issued' = IF call[t].op = "get"
                 THEN issued \cup {[str |-> call[t].str, id |-> answer[t].id]} ELSE issued
  /\ answer' = [answer EXCEPT ![t] = Nothing]
  /\ Goto(t, "idle")
  /\ UNCHANGED <<table, symbolValues, call, aborted>>

\* Once in a call, a thread goes on with it.
Proceed(t) ==
  /\ ~aborted
  /\ \/ Acquire(t) \/ Hit(t) \/ Miss(t) \/ Store(t)
     \/ Convert(t) \/ Output(t) \/ Return(t)

SymbolNext ==
  \/ \E t \in Thread, c \in Call : ~aborted /\ Begin(t, c)
  \/ \E t \in Thread : Proceed(t)
  \/ aborted /\ UNCHANGED symbolVars

(* A thread inside a call runs on; a std::mutex promises no more, so that  *)
(* one thread of several may wait for ever.                                *)
SymbolSpec ==
  SymbolInit /\ [][SymbolNext]_symbolVars /\ \A t \in Thread : WF_symbolVars(Proceed(t))

----------------------------------------------------------------------------
\* Correctness.

Labels == {"idle", "locking", "finding", "storing", "reading", "unlocking"}

SymbolTypeOK ==
  /\ DOMAIN table \subseteq String /\ \A s \in DOMAIN table : table[s] \in Id
  /\ symbolValues \in Seq(String)
  /\ lock \in Thread \cup {Free}
  /\ pc \in [Thread -> Labels]
  /\ \A t \in Thread : pc[t] # "idle" => call[t] \in Call
  /\ \A t \in Thread : pc[t] = "unlocking" =>
       answer[t] \in IF call[t].op = "get" THEN [id : Id] ELSE [name : String \cup {Invalid}]
  /\ issued \subseteq Issue
  /\ aborted \in BOOLEAN

(* Two symbols are equal exactly if their strings are, whichever threads   *)
(* got them and whenever (Symbol.hpp:15-17 compares ids alone).            *)
SymbolsIdentify == \A a, b \in issued : a.id = b.id <=> a.str = b.str

(* A symbol's name can be read back for as long as the program runs, and   *)
(* stays what it was, while other threads add names (Symbol.cpp:43-57).    *)
NamesKept ==
  \A symbol \in issued :
    symbol.id < Len(symbolValues) /\ symbolValues[symbol.id + 1] = symbol.str

(* What a thread is about to return for an issued symbol is its name.      *)
ReadsName ==
  \A t \in Thread, symbol \in issued :
    pc[t] = "unlocking" /\ call[t].op \in {"name", "print"} /\ call[t].id = symbol.id
      => answer[t] = [name |-> symbol.str]

\* The table as other threads will see it, and calls as their callers do.
knownIds == [s \in Names |-> table[s]]
calls    == [t \in Thread |-> IF pc[t] = "idle" THEN Nothing ELSE call[t]]
answers  == [t \in Thread |-> IF pc[t] = "unlocking" THEN answer[t] ELSE Nothing]

Interned == INSTANCE Interning WITH ids <- knownIds

(* However the threads interleave, the table looks to each as if calls     *)
(* were made one at a time, each between its beginning and its return      *)
(* (Symbol.cpp:19, 44 and 49 hold the mutex for all of a call): a string   *)
(* keeps the id it was first given, an id is given to one string, what is  *)
(* read is what had been given by then, and nothing is read of an array    *)
(* that another thread's push_back is moving.                              *)
ImplementsInterning == Interned!Spec

(* Whoever locks the mutex unlocks it, unless the assertion fails.         *)
Unlocks == \A t \in Thread : lock = t ~> (lock # t \/ aborted)
=============================================================================
