------------------------------ MODULE Interning ------------------------------
(***************************************************************************)
(* What the symbol table promises (src/lib/support/Symbol.hpp): one table  *)
(* that whole calls read and write, one after another.  There is no mutex, *)
(* and no array of names beside the table.  A call takes effect at once,   *)
(* somewhere between its beginning and its return; a string that is new    *)
(* gets any id that no other string has.                                   *)
(*                                                                         *)
(* SymbolTable is shown to implement it.                                   *)
(***************************************************************************)
CONSTANTS
  Thread,
  Call,     \* what may be called
  Id,
  Invalid,  \* the name of an id that is no string's
  Nothing   \* no call, or no answer yet

VARIABLES
  ids,      \* from the strings met so far to their ids
  calls,    \* what each thread is calling
  answers,  \* and what that has come to
  issued,   \* the symbols in the program
  aborted   \* there was no id left

vars == <<ids, calls, answers, issued, aborted>>

Used == {ids[s] : s \in DOMAIN ids}

Init ==
  /\ ids = [s \in {} |-> 0]
  /\ calls = [t \in Thread |-> Nothing]
  /\ answers = [t \in Thread |-> Nothing]
  /\ issued = {}
  /\ aborted = FALSE

Begin(t, c) ==
  /\ calls[t] = Nothing
  /\ c.op = "name" => \E symbol \in issued : symbol.id = c.id
  /\ calls' = [calls EXCEPT ![t] = c]
  /\ UNCHANGED <<ids, answers, issued, aborted>>

Pending(t, op) == calls[t] # Nothing /\ calls[t].op = op /\ answers[t] = Nothing

Answer(t, a) == answers' = [answers EXCEPT ![t] = a] /\ UNCHANGED <<calls, issued>>

Find(t) ==
  /\ Pending(t, "get")
  /\ calls[t].str \in DOMAIN ids
  /\ Answer(t, [id |-> ids[calls[t].str]])
  /\ UNCHANGED <<ids, aborted>>

Enter(t) ==
  /\ Pending(t, "get")
  /\ calls[t].str \notin DOMAIN ids
  /\ \E id \in Id \ Used :
       /\ ids' = [s \in DOMAIN ids \cup {calls[t].str} |->
                    IF s = calls[t].str THEN id ELSE ids[s]]
       /\ Answer(t, [id |-> id])
  /\ UNCHANGED aborted

Exhaust(t) ==
  /\ Pending(t, "get")
  /\ calls[t].str \notin DOMAIN ids
  /\ Id \subseteq Used
  /\ aborted' = TRUE
  /\ UNCHANGED <<ids, calls, answers, issued>>

\* Both ways to a name find a string's; only printing may miss.
Name(t) ==
  /\ \/ /\ Pending(t, "name") \/ Pending(t, "print")
        /\ \E s \in DOMAIN ids : ids[s] = calls[t].id /\ Answer(t, [name |-> s])
     \/ Pending(t, "print") /\ calls[t].id \notin Used /\ Answer(t, [name |-> Invalid])
  /\ UNCHANGED <<ids, aborted>>

Return(t) ==
  /\ answers[t] # Nothing
  /\ issued' = IF calls[t].op = "get"
                 THEN issued \cup {[str |-> calls[t].str, id |-> answers[t].id]} ELSE issued
  /\ calls' = [calls EXCEPT ![t] = Nothing]
  /\ answers' = [answers EXCEPT ![t] = Nothing]
  /\ UNCHANGED <<ids, aborted>>

Next ==
  /\ ~aborted
  /\ \E t \in Thread :
       \/ \E c \in Call : Begin(t, c)
       \/ Find(t) \/ Enter(t) \/ Exhaust(t) \/ Name(t) \/ Return(t)

Spec == Init /\ [][Next]_vars
=============================================================================
