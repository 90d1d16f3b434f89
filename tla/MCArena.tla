------------------------------- MODULE MCArena -------------------------------
(***************************************************************************)
(* Pages of eight bytes, and up to two pages' worth of objects of one,     *)
(* two, four and eight bytes, none included: every offset in a page, and   *)
(* blocks that end just before, at and just after a page's end.            *)
(***************************************************************************)
EXTENDS Arena

MCRequests ==
  { [bytes |-> count * size, align |-> size] : count \in {0, 1, 2, 3}, size \in {1, 2, 4} }
    \cup { [bytes |-> bytes, align |-> 8] : bytes \in {8, 16} }
    \cup { [bytes |-> 6, align |-> 2] }
=============================================================================
