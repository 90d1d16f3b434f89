---------------------------- MODULE MCSymbolTable ----------------------------
(***************************************************************************)
(* Two threads and four strings for three ids: the assertion is reached.   *)
(***************************************************************************)
EXTENDS SymbolTable

MCThread == {"main", "worker"}
MCString == {"f", "g", "h", "x"}
=============================================================================
