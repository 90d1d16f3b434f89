------------------------------- MODULE MCGCCFG -------------------------------
(***************************************************************************)
(* Packages of up to three functions out of four keys, each graph with up  *)
(* to two references: to itself, to each other in cycles, twice to the     *)
(* same function, and to functions the package does not define.            *)
(***************************************************************************)
EXTENDS GCCFG

CONSTANTS main, f, g, absent

MCKey == {main, f, g, absent}

MCRefs == UNION {[1 .. n -> MCKey] : n \in 0 .. 2}

MCPackages == UNION {[defined -> MCRefs] : defined \in SUBSET {main, f, g}}
=============================================================================
