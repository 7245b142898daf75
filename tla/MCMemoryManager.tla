---------------------------- MODULE MCMemoryManager ----------------------------
(***************************************************************************)
(* A reserve of eight pages, each of a record and a half.                   *)
(***************************************************************************)
EXTENDS MemoryManager
===============================================================================
