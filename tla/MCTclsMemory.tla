---------------------------- MODULE MCTclsMemory ----------------------------
(* The sizes of the source: its text, and the text it has commented out.   *)
EXTENDS TclsMemory
=============================================================================
