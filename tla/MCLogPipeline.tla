--------------------------- MODULE MCLogPipeline ---------------------------
(* Instances of LogPipeline; MaxLines is the only bound. *)
EXTENDS LogPipeline
=============================================================================
