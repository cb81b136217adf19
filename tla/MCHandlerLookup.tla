-------------------------- MODULE MCHandlerLookup --------------------------
(* Instances of HandlerLookup: ids are numbers, Ids takes its value here.  *)
EXTENDS HandlerLookup

MCIds == 1 .. 4
=============================================================================
