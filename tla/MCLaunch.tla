------------------------------ MODULE MCLaunch ------------------------------
(* Instances of Launch: it is finite as it stands. *)
EXTENDS Launch
=============================================================================
