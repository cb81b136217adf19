---------------------------- MODULE MCPathBDiff ----------------------------
(* Instances of PathBDiff: one list outgrows the window, one is empty. *)
EXTENDS PathBDiff, TLC

CONSTANTS c1, c2, c3, c4

Short == (c1 :> 3) @@ (c2 :> 1) @@ (c3 :> 1) @@ (c4 :> 0)

Long == (c1 :> 3)
=============================================================================
