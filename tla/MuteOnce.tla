------------------------------ MODULE MuteOnce ------------------------------
(***************************************************************************)
(* What the dedup table promises: a pair produces one backtrace and is     *)
(* muted from then on, until Capacity different pairs were met; from then  *)
(* on a new pair gets none.                                                *)
(***************************************************************************)
EXTENDS Integers, FiniteSets

CONSTANTS Pair, Capacity

VARIABLES
    dumped, \* backtraces logged for each pair
    muted   \* calls of each pair that logged none

Init == /\ dumped = [p \in Pair |-> 0]
        /\ muted = [p \in Pair |-> 0]

Seen == {p \in Pair : dumped[p] > 0}

(* A call of a pair never met, while there is room. *)
Backtrace(p) ==
    /\ p \notin Seen
    /\ Cardinality(Seen) < Capacity
    /\ dumped' = [dumped EXCEPT ![p] = @ + 1]
    /\ UNCHANGED muted

(* A call of a pair met before, or of any pair once the table is full. *)
Mute(p) ==
    /\ p \in Seen \/ Cardinality(Seen) >= Capacity
    /\ muted' = [muted EXCEPT ![p] = @ + 1]
    /\ UNCHANGED dumped

Next == \E p \in Pair : Backtrace(p) \/ Mute(p)

Spec == Init /\ [][Next]_<<dumped, muted>>
=============================================================================
