------------------------------ MODULE Permits ------------------------------
(***************************************************************************)
(* A counting semaphore with timed waits: a wait takes a permit, or gives  *)
(* up while there are fewer permits than waits in progress.                *)
(***************************************************************************)
EXTENDS Integers, FiniteSets

CONSTANT Waiters

VARIABLES
    permits,    \* signalled and not yet taken
    waiting,    \* the waits in progress
    granted     \* permits each waiter has taken

Init ==
    /\ permits = 0
    /\ waiting = {}
    /\ granted = [w \in Waiters |-> 0]

Signal ==
    /\ permits' = permits + 1
    /\ UNCHANGED <<waiting, granted>>

Wait(w) ==
    /\ w \notin waiting
    /\ waiting' = waiting \cup {w}
    /\ UNCHANGED <<permits, granted>>

Grant(w) ==
    /\ w \in waiting
    /\ permits > 0
    /\ permits' = permits - 1
    /\ waiting' = waiting \ {w}
    /\ granted' = [granted EXCEPT ![w] = @ + 1]

GiveUp(w) ==
    /\ w \in waiting
    /\ permits < Cardinality(waiting)
    /\ waiting' = waiting \ {w}
    /\ UNCHANGED <<permits, granted>>

Next == Signal \/ \E w \in Waiters : Wait(w) \/ Grant(w) \/ GiveUp(w)

Spec == Init /\ [][Next]_<<permits, waiting, granted>>
=============================================================================
