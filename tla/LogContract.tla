---------------------------- MODULE LogContract ----------------------------
(***************************************************************************)
(* What the log promises while the process lives: a line whose enqueue     *)
(* succeeded is printed once, and the lines of one thread are printed in   *)
(* the order it logged them.  Lines of different threads may be printed in *)
(* any order.  When the process exits, the lines not yet printed are lost. *)
(***************************************************************************)
EXTENDS Sequences

CONSTANTS Threads, Lines

VARIABLES
    pending,    \* the lines of each thread that are not printed yet
    out         \* the lines printed

Init == pending = [t \in Threads |-> <<>>] /\ out = <<>>

Accept(t) ==
    /\ \E l \in Lines : pending' = [pending EXCEPT ![t] = Append(@, l)]
    /\ UNCHANGED out

Emit(t) ==
    /\ pending[t] # <<>>
    /\ out' = Append(out, Head(pending[t]))
    /\ pending' = [pending EXCEPT ![t] = Tail(@)]

Next == \E t \in Threads : Accept(t) \/ Emit(t)

Spec == Init /\ [][Next]_<<pending, out>>
=============================================================================
