----------------------------- MODULE Semaphore -----------------------------
(***************************************************************************)
(* LightweightSemaphore, the semaphore of the log queue: an atomic count   *)
(* that goes below zero by the number of waiters, over a semaphore of      *)
(* Windows they sleep on.  One action is one atomic operation on m_count   *)
(* or one call on m_sema.                                                  *)
(*                                                                         *)
(* enqueue signals one permit at a time, wait_dequeue_timed waits with a   *)
(* timeout: other counts and untimed waits are not used by the log.  On    *)
(* x86 compare_exchange_weak does not fail spuriously.                     *)
(***************************************************************************)
EXTENDS Integers, FiniteSets

CONSTANTS
    Waiters,        \* threads that wait: the log has one
    Signallers,     \* threads that signal
    MaxSpins,       \* m_maxSpins: loads before a waiter sleeps
    MaxSignals,     \* bound: signals of each thread
    MaxGrants       \* bound: permits a waiter takes before it stops waiting

ASSUME SpinsAssumption == MaxSpins \in Nat
ASSUME BoundsAssumption == MaxSignals \in Nat /\ MaxGrants \in Nat
ASSUME ThreadsAssumption == IsFiniteSet(Waiters) /\ IsFiniteSet(Signallers)

VARIABLES
    count,      \* m_count
    sema,       \* m_sema, the semaphore of Windows
    waiter,     \* where each waiter is
    oldCount,   \* its local variable
    spin,       \* its local variable
    signaller,  \* where each signaller is
    signals,    \* signals each has begun
    granted     \* permits each waiter was given

waiterVars == <<waiter, oldCount, spin, granted>>
signalVars == <<signaller, signals>>
vars == <<count, sema, waiterVars, signalVars>>

Init ==
    /\ count = 0
    /\ sema = 0
    /\ waiter = [w \in Waiters |-> "idle"]
    /\ oldCount = [w \in Waiters |-> 0]
    /\ spin = [w \in Waiters |-> 0]
    /\ signaller = [s \in Signallers |-> "idle"]
    /\ signals = [s \in Signallers |-> 0]
    /\ granted = [w \in Waiters |-> 0]

-----------------------------------------------------------------------------
(* signal(1)                                                               *)

(* Does the signaller owe a sleeper its wake-up?  oldCount is what         *)
(* fetch_add returned.  Mutation: a comparison off by one.                 *)
OwesOffByOne(old) == old < -1
Owes(old) == old < 0

FetchAdd(s) ==
    /\ signaller[s] = "idle"
    /\ signals[s] < MaxSignals
    /\ signals' = [signals EXCEPT ![s] = @ + 1]
    /\ count' = count + 1
    /\ signaller' = [signaller EXCEPT ![s] = IF Owes(count) THEN "release" ELSE "idle"]
    /\ UNCHANGED <<sema, waiterVars>>

(* m_sema.signal *)
Release(s) ==
    /\ signaller[s] = "release"
    /\ sema' = sema + 1
    /\ signaller' = [signaller EXCEPT ![s] = "idle"]
    /\ UNCHANGED <<count, signals, waiterVars>>

-----------------------------------------------------------------------------
(* wait(timeout): tryWait, then waitWithPartialSpinning                    *)

Goto(w, where) == waiter' = [waiter EXCEPT ![w] = where]

Return(w, got) ==
    /\ Goto(w, "idle")
    /\ granted' = [granted EXCEPT ![w] = IF got THEN @ + 1 ELSE @]

Call(w) ==
    /\ waiter[w] = "idle"
    /\ granted[w] < MaxGrants
    /\ Goto(w, "load")
    /\ UNCHANGED <<count, sema, oldCount, spin, granted, signalVars>>

(* The load of tryWait; without a permit the spinning begins. *)
Load(w) ==
    /\ waiter[w] = "load"
    /\ oldCount' = [oldCount EXCEPT ![w] = count]
    /\ IF count > 0
         THEN Goto(w, "exchange") /\ UNCHANGED spin
         ELSE Goto(w, "spin") /\ spin' = [spin EXCEPT ![w] = MaxSpins]
    /\ UNCHANGED <<count, sema, granted, signalVars>>

(* compare_exchange_weak of tryWait: a failure reloads oldCount. *)
Exchange(w) ==
    /\ waiter[w] = "exchange"
    /\ IF count = oldCount[w]
         THEN /\ count' = count - 1
              /\ Return(w, TRUE)
              /\ UNCHANGED <<oldCount, spin>>
         ELSE /\ oldCount' = [oldCount EXCEPT ![w] = count]
              /\ IF count > 0
                   THEN UNCHANGED <<waiter, spin>>
                   ELSE Goto(w, "spin") /\ spin' = [spin EXCEPT ![w] = MaxSpins]
              /\ UNCHANGED <<count, granted>>
    /\ UNCHANGED <<sema, signalVars>>

(* One turn of the spinning: a load. *)
Spin(w) ==
    /\ waiter[w] = "spin" /\ spin[w] > 0
    /\ spin' = [spin EXCEPT ![w] = @ - 1]
    /\ oldCount' = [oldCount EXCEPT ![w] = count]
    /\ IF count > 0 THEN Goto(w, "spin exchange") ELSE UNCHANGED waiter
    /\ UNCHANGED <<count, sema, granted, signalVars>>

SpinExchange(w) ==
    /\ waiter[w] = "spin exchange"
    /\ IF count = oldCount[w]
         THEN /\ count' = count - 1
              /\ Return(w, TRUE)
         ELSE /\ Goto(w, "spin")
              /\ UNCHANGED <<count, granted>>
    /\ UNCHANGED <<sema, oldCount, spin, signalVars>>

(* fetch_sub: it takes a permit or registers the waiter below zero. *)
FetchSub(w) ==
    /\ waiter[w] = "spin" /\ spin[w] = 0
    /\ oldCount' = [oldCount EXCEPT ![w] = count]
    /\ count' = count - 1
    /\ IF count > 0
         THEN Return(w, TRUE)
         ELSE Goto(w, "asleep") /\ UNCHANGED granted
    /\ UNCHANGED <<sema, spin, signalVars>>

(* timed_wait succeeds. *)
Wake(w) ==
    /\ waiter[w] = "asleep"
    /\ sema > 0
    /\ sema' = sema - 1
    /\ Return(w, TRUE)
    /\ UNCHANGED <<count, oldCount, spin, signalVars>>

(* timed_wait times out: the waiter must take back its registration. *)
Timeout(w) ==
    /\ waiter[w] = "asleep"
    /\ sema = 0
    /\ Goto(w, "reload")
    /\ UNCHANGED <<count, sema, oldCount, spin, granted, signalVars>>

(* A count that is not negative: some signaller has counted this waiter.   *)
Reload(w) ==
    /\ waiter[w] = "reload"
    /\ oldCount' = [oldCount EXCEPT ![w] = count]
    /\ Goto(w, IF count < 0 THEN "unregister" ELSE "try")
    /\ UNCHANGED <<count, sema, spin, granted, signalVars>>

(* Mutation: the result of try_wait is ignored.                            *)
TryWaitIgnored(w) ==
    /\ waiter[w] = "try"
    /\ sema' = sema - 1 /\ Return(w, TRUE)
    /\ UNCHANGED <<count, oldCount, spin, signalVars>>

(* try_wait: the wake-up that came with the timeout, or not yet. *)
TryWait(w) ==
    /\ waiter[w] = "try"
    /\ IF sema > 0
         THEN sema' = sema - 1 /\ Return(w, TRUE)
         ELSE Goto(w, "reload") /\ UNCHANGED <<sema, granted>>
    /\ UNCHANGED <<count, oldCount, spin, signalVars>>

(* Mutation: fetch_add in place of the compare_exchange_strong.            *)
UnregisterBlindly(w) ==
    /\ waiter[w] = "unregister"
    /\ count' = count + 1
    /\ Return(w, FALSE)
    /\ UNCHANGED <<sema, oldCount, spin, signalVars>>

(* compare_exchange_strong: the wait has failed. *)
Unregister(w) ==
    /\ waiter[w] = "unregister"
    /\ IF count = oldCount[w]
         THEN count' = count + 1 /\ Return(w, FALSE)
         ELSE Goto(w, "reload") /\ UNCHANGED <<count, granted>>
    /\ UNCHANGED <<sema, oldCount, spin, signalVars>>

-----------------------------------------------------------------------------

(* waitWithPartialSpinning; the log starts a wait only when it wants to.   *)
Running(w) ==
    \/ Load(w) \/ Exchange(w) \/ Spin(w) \/ SpinExchange(w) \/ FetchSub(w)
    \/ Wake(w) \/ Timeout(w) \/ Reload(w) \/ TryWait(w) \/ Unregister(w)

Signal(s) == FetchAdd(s) \/ Release(s)

Next ==
    \/ \E w \in Waiters : Call(w) \/ Running(w)
    \/ \E s \in Signallers : Signal(s)

(* The scheduler runs every thread that can run. *)
Fairness ==
    /\ \A w \in Waiters : WF_vars(Running(w))
    /\ \A s \in Signallers : WF_vars(Release(s))

Safety == Init /\ [][Next]_vars
Spec == Safety /\ Fairness

-----------------------------------------------------------------------------

WaiterState ==
    {"idle", "load", "exchange", "spin", "spin exchange", "asleep", "reload", "try", "unregister"}

TypeOK ==
    /\ count \in Int
    /\ sema \in Nat
    /\ waiter \in [Waiters -> WaiterState]
    /\ oldCount \in [Waiters -> Int]
    /\ spin \in [Waiters -> 0 .. MaxSpins]
    /\ signaller \in [Signallers -> {"idle", "release"}]
    /\ signals \in [Signallers -> 0 .. MaxSignals]
    /\ granted \in [Waiters -> 0 .. MaxGrants]

(* Waiters that have gone through fetch_sub and not come back. *)
Registered == {w \in Waiters : waiter[w] \in {"asleep", "reload", "try", "unregister"}}
Releasing == {s \in Signallers : signaller[s] = "release"}

Above == IF count > 0 THEN count ELSE 0
Below == IF count < 0 THEN -count ELSE 0

(* What the contract calls the permits and the waits. *)
Available == Above + sema + Cardinality(Releasing)
Waiting == {w \in Waiters : waiter[w] # "idle"}

(* Every registered waiter is counted below zero, or a wake-up for it is   *)
(* in m_sema or about to be: none is lost to a timeout that crosses a      *)
(* signal, and none is left over for a later wait to take unpaid.          *)
WakeupsMatch == Cardinality(Registered) = Below + sema + Cardinality(Releasing)

(* The queue may count on the contract of a counting semaphore: each       *)
(* signal is worth one successful wait, and a wait fails only when there   *)
(* are fewer permits than waits.  The log's timed wait, with one waiter,   *)
(* then fails only when there is no permit.                                *)
Contract == INSTANCE Permits WITH permits <- Available, waiting <- Waiting

KeepsPermits == Contract!Spec

(* A wait ends, with a permit or without, however the signals fall: the    *)
(* loop after a timeout does not go on for ever, unless another waiter     *)
(* comes and goes for ever and fails the compare_exchange of this one each *)
(* time.  The log has one waiter, whose waits all end.                     *)
ComesAndGoes(w) == []<>(waiter[w] = "idle") /\ []<>(waiter[w] # "idle")

WaitReturns ==
    \A w \in Waiters :
        []<>(waiter[w] = "idle") \/ \E v \in Waiters \ {w} : ComesAndGoes(v)

=============================================================================
