-------------------------- MODULE SemaphoreProofs --------------------------
(***************************************************************************)
(* For any number of waiters and signallers: no wake-up is lost or left    *)
(* over, and LightweightSemaphore implements a counting semaphore.  The    *)
(* inductive invariant adds to WakeupsMatch what a thread remembers of the *)
(* count: a positive value before an exchange that takes a permit, a       *)
(* negative one before the exchange that takes a registration back.        *)
(***************************************************************************)
EXTENDS Semaphore, FiniteSetTheorems, TLAPS

Remembered(w) ==
    /\ waiter[w] \in {"exchange", "spin exchange"} => oldCount[w] > 0
    /\ waiter[w] = "unregister" => oldCount[w] < 0
    /\ waiter[w] # "idle" => granted[w] < MaxGrants

IInv ==
    /\ TypeOK
    /\ \A w \in Waiters : Remembered(w)
    /\ WakeupsMatch

USE SpinsAssumption, BoundsAssumption, ThreadsAssumption

(* The sets that are counted are finite, before and after a step.          *)
LEMMA Finite ==
    /\ IsFiniteSet(Registered) /\ Cardinality(Registered) \in Nat
    /\ IsFiniteSet(Releasing) /\ Cardinality(Releasing) \in Nat
    /\ IsFiniteSet(Waiting) /\ Cardinality(Waiting) \in Nat
    /\ Cardinality(Registered) <= Cardinality(Waiting)
<1>1. Registered \in SUBSET Waiters /\ Releasing \in SUBSET Signallers /\ Waiting \in SUBSET Waiters
  BY DEF Registered, Releasing, Waiting
<1>2. Registered \in SUBSET Waiting
  BY DEF Registered, Waiting
<1>3. IsFiniteSet(Registered) /\ IsFiniteSet(Releasing) /\ IsFiniteSet(Waiting)
  BY <1>1, FS_Subset
<1>4. Cardinality(Registered) <= Cardinality(Waiting)
  BY <1>2, <1>3, FS_Subset
<1> QED
  BY <1>3, <1>4, FS_CardinalityType

LEMMA InitIInv == Init => IInv
<1> SUFFICES ASSUME Init PROVE IInv
  OBVIOUS
<1>1. TypeOK /\ \A w \in Waiters : Remembered(w)
  BY DEF Init, TypeOK, WaiterState, Remembered
<1>2. Registered = {} /\ Releasing = {}
  BY DEF Init, Registered, Releasing
<1>3. WakeupsMatch
  BY <1>2, FS_EmptySet DEF WakeupsMatch, Below, Init
<1> QED
  BY <1>1, <1>3 DEF IInv

-----------------------------------------------------------------------------
(* TypeOK and what threads remember                                        *)

(* A step of a waiter that writes its own entries, by their new values.    *)
LEMMA WaiterUpdate ==
    ASSUME TypeOK, \A v \in Waiters : Remembered(v), NEW w \in Waiters,
           NEW where \in WaiterState, NEW old \in Int, NEW spins \in 0 .. MaxSpins,
           NEW got \in 0 .. MaxGrants,
           waiter' = [waiter EXCEPT ![w] = where],
           oldCount' = [oldCount EXCEPT ![w] = old],
           spin' = [spin EXCEPT ![w] = spins],
           granted' = [granted EXCEPT ![w] = got],
           count' \in Int, sema' \in Nat, UNCHANGED signalVars,
           where \in {"exchange", "spin exchange"} => old > 0,
           where = "unregister" => old < 0,
           where # "idle" => got < MaxGrants
    PROVE  TypeOK' /\ \A v \in Waiters : Remembered(v)'
<1>1. TypeOK'
  BY DEF TypeOK, signalVars
<1>2. ASSUME NEW v \in Waiters PROVE Remembered(v)'
  <2>1. CASE v = w
    BY <2>1 DEF TypeOK, Remembered
  <2>2. CASE v # w
    BY <2>2 DEF TypeOK, Remembered
  <2> QED
    BY <2>1, <2>2
<1> QED
  BY <1>1, <1>2

LEMMA WaiterStepTypes ==
    ASSUME TypeOK, \A v \in Waiters : Remembered(v),
           NEW w \in Waiters, Call(w) \/ Running(w)
    PROVE  TypeOK' /\ \A v \in Waiters : Remembered(v)'
<1> DEFINE Step(where, old, spins, got) ==
      /\ waiter' = [waiter EXCEPT ![w] = where]
      /\ oldCount' = [oldCount EXCEPT ![w] = old]
      /\ spin' = [spin EXCEPT ![w] = spins]
      /\ granted' = [granted EXCEPT ![w] = got]
      /\ count' \in Int /\ sema' \in Nat /\ UNCHANGED signalVars
<1>w. /\ waiter[w] \in WaiterState /\ oldCount[w] \in Int /\ spin[w] \in 0 .. MaxSpins
      /\ granted[w] \in 0 .. MaxGrants /\ count \in Int /\ sema \in Nat
      /\ MaxSpins \in 0 .. MaxSpins
  BY DEF TypeOK
<1>r. waiter[w] # "idle" => granted[w] < MaxGrants
  BY DEF Remembered
<1>g. waiter[w] # "idle" => granted[w] < MaxGrants /\ granted[w] + 1 \in 0 .. MaxGrants
  BY <1>w, <1>r
<1>f. /\ waiter = [waiter EXCEPT ![w] = @] /\ oldCount = [oldCount EXCEPT ![w] = @]
      /\ spin = [spin EXCEPT ![w] = @] /\ granted = [granted EXCEPT ![w] = @]
  BY DEF TypeOK
<1> USE DEF Goto, Return, signalVars
<1>1. CASE Call(w)
  <2>1. Step("load", oldCount[w], spin[w], granted[w]) /\ granted[w] < MaxGrants
    BY <1>1, <1>w, <1>f DEF Call
  <2> QED
    BY <2>1, <1>w, WaiterUpdate DEF WaiterState
<1>2. CASE Load(w)
  <2>1. granted[w] < MaxGrants /\ granted[w] + 1 \in 0 .. MaxGrants
    BY <1>2, <1>w, <1>g DEF Load
  <2>2. \/ Step("exchange", count, spin[w], granted[w]) /\ count > 0
        \/ Step("spin", count, MaxSpins, granted[w])
    BY <1>2, <1>w, <1>f DEF Load
  <2>3. CASE Step("exchange", count, spin[w], granted[w]) /\ count > 0
    BY <2>1, <2>3, <1>w, WaiterUpdate DEF WaiterState
  <2>4. CASE Step("spin", count, MaxSpins, granted[w])
    BY <2>1, <2>4, <1>w, WaiterUpdate DEF WaiterState
  <2> QED
    BY <2>2, <2>3, <2>4
<1>3. CASE Exchange(w)
  <2>1. granted[w] < MaxGrants /\ granted[w] + 1 \in 0 .. MaxGrants
    BY <1>3, <1>w, <1>g DEF Exchange
  <2>2. \/ Step("idle", oldCount[w], spin[w], granted[w] + 1)
        \/ Step("exchange", count, spin[w], granted[w]) /\ count > 0
        \/ Step("spin", count, MaxSpins, granted[w])
    BY <1>3, <1>w, <1>f DEF Exchange
  <2>3. CASE Step("idle", oldCount[w], spin[w], granted[w] + 1)
    BY <2>1, <2>3, <1>w, WaiterUpdate DEF WaiterState
  <2>4. CASE Step("exchange", count, spin[w], granted[w]) /\ count > 0
    BY <2>1, <2>4, <1>w, WaiterUpdate DEF WaiterState
  <2>5. CASE Step("spin", count, MaxSpins, granted[w])
    BY <2>1, <2>5, <1>w, WaiterUpdate DEF WaiterState
  <2> QED
    BY <2>2, <2>3, <2>4, <2>5
<1>4. CASE Spin(w)
  <2>0. spin[w] > 0
    BY <1>4 DEF Spin
  <2>1. granted[w] < MaxGrants /\ granted[w] + 1 \in 0 .. MaxGrants /\ spin[w] - 1 \in 0 .. MaxSpins
    <3>1. spin[w] - 1 \in 0 .. MaxSpins
      BY <2>0, <1>w
    <3> QED
      BY <3>1, <1>4, <1>g DEF Spin
  <2>2. \/ Step("spin exchange", count, spin[w] - 1, granted[w]) /\ count > 0
        \/ Step("spin", count, spin[w] - 1, granted[w])
    BY <1>4, <1>w, <1>f DEF Spin
  <2>3. CASE Step("spin exchange", count, spin[w] - 1, granted[w]) /\ count > 0
    BY <2>1, <2>3, <1>w, WaiterUpdate DEF WaiterState
  <2>4. CASE Step("spin", count, spin[w] - 1, granted[w])
    BY <2>1, <2>4, <1>w, WaiterUpdate DEF WaiterState
  <2> QED
    BY <2>2, <2>3, <2>4
<1>5. CASE SpinExchange(w)
  <2>1. granted[w] < MaxGrants /\ granted[w] + 1 \in 0 .. MaxGrants
    BY <1>5, <1>w, <1>g DEF SpinExchange
  <2>2. \/ Step("idle", oldCount[w], spin[w], granted[w] + 1)
        \/ Step("spin", oldCount[w], spin[w], granted[w])
    <3>1. CASE count = oldCount[w]
      <4>1. /\ waiter' = [waiter EXCEPT ![w] = "idle"]
            /\ granted' = [granted EXCEPT ![w] = granted[w] + 1]
            /\ count' = count - 1
        BY <3>1, <1>5 DEF SpinExchange
      <4>2. UNCHANGED <<sema, oldCount, spin, signalVars>>
        BY <1>5 DEF SpinExchange
      <4> QED
        BY <4>1, <4>2, <1>w, <1>f
    <3>2. CASE count # oldCount[w]
      BY <3>2, <1>5, <1>w, <1>f DEF SpinExchange
    <3> QED
      BY <3>1, <3>2
  <2>3. CASE Step("idle", oldCount[w], spin[w], granted[w] + 1)
    BY <2>1, <2>3, <1>w, WaiterUpdate DEF WaiterState
  <2>4. CASE Step("spin", oldCount[w], spin[w], granted[w])
    BY <2>1, <2>4, <1>w, WaiterUpdate DEF WaiterState
  <2> QED
    BY <2>2, <2>3, <2>4
<1>6. CASE FetchSub(w)
  <2>1. granted[w] < MaxGrants /\ granted[w] + 1 \in 0 .. MaxGrants
    BY <1>6, <1>w, <1>g DEF FetchSub
  <2>2. \/ Step("idle", count, spin[w], granted[w] + 1)
        \/ Step("asleep", count, spin[w], granted[w])
    BY <1>6, <1>w, <1>f DEF FetchSub
  <2>3. CASE Step("idle", count, spin[w], granted[w] + 1)
    BY <2>1, <2>3, <1>w, WaiterUpdate DEF WaiterState
  <2>4. CASE Step("asleep", count, spin[w], granted[w])
    BY <2>1, <2>4, <1>w, WaiterUpdate DEF WaiterState
  <2> QED
    BY <2>2, <2>3, <2>4
<1>7. CASE Wake(w)
  <2>1. granted[w] < MaxGrants /\ granted[w] + 1 \in 0 .. MaxGrants
    BY <1>7, <1>w, <1>g DEF Wake
  <2>2. Step("idle", oldCount[w], spin[w], granted[w] + 1)
    BY <1>7, <1>w, <1>f DEF Wake
  <2> QED
    BY <2>1, <2>2, <1>w, WaiterUpdate DEF WaiterState
<1>8. CASE Timeout(w)
  <2>1. granted[w] < MaxGrants /\ granted[w] + 1 \in 0 .. MaxGrants
    BY <1>8, <1>w, <1>g DEF Timeout
  <2>2. Step("reload", oldCount[w], spin[w], granted[w])
    BY <1>8, <1>w, <1>f DEF Timeout
  <2> QED
    BY <2>1, <2>2, <1>w, WaiterUpdate DEF WaiterState
<1>9. CASE Reload(w)
  <2>1. granted[w] < MaxGrants /\ granted[w] + 1 \in 0 .. MaxGrants
    BY <1>9, <1>w, <1>g DEF Reload
  <2>2. \/ Step("unregister", count, spin[w], granted[w]) /\ count < 0
        \/ Step("try", count, spin[w], granted[w])
    BY <1>9, <1>w, <1>f DEF Reload
  <2>3. CASE Step("unregister", count, spin[w], granted[w]) /\ count < 0
    BY <2>1, <2>3, <1>w, WaiterUpdate DEF WaiterState
  <2>4. CASE Step("try", count, spin[w], granted[w])
    BY <2>1, <2>4, <1>w, WaiterUpdate DEF WaiterState
  <2> QED
    BY <2>2, <2>3, <2>4
<1>10. CASE TryWait(w)
  <2>1. granted[w] < MaxGrants /\ granted[w] + 1 \in 0 .. MaxGrants
    BY <1>10, <1>w, <1>g DEF TryWait
  <2>2. \/ Step("idle", oldCount[w], spin[w], granted[w] + 1)
        \/ Step("reload", oldCount[w], spin[w], granted[w])
    BY <1>10, <1>w, <1>f DEF TryWait
  <2>3. CASE Step("idle", oldCount[w], spin[w], granted[w] + 1)
    BY <2>1, <2>3, <1>w, WaiterUpdate DEF WaiterState
  <2>4. CASE Step("reload", oldCount[w], spin[w], granted[w])
    BY <2>1, <2>4, <1>w, WaiterUpdate DEF WaiterState
  <2> QED
    BY <2>2, <2>3, <2>4
<1>11. CASE Unregister(w)
  <2>1. granted[w] < MaxGrants /\ granted[w] + 1 \in 0 .. MaxGrants
    BY <1>11, <1>w, <1>g DEF Unregister
  <2>2. \/ Step("idle", oldCount[w], spin[w], granted[w])
        \/ Step("reload", oldCount[w], spin[w], granted[w])
    BY <1>11, <1>w, <1>f DEF Unregister
  <2>3. CASE Step("idle", oldCount[w], spin[w], granted[w])
    BY <2>1, <2>3, <1>w, WaiterUpdate DEF WaiterState
  <2>4. CASE Step("reload", oldCount[w], spin[w], granted[w])
    BY <2>1, <2>4, <1>w, WaiterUpdate DEF WaiterState
  <2> QED
    BY <2>2, <2>3, <2>4
<1> QED
  BY <1>1, <1>2, <1>3, <1>4, <1>5, <1>6, <1>7, <1>8, <1>9, <1>10, <1>11 DEF Running

LEMMA SignallerStepTypes ==
    ASSUME TypeOK, \A v \in Waiters : Remembered(v),
           NEW s \in Signallers, Signal(s)
    PROVE  TypeOK' /\ \A v \in Waiters : Remembered(v)'
<1>1. UNCHANGED waiterVars
  BY DEF Signal, FetchAdd, Release
<1>2. \A v \in Waiters : Remembered(v)'
  BY <1>1 DEF waiterVars, Remembered
<1>3. CASE FetchAdd(s)
  <2>1. count' \in Int /\ sema' \in Nat
    BY <1>3 DEF FetchAdd, TypeOK
  <2>2. signals[s] + 1 \in 0 .. MaxSignals
    BY <1>3 DEF FetchAdd, TypeOK
  <2>3. signals' \in [Signallers -> 0 .. MaxSignals]
    BY <1>3, <2>2 DEF FetchAdd, TypeOK
  <2>4. signaller' \in [Signallers -> {"idle", "release"}]
    BY <1>3 DEF FetchAdd, TypeOK
  <2> QED
    BY <1>1, <1>2, <2>1, <2>3, <2>4 DEF TypeOK, waiterVars
<1>4. CASE Release(s)
  <2>1. count' \in Int /\ sema' \in Nat
    BY <1>4 DEF Release, TypeOK
  <2>2. signaller' \in [Signallers -> {"idle", "release"}] /\ UNCHANGED signals
    BY <1>4 DEF Release, TypeOK
  <2> QED
    BY <1>1, <1>2, <2>1, <2>2 DEF TypeOK, waiterVars
<1> QED
  BY <1>3, <1>4 DEF Signal

-----------------------------------------------------------------------------
(* What a step does to the counted sets                                    *)

LEMMA WaiterMoves ==
    ASSUME TypeOK, NEW w \in Waiters, NEW where \in WaiterState,
           waiter' = [waiter EXCEPT ![w] = where]
    PROVE  /\ Registered' = IF where \in {"asleep", "reload", "try", "unregister"}
                              THEN Registered \cup {w} ELSE Registered \ {w}
           /\ Waiting' = IF where = "idle" THEN Waiting \ {w} ELSE Waiting \cup {w}
BY DEF TypeOK, Registered, Waiting

LEMMA SignallerMoves ==
    ASSUME TypeOK, NEW s \in Signallers, NEW where \in {"idle", "release"},
           signaller' = [signaller EXCEPT ![s] = where]
    PROVE  Releasing' = IF where = "release" THEN Releasing \cup {s} ELSE Releasing \ {s}
BY DEF TypeOK, Releasing

(* What a step may do, seen from outside: nothing; begin a wait; take a    *)
(* permit from the count, or below it register; be woken; take the         *)
(* registration back; signal; wake a sleeper.                              *)
Keep == UNCHANGED <<count, sema, Registered, Releasing, Waiting, granted>>

Begin(w) ==
    /\ w \notin Waiting /\ Waiting' = Waiting \cup {w}
    /\ UNCHANGED <<count, sema, Registered, Releasing, granted>>

Ends(w, got) ==
    /\ w \in Waiting /\ Waiting' = Waiting \ {w}
    /\ granted' = [granted EXCEPT ![w] = IF got THEN @ + 1 ELSE @]
    /\ UNCHANGED Releasing

TakeCount(w) ==
    /\ count > 0 /\ count' = count - 1
    /\ Ends(w, TRUE)
    /\ UNCHANGED <<sema, Registered>>

Register(w) ==
    /\ count <= 0 /\ count' = count - 1
    /\ w \notin Registered /\ Registered' = Registered \cup {w}
    /\ UNCHANGED <<sema, Releasing, Waiting, granted>>

Woken(w) ==
    /\ sema > 0 /\ sema' = sema - 1
    /\ w \in Registered /\ Registered' = Registered \ {w}
    /\ Ends(w, TRUE)
    /\ UNCHANGED count

Fails(w) ==
    /\ count < 0 /\ count' = count + 1
    /\ w \in Registered /\ Registered' = Registered \ {w}
    /\ Ends(w, FALSE)
    /\ UNCHANGED sema

Signals(s) ==
    /\ count' = count + 1
    /\ s \notin Releasing
    /\ Releasing' = IF count < 0 THEN Releasing \cup {s} ELSE Releasing
    /\ UNCHANGED <<sema, Registered, Waiting, granted>>

Wakes(s) ==
    /\ sema' = sema + 1
    /\ s \in Releasing /\ Releasing' = Releasing \ {s}
    /\ UNCHANGED <<count, Registered, Waiting, granted>>

LEMMA WaiterStepEffect ==
    ASSUME IInv, NEW w \in Waiters, Call(w) \/ Running(w)
    PROVE  Keep \/ Begin(w) \/ TakeCount(w) \/ Register(w) \/ Woken(w) \/ Fails(w)
<1>w. TypeOK /\ Remembered(w) /\ count \in Int
  BY DEF IInv, TypeOK
<1>s. /\ w \in Waiting <=> waiter[w] # "idle"
      /\ w \in Registered <=> waiter[w] \in {"asleep", "reload", "try", "unregister"}
  BY DEF Waiting, Registered
<1>m. ASSUME NEW where \in WaiterState, waiter' = [waiter EXCEPT ![w] = where]
      PROVE  /\ Registered' = IF where \in {"asleep", "reload", "try", "unregister"}
                                THEN Registered \cup {w} ELSE Registered \ {w}
             /\ Waiting' = IF where = "idle" THEN Waiting \ {w} ELSE Waiting \cup {w}
  BY <1>m, <1>w, WaiterMoves
<1>n. UNCHANGED waiter => UNCHANGED <<Registered, Waiting>>
  BY DEF Registered, Waiting
<1>l. UNCHANGED Releasing
  <2>1. UNCHANGED signaller
    BY DEF Call, Running, Load, Exchange, Spin, SpinExchange, FetchSub, Wake, Timeout,
           Reload, TryWait, Unregister, signalVars
  <2> QED
    BY <2>1 DEF Releasing
<1> USE <1>l DEF Goto, Return, signalVars, WaiterState
<1>k. ASSUME NEW where \in WaiterState \ {"idle"}, waiter[w] # "idle",
             waiter' = waiter \/ waiter' = [waiter EXCEPT ![w] = where],
             waiter[w] \in {"asleep", "reload", "try", "unregister"} <=>
                 where \in {"asleep", "reload", "try", "unregister"},
             UNCHANGED <<count, sema, granted>>
      PROVE  Keep
  <2>1. CASE UNCHANGED waiter
    BY <1>k, <1>n, <1>l, <2>1 DEF Keep
  <2>2. CASE waiter' = [waiter EXCEPT ![w] = where]
    <3>1. Registered' = Registered /\ Waiting' = Waiting
      BY <1>k, <1>m, <1>s, <2>2
    <3>2. QED
      BY <1>k, <1>l, <3>1 DEF Keep
  <2>3. QED
    BY <1>k, <2>1, <2>2
<1>1. CASE Call(w)
  <2>1. Begin(w)
    BY <1>1, <1>s, <1>m DEF Call, Begin
  <2> QED
    BY <2>1
<1>2. CASE Load(w)
  <2>1. ASSUME count > 0 PROVE Keep
    <3>1. /\ waiter[w] = "load" /\ UNCHANGED <<count, sema, granted>>
          /\ waiter' = waiter \/ waiter' = [waiter EXCEPT ![w] = "exchange"]
      BY <2>1, <1>2 DEF Load
    <3> QED
      BY <3>1, <1>k
  <2>2. ASSUME ~(count > 0) PROVE Keep
    <3>1. /\ waiter[w] = "load" /\ UNCHANGED <<count, sema, granted>>
          /\ waiter' = waiter \/ waiter' = [waiter EXCEPT ![w] = "spin"]
      BY <2>2, <1>2 DEF Load
    <3> QED
      BY <3>1, <1>k
  <2> QED
    BY <2>1, <2>2
<1>3. CASE Exchange(w)
  <2>1. ASSUME count = oldCount[w] PROVE TakeCount(w)
    <3>1. /\ waiter[w] = "exchange" /\ waiter' = [waiter EXCEPT ![w] = "idle"]
          /\ granted' = [granted EXCEPT ![w] = @ + 1] /\ count' = count - 1
          /\ UNCHANGED sema
      BY <2>1, <1>3 DEF Exchange
    <3>2. Waiting' = Waiting \ {w} /\ Registered' = Registered \ {w}
      BY <3>1, <1>m
    <3>3. w \in Waiting /\ w \notin Registered /\ count > 0
      BY <2>1, <3>1, <1>w, <1>s DEF Remembered
    <3> QED
      BY <3>1, <3>2, <3>3 DEF TakeCount, Ends
  <2>2. ASSUME count # oldCount[w] PROVE Keep
    <3>1. /\ waiter[w] = "exchange" /\ UNCHANGED <<count, sema, granted>>
          /\ waiter' = waiter \/ waiter' = [waiter EXCEPT ![w] = "spin"]
      BY <2>2, <1>3 DEF Exchange
    <3> QED
      BY <3>1, <1>k
  <2> QED
    BY <2>1, <2>2
<1>4. CASE Spin(w)
  <2>1. ASSUME count > 0 PROVE Keep
    <3>1. /\ waiter[w] = "spin" /\ UNCHANGED <<count, sema, granted>>
          /\ waiter' = waiter \/ waiter' = [waiter EXCEPT ![w] = "spin exchange"]
      BY <2>1, <1>4 DEF Spin
    <3> QED
      BY <3>1, <1>k
  <2>2. ASSUME ~(count > 0) PROVE Keep
    <3>1. /\ waiter[w] = "spin" /\ UNCHANGED <<count, sema, granted>>
          /\ waiter' = waiter \/ waiter' = [waiter EXCEPT ![w] = "spin"]
      BY <2>2, <1>4 DEF Spin
    <3> QED
      BY <3>1, <1>k
  <2> QED
    BY <2>1, <2>2
<1>5. CASE SpinExchange(w)
  <2>1. ASSUME count = oldCount[w] PROVE TakeCount(w)
    <3>1. /\ waiter[w] = "spin exchange" /\ waiter' = [waiter EXCEPT ![w] = "idle"]
          /\ granted' = [granted EXCEPT ![w] = @ + 1] /\ count' = count - 1
          /\ UNCHANGED sema
      BY <2>1, <1>5 DEF SpinExchange
    <3>2. Waiting' = Waiting \ {w} /\ Registered' = Registered \ {w}
      BY <3>1, <1>m
    <3>3. w \in Waiting /\ w \notin Registered /\ count > 0
      BY <2>1, <3>1, <1>w, <1>s DEF Remembered
    <3> QED
      BY <3>1, <3>2, <3>3 DEF TakeCount, Ends
  <2>2. ASSUME count # oldCount[w] PROVE Keep
    <3>1. /\ waiter[w] = "spin exchange" /\ UNCHANGED <<count, sema, granted>>
          /\ waiter' = waiter \/ waiter' = [waiter EXCEPT ![w] = "spin"]
      BY <2>2, <1>5 DEF SpinExchange
    <3> QED
      BY <3>1, <1>k
  <2> QED
    BY <2>1, <2>2
<1>6. CASE FetchSub(w)
  <2>1. ASSUME count > 0 PROVE TakeCount(w)
    <3>1. /\ waiter[w] = "spin" /\ waiter' = [waiter EXCEPT ![w] = "idle"]
          /\ granted' = [granted EXCEPT ![w] = @ + 1] /\ count' = count - 1
          /\ UNCHANGED sema
      BY <2>1, <1>6 DEF FetchSub
    <3>2. Waiting' = Waiting \ {w} /\ Registered' = Registered \ {w}
      BY <3>1, <1>m
    <3>3. w \in Waiting /\ w \notin Registered
      BY <3>1, <1>s
    <3> QED
      BY <2>1, <3>1, <3>2, <3>3 DEF TakeCount, Ends
  <2>2. ASSUME ~(count > 0) PROVE Register(w)
    <3>1. waiter' = [waiter EXCEPT ![w] = "asleep"]
      BY <2>2, <1>6 DEF FetchSub
    <3>2. Waiting' = Waiting \cup {w} /\ Registered' = Registered \cup {w}
      BY <3>1, <1>m
    <3>3. w \in Waiting /\ w \notin Registered
      BY <1>6, <1>s DEF FetchSub
    <3>4. UNCHANGED <<sema, granted>> /\ count' = count - 1
      BY <2>2, <1>6 DEF FetchSub
    <3>5. count <= 0
      BY <2>2, <1>w
    <3> QED
      BY <3>2, <3>3, <3>4, <3>5 DEF Register
  <2> QED
    BY <2>1, <2>2
<1>7. CASE Wake(w)
  <2>1. Woken(w)
    BY <1>7, <1>w, <1>s, <1>m, <1>n DEF Wake, Woken, Ends
  <2> QED
    BY <2>1
<1>8. CASE Timeout(w)
  <2>1. Keep
    <3>1. /\ waiter[w] = "asleep" /\ UNCHANGED <<count, sema, granted>>
          /\ waiter' = waiter \/ waiter' = [waiter EXCEPT ![w] = "reload"]
      BY <1>8 DEF Timeout
    <3> QED
      BY <3>1, <1>k
  <2> QED
    BY <2>1
<1>9. CASE Reload(w)
  <2>1. PICK where \in {"try", "unregister"} : waiter' = [waiter EXCEPT ![w] = where]
    BY <1>9 DEF Reload
  <2>2. waiter[w] = "reload" /\ UNCHANGED <<count, sema, granted>>
    BY <1>9 DEF Reload
  <2>3. Keep
    BY <2>1, <2>2, <1>k
  <2> QED
    BY <2>3
<1>10. CASE TryWait(w)
  <2>1. ASSUME sema > 0 PROVE Woken(w)
    BY <2>1, <1>10, <1>w, <1>s, <1>m, <1>n DEF TryWait, Woken, Ends
  <2>2. ASSUME ~(sema > 0) PROVE Keep
    BY <2>2, <1>10, <1>w, <1>s, <1>m, <1>n DEF TryWait, Keep
  <2> QED
    BY <2>1, <2>2
<1>11. CASE Unregister(w)
  <2>1. ASSUME count = oldCount[w] PROVE Fails(w)
    BY <2>1, <1>11, <1>w, <1>s, <1>m, <1>n DEF Unregister, Fails, Remembered, Ends
  <2>2. ASSUME count # oldCount[w] PROVE Keep
    BY <2>2, <1>11, <1>w, <1>s, <1>m, <1>n DEF Unregister, Keep
  <2> QED
    BY <2>1, <2>2
<1> QED
  BY <1>1, <1>2, <1>3, <1>4, <1>5, <1>6, <1>7, <1>8, <1>9, <1>10, <1>11 DEF Running

LEMMA SignallerStepEffect ==
    ASSUME IInv, NEW s \in Signallers, Signal(s)
    PROVE  Signals(s) \/ Wakes(s)
<1>1. TypeOK /\ count \in Int
  BY DEF IInv, TypeOK
<1>2. UNCHANGED <<Registered, Waiting, granted>>
  BY DEF Signal, FetchAdd, Release, waiterVars, Registered, Waiting
<1>3. s \in Releasing <=> signaller[s] = "release"
  BY DEF Releasing
<1>4. CASE FetchAdd(s)
  <2>1. Releasing' = IF count < 0 THEN Releasing \cup {s} ELSE Releasing \ {s}
    <3>1. CASE count < 0
      BY <1>1, <1>4, <3>1, SignallerMoves DEF FetchAdd, Owes
    <3>2. CASE ~(count < 0)
      BY <1>1, <1>4, <3>2, SignallerMoves DEF FetchAdd, Owes
    <3> QED
      BY <3>1, <3>2
  <2> QED
    BY <1>2, <1>3, <1>4, <2>1 DEF FetchAdd, Signals
<1>5. CASE Release(s)
  <2>1. Releasing' = Releasing \ {s}
    BY <1>1, <1>5, SignallerMoves DEF Release
  <2> QED
    BY <1>2, <1>3, <1>5, <2>1 DEF Release, Wakes
<1> QED
  BY <1>4, <1>5 DEF Signal

-----------------------------------------------------------------------------
(* The count against the sets, and the step of the contract                *)

ContractStep == [Contract!Next]_<<Available, Waiting, granted>>

LEMMA KeepStep == ASSUME IInv, Keep PROVE WakeupsMatch' /\ ContractStep
BY DEF IInv, Keep, WakeupsMatch, ContractStep, Available, Above, Below

LEMMA WaiterStepCounts ==
    ASSUME IInv, NEW w \in Waiters,
           Begin(w) \/ TakeCount(w) \/ Register(w) \/ Woken(w) \/ Fails(w)
    PROVE  WakeupsMatch' /\ ContractStep
<1>t. count \in Int /\ sema \in Nat
  BY DEF IInv, TypeOK
<1>i. Cardinality(Registered) = Below + sema + Cardinality(Releasing)
  BY DEF IInv, WakeupsMatch
<1> USE Finite DEF WakeupsMatch, ContractStep
<1>1. CASE Begin(w)
  <2>1. WakeupsMatch' /\ UNCHANGED Available
    BY <1>1, <1>i DEF Begin, Below, Above, Available
  <2>2. Contract!Wait(w)
    BY <1>1, <2>1 DEF Begin, Contract!Wait
  <2> QED
    BY <2>1, <2>2 DEF Contract!Next
<1>2. CASE TakeCount(w)
  <2>1. WakeupsMatch'
    BY <1>2, <1>t, <1>i DEF TakeCount, Ends, Below
  <2>2. Available > 0 /\ Available' = Available - 1
    BY <1>2, <1>t DEF TakeCount, Ends, Above, Available
  <2>3. Contract!Grant(w)
    BY <1>2, <2>2 DEF TakeCount, Ends, Contract!Grant
  <2> QED
    BY <2>1, <2>3 DEF Contract!Next
<1>3. CASE Register(w)
  <2>1. Cardinality(Registered') = Cardinality(Registered) + 1
    BY <1>3, FS_AddElement DEF Register
  <2>2. WakeupsMatch'
    BY <1>3, <1>t, <1>i, <2>1 DEF Register, Below
  <2>3. UNCHANGED <<Available, Waiting, granted>>
    BY <1>3, <1>t DEF Register, Above, Available
  <2> QED
    BY <2>2, <2>3
<1>4. CASE Woken(w)
  <2>1. Cardinality(Registered') = Cardinality(Registered) - 1
    BY <1>4, FS_RemoveElement DEF Woken
  <2>2. WakeupsMatch'
    BY <1>4, <1>t, <1>i, <2>1 DEF Woken, Ends, Below
  <2>3. Available > 0 /\ Available' = Available - 1
    BY <1>4, <1>t DEF Woken, Ends, Above, Available
  <2>4. Contract!Grant(w)
    BY <1>4, <2>3 DEF Woken, Ends, Contract!Grant
  <2> QED
    BY <2>2, <2>4 DEF Contract!Next
<1>5. CASE Fails(w)
  <2>1. Cardinality(Registered') = Cardinality(Registered) - 1
    BY <1>5, FS_RemoveElement DEF Fails
  <2>2. WakeupsMatch'
    BY <1>5, <1>t, <1>i, <2>1 DEF Fails, Ends, Below
  <2>3. Available < Cardinality(Waiting) /\ UNCHANGED Available
    BY <1>5, <1>t, <1>i DEF Fails, Ends, Above, Below, Available
  <2>4. UNCHANGED granted
    <3>1. granted' = [granted EXCEPT ![w] = granted[w]]
      BY <1>5 DEF Fails, Ends
    <3> QED
      BY <3>1 DEF IInv, TypeOK
  <2>5. Contract!GiveUp(w)
    <3>1. w \in Waiting /\ Waiting' = Waiting \ {w}
      BY <1>5 DEF Fails, Ends
    <3>2. Available < Contract!Cardinality(Waiting)
      BY <2>3, Zenon DEF Cardinality, Contract!Cardinality
    <3> QED
      BY <2>3, <2>4, <3>1, <3>2 DEF Contract!GiveUp
  <2> QED
    BY <2>2, <2>5 DEF Contract!Next
<1> QED
  BY <1>1, <1>2, <1>3, <1>4, <1>5

LEMMA SignallerStepCounts ==
    ASSUME IInv, NEW s \in Signallers, Signals(s) \/ Wakes(s)
    PROVE  WakeupsMatch' /\ ContractStep
<1>t. count \in Int /\ sema \in Nat
  BY DEF IInv, TypeOK
<1>i. Cardinality(Registered) = Below + sema + Cardinality(Releasing)
  BY DEF IInv, WakeupsMatch
<1> USE Finite DEF WakeupsMatch, ContractStep
<1>1. CASE Signals(s)
  <2>1. Cardinality(Releasing') = IF count < 0 THEN Cardinality(Releasing) + 1
                                               ELSE Cardinality(Releasing)
    <3>1. CASE count < 0
      BY <1>1, <3>1, FS_AddElement DEF Signals
    <3>2. CASE ~(count < 0)
      BY <1>1, <3>2 DEF Signals
    <3> QED
      BY <3>1, <3>2
  <2>2. WakeupsMatch'
    <3>1. sema' = sema /\ Cardinality(Registered') = Cardinality(Registered)
      BY <1>1 DEF Signals
    <3>2. CASE count < 0
      <4>1. Below' = Below - 1 /\ Below \in Int
        BY <1>1, <3>2, <1>t DEF Signals, Below
      <4>2. Cardinality(Releasing') = Cardinality(Releasing) + 1
        BY <2>1, <3>2
      <4> HIDE DEF WakeupsMatch
      <4>3. Cardinality(Registered') = Below' + sema' + Cardinality(Releasing')
        BY <4>1, <4>2, <3>1, <1>t, <1>i
      <4> QED
        BY <4>3 DEF WakeupsMatch
    <3>3. CASE ~(count < 0)
      <4>1. Below' = Below
        BY <1>1, <3>3, <1>t DEF Signals, Below
      <4> QED
        BY <4>1, <3>1, <3>3, <1>i, <2>1
    <3> QED
      BY <3>2, <3>3
  <2>3. Available' = Available + 1
    BY <1>1, <1>t, <2>1 DEF Signals, Above, Available
  <2>4. Contract!Signal
    BY <1>1, <2>3 DEF Signals, Contract!Signal
  <2> QED
    BY <2>2, <2>4 DEF Contract!Next
<1>2. CASE Wakes(s)
  <2>1. Cardinality(Releasing') = Cardinality(Releasing) - 1
    BY <1>2, FS_RemoveElement DEF Wakes
  <2>2. WakeupsMatch'
    BY <1>2, <1>t, <1>i, <2>1 DEF Wakes, Below
  <2>3. UNCHANGED <<Available, Waiting, granted>>
    BY <1>2, <1>t, <2>1 DEF Wakes, Above, Available
  <2> QED
    BY <2>2, <2>3
<1> QED
  BY <1>1, <1>2

(* A step of Semaphore keeps the invariant and is a step of the contract.  *)
LEMMA Step == IInv /\ [Next]_vars => IInv' /\ ContractStep
<1> SUFFICES ASSUME IInv, [Next]_vars PROVE IInv' /\ ContractStep
  OBVIOUS
<1>r. TypeOK /\ \A v \in Waiters : Remembered(v)
  BY DEF IInv
<1>1. ASSUME NEW w \in Waiters, Call(w) \/ Running(w) PROVE IInv' /\ ContractStep
  <2>1. TypeOK' /\ \A v \in Waiters : Remembered(v)'
    BY <1>1, <1>r, WaiterStepTypes
  <2>2. WakeupsMatch' /\ ContractStep
    BY <1>1, WaiterStepEffect, WaiterStepCounts, KeepStep
  <2> QED
    BY <2>1, <2>2 DEF IInv
<1>2. ASSUME NEW s \in Signallers, Signal(s) PROVE IInv' /\ ContractStep
  <2>1. TypeOK' /\ \A v \in Waiters : Remembered(v)'
    BY <1>2, <1>r, SignallerStepTypes
  <2>2. WakeupsMatch' /\ ContractStep
    BY <1>2, SignallerStepEffect, SignallerStepCounts
  <2> QED
    BY <2>1, <2>2 DEF IInv
<1>3. CASE UNCHANGED vars
  <2>1. TypeOK' /\ \A v \in Waiters : Remembered(v)'
    BY <1>3, <1>r DEF vars, waiterVars, signalVars, TypeOK, Remembered
  <2>2. Keep
    BY <1>3 DEF vars, waiterVars, signalVars, Keep, Registered, Releasing, Waiting
  <2> QED
    BY <2>1, <2>2, KeepStep DEF IInv
<1> QED
  BY <1>1, <1>2, <1>3 DEF Next

(* LightweightSemaphore, lines 276-310 and 407-416: every waiter below     *)
(* zero is owed exactly one wake-up.                                       *)
THEOREM NoWakeupLost == Safety => []WakeupsMatch
<1>1. IInv /\ [Next]_vars => IInv'
  BY Step
<1>2. IInv => WakeupsMatch
  BY DEF IInv
<1> QED
  BY <1>1, <1>2, InitIInv, PTL DEF Safety

(* The whole semaphore implements the contract the queue relies on.        *)
THEOREM SemaphoreImplementsPermits == Safety => KeepsPermits
<1>1. Init => Contract!Init
  <2> SUFFICES ASSUME Init PROVE Contract!Init
    OBVIOUS
  <2>1. Releasing = {} /\ Waiting = {}
    BY DEF Init, Releasing, Waiting
  <2> QED
    BY <2>1, FS_EmptySet DEF Init, Contract!Init, Available, Above
<1>2. IInv /\ [Next]_vars => IInv' /\ ContractStep
  BY Step
<1> QED
  BY <1>1, <1>2, InitIInv, PTL DEF Safety, KeepsPermits, Contract!Spec, ContractStep

(* However many threads wait and signal, nobody takes a wake-up that is    *)
(* not there: the kernel semaphore is never below zero.                    *)
THEOREM SemaphoreTyped == Safety => []TypeOK
<1>1. IInv /\ [Next]_vars => IInv'
  BY Step
<1>2. IInv => TypeOK
  BY DEF IInv
<1> QED
  BY <1>1, <1>2, InitIInv, PTL DEF Safety

=============================================================================
