----------------------------- MODULE SeenTable -----------------------------
(***************************************************************************)
(* The backtrace dedup table of ag_mho_dll/hooks_mho_handlers.cpp.         *)
(*                                                                         *)
(* Every hooked handler calls log_handler_call, which logs one line and    *)
(* asks note_caller_pair_new whether the pair (handler, return address)    *)
(* was met before; a new pair gets a backtrace.  The table is two volatile *)
(* globals with no lock, and the handlers run on any thread of the client. *)
(*                                                                         *)
(* One action per memory access.  The build is 32-bit, so a 64-bit slot is *)
(* loaded and stored as two 32-bit halves, the return address (low half)   *)
(* and the handler (high half), in an order the compiler chooses: the      *)
(* model takes either.  In a call every load precedes every store, and the *)
(* log queue's locked instructions drain the store buffer between calls,   *)
(* so interleaving the accesses loses no behaviour of x86.                 *)
(***************************************************************************)
EXTENDS Integers

CONSTANTS
    Threads,    \* client threads that may run a hooked handler
    Funcs,      \* handler addresses
    Rets,       \* return addresses
    Zero,       \* the content of a static half that nobody stored to
    Capacity,   \* slots of g_seen: 256 in the source
    MaxCalls    \* bound: calls of log_handler_call in a behaviour

ASSUME CapacityAssumption == Capacity \in Nat \ {0}
ASSUME MaxCallsAssumption == MaxCalls \in Nat
ASSUME ZeroAssumption == Zero \notin Funcs \cup Rets

Pair  == [func : Funcs, ret : Rets]
Slot  == [func : Funcs \cup {Zero}, ret : Rets \cup {Zero}]
Index == 0 .. Capacity - 1
Empty == [func |-> Zero, ret |-> Zero]

VARIABLES
    g_seen_count,   \* the shared count
    g_seen,         \* the shared slots
    pc,             \* where each thread is in log_handler_call
    key,            \* the pair of the thread's current call
    n,              \* the count as the thread read it
    i,              \* the slot the thread compares
    half,           \* the half of the slot already loaded or stored: "none", "func" or "ret"
    got,            \* what the thread has loaded of slot i
    calls,          \* history: calls made so far
    dumps,          \* history: backtraces logged for each pair
    silent,         \* history: calls of each pair that were muted
    overlapped      \* history: two threads have been in a call at once

shared == <<g_seen_count, g_seen>>
local  == <<pc, key, n, i, half, got>>
hist   == <<calls, dumps, silent, overlapped>>
vars   == <<shared, local, hist>>

Init ==
    /\ g_seen_count = 0
    /\ g_seen = [s \in Index |-> Empty]
    /\ pc = [t \in Threads |-> "idle"]
    /\ key \in [Threads -> Pair]
    /\ n = [t \in Threads |-> 0]
    /\ i = [t \in Threads |-> 0]
    /\ half = [t \in Threads |-> "none"]
    /\ got = [t \in Threads |-> Empty]
    /\ calls = 0
    /\ dumps = [p \in Pair |-> 0]
    /\ silent = [p \in Pair |-> 0]
    /\ overlapped = FALSE

-----------------------------------------------------------------------------

Goto(t, l) == pc' = [pc EXCEPT ![t] = l]

(* A hooked handler is entered with some pair: the line is logged and the  *)
(* table is asked.                                                         *)
Call(t, p) ==
    /\ pc[t] = "idle"
    /\ calls < MaxCalls
    /\ calls' = calls + 1
    /\ key' = [key EXCEPT ![t] = p]
    /\ overlapped' = (overlapped \/ \E u \in Threads \ {t} : pc[u] # "idle")
    /\ Goto(t, "count")
    /\ UNCHANGED <<shared, n, i, half, got, dumps, silent>>

(* The table has room for slot k.  Mutation: the check is off by one.      *)
HasRoomOffByOne(k) == k <= Capacity
HasRoom(k) == k < Capacity

(* g_seen[i] == key, as loaded.  Mutation: the return addresses only.      *)
SameRet(t) == got[t].ret = key[t].ret
Same(t) == got[t] = key[t]

(* int n = g_seen_count *)
ReadCount(t) ==
    /\ pc[t] = "count"
    /\ n' = [n EXCEPT ![t] = g_seen_count]
    /\ i' = [i EXCEPT ![t] = 0]
    /\ Goto(t, "scan")
    /\ UNCHANGED <<shared, key, half, got, hist>>

(* One half of the load of g_seen[i]. *)
Load(t, h) ==
    /\ pc[t] = "scan"
    /\ i[t] < n[t]
    /\ half[t] # h
    /\ got' = [got EXCEPT ![t][h] = g_seen[i[t]][h]]
    /\ IF half[t] = "none"
       THEN half' = [half EXCEPT ![t] = h] /\ UNCHANGED pc
       ELSE half' = [half EXCEPT ![t] = "none"] /\ Goto(t, "compare")
    /\ UNCHANGED <<shared, key, n, i, hist>>

(* return false: the call logs nothing more. *)
Silence(t) ==
    /\ silent' = [silent EXCEPT ![key[t]] = @ + 1]
    /\ Goto(t, "idle")

(* if (g_seen[i] == key) return false *)
Match(t) ==
    /\ pc[t] = "compare"
    /\ Same(t)
    /\ Silence(t)
    /\ UNCHANGED <<shared, key, n, i, half, got, calls, dumps, overlapped>>

(* i++ *)
Differ(t) ==
    /\ pc[t] = "compare"
    /\ ~Same(t)
    /\ i' = [i EXCEPT ![t] = @ + 1]
    /\ Goto(t, "scan")
    /\ UNCHANGED <<shared, key, n, half, got, hist>>

(* if (n >= 256) return false *)
Full(t) ==
    /\ pc[t] = "scan"
    /\ i[t] >= n[t]
    /\ ~HasRoom(n[t])
    /\ Silence(t)
    /\ UNCHANGED <<shared, key, n, i, half, got, calls, dumps, overlapped>>

Room(t) ==
    /\ pc[t] = "scan"
    /\ i[t] >= n[t]
    /\ HasRoom(n[t])
    /\ Goto(t, "store")
    /\ UNCHANGED <<shared, key, n, i, half, got, hist>>

(* One half of the store g_seen[n] = key. *)
Store(t, h) ==
    /\ pc[t] = "store"
    /\ half[t] # h
    /\ g_seen' = [g_seen EXCEPT ![n[t]][h] = key[t][h]]
    /\ IF half[t] = "none"
       THEN half' = [half EXCEPT ![t] = h] /\ UNCHANGED pc
       ELSE half' = [half EXCEPT ![t] = "none"] /\ Goto(t, "publish")
    /\ UNCHANGED <<g_seen_count, key, n, i, got, hist>>

(* The new count.  Mutation: g_seen_count++.                               *)
CountedUp(t) == g_seen_count + 1
NewCount(t) == n[t] + 1

(* g_seen_count = n + 1 *)
Publish(t) ==
    /\ pc[t] = "publish"
    /\ g_seen_count' = NewCount(t)
    /\ Goto(t, "dump")
    /\ UNCHANGED <<g_seen, key, n, i, half, got, hist>>

(* The pair is new: log_caller_stack. *)
Dump(t) ==
    /\ pc[t] = "dump"
    /\ dumps' = [dumps EXCEPT ![key[t]] = @ + 1]
    /\ Goto(t, "idle")
    /\ UNCHANGED <<shared, key, n, i, half, got, calls, silent, overlapped>>

Next ==
    \E t \in Threads :
        \/ \E p \in Pair : Call(t, p)
        \/ ReadCount(t)
        \/ \E h \in {"func", "ret"} : Load(t, h) \/ Store(t, h)
        \/ Match(t) \/ Differ(t) \/ Full(t) \/ Room(t)
        \/ Publish(t) \/ Dump(t)

Spec == Init /\ [][Next]_vars

-----------------------------------------------------------------------------

(* Every variable has the values its declaration in the source allows.     *)
TypeOK ==
    /\ g_seen_count \in 0 .. Capacity
    /\ g_seen \in [Index -> Slot]
    /\ pc \in [Threads -> {"idle", "count", "scan", "compare", "store", "publish", "dump"}]
    /\ key \in [Threads -> Pair]
    /\ n \in [Threads -> 0 .. Capacity]
    /\ i \in [Threads -> 0 .. Capacity]
    /\ half \in [Threads -> {"none", "func", "ret"}]
    /\ got \in [Threads -> Slot]
    /\ calls \in 0 .. MaxCalls
    /\ dumps \in [Pair -> Nat]
    /\ silent \in [Pair -> Nat]
    /\ overlapped \in BOOLEAN

(* Whatever the threads overwrite, nobody addresses g_seen outside its 256 *)
(* slots: the scan reads below the count it read, and the store goes to    *)
(* the slot the capacity check was made for.                               *)
InBounds ==
    \A t \in Threads :
        /\ pc[t] = "scan" /\ i[t] < n[t] => i[t] \in Index
        /\ pc[t] \in {"store", "publish"} => n[t] \in Index

(* Every slot below the count holds a handler and a return address that    *)
(* some thread stored: a scan never compares with a slot's initial zeroes, *)
(* though the count is moved up and down by threads that do not see each   *)
(* other.                                                                  *)
Written(s) == g_seen[s].func \in Funcs /\ g_seen[s].ret \in Rets

PublishedWritten == \A s \in Index : s < g_seen_count => Written(s)

(* The comment above the table: "each unique (func, ret) pair produces ONE *)
(* backtrace, then is muted", and a race on insert is harmless.  A match   *)
(* mutes a pair only after, or while, some thread stores that very pair.   *)
Stored(p) == \/ dumps[p] > 0
             \/ \E t \in Threads : key[t] = p /\ pc[t] \in {"store", "publish", "dump"}

MutedOnlyIfStored == [][\A t \in Threads : Match(t) => Stored(key[t])]_vars

(* As long as no two calls have overlapped the table keeps its promise: a  *)
(* new pair is logged once and never again, an old one is muted, and only  *)
(* a full table mutes a pair that was never logged.                        *)
Abs == INSTANCE MuteOnce WITH dumped <- dumps, muted <- silent

MutesOnce == Abs!Init /\ [][~overlapped => [Abs!Next]_<<dumps, silent>>]_vars

=============================================================================
