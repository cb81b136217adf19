-------------------------- MODULE SeenTableProofs --------------------------
(***************************************************************************)
(* For any number of threads and any capacity: the dedup table is never    *)
(* addressed out of bounds, and a slot below the count was written.  The   *)
(* inductive invariant says what a thread may rely on after reading a      *)
(* count that others move: slots are never unwritten, so what was below    *)
(* the count when it was read stays written.                               *)
(*                                                                         *)
(* Until two calls overlap it implements MuteOnce: a thread alone with the *)
(* table knows that its count is the count, hence the slots below it hold  *)
(* each dumped pair exactly once, and there are as many as slots.          *)
(***************************************************************************)
EXTENDS SeenTable, FiniteSetTheorems, TLAPS

(* TypeOK, with the history bounds left out: no proof needs them.          *)
Types ==
    /\ g_seen_count \in 0 .. Capacity
    /\ g_seen \in [Index -> Slot]
    /\ pc \in [Threads -> {"idle", "count", "scan", "compare", "store", "publish", "dump"}]
    /\ key \in [Threads -> Pair]
    /\ n \in [Threads -> 0 .. Capacity]
    /\ i \in [Threads -> 0 .. Capacity]
    /\ half \in [Threads -> {"none", "func", "ret"}]
    /\ got \in [Threads -> Slot]

Scanning(t) ==
    /\ pc[t] = "scan" => i[t] <= n[t] /\ (i[t] = n[t] => half[t] = "none")
    /\ pc[t] = "compare" => i[t] < n[t] /\ half[t] = "none"
    /\ pc[t] \in {"scan", "compare"} => \A s \in Index : s < n[t] => Written(s)

Storing(t) ==
    /\ pc[t] \in {"store", "publish"} =>
        /\ n[t] < Capacity
        /\ \A s \in Index : s < n[t] => Written(s)
    /\ pc[t] = "store" /\ half[t] = "func" => g_seen[n[t]].func \in Funcs
    /\ pc[t] = "store" /\ half[t] = "ret"  => g_seen[n[t]].ret \in Rets
    /\ pc[t] = "publish" => Written(n[t])
    /\ pc[t] \in {"idle", "count", "publish", "dump"} => half[t] = "none"

IInv ==
    /\ Types
    /\ PublishedWritten
    /\ \A t \in Threads : Scanning(t) /\ Storing(t)

USE DEF Pair, Slot, Index, Empty

LEMMA InitIInv == Init => IInv
BY CapacityAssumption, ZeroAssumption
   DEF Init, IInv, Types, PublishedWritten, Written, Scanning, Storing

(* No step unwrites a half of a slot.                                      *)
LEMMA WrittenStable ==
    ASSUME IInv, [Next]_vars
    PROVE  \A s \in Index :
             /\ g_seen[s].func \in Funcs => g_seen'[s].func \in Funcs
             /\ g_seen[s].ret \in Rets => g_seen'[s].ret \in Rets
<1>1. CASE UNCHANGED g_seen
  BY <1>1
<1>2. CASE \E t \in Threads, h \in {"func", "ret"} : Store(t, h)
  <2>1. PICK t \in Threads, h \in {"func", "ret"} : Store(t, h)
    BY <1>2
  <2>2. n[t] \in Index /\ key[t] \in Pair /\ g_seen \in [Index -> Slot]
    BY <2>1, CapacityAssumption DEF IInv, Types, Storing, Store
  <2>3. g_seen' = [g_seen EXCEPT ![n[t]][h] = key[t][h]]
    BY <2>1 DEF Store
  <2>4. CASE h = "func"
    BY <2>2, <2>3, <2>4
  <2>5. CASE h = "ret"
    BY <2>2, <2>3, <2>5
  <2>6. QED
    BY <2>4, <2>5
<1>3. QED
  BY <1>1, <1>2
     DEF Next, vars, shared, Call, ReadCount, Load, Match, Differ, Full, Room, Publish, Dump

LEMMA NextIInv == IInv /\ [Next]_vars => IInv'
<1> SUFFICES ASSUME IInv, [Next]_vars PROVE IInv'
  OBVIOUS
<1>0. Capacity \in Nat \ {0}
  BY CapacityAssumption
<1>w. \A s \in Index : Written(s) => Written(s)'
  BY WrittenStable DEF Written
<1>1. ASSUME NEW t \in Threads, NEW p \in Pair, Call(t, p)
      PROVE  IInv'
  BY <1>1 DEF Call, Goto, IInv, Types, PublishedWritten, Written, Scanning, Storing, shared
<1>2. ASSUME NEW t \in Threads, ReadCount(t)
      PROVE  IInv'
  BY <1>0, <1>2
     DEF ReadCount, Goto, IInv, Types, PublishedWritten, Written, Scanning, Storing, shared
<1>3. ASSUME NEW t \in Threads, NEW h \in {"func", "ret"}, Load(t, h)
      PROVE  IInv'
  <2>1. Types'
    <3>1. got' \in [Threads -> Slot]
      <4>1. i[t] \in Index
        BY <1>0, <1>3 DEF Load, IInv, Types
      <4>2. g_seen[i[t]] \in Slot /\ got \in [Threads -> Slot]
        BY <4>1 DEF IInv, Types
      <4>3. got' = [got EXCEPT ![t][h] = g_seen[i[t]][h]]
        BY <1>3 DEF Load
      <4>4. CASE h = "func"
        BY <4>2, <4>3, <4>4
      <4>5. CASE h = "ret"
        BY <4>2, <4>3, <4>5
      <4>6. QED
        BY <4>4, <4>5
    <3>2. QED
      BY <1>0, <1>3, <3>1 DEF Load, Goto, IInv, Types, shared
  <2>2. PublishedWritten'
    BY <1>3, <1>w DEF Load, IInv, PublishedWritten, shared
  <2>3. ASSUME NEW u \in Threads
        PROVE  Scanning(u)' /\ Storing(u)'
    <3>1. CASE u # t
      <4>1. pc'[u] = pc[u] /\ half'[u] = half[u]
        BY <1>3, <3>1 DEF Load, Goto, IInv, Types
      <4>2. QED
        BY <1>3, <4>1 DEF Load, IInv, Scanning, Storing, Written, shared
    <3>2. CASE u = t
      <4>1. /\ pc[t] = "scan" /\ i[t] < n[t]
            /\ \/ pc'[t] = "scan" /\ half'[t] \in {"func", "ret"}
               \/ pc'[t] = "compare" /\ half'[t] = "none"
        <5>1. pc \in [Threads -> {"idle", "count", "scan", "compare", "store", "publish", "dump"}]
              /\ half \in [Threads -> {"none", "func", "ret"}]
          BY DEF IInv, Types
        <5>2. CASE half[t] = "none"
          BY <1>3, <5>1, <5>2 DEF Load
        <5>3. CASE half[t] # "none"
          BY <1>3, <5>1, <5>3 DEF Load, Goto
        <5>4. QED
          BY <5>2, <5>3
      <4>2. n[t] \in 0 .. Capacity /\ i[t] \in 0 .. Capacity
        BY DEF IInv, Types
      <4>3. QED
        BY <1>0, <1>3, <3>2, <4>1, <4>2 DEF Load, IInv, Scanning, Storing, Written, shared
    <3>3. QED
      BY <3>1, <3>2
  <2>4. QED
    BY <2>1, <2>2, <2>3 DEF IInv
<1>4. ASSUME NEW t \in Threads, Match(t)
      PROVE  IInv'
  BY <1>4
     DEF Match, Silence, Goto, IInv, Types, PublishedWritten, Written, Scanning, Storing, shared
<1>5. ASSUME NEW t \in Threads, Differ(t)
      PROVE  IInv'
  BY <1>0, <1>5
     DEF Differ, Goto, IInv, Types, PublishedWritten, Written, Scanning, Storing, shared
<1>6. ASSUME NEW t \in Threads, Full(t)
      PROVE  IInv'
  BY <1>0, <1>6
     DEF Full, HasRoom, Silence, Goto, IInv, Types, PublishedWritten, Written, Scanning, Storing, shared
<1>7. ASSUME NEW t \in Threads, Room(t)
      PROVE  IInv'
  BY <1>0, <1>7
     DEF Room, HasRoom, Goto, IInv, Types, PublishedWritten, Written, Scanning, Storing, shared
<1>8. ASSUME NEW t \in Threads, NEW h \in {"func", "ret"}, Store(t, h)
      PROVE  IInv'
  <2>1. n[t] \in Index /\ key[t] \in Pair
    BY <1>0, <1>8 DEF Store, IInv, Types, Storing
  <2>2. g_seen' = [g_seen EXCEPT ![n[t]][h] = key[t][h]] /\ g_seen \in [Index -> Slot]
    BY <1>8 DEF Store, IInv, Types
  <2>3. g_seen' \in [Index -> Slot] /\ g_seen'[n[t]][h] = key[t][h]
    <3>1. CASE h = "func"
      BY <2>1, <2>2, <3>1
    <3>2. CASE h = "ret"
      BY <2>1, <2>2, <3>2
    <3>3. QED
      BY <3>1, <3>2
  <2>4. Types'
    BY <1>8, <2>3 DEF Store, Goto, IInv, Types
  <2>5. PublishedWritten'
    BY <1>8, <1>w DEF Store, IInv, PublishedWritten
  <2>6. \A u \in Threads : Scanning(u)'
    BY <1>8, <1>w DEF Store, Goto, IInv, Types, Scanning
  <2>7. ASSUME NEW u \in Threads, u # t
        PROVE  Storing(u)'
    <3>1. pc'[u] = pc[u] /\ half'[u] = half[u] /\ n'[u] = n[u] /\ n[u] \in 0 .. Capacity
      BY <1>8, <2>7 DEF Store, Goto, IInv, Types
    <3>2. QED
      BY <1>0, <1>w, <3>1, WrittenStable DEF IInv, Storing
  <2>8. Storing(t)'
    <3>1. n'[t] = n[t] /\ half[t] # h /\ pc[t] = "store"
      BY <1>8 DEF Store
    <3>2. \A s \in Index : s < n[t] => Written(s)'
      BY <1>w, <3>1 DEF IInv, Storing
    <3>3. key[t].func \in Funcs /\ key[t].ret \in Rets
      BY <2>1
    <3>4. CASE half[t] = "none"
      <4>1. pc'[t] = "store" /\ half'[t] = h
        BY <1>8, <3>4 DEF Store, IInv, Types
      <4>2. g_seen'[n'[t]][h] = key[t][h] /\ n'[t] < Capacity
        BY <1>0, <2>1, <2>3, <3>1
      <4>3. CASE h = "func"
        BY <3>1, <3>2, <3>3, <4>1, <4>2, <4>3 DEF Storing, Written
      <4>4. CASE h = "ret"
        BY <3>1, <3>2, <3>3, <4>1, <4>2, <4>4 DEF Storing, Written
      <4>5. QED
        BY <4>3, <4>4
    <3>5. CASE half[t] # "none"
      <4>1. pc'[t] = "publish" /\ half'[t] = "none"
        BY <1>8, <3>5 DEF Store, Goto, IInv, Types
      <4>2. half[t] \in {"func", "ret"}
        BY <3>5 DEF IInv, Types
      <4>3. Written(n[t])'
        BY <2>1, <2>3, <3>1, <3>3, <4>2, WrittenStable DEF Written, IInv, Storing
      <4>4. n'[t] < Capacity
        BY <1>0, <2>1, <3>1
      <4>5. QED
        BY <3>1, <3>2, <4>1, <4>3, <4>4 DEF Storing, Written
    <3>6. QED
      BY <3>4, <3>5
  <2>9. QED
    BY <2>4, <2>5, <2>6, <2>7, <2>8 DEF IInv
<1>9. ASSUME NEW t \in Threads, Publish(t)
      PROVE  IInv'
  BY <1>0, <1>9
     DEF Publish, NewCount, Goto, IInv, Types, PublishedWritten, Written, Scanning, Storing, shared
<1>10. ASSUME NEW t \in Threads, Dump(t)
       PROVE  IInv'
  BY <1>10 DEF Dump, Goto, IInv, Types, PublishedWritten, Written, Scanning, Storing, shared
<1>11. CASE UNCHANGED vars
  BY <1>11 DEF vars, shared, local, IInv, Types, PublishedWritten, Written, Scanning, Storing
<1>12. QED
  BY <1>1, <1>2, <1>3, <1>4, <1>5, <1>6, <1>7, <1>8, <1>9, <1>10, <1>11 DEF Next

LEMMA SpecIInv == Spec => []IInv
BY InitIInv, NextIInv, PTL DEF Spec

(* However many threads race, the table is never addressed outside its     *)
(* Capacity slots: the index a thread stores to is the one it checked.     *)
THEOREM TableInBounds == Spec => []InBounds
<1>1. IInv => InBounds
  <2> SUFFICES ASSUME IInv, NEW t \in Threads
               PROVE  /\ pc[t] = "scan" /\ i[t] < n[t] => i[t] \in Index
                      /\ pc[t] \in {"store", "publish"} => n[t] \in Index
    BY DEF InBounds
  <2>1. n[t] \in 0 .. Capacity /\ i[t] \in 0 .. Capacity /\ Capacity \in Nat
    BY CapacityAssumption DEF IInv, Types
  <2>2. QED
    BY <2>1 DEF IInv, Storing
<1>2. QED
  BY <1>1, SpecIInv, PTL

(* However many threads race, and although they move the count back and    *)
(* forth, every slot below it was written: no scan meets initial zeroes.   *)
THEOREM TablePublishedWritten == Spec => []PublishedWritten
<1>1. IInv => PublishedWritten
  BY DEF IInv
<1>2. QED
  BY <1>1, SpecIInv, PTL

-----------------------------------------------------------------------------
(* One call at a time                                                      *)

Labels == {"idle", "count", "scan", "compare", "store", "publish", "dump"}

HistoryTypes ==
    /\ calls \in 0 .. MaxCalls
    /\ dumps \in [Pair -> Nat]
    /\ silent \in [Pair -> Nat]
    /\ overlapped \in BOOLEAN

Alone == \A t, u \in Threads : pc[t] # "idle" /\ pc[u] # "idle" => t = u

(* One of the first k slots holds p. *)
Entry(p, k) == \E s \in Index : s < k /\ g_seen[s] = p

Distinct == \A r, s \in Index : r < g_seen_count /\ s < g_seen_count /\ g_seen[r] = g_seen[s] => r = s

(* The table holds the pairs that were dumped, and in its last slot maybe  *)
(* one that is about to be.                                                *)
HoldsDumped ==
    /\ (\A t \in Threads : pc[t] # "dump") => \A p \in Pair : dumps[p] > 0 <=> Entry(p, g_seen_count)
    /\ \A t \in Threads : pc[t] = "dump" =>
           /\ g_seen_count = n[t] + 1
           /\ \A p \in Pair : dumps[p] > 0 <=> Entry(p, n[t])

(* What a thread knows of the table as long as it is alone with it.        *)
Knows(t) ==
    /\ pc[t] \in {"scan", "compare", "store", "publish"} => n[t] = g_seen_count
    /\ pc[t] \in {"scan", "compare"} => \A s \in Index : s < i[t] => g_seen[s] # key[t]
    /\ \A h \in {"func", "ret"} : pc[t] = "scan" /\ half[t] = h => got[t][h] = g_seen[i[t]][h]
    /\ pc[t] = "compare" => got[t] = g_seen[i[t]]
    /\ pc[t] \in {"store", "publish", "dump"} => ~Entry(key[t], n[t])
    /\ \A h \in {"func", "ret"} : pc[t] = "store" /\ half[t] = h => g_seen[n[t]][h] = key[t][h]
    /\ pc[t] \in {"publish", "dump"} => n[t] < Capacity /\ g_seen[n[t]] = key[t]

Sequential == Alone /\ Distinct /\ HoldsDumped /\ \A t \in Threads : Knows(t)

SInv == IInv /\ HistoryTypes /\ (~overlapped => Sequential)

(* A table without repetitions holds as many pairs as it has slots in use. *)
LEMMA EntriesCounted ==
    ASSUME Types, Distinct, NEW k \in 0 .. g_seen_count, NEW S,
           \A p : p \in S <=> Entry(p, k)
    PROVE  Cardinality(S) = k
<1> DEFINE below == {s \in Index : s < k}
           f == [s \in below |-> g_seen[s]]
<1>0. Capacity \in Nat /\ k \in 0 .. Capacity /\ g_seen_count \in Nat
  BY CapacityAssumption DEF Types
<1>1. below = 0 .. k - 1
  BY <1>0
<1>2. IsFiniteSet(below) /\ Cardinality(below) = k
  <2>1. k - 1 \in Int /\ 0 \in Int
    BY <1>0
  <2>2. IsFiniteSet(0 .. k - 1) /\ Cardinality(0 .. k - 1) = IF 0 > k - 1 THEN 0 ELSE (k - 1) - 0 + 1
    BY <2>1, FS_Interval
  <2>3. (IF 0 > k - 1 THEN 0 ELSE (k - 1) - 0 + 1) = k
    BY <1>0
  <2>4. QED
    BY <1>1, <2>2, <2>3
<1>3. S = {g_seen[s] : s \in below}
  BY DEF Entry
<1>4. f \in [below -> S]
  BY <1>3
<1>5. \A r, s \in below : f[r] = f[s] => r = s
  BY <1>0 DEF Distinct
<1>6. \A p \in S : \E s \in below : f[s] = p
  BY <1>3
<1>7. f \in Bijection(below, S)
  BY <1>4, <1>5, <1>6 DEF Bijection, Injection, Surjection, IsInjective
<1>8. ExistsBijection(below, S)
  BY <1>7 DEF ExistsBijection
<1>9. QED
  BY <1>2, <1>8, FS_Bijection

LEMMA EntriesArePairs ==
    ASSUME Types, PublishedWritten, NEW k, \A s \in Index : s < k => s < g_seen_count
    PROVE  \A p : Entry(p, k) => p \in Pair
<1> SUFFICES ASSUME NEW s \in Index, s < k PROVE g_seen[s] \in Pair
  BY DEF Entry
<1>1. g_seen[s] \in Slot
  BY DEF Types
<1>2. g_seen[s].func \in Funcs /\ g_seen[s].ret \in Rets
  BY DEF PublishedWritten, Written
<1>3. QED
  BY <1>1, <1>2

LEMMA InitSInv == Init => SInv
<1> SUFFICES ASSUME Init PROVE SInv
  OBVIOUS
<1>1. IInv
  BY InitIInv
<1>2. HistoryTypes
  <2>1. calls \in 0 .. MaxCalls
    BY MaxCallsAssumption DEF Init
  <2>2. dumps \in [Pair -> Nat] /\ silent \in [Pair -> Nat] /\ overlapped \in BOOLEAN
    BY DEF Init
  <2>3. QED
    BY <2>1, <2>2 DEF HistoryTypes
<1>3. \A p : ~Entry(p, 0)
  BY DEF Entry
<1>4. Sequential
  BY <1>3 DEF Init, Sequential, Alone, Distinct, HoldsDumped, Knows
<1>5. QED
  BY <1>1, <1>2, <1>4 DEF SInv

(* Steps that leave the table and the log alone.                           *)
LEMMA PrivateStep ==
    ASSUME Sequential, NEW t \in Threads, NEW l \in Labels \ {"dump"}, Types,
           \A u \in Threads \ {t} : pc[u] = "idle",
           pc[t] # "dump", pc' = [pc EXCEPT ![t] = l], UNCHANGED <<shared, dumps>>, Knows(t)'
    PROVE  Sequential'
<1>1. pc'[t] = l /\ \A u \in Threads \ {t} : pc'[u] = "idle"
  BY DEF Types
<1>2. Alone' /\ \A u \in Threads : Knows(u)'
  BY <1>1 DEF Alone, Knows
<1>3. Distinct'
  BY DEF Sequential, Distinct, shared
<1>4. HoldsDumped'
  BY <1>1 DEF Sequential, HoldsDumped, Entry, shared
<1>5. QED
  BY <1>2, <1>3, <1>4 DEF Sequential

(* One counter of a row is incremented. *)
LEMMA CountedUpOne ==
    ASSUME NEW S, NEW f \in [S -> Nat], NEW k \in S
    PROVE  /\ [f EXCEPT ![k] = @ + 1] \in [S -> Nat]
           /\ \A p \in S : [f EXCEPT ![k] = @ + 1][p] > 0 <=> (f[p] > 0 \/ p = k)
<1>1. f[k] \in Nat /\ f[k] + 1 \in Nat /\ f[k] + 1 > 0
  OBVIOUS
<1>2. QED
  BY <1>1

LEMMA HistoryKept == HistoryTypes /\ Types /\ [Next]_vars => HistoryTypes'
<1> SUFFICES ASSUME HistoryTypes, Types, [Next]_vars PROVE HistoryTypes'
  OBVIOUS
<1>1. ASSUME NEW t \in Threads, NEW p \in Pair, Call(t, p)
      PROVE  HistoryTypes'
  <2>1. calls' \in 0 .. MaxCalls
    BY <1>1, MaxCallsAssumption DEF Call, HistoryTypes
  <2>2. overlapped' \in BOOLEAN /\ UNCHANGED <<dumps, silent>>
    BY <1>1 DEF Call, HistoryTypes
  <2>3. QED
    BY <2>1, <2>2 DEF HistoryTypes
<1>2. ASSUME NEW t \in Threads, Match(t) \/ Full(t)
      PROVE  HistoryTypes'
  <2>1. silent' = [silent EXCEPT ![key[t]] = @ + 1] /\ UNCHANGED <<calls, dumps, overlapped>>
    BY <1>2 DEF Match, Full, Silence
  <2>2. silent' \in [Pair -> Nat]
    <3> HIDE DEF Pair
    <3>1. key[t] \in Pair
      BY DEF Types
    <3>2. QED
      BY <2>1, <3>1, CountedUpOne DEF HistoryTypes
  <2>3. QED
    BY <2>1, <2>2 DEF HistoryTypes
<1>3. ASSUME NEW t \in Threads, Dump(t)
      PROVE  HistoryTypes'
  <2>1. dumps' = [dumps EXCEPT ![key[t]] = @ + 1] /\ UNCHANGED <<calls, silent, overlapped>>
    BY <1>3 DEF Dump
  <2>2. dumps' \in [Pair -> Nat]
    <3> HIDE DEF Pair
    <3>1. key[t] \in Pair
      BY DEF Types
    <3>2. QED
      BY <2>1, <3>1, CountedUpOne DEF HistoryTypes
  <2>3. QED
    BY <2>1, <2>2 DEF HistoryTypes
<1>4. CASE UNCHANGED hist
  BY <1>4 DEF hist, HistoryTypes
<1>5. QED
  BY <1>1, <1>2, <1>3, <1>4
     DEF Next, ReadCount, Load, Store, Differ, Room, Publish, vars

(* While no calls have overlapped, a thread that takes a step is the only  *)
(* one in a call.                                                          *)
LEMMA OthersIdle ==
    ASSUME Alone, NEW t \in Threads, pc[t] # "idle"
    PROVE  \A u \in Threads \ {t} : pc[u] = "idle"
BY DEF Alone

LEMMA SequentialStep ==
    ASSUME SInv, ~overlapped', Next
    PROVE  Sequential'
<1>o. ~overlapped
  BY DEF SInv, HistoryTypes, Next, Call, ReadCount, Load, Store, Match, Differ, Full, Room, Publish,
         Dump, hist
<1>0. /\ Types /\ Sequential /\ Alone /\ Distinct /\ HoldsDumped /\ HistoryTypes
      /\ \A t \in Threads : Knows(t) /\ Scanning(t) /\ Storing(t)
  BY <1>o DEF SInv, IInv, Sequential
<1>c. Capacity \in Nat \ {0}
  BY CapacityAssumption
<1> USE DEF Goto
<1>1. ASSUME NEW t \in Threads, NEW p \in Pair, Call(t, p)
      PROVE  Sequential'
  <2>1. /\ pc[t] = "idle" /\ pc' = [pc EXCEPT ![t] = "count"] /\ UNCHANGED <<shared, dumps>>
        /\ \A u \in Threads \ {t} : pc[u] = "idle"
    BY <1>1 DEF Call
  <2>2. pc'[t] = "count"
    BY <1>0, <2>1 DEF Types
  <2>3. Knows(t)'
    BY <2>2 DEF Knows
  <2>4. QED
    BY <1>0, <2>1, <2>3, PrivateStep DEF Labels
<1>2. ASSUME NEW t \in Threads, ReadCount(t)
      PROVE  Sequential'
  <2>1. /\ pc[t] = "count" /\ pc' = [pc EXCEPT ![t] = "scan"] /\ UNCHANGED <<shared, dumps>>
        /\ n' = [n EXCEPT ![t] = g_seen_count] /\ i' = [i EXCEPT ![t] = 0]
        /\ UNCHANGED <<key, half, got>>
    BY <1>2 DEF ReadCount, hist
  <2>2. pc'[t] = "scan" /\ n'[t] = g_seen_count /\ i'[t] = 0 /\ half[t] = "none"
    BY <1>0, <2>1 DEF Types, Storing
  <2>3. \A s \in Index : ~(s < 0)
    BY <1>c
  <2>4. Knows(t)'
    BY <2>1, <2>2, <2>3 DEF Knows, shared
  <2>5. QED
    BY <1>0, <2>1, <2>4, OthersIdle, PrivateStep DEF Labels
<1>3. ASSUME NEW t \in Threads, NEW h \in {"func", "ret"}, Load(t, h)
      PROVE  Sequential'
  <2>1. /\ pc[t] = "scan" /\ half[t] # h /\ i[t] < n[t]
        /\ got' = [got EXCEPT ![t][h] = g_seen[i[t]][h]]
        /\ UNCHANGED <<shared, dumps, key, n, i>>
    BY <1>3 DEF Load, hist
  <2>2. i[t] \in Index /\ g_seen[i[t]] \in Slot /\ got[t] \in Slot
    BY <1>0, <1>c, <2>1 DEF Types
  <2>3. got'[t] = [got[t] EXCEPT ![h] = g_seen[i[t]][h]]
    BY <1>0, <2>1 DEF Types
  <2>4. got'[t][h] = g_seen[i[t]][h]
    BY <2>2, <2>3
  <2>5. CASE half[t] = "none"
    <3>1. UNCHANGED pc /\ half' = [half EXCEPT ![t] = h]
      BY <1>3, <2>5 DEF Load
    <3>2. pc' = [pc EXCEPT ![t] = "scan"] /\ pc'[t] = "scan" /\ half'[t] = h
      BY <1>0, <2>1, <3>1 DEF Types
    <3>3. Knows(t)'
      BY <1>0, <2>1, <2>4, <3>2 DEF Knows, shared
    <3>4. QED
      BY <1>0, <2>1, <3>2, <3>3, OthersIdle, PrivateStep DEF Labels
  <2>6. CASE half[t] # "none"
    <3>1. pc' = [pc EXCEPT ![t] = "compare"] /\ pc'[t] = "compare"
      BY <1>0, <1>3, <2>6 DEF Load, Types
    <3>2. got'[t] = g_seen[i[t]]
      <4>1. \A g \in {"func", "ret"} \ {h} : got'[t][g] = g_seen[i[t]][g]
        <5>1. \A g \in {"func", "ret"} \ {h} : half[t] = g /\ got'[t][g] = got[t][g]
          BY <1>0, <2>1, <2>2, <2>3, <2>6 DEF Types
        <5>2. QED
          BY <1>0, <2>1, <5>1 DEF Knows
      <4>2. got'[t].func = g_seen[i[t]].func /\ got'[t].ret = g_seen[i[t]].ret
        BY <2>4, <4>1
      <4>3. got'[t] \in Slot
        <5>1. CASE h = "func"
          BY <2>2, <2>3, <5>1
        <5>2. CASE h = "ret"
          BY <2>2, <2>3, <5>2
        <5>3. QED
          BY <5>1, <5>2
      <4>4. QED
        BY <2>2, <4>2, <4>3
    <3>3. Knows(t)'
      BY <1>0, <2>1, <3>1, <3>2 DEF Knows, shared
    <3>4. QED
      BY <1>0, <2>1, <3>1, <3>3, OthersIdle, PrivateStep DEF Labels
  <2>7. QED
    BY <2>5, <2>6
<1>4. ASSUME NEW t \in Threads, Match(t) \/ Full(t)
      PROVE  Sequential'
  <2>1. /\ pc[t] \in {"compare", "scan"} /\ pc' = [pc EXCEPT ![t] = "idle"] /\ UNCHANGED <<shared, dumps>>
    BY <1>4 DEF Match, Full, Silence
  <2>2. pc'[t] = "idle"
    BY <1>0, <2>1 DEF Types
  <2>3. Knows(t)'
    BY <2>2 DEF Knows
  <2>4. QED
    BY <1>0, <2>1, <2>3, OthersIdle, PrivateStep DEF Labels
<1>5. ASSUME NEW t \in Threads, Differ(t)
      PROVE  Sequential'
  <2>1. /\ pc[t] = "compare" /\ got[t] # key[t] /\ i' = [i EXCEPT ![t] = @ + 1]
        /\ pc' = [pc EXCEPT ![t] = "scan"] /\ UNCHANGED <<shared, dumps, key, n, half, got>>
    BY <1>5 DEF Differ, Same, hist
  <2>2. pc'[t] = "scan" /\ i'[t] = i[t] + 1 /\ half[t] = "none" /\ i[t] \in Nat
    BY <1>0, <1>c, <2>1 DEF Types, Scanning
  <2>3. \A s \in Index : s < i[t] + 1 => s < i[t] \/ s = i[t]
    BY <1>c, <2>2
  <2>4. \A s \in Index : s < i'[t] => g_seen[s] # key[t]
    BY <1>0, <2>1, <2>2, <2>3 DEF Knows
  <2>5. Knows(t)'
    BY <1>0, <2>1, <2>2, <2>4 DEF Knows, shared
  <2>6. QED
    BY <1>0, <2>1, <2>5, OthersIdle, PrivateStep DEF Labels
<1>6. ASSUME NEW t \in Threads, Room(t)
      PROVE  Sequential'
  <2>1. /\ pc[t] = "scan" /\ i[t] >= n[t] /\ n[t] < Capacity
        /\ pc' = [pc EXCEPT ![t] = "store"] /\ UNCHANGED <<shared, dumps, key, n, i, half, got>>
    BY <1>6 DEF Room, HasRoom, hist
  <2>2. pc'[t] = "store" /\ i[t] = n[t] /\ half[t] = "none"
    BY <1>0, <1>c, <2>1 DEF Types, Scanning
  <2>3. ~Entry(key[t], n[t])
    BY <1>0, <2>1, <2>2 DEF Knows, Entry
  <2>4. Knows(t)'
    BY <1>0, <2>1, <2>2, <2>3 DEF Knows, Entry, shared
  <2>5. QED
    BY <1>0, <2>1, <2>4, OthersIdle, PrivateStep DEF Labels
<1>7. ASSUME NEW t \in Threads, NEW h \in {"func", "ret"}, Store(t, h)
      PROVE  Sequential'
  <2>1. /\ pc[t] = "store" /\ half[t] # h
        /\ g_seen' = [g_seen EXCEPT ![n[t]][h] = key[t][h]]
        /\ UNCHANGED <<g_seen_count, key, n, i, got, dumps>>
    BY <1>7 DEF Store, hist
  <2>2. /\ n[t] \in Index /\ n[t] = g_seen_count /\ n[t] < Capacity
        /\ g_seen[n[t]] \in Slot /\ key[t] \in Pair
    BY <1>0, <1>c, <2>1 DEF Types, Storing, Knows
  <2>3. /\ g_seen'[n[t]] = [g_seen[n[t]] EXCEPT ![h] = key[t][h]]
        /\ \A s \in Index : s # n[t] => g_seen'[s] = g_seen[s]
    BY <1>0, <2>1, <2>2 DEF Types
  <2>4. \A u \in Threads \ {t} : pc[u] = "idle"
    BY <1>0, <2>1, OthersIdle
  <2>5. \A s \in Index : s < g_seen_count => g_seen'[s] = g_seen[s]
    BY <1>c, <2>2, <2>3
  <2>6. Distinct'
    BY <1>0, <2>1, <2>5 DEF Distinct
  <2>7. \A p : Entry(p, n[t])' <=> Entry(p, n[t])
    BY <2>1, <2>2, <2>5 DEF Entry
  <2>8. pc'[t] \in {"store", "publish"} /\ \A u \in Threads \ {t} : pc'[u] = "idle"
    BY <1>0, <1>7, <2>1, <2>4 DEF Store, Types
  <2>9. Alone'
    BY <2>8 DEF Alone
  <2>10. HoldsDumped'
    BY <1>0, <2>1, <2>2, <2>4, <2>7, <2>8 DEF HoldsDumped
  <2>11. g_seen'[n[t]][h] = key[t][h]
    BY <2>2, <2>3
  <2>12. CASE half[t] = "none"
    <3>1. pc'[t] = "store" /\ half'[t] = h
      BY <1>0, <1>7, <2>1, <2>12 DEF Store, Types
    <3>2. Knows(t)'
      BY <1>0, <2>1, <2>2, <2>7, <2>11, <3>1 DEF Knows
    <3>3. QED
      BY <2>6, <2>8, <2>9, <2>10, <3>2 DEF Sequential, Knows
  <2>13. CASE half[t] # "none"
    <3>1. pc'[t] = "publish"
      BY <1>0, <1>7, <2>1, <2>13 DEF Store, Types
    <3>2. g_seen'[n[t]] = key[t]
      <4>1. \A g \in {"func", "ret"} \ {h} : g_seen'[n[t]][g] = key[t][g]
        <5>1. \A g \in {"func", "ret"} \ {h} : half[t] = g /\ g_seen'[n[t]][g] = g_seen[n[t]][g]
          BY <1>0, <2>1, <2>2, <2>3, <2>13 DEF Types
        <5>2. QED
          BY <1>0, <2>1, <5>1 DEF Knows
      <4>2. g_seen'[n[t]].func = key[t].func /\ g_seen'[n[t]].ret = key[t].ret
        BY <2>11, <4>1
      <4>3. g_seen'[n[t]] \in Slot
        <5>1. CASE h = "func"
          BY <2>2, <2>3, <5>1
        <5>2. CASE h = "ret"
          BY <2>2, <2>3, <5>2
        <5>3. QED
          BY <5>1, <5>2
      <4>4. QED
        BY <2>2, <4>2, <4>3
    <3>3. Knows(t)'
      BY <1>0, <2>1, <2>2, <2>7, <3>1, <3>2 DEF Knows
    <3>4. QED
      BY <2>6, <2>8, <2>9, <2>10, <3>3 DEF Sequential, Knows
  <2>14. QED
    BY <2>12, <2>13
<1>8. ASSUME NEW t \in Threads, Publish(t)
      PROVE  Sequential'
  <2>1. /\ pc[t] = "publish" /\ pc' = [pc EXCEPT ![t] = "dump"]
        /\ g_seen_count' = n[t] + 1
        /\ UNCHANGED <<g_seen, key, n, i, half, got, dumps>>
    BY <1>8 DEF Publish, NewCount, hist
  <2>2. /\ n[t] \in Index /\ n[t] = g_seen_count /\ n[t] < Capacity
        /\ g_seen[n[t]] = key[t] /\ ~Entry(key[t], n[t])
    BY <1>0, <1>c, <2>1 DEF Types, Storing, Knows
  <2>3. \A u \in Threads \ {t} : pc[u] = "idle"
    BY <1>0, <2>1, OthersIdle
  <2>4. pc'[t] = "dump" /\ \A u \in Threads \ {t} : pc'[u] = "idle"
    BY <1>0, <2>1, <2>3 DEF Types
  <2>5. \A s \in Index : s < n[t] + 1 => s < n[t] \/ s = n[t]
    BY <1>c, <2>2
  <2>6. Distinct'
    BY <1>0, <2>1, <2>2, <2>5 DEF Distinct, Entry
  <2>7. Alone' /\ \A u \in Threads : Knows(u)'
    BY <2>1, <2>2, <2>4 DEF Alone, Knows, Entry
  <2>8. HoldsDumped'
    <3>1. \A p \in Pair : dumps[p] > 0 <=> Entry(p, n[t])
      BY <1>0, <2>1, <2>2, <2>3 DEF HoldsDumped
    <3>2. QED
      BY <2>1, <2>4, <3>1 DEF HoldsDumped, Entry
  <2>9. QED
    BY <2>6, <2>7, <2>8 DEF Sequential
<1>9. ASSUME NEW t \in Threads, Dump(t)
      PROVE  Sequential'
  <2>1. /\ pc[t] = "dump" /\ pc' = [pc EXCEPT ![t] = "idle"]
        /\ dumps' = [dumps EXCEPT ![key[t]] = @ + 1]
        /\ UNCHANGED <<shared, key, n, i, half, got>>
    BY <1>9 DEF Dump
  <2>2. /\ n[t] \in Index /\ g_seen_count = n[t] + 1 /\ g_seen[n[t]] = key[t] /\ key[t] \in Pair
        /\ \A p \in Pair : dumps[p] > 0 <=> Entry(p, n[t])
    BY <1>0, <1>c, <2>1 DEF Types, HoldsDumped, Knows
  <2>3. \A u \in Threads : pc'[u] = "idle"
    BY <1>0, <2>1, OthersIdle DEF Types
  <2>4. \A p \in Pair : dumps'[p] > 0 <=> (dumps[p] > 0 \/ p = key[t])
    <3> HIDE DEF Pair
    <3>1. QED
      BY <1>0, <2>1, <2>2, CountedUpOne DEF HistoryTypes
  <2>5. \A s \in Index : s < g_seen_count <=> (s < n[t] \/ s = n[t])
    BY <1>c, <2>2
  <2>6. \A p : Entry(p, g_seen_count) <=> (Entry(p, n[t]) \/ p = key[t])
    BY <2>2, <2>5 DEF Entry
  <2>7. HoldsDumped'
    <3>1. \A p \in Pair : dumps'[p] > 0 <=> Entry(p, g_seen_count)
      BY <2>2, <2>4, <2>6
    <3>2. QED
      BY <2>1, <2>3, <3>1 DEF HoldsDumped, Entry, shared
  <2>8. Distinct' /\ Alone' /\ \A u \in Threads : Knows(u)'
    BY <1>0, <2>1, <2>3 DEF Distinct, Alone, Knows, shared
  <2>9. QED
    BY <2>7, <2>8 DEF Sequential
<1>10. QED
  BY <1>1, <1>2, <1>3, <1>4, <1>5, <1>6, <1>7, <1>8, <1>9 DEF Next

LEMMA NextSInv == SInv /\ [Next]_vars => SInv'
<1> SUFFICES ASSUME SInv, [Next]_vars PROVE SInv'
  OBVIOUS
<1>1. IInv' /\ HistoryTypes'
  BY NextIInv, HistoryKept DEF SInv, IInv
<1>2. CASE Next
  BY <1>1, <1>2, SequentialStep DEF SInv
<1>3. CASE UNCHANGED vars
  <2>1. UNCHANGED <<g_seen_count, g_seen, pc, key, n, i, half, got, dumps, overlapped>>
    BY <1>3 DEF vars, shared, local, hist
  <2>2. Sequential => Sequential'
    BY <2>1 DEF Sequential, Alone, Distinct, HoldsDumped, Knows, Entry
  <2>3. QED
    BY <1>1, <2>1, <2>2 DEF SInv
<1>4. QED
  BY <1>2, <1>3

(* A call that ends while no two have overlapped ends as MuteOnce says.    *)
LEMMA MuteOnceStep ==
    ASSUME SInv, ~overlapped, [Next]_vars
    PROVE  [Abs!Next]_<<dumps, silent>>
<1>0. /\ Types /\ Alone /\ Distinct /\ HoldsDumped /\ HistoryTypes
      /\ \A t \in Threads : Knows(t) /\ Scanning(t) /\ Storing(t)
  BY DEF SInv, IInv, Sequential
<1>c. Capacity \in Nat \ {0}
  BY CapacityAssumption
<1>p. \A t \in Threads : key[t] \in Pair
  BY <1>0 DEF Types
<1>1. ASSUME NEW t \in Threads, Match(t)
      PROVE  Abs!Mute(key[t])
  <2>1. /\ pc[t] = "compare" /\ got[t] = key[t]
        /\ silent' = [silent EXCEPT ![key[t]] = @ + 1] /\ UNCHANGED dumps
    BY <1>1 DEF Match, Same, Silence
  <2>2. i[t] \in Index /\ i[t] < g_seen_count /\ g_seen[i[t]] = key[t]
    BY <1>0, <1>c, <2>1 DEF Knows, Scanning, Types
  <2>3. \A u \in Threads : pc[u] # "dump"
    BY <1>0, <2>1, OthersIdle
  <2>4. dumps[key[t]] > 0
    BY <1>0, <1>p, <2>2, <2>3 DEF HoldsDumped, Entry
  <2>5. QED
    BY <1>p, <2>1, <2>4 DEF Abs!Mute, Abs!Seen
<1>2. ASSUME NEW t \in Threads, Full(t)
      PROVE  Abs!Mute(key[t])
  <2>1. /\ pc[t] = "scan" /\ ~(n[t] < Capacity)
        /\ silent' = [silent EXCEPT ![key[t]] = @ + 1] /\ UNCHANGED dumps
    BY <1>2 DEF Full, HasRoom, Silence
  <2>2. g_seen_count = Capacity /\ g_seen_count \in 0 .. g_seen_count
    BY <1>0, <1>c, <2>1 DEF Knows, Types
  <2>3. \A u \in Threads : pc[u] # "dump"
    BY <1>0, <2>1, OthersIdle
  <2>4. \A p : p \in Abs!Seen <=> Entry(p, g_seen_count)
    <3>1. \A p : Entry(p, g_seen_count) => p \in Pair
      BY <1>0, EntriesArePairs DEF SInv, IInv
    <3>2. QED
      BY <1>0, <2>3, <3>1 DEF HoldsDumped, Abs!Seen
  <2>5. Cardinality(Abs!Seen) = Capacity
    BY <1>0, <2>2, <2>4, EntriesCounted
  <2>6. Abs!Cardinality(Abs!Seen) = Capacity
    BY <2>5, Zenon DEF Cardinality, Abs!Cardinality
  <2>7. QED
    BY <1>c, <2>1, <2>6 DEF Abs!Mute
<1>3. ASSUME NEW t \in Threads, Dump(t)
      PROVE  Abs!Backtrace(key[t])
  <2>1. /\ pc[t] = "dump" /\ dumps' = [dumps EXCEPT ![key[t]] = @ + 1] /\ UNCHANGED silent
    BY <1>3 DEF Dump
  <2>2. /\ n[t] < Capacity /\ n[t] \in 0 .. g_seen_count /\ ~Entry(key[t], n[t])
        /\ \A p \in Pair : dumps[p] > 0 <=> Entry(p, n[t])
    BY <1>0, <1>c, <2>1 DEF Knows, HoldsDumped, Types
  <2>3. \A p : p \in Abs!Seen <=> Entry(p, n[t])
    <3>1. n[t] <= g_seen_count /\ n[t] \in Nat /\ g_seen_count \in Nat
      BY <1>0, <1>c, <2>2 DEF Types
    <3>2. \A s \in Index : s < n[t] => s < g_seen_count
      BY <1>c, <3>1
    <3>3. \A p : Entry(p, n[t]) => p \in Pair
      BY <1>0, <3>2, EntriesArePairs DEF SInv, IInv
    <3>4. QED
      BY <2>2, <3>3 DEF Abs!Seen
  <2>4. Cardinality(Abs!Seen) = n[t]
    BY <1>0, <2>2, <2>3, EntriesCounted
  <2>5. Abs!Cardinality(Abs!Seen) = n[t]
    BY <2>4, Zenon DEF Cardinality, Abs!Cardinality
  <2>6. QED
    BY <2>1, <2>2, <2>3, <2>5 DEF Abs!Backtrace
<1>4. CASE UNCHANGED <<dumps, silent>>
  BY <1>4
<1>5. QED
  BY <1>p, <1>1, <1>2, <1>3, <1>4
     DEF Next, Call, ReadCount, Load, Store, Differ, Room, Publish, vars, hist, Abs!Next

(* However many threads there are and whatever the capacity: until two     *)
(* calls overlap, a new pair is logged once, an old one is muted, and only *)
(* a full table mutes a pair that was never logged.                        *)
THEOREM MutesExactlyOnce == Spec => MutesOnce
<1>1. Init => Abs!Init
  BY DEF Init, Abs!Init
<1>2. SInv /\ [Next]_vars => (~overlapped => [Abs!Next]_<<dumps, silent>>)
  BY MuteOnceStep
<1>3. QED
  BY <1>1, <1>2, InitSInv, NextSInv, PTL DEF Spec, MutesOnce

(* However many threads race, the count stays within the capacity and a    *)
(* slot holds what was stored or its initial zeroes.                       *)
THEOREM SeenTyped == Spec => []TypeOK
<1>1. SInv => TypeOK
  BY DEF SInv, IInv, Types, HistoryTypes, TypeOK
<1>2. QED
  BY <1>1, InitSInv, NextSInv, PTL DEF Spec

=============================================================================
