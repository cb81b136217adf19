------------------------- MODULE HookInstallProofs -------------------------
(***************************************************************************)
(* For any number of installers, hook tables and client threads:           *)
(* WriteMemory leaves every page with the protection it was loaded with.   *)
(*                                                                         *)
(* WriteMemory saves the protection of a page, sets it and puts it back    *)
(* without a lock.  Two installers on one page would undo each other, but  *)
(* late installers have modules, hence pages, of their own                 *)
(* (PagesAssumption), and none of them is born while the starter still     *)
(* patches.                                                                *)
(*                                                                         *)
(* A client thread crashes at a hook only if its site was unfinished when  *)
(* the client was resumed: each site is in one table (SitesAssumption),    *)
(* the installer of the table goes through it in order, and a write is     *)
(* only ever added to a site that is not complete.                         *)
(***************************************************************************)
EXTENDS HookInstall, TLAPS

Busy(t) == phase[t] \in {"alloc", "protect", "write", "writing", "restore"}

InstallTypes ==
    /\ phase \in [Installers -> Phases]
    /\ entry \in [Installers -> Nat \ {0}]
    /\ saved \in [Installers -> Protection]
    /\ done \in [Sites -> Nat]
    /\ prot \in [Pages -> Protection]

(* The late installers wait for the end of run().                          *)
StarterFirst == phase[Starter] # "gone" => \A t \in Late : phase[t] = "unborn"

(* An installer begins at the first entry and is within its table while it *)
(* is busy.                                                                *)
InTable ==
    \A t \in Installers :
        /\ phase[t] \in {"unborn", "wait", "config"} => entry[t] = 1
        /\ Busy(t) => entry[t] \in DOMAIN Table[t]

(* The page of a WriteMemory under way is writable, and its OldProtection  *)
(* is the protection the page was loaded with.                             *)
Lifted ==
    \A t \in Installers : InWriteMemory(t) =>
        /\ prot[Page[Current(t)]] = "RWX"
        /\ saved[t] = Original[Page[Current(t)]]

IInv == InstallTypes /\ StarterFirst /\ InTable /\ Lifted /\ ProtectionRestored

LEMMA InitIInv == Init => IInv
<1> SUFFICES ASSUME Init PROVE IInv
  OBVIOUS
<1>1. phase = [t \in Installers |-> IF t = Starter THEN "wait" ELSE "unborn"]
  BY DEF Init
<1>2. \A t \in Installers : phase[t] \in {"wait", "unborn"}
  BY <1>1
<1>3. InstallTypes
  <2>1. phase \in [Installers -> Phases]
    BY <1>1 DEF Phases
  <2>2. QED
    BY <2>1, OriginalAssumption DEF Init, InstallTypes, Protection
<1>4. StarterFirst
  BY <1>1, StarterAssumption DEF StarterFirst, Installers
<1>5. InTable /\ Lifted
  BY <1>2 DEF Init, InTable, Busy, Lifted, InWriteMemory
<1>6. ProtectionRestored
  BY DEF Init, ProtectionRestored
<1>7. QED
  BY <1>3, <1>4, <1>5, <1>6 DEF IInv

(* What a busy installer works on is a site, with a page.                  *)
LEMMA CurrentSite ==
    ASSUME NEW t \in Installers, entry[t] \in DOMAIN Table[t]
    PROVE  Current(t) \in Sites /\ Page[Current(t)] \in Pages
BY TableAssumption, SiteAssumption DEF Current

(* Two installers at work never have the same page.                        *)
LEMMA PagesDisjoint ==
    ASSUME StarterFirst, InTable,
           NEW t \in Installers, NEW u \in Installers, t # u, Busy(t), Busy(u)
    PROVE  Page[Current(t)] # Page[Current(u)]
<1>1. t \in Late /\ u \in Late
  BY StarterAssumption DEF StarterFirst, Busy, Installers
<1>2. QED
  BY <1>1, PagesAssumption DEF InTable, Current, Installers

(* Steps that touch neither a page nor what an installer knows of it.      *)
LEMMA QuietStep ==
    ASSUME IInv, UNCHANGED <<installVars, prot>>, done' \in [Sites -> Nat]
    PROVE  IInv'
BY DEF IInv, installVars, InstallTypes, StarterFirst, InTable, Busy, Lifted, InWriteMemory,
       Current, ProtectionRestored

LEMMA NextIInv == IInv /\ [Next]_vars => IInv'
<1> SUFFICES ASSUME IInv, [Next]_vars PROVE IInv'
  OBVIOUS
<1>1. ASSUME NEW t \in Installers, Install(t)
      PROVE  IInv'
  <2> USE DEF Goto, Phases
  <2>t. InstallTypes /\ StarterFirst /\ InTable /\ Lifted /\ ProtectionRestored
    BY DEF IInv
  <2>1. CASE FindModule(t)
    BY <2>1, <2>t, StarterAssumption
       DEF FindModule, IInv, InstallTypes, StarterFirst, InTable, Busy, Lifted, InWriteMemory,
           Current, ProtectionRestored, Installers, codeVars
  <2>2. CASE Configure(t)
    <3>1. phase' = [phase EXCEPT ![t] = FirstPhase(t, 1)] /\ phase[t] = "config"
      BY <2>2 DEF Configure
    <3>2. FirstPhase(t, 1) \in {"end", "alloc", "protect"}
      BY DEF FirstPhase
    <3>3. UNCHANGED <<entry, saved, done, prot>>
      BY <2>2 DEF Configure, codeVars
    <3>4. InstallTypes'
      BY <2>t, <3>1, <3>2, <3>3 DEF InstallTypes
    <3>5. StarterFirst'
      BY <2>t, <3>1, <3>2, StarterAssumption DEF StarterFirst, Installers, InstallTypes
    <3>6. InTable'
      <4>1. ASSUME Busy(t)' PROVE entry'[t] \in DOMAIN Table[t]
        <5>1. entry'[t] = 1 /\ FirstPhase(t, 1) # "end"
          BY <2>t, <3>1, <3>2, <3>3, <4>1 DEF InstallTypes, InTable, Busy
        <5>2. 1 <= Len(Table[t])
          BY <5>1, TableAssumption DEF FirstPhase
        <5>3. QED
          BY <5>1, <5>2, TableAssumption
      <4>2. QED
        BY <2>t, <3>1, <3>2, <3>3, <4>1 DEF InstallTypes, InTable, Busy
    <3>7. Lifted' /\ ProtectionRestored'
      BY <2>t, <3>1, <3>2, <3>3 DEF InstallTypes, Lifted, ProtectionRestored, InWriteMemory, Current
    <3>8. QED
      BY <3>4, <3>5, <3>6, <3>7 DEF IInv
  <2>3. CASE Allocate(t)
    BY <2>3, <2>t, StarterAssumption
       DEF Allocate, IInv, InstallTypes, StarterFirst, InTable, Busy, Lifted, InWriteMemory,
           Current, ProtectionRestored, Installers
  <2>4. CASE Protect(t)
    <3> DEFINE p == Page[Current(t)]
    <3>1. /\ phase[t] = "protect"
          /\ phase' = [phase EXCEPT ![t] = "write"]
          /\ saved' = [saved EXCEPT ![t] = prot[p]]
          /\ prot' = [prot EXCEPT ![p] = "RWX"]
          /\ UNCHANGED <<entry, done>>
      BY <2>4 DEF Protect, codeVars
    <3>2. Busy(t) /\ p \in Pages
      BY <2>t, <3>1, CurrentSite DEF Busy, InTable
    <3>3. prot[p] = Original[p]
      <4>1. \A u \in Installers : InWriteMemory(u) => Page[Current(u)] # p
        BY <2>t, <3>1, <3>2, PagesDisjoint DEF Busy, InWriteMemory
      <4>2. QED
        BY <2>t, <3>2, <4>1 DEF ProtectionRestored
    <3>4. \A u \in Installers : Current(u)' = Current(u)
      BY <3>1 DEF Current
    <3>5. InstallTypes'
      BY <2>t, <3>1, <3>2 DEF InstallTypes, Protection
    <3>6. StarterFirst' /\ InTable'
      BY <2>t, <3>1, StarterAssumption DEF InstallTypes, StarterFirst, InTable, Busy, Installers
    <3>7. Lifted'
      <4> SUFFICES ASSUME NEW u \in Installers, InWriteMemory(u)'
                   PROVE  /\ prot'[Page[Current(u)]] = "RWX"
                          /\ saved'[u] = Original[Page[Current(u)]]
        BY <3>4 DEF Lifted
      <4>1. CASE u = t
        BY <2>t, <3>1, <3>2, <3>3, <4>1 DEF InstallTypes
      <4>2. CASE u # t
        <5>1. InWriteMemory(u) /\ Busy(u)
          BY <2>t, <3>1, <4>2 DEF InWriteMemory, Busy, InstallTypes
        <5>2. Page[Current(u)] # p
          BY <2>t, <3>2, <4>2, <5>1, PagesDisjoint
        <5>3. QED
          BY <2>t, <3>1, <4>2, <5>1, <5>2 DEF Lifted, InstallTypes
      <4>3. QED
        BY <4>1, <4>2
    <3>8. ProtectionRestored'
      <4> SUFFICES ASSUME NEW q \in Pages,
                          \A u \in Installers : InWriteMemory(u)' => Page[Current(u)] # q
                   PROVE  prot'[q] = Original[q]
        BY <3>4 DEF ProtectionRestored
      <4>1. q # p
        BY <2>t, <3>1 DEF InWriteMemory, InstallTypes
      <4>2. \A u \in Installers : InWriteMemory(u) => InWriteMemory(u)'
        BY <2>t, <3>1 DEF InWriteMemory, InstallTypes
      <4>3. QED
        BY <2>t, <3>1, <4>1, <4>2 DEF ProtectionRestored, InstallTypes
    <3>9. QED
      BY <3>5, <3>6, <3>7, <3>8 DEF IInv
  <2>5. CASE BeginWrite(t)
    BY <2>5, <2>t, StarterAssumption
       DEF BeginWrite, IInv, InstallTypes, StarterFirst, InTable, Busy, Lifted, InWriteMemory,
           Current, ProtectionRestored, Installers, codeVars
  <2>6. CASE EndWrite(t)
    BY <2>6, <2>t, StarterAssumption, CurrentSite
       DEF EndWrite, IInv, InstallTypes, StarterFirst, InTable, Busy, Lifted, InWriteMemory,
           Current, ProtectionRestored, Installers
  <2>7. CASE Restore(t)
    <3> DEFINE p == Page[Current(t)]
               last == ~(done[Current(t)] < Writes(Current(t)))
               next == IF last THEN FirstPhase(t, entry[t] + 1) ELSE "protect"
    <3>1. /\ phase[t] = "restore"
          /\ phase' = [phase EXCEPT ![t] = next]
          /\ prot' = [prot EXCEPT ![p] = saved[t]]
          /\ entry' = IF last THEN [entry EXCEPT ![t] = @ + 1] ELSE entry
          /\ UNCHANGED <<saved, done>>
      BY <2>7 DEF Restore, PutBack, MoreWrites, codeVars
    <3>2. InWriteMemory(t) /\ Busy(t) /\ p \in Pages /\ entry[t] \in DOMAIN Table[t]
      BY <2>t, <3>1, CurrentSite DEF Busy, InTable, InWriteMemory
    <3>3. prot[p] = "RWX" /\ saved[t] = Original[p] /\ saved[t] \in Protection
      BY <2>t, <3>2 DEF Lifted, InstallTypes
    <3>4. next \in {"end", "alloc", "protect"}
      BY DEF FirstPhase
    <3>5. \A u \in Installers : u # t => Current(u)' = Current(u) /\ phase'[u] = phase[u]
      BY <2>t, <3>1 DEF Current, InstallTypes
    <3>6. phase'[t] = next
      BY <2>t, <3>1 DEF InstallTypes
    <3>7. InstallTypes'
      <4>1. entry' \in [Installers -> Nat \ {0}]
        BY <2>t, <3>1 DEF InstallTypes
      <4>2. QED
        BY <2>t, <3>1, <3>2, <3>3, <3>4, <4>1 DEF InstallTypes
    <3>8. StarterFirst'
      BY <2>t, <3>1, <3>4, <3>5, <3>6, StarterAssumption DEF StarterFirst, Installers
    <3>9. InTable'
      <4>1. ASSUME Busy(t)' PROVE entry'[t] \in DOMAIN Table[t]
        <5>1. CASE last
          <6>1. entry'[t] = entry[t] + 1 /\ entry[t] \in Nat
            BY <2>t, <3>1, <5>1 DEF InstallTypes
          <6>2. entry[t] + 1 <= Len(Table[t])
            BY <3>6, <4>1, <5>1, <6>1, TableAssumption DEF FirstPhase, Busy
          <6>3. QED
            BY <6>1, <6>2, TableAssumption
        <5>2. CASE ~last
          BY <3>1, <3>2, <5>2
        <5>3. QED
          BY <5>1, <5>2
      <4>2. ASSUME NEW u \in Installers, u # t, Busy(u)' PROVE entry'[u] \in DOMAIN Table[u]
        BY <2>t, <3>1, <3>5, <4>2 DEF InTable, Busy, InstallTypes
      <4>3. \A u \in Installers : phase'[u] \in {"unborn", "wait", "config"} => entry'[u] = 1
        BY <2>t, <3>1, <3>4, <3>5, <3>6 DEF InTable, InstallTypes
      <4>4. QED
        BY <4>1, <4>2, <4>3 DEF InTable
    <3>10. Lifted'
      <4> SUFFICES ASSUME NEW u \in Installers, InWriteMemory(u)'
                   PROVE  /\ prot'[Page[Current(u)']] = "RWX"
                          /\ saved'[u] = Original[Page[Current(u)']]
        BY DEF Lifted
      <4>1. u # t
        BY <3>4, <3>6 DEF InWriteMemory
      <4>2. InWriteMemory(u) /\ Busy(u) /\ Current(u)' = Current(u)
        BY <3>5, <4>1 DEF InWriteMemory, Busy
      <4>3. Page[Current(u)] # p
        BY <2>t, <3>2, <4>1, <4>2, PagesDisjoint
      <4>4. Page[Current(u)] \in Pages
        BY <2>t, <4>2, CurrentSite DEF InTable
      <4>5. QED
        BY <2>t, <3>1, <4>2, <4>3, <4>4 DEF Lifted, InstallTypes
    <3>11. ProtectionRestored'
      <4> SUFFICES ASSUME NEW q \in Pages,
                          \A u \in Installers : InWriteMemory(u)' => Page[Current(u)'] # q
                   PROVE  prot'[q] = Original[q]
        BY DEF ProtectionRestored
      <4>1. CASE q = p
        BY <2>t, <3>1, <3>2, <3>3, <4>1 DEF InstallTypes
      <4>2. CASE q # p
        <5>1. \A u \in Installers : InWriteMemory(u) => Page[Current(u)] # q
          BY <3>5, <4>2 DEF InWriteMemory
        <5>2. QED
          BY <2>t, <3>1, <4>2, <5>1 DEF ProtectionRestored, InstallTypes
      <4>3. QED
        BY <4>1, <4>2
    <3>12. QED
      BY <3>7, <3>8, <3>9, <3>10, <3>11 DEF IInv
  <2>8. QED
    BY <1>1, <2>1, <2>2, <2>3, <2>4, <2>5, <2>6, <2>7 DEF Install
<1>2. CASE StartLate
  BY <1>2, StarterAssumption
     DEF StartLate, IInv, InstallTypes, Phases, StarterFirst, InTable, Busy, Lifted, InWriteMemory,
         Current, ProtectionRestored, Installers, codeVars
<1>3. ASSUME NEW t \in Late, LoadModule(t)
      PROVE  IInv'
  BY <1>3, QuietStep DEF LoadModule, codeVars, IInv, InstallTypes
<1>4. CASE Resume
  BY <1>4, QuietStep DEF Resume, codeVars, IInv, InstallTypes
<1>5. ASSUME NEW c \in Clients, Client(c)
      PROVE  IInv'
  BY <1>5, QuietStep
     DEF Client, Enter, LeaveInside, LeaveHook, codeVars, IInv, InstallTypes
<1>6. CASE UNCHANGED vars
  BY <1>6, QuietStep DEF vars, codeVars, IInv, InstallTypes
<1>7. QED
  BY <1>1, <1>2, <1>3, <1>4, <1>5, <1>6 DEF Next

LEMMA SpecIInv == Spec => []IInv
BY InitIInv, NextIInv, PTL DEF Spec

(* However many installers patch at the same time, every page that none of *)
(* them is writing to has the protection it was loaded with.               *)
THEOREM ProtectionIsRestored == Spec => []ProtectionRestored
<1>1. IInv => ProtectionRestored
  BY DEF IInv
<1>2. QED
  BY <1>1, SpecIInv, PTL

-----------------------------------------------------------------------------
(* Crashes                                                                 *)

Before == {"unborn", "wait", "config"}

OtherTypes ==
    /\ ready \in [Installers -> BOOLEAN]
    /\ target \in [Sites -> {"none", "code", "null"}]
    /\ loaded \in [Installers -> BOOLEAN]
    /\ resumed \in BOOLEAN
    /\ exposed \subseteq Sites
    /\ client \in [Clients -> {"out", "inside", "hooked"}]
    /\ at \in [Clients -> Sites \cup {"nowhere"}]
    /\ crash \in [Clients -> {"no", "torn", "inside", "null", "org"}]

(* An installer patches nothing before it is configured.                   *)
ReadyFirst == \A t \in Installers : phase[t] \notin Before => ready[t]

(* It works through its table in order: what comes later is untouched, and *)
(* a write is begun only where one is missing.                             *)
InOrder ==
    \A t \in Installers : \A i \in DOMAIN Table[t] :
        /\ i > entry[t] => done[Table[t][i]] = 0
        /\ i = entry[t] /\ phase[t] \in Before \cup {"alloc"} => done[Table[t][i]] = 0
        /\ i = entry[t] /\ phase[t] \in {"protect", "write", "writing"} =>
               done[Table[t][i]] < Writes(Table[t][i])

(* A site that is incomplete was so when the client was resumed.           *)
Exposes == resumed => \A s \in Sites : ~Complete(s) => s \in exposed

(* Nobody runs before the client is resumed, and a thread within the bytes *)
(* of a site entered it while it was incomplete.                           *)
Inside == \A c \in Clients : client[c] = "inside" => resumed /\ at[c] \in exposed

CInv == IInv /\ OtherTypes /\ ReadyFirst /\ InOrder /\ Exposes /\ Inside /\ CrashOnlyIfExposed

LEMMA WritesPositive == \A s \in Sites : Writes(s) \in Nat /\ Writes(s) >= 1
<1> SUFFICES ASSUME NEW s \in Sites PROVE Writes(s) \in Nat /\ Writes(s) >= 1
  OBVIOUS
<1>1. Kind[s] \in {"jmp", "detour", "call", "nop"} /\ Extra[s] \in Nat
  BY SiteAssumption
<1>2. QED
  BY <1>1 DEF Writes

LEMMA OwnerOf ==
    ASSUME NEW s \in Sites
    PROVE  Owner(s) \in Installers /\ \E i \in DOMAIN Table[Owner(s)] : Table[Owner(s)][i] = s
BY SitesAssumption DEF Owner

LEMMA InitCInv == Init => CInv
<1> SUFFICES ASSUME Init PROVE CInv
  OBVIOUS
<1>1. IInv
  BY InitIInv
<1>2. \A t \in Installers : phase[t] \in Before
  BY DEF Init, Before
<1>3. OtherTypes
  BY DEF Init, OtherTypes
<1>4. InOrder
  BY <1>2, TableAssumption DEF Init, InOrder, Before
<1>5. ReadyFirst /\ Exposes /\ Inside /\ CrashOnlyIfExposed
  BY <1>2 DEF Init, ReadyFirst, Exposes, Inside, CrashOnlyIfExposed
<1>6. QED
  BY <1>1, <1>3, <1>4, <1>5 DEF CInv

(* Installers that write nothing leave the clients' part alone.            *)
LEMMA UntouchedStep ==
    ASSUME OtherTypes, Exposes, Inside, CrashOnlyIfExposed, Alive,
           UNCHANGED <<worldVars, clientVars>>,
           \A s \in Sites : Complete(s) => Complete(s)'
    PROVE  Exposes' /\ Inside' /\ CrashOnlyIfExposed'
<1>1. Exposes' /\ Inside'
  BY DEF Exposes, Inside, worldVars, clientVars
<1>2. \A c \in Clients : crash'[c] = "no"
  BY DEF Alive, clientVars
<1>3. QED
  BY <1>1, <1>2 DEF CrashOnlyIfExposed

LEMMA InstallOrder ==
    ASSUME CInv, NEW t \in Installers, Install(t)
    PROVE  ReadyFirst' /\ InOrder'
<1>0. InstallTypes /\ InTable /\ OtherTypes /\ ReadyFirst /\ InOrder
  BY DEF CInv, IInv
<1> USE DEF Goto, Before
<1>1. CASE FindModule(t)
  <2>1. phase[t] = "wait" /\ phase' = [phase EXCEPT ![t] = "config"] /\ UNCHANGED <<entry, ready, done>>
    BY <1>1 DEF FindModule, codeVars
  <2>2. QED
    BY <1>0, <2>1 DEF InstallTypes, ReadyFirst, InOrder
<1>2. CASE Configure(t)
  <2> DEFINE next == FirstPhase(t, 1)
  <2>1. /\ phase[t] = "config" /\ phase' = [phase EXCEPT ![t] = next]
        /\ ready' = [ready EXCEPT ![t] = TRUE] /\ UNCHANGED <<entry, done>>
    BY <1>2 DEF Configure, codeVars
  <2>2. next \in {"end", "alloc", "protect"}
    BY DEF FirstPhase
  <2>3. \A i \in DOMAIN Table[t] : done[Table[t][i]] = 0 /\ done[Table[t][i]] < Writes(Table[t][i])
    BY <1>0, <2>1, TableAssumption, WritesPositive DEF InTable, InOrder, Installers
  <2> HIDE DEF next
  <2>4. QED
    BY <1>0, <2>1, <2>2, <2>3 DEF InstallTypes, OtherTypes, ReadyFirst, InOrder
<1>3. CASE Allocate(t)
  <2>1. phase[t] = "alloc" /\ phase' = [phase EXCEPT ![t] = "protect"] /\ UNCHANGED <<entry, ready, done>>
    BY <1>3 DEF Allocate
  <2>2. \A i \in DOMAIN Table[t] : Writes(Table[t][i]) > 0
    BY TableAssumption, WritesPositive
  <2>3. QED
    BY <1>0, <2>1, <2>2 DEF InstallTypes, ReadyFirst, InOrder
<1>4. CASE Protect(t) \/ BeginWrite(t)
  <2>1. /\ phase[t] \in {"protect", "write"} /\ UNCHANGED <<entry, ready, done>>
        /\ \E next \in {"write", "writing"} : phase' = [phase EXCEPT ![t] = next]
    BY <1>4 DEF Protect, BeginWrite, codeVars
  <2>2. QED
    BY <1>0, <2>1 DEF InstallTypes, ReadyFirst, InOrder
<1>5. CASE EndWrite(t)
  <2>1. /\ phase[t] = "writing" /\ phase' = [phase EXCEPT ![t] = "restore"]
        /\ done' = [done EXCEPT ![Table[t][entry[t]]] = @ + 1] /\ UNCHANGED <<entry, ready>>
    BY <1>5 DEF EndWrite, Current
  <2>2. ReadyFirst'
    BY <1>0, <2>1 DEF InstallTypes, ReadyFirst
  <2>3. entry[t] \in DOMAIN Table[t]
    BY <1>0, <2>1 DEF InTable, Busy
  <2>4. ASSUME NEW u \in Installers, NEW i \in DOMAIN Table[u], u # t \/ i # entry[t]
        PROVE  done'[Table[u][i]] = done[Table[u][i]]
    <3>1. Table[u][i] # Table[t][entry[t]]
      BY <2>3, <2>4, SitesAssumption
    <3>2. Table[u][i] \in Sites
      BY TableAssumption
    <3>3. QED
      BY <1>0, <2>1, <3>1, <3>2 DEF InstallTypes
  <2>5. phase'[t] = "restore" /\ \A u \in Installers \ {t} : phase'[u] = phase[u]
    BY <1>0, <2>1 DEF InstallTypes
  <2>6. InOrder'
    <3> SUFFICES ASSUME NEW u \in Installers, NEW i \in DOMAIN Table[u]
                 PROVE  /\ i > entry[u] => done'[Table[u][i]] = 0
                        /\ i = entry[u] /\ phase'[u] \in Before \cup {"alloc"} => done'[Table[u][i]] = 0
                        /\ i = entry[u] /\ phase'[u] \in {"protect", "write", "writing"} =>
                               done'[Table[u][i]] < Writes(Table[u][i])
      BY <2>1 DEF InOrder
    <3>1. CASE u = t
      <4>1. i > entry[t] => i # entry[t]
        BY <1>0, <2>3, TableAssumption DEF InstallTypes
      <4>2. QED
        BY <1>0, <2>4, <2>5, <3>1, <4>1 DEF InOrder
    <3>2. CASE u # t
      BY <1>0, <2>4, <2>5, <3>2 DEF InOrder
    <3>3. QED
      BY <3>1, <3>2
  <2>7. QED
    BY <2>2, <2>6
<1>6. CASE Restore(t)
  <2> DEFINE next == FirstPhase(t, entry[t] + 1)
  <2>1. phase[t] = "restore" /\ UNCHANGED <<ready, done>>
    BY <1>6 DEF Restore, codeVars
  <2>2. entry[t] \in DOMAIN Table[t] /\ entry[t] \in Nat /\ DOMAIN Table[t] \subseteq Nat
    BY <1>0, <2>1, TableAssumption DEF InTable, Busy, InstallTypes
  <2>3. CASE MoreWrites(t)
    <3>1. phase' = [phase EXCEPT ![t] = "protect"] /\ UNCHANGED entry
      BY <1>6, <2>3 DEF Restore
    <3>2. done[Table[t][entry[t]]] < Writes(Table[t][entry[t]])
      BY <2>3 DEF MoreWrites, Current
    <3>3. QED
      BY <1>0, <2>1, <3>1, <3>2 DEF InstallTypes, ReadyFirst, InOrder
  <2>4. CASE ~MoreWrites(t)
    <3>1. phase' = [phase EXCEPT ![t] = next] /\ entry' = [entry EXCEPT ![t] = @ + 1]
      BY <1>6, <2>4 DEF Restore
    <3>2. next \in {"end", "alloc", "protect"}
      BY DEF FirstPhase
    <3> HIDE DEF next
    <3>3. /\ phase'[t] = next /\ entry'[t] = entry[t] + 1
          /\ \A u \in Installers \ {t} : phase'[u] = phase[u] /\ entry'[u] = entry[u]
      BY <1>0, <3>1 DEF InstallTypes
    <3>4. ReadyFirst'
      BY <1>0, <2>1, <3>2, <3>3 DEF ReadyFirst
    <3>5. ASSUME NEW i \in DOMAIN Table[t], i >= entry[t] + 1
          PROVE  done[Table[t][i]] = 0 /\ done[Table[t][i]] < Writes(Table[t][i])
      <4>1. i > entry[t]
        BY <2>2, <3>5
      <4>2. Writes(Table[t][i]) > 0
        BY TableAssumption, WritesPositive
      <4>3. QED
        BY <1>0, <4>1, <4>2 DEF InOrder
    <3>6. \A i \in DOMAIN Table[t] : (i > entry[t] + 1 \/ i = entry[t] + 1) => i >= entry[t] + 1
      BY <2>2
    <3>7. InOrder'
      <4> SUFFICES ASSUME NEW u \in Installers, NEW i \in DOMAIN Table[u]
                   PROVE  /\ i > entry'[u] => done[Table[u][i]] = 0
                          /\ i = entry'[u] /\ phase'[u] \in Before \cup {"alloc"} => done[Table[u][i]] = 0
                          /\ i = entry'[u] /\ phase'[u] \in {"protect", "write", "writing"} =>
                                 done[Table[u][i]] < Writes(Table[u][i])
        BY <2>1 DEF InOrder
      <4>1. CASE u = t
        BY <3>3, <3>5, <3>6, <4>1
      <4>2. CASE u # t
        BY <1>0, <3>3, <4>2 DEF InOrder
      <4>3. QED
        BY <4>1, <4>2
    <3>8. QED
      BY <3>4, <3>7
  <2>5. QED
    BY <2>3, <2>4
<1>7. QED
  BY <1>1, <1>2, <1>3, <1>4, <1>5, <1>6 DEF Install

LEMMA InstallTyped ==
    ASSUME CInv, NEW t \in Installers, Install(t)
    PROVE  OtherTypes'
<1>1. /\ ready' \in [Installers -> BOOLEAN]
      /\ target' \in [Sites -> {"none", "code", "null"}]
  <2>0. /\ ready \in [Installers -> BOOLEAN]
        /\ target \in [Sites -> {"none", "code", "null"}]
    BY DEF CInv, OtherTypes
  <2>1. CASE Configure(t)
    BY <2>0, <2>1 DEF Configure, codeVars
  <2>2. CASE Allocate(t)
    BY <2>0, <2>2 DEF Allocate
  <2>3. CASE ~Configure(t) /\ ~Allocate(t)
    <3>1. UNCHANGED <<ready, target>>
      BY <2>3 DEF Install, FindModule, Protect, BeginWrite, EndWrite, Restore, codeVars
    <3>2. QED
      BY <2>0, <3>1
  <2>4. QED
    BY <2>1, <2>2, <2>3
<1>2. UNCHANGED <<worldVars, clientVars>>
  BY DEF Install, FindModule, Configure, Allocate, Protect, BeginWrite, EndWrite, Restore
<1>3. QED
  BY <1>1, <1>2 DEF CInv, OtherTypes, worldVars, clientVars

(* A write is only ever added to an incomplete site.                       *)
LEMMA InstallCompletes ==
    ASSUME CInv, NEW t \in Installers, Install(t)
    PROVE  \A s \in Sites : Complete(s) => Complete(s)'
<1>1. CASE EndWrite(t)
  <2>1. /\ phase[t] = "writing"
        /\ done' = [done EXCEPT ![Table[t][entry[t]]] = @ + 1]
    BY <1>1 DEF EndWrite, Current
  <2>2. entry[t] \in DOMAIN Table[t]
    BY <2>1 DEF CInv, IInv, InTable, Busy
  <2>3. done[Table[t][entry[t]]] < Writes(Table[t][entry[t]])
    BY <2>1, <2>2 DEF CInv, InOrder
  <2>4. Table[t][entry[t]] \in Sites
    BY <2>2, TableAssumption
  <2>5. ~Complete(Table[t][entry[t]])
    BY <2>3, <2>4, WritesPositive DEF Complete, CInv, IInv, InstallTypes
  <2>6. \A s \in Sites : s # Table[t][entry[t]] => done'[s] = done[s]
    BY <2>1 DEF CInv, IInv, InstallTypes
  <2>7. QED
    BY <2>5, <2>6 DEF Complete, Writes
<1>2. CASE ~EndWrite(t)
  <2>1. UNCHANGED done
    BY <1>2 DEF Install, FindModule, Configure, Allocate, Protect, BeginWrite, Restore, codeVars
  <2>2. QED
    BY <2>1 DEF Complete, Writes
<1>3. QED
  BY <1>1, <1>2

(* The installers and the memory are as before a step of the client.       *)
LEMMA PatchesUnchanged ==
    ASSUME CInv, UNCHANGED <<installVars, codeVars, prot>>
    PROVE  IInv' /\ ReadyFirst' /\ InOrder' /\ \A s \in Sites : Complete(s)' = Complete(s)
<1>1. IInv'
  BY QuietStep DEF CInv, IInv, InstallTypes, codeVars
<1>2. ReadyFirst' /\ InOrder'
  BY DEF CInv, ReadyFirst, InOrder, installVars, codeVars, Writes
<1>3. QED
  BY <1>1, <1>2 DEF Complete, Writes, codeVars

(* A site is incomplete as long as it can be caught in between.            *)
LEMMA TornIncomplete ==
    ASSUME CInv, NEW s \in Sites, Torn(s)
    PROVE  ~Complete(s)
<1>1. Kind[s] \in {"jmp", "detour", "call", "nop"} /\ Extra[s] \in Nat /\ done[s] \in Nat
  BY SiteAssumption DEF CInv, IInv, InstallTypes
<1>2. CASE Kind[s] # "nop"
  <2>1. done[s] = 1
    BY <1>1, <1>2 DEF Torn
  <2>2. Writes(s) \in {2, 2 + Extra[s]}
    BY <1>1, <1>2 DEF Writes
  <2>3. Writes(s) # 1
    BY <1>1, <2>2
  <2>4. QED
    BY <2>1, <2>3 DEF Complete
<1>3. CASE Kind[s] = "nop"
  <2>1. phase[Owner(s)] = "writing" /\ Table[Owner(s)][entry[Owner(s)]] = s
    BY <1>3 DEF Torn, BeingWritten, Current
  <2>2. entry[Owner(s)] \in DOMAIN Table[Owner(s)]
    BY <2>1, OwnerOf DEF CInv, IInv, InTable, Busy
  <2>3. done[s] < Writes(s)
    BY <2>1, <2>2, OwnerOf DEF CInv, InOrder
  <2>4. QED
    BY <1>1, <2>3, WritesPositive DEF Complete
<1>4. QED
  BY <1>2, <1>3

(* A hook that is in place belongs to a configured installer.              *)
LEMMA HookedReady ==
    ASSUME CInv, NEW s \in Sites, Hooked(s)
    PROVE  ready[Owner(s)]
<1>1. PICK i \in DOMAIN Table[Owner(s)] : Table[Owner(s)][i] = s
  BY OwnerOf
<1>2. done[s] >= 2 /\ done[s] \in Nat
  BY DEF Hooked, CInv, IInv, InstallTypes
<1>3. ASSUME phase[Owner(s)] \in Before PROVE FALSE
  <2>1. entry[Owner(s)] = 1
    BY <1>3, OwnerOf DEF CInv, IInv, InTable, Before
  <2>2. i = 1 \/ i > 1
    BY TableAssumption, OwnerOf
  <2>3. done[s] = 0
    BY <1>1, <1>3, <2>1, <2>2, OwnerOf DEF CInv, InOrder
  <2>4. QED
    BY <1>2, <2>3
<1>4. QED
  BY <1>3, OwnerOf DEF CInv, ReadyFirst

LEMMA EnterStep ==
    ASSUME CInv, NEW c \in Clients, NEW s \in Sites, Enter(c, s)
    PROVE  CInv'
<1>0. OtherTypes /\ Exposes /\ Inside /\ InstallTypes
  BY DEF CInv, IInv
<1>1. /\ Alive /\ resumed
      /\ UNCHANGED <<installVars, codeVars, prot, worldVars>>
      /\ at' = [at EXCEPT ![c] = s]
      /\ crash' = [crash EXCEPT ![c] = IF Torn(s) THEN "torn"
                                       ELSE IF Hooked(s) THEN HookFault(s) ELSE "no"]
      /\ client' = [client EXCEPT ![c] = IF Hooked(s) THEN "hooked"
                                         ELSE IF Untouched(s) THEN "inside" ELSE "out"]
  BY DEF Enter
<1>2. IInv' /\ ReadyFirst' /\ InOrder' /\ \A v \in Sites : Complete(v)' = Complete(v)
  BY <1>1, PatchesUnchanged
<1>3. OtherTypes'
  <2>1. HookFault(s) \in {"no", "null", "org"}
    BY DEF HookFault
  <2>2. QED
    BY <1>0, <1>1, <2>1 DEF OtherTypes, installVars, codeVars, worldVars
<1>4. Exposes'
  BY <1>0, <1>1, <1>2 DEF Exposes, worldVars
<1>5. /\ at'[c] = s
      /\ \A d \in Clients \ {c} : at'[d] = at[d] /\ client'[d] = client[d] /\ crash'[d] = "no"
  BY <1>0, <1>1 DEF OtherTypes, Alive
<1>6. Inside'
  <2>1. ASSUME client'[c] = "inside" PROVE s \in exposed
    <3>1. done[s] = 0
      BY <1>0, <1>1, <2>1 DEF Untouched, OtherTypes
    <3>2. ~Complete(s)
      BY <3>1, WritesPositive DEF Complete
    <3>3. QED
      BY <1>0, <1>1, <3>2 DEF Exposes
  <2>2. QED
    BY <1>0, <1>1, <1>5, <2>1 DEF Inside, worldVars
<1>7. CrashOnlyIfExposed'
  <2>1. crash'[c] = IF Torn(s) THEN "torn" ELSE IF Hooked(s) THEN HookFault(s) ELSE "no"
    BY <1>0, <1>1 DEF OtherTypes
  <2>2. /\ crash'[c] \in {"torn", "inside"} => s \in exposed
        /\ crash'[c] = "null" => target[s] = "null"
        /\ crash'[c] # "org"
    <3>1. CASE Torn(s)
      BY <1>0, <1>1, <2>1, <3>1, TornIncomplete DEF Exposes
    <3>2. CASE ~Torn(s) /\ Hooked(s)
      BY <2>1, <3>2, HookedReady DEF HookFault
    <3>3. CASE ~Torn(s) /\ ~Hooked(s)
      BY <2>1, <3>3
    <3>4. QED
      BY <3>1, <3>2, <3>3
  <2>3. QED
    BY <1>1, <1>5, <2>2 DEF CrashOnlyIfExposed, worldVars, codeVars
<1>8. QED
  BY <1>2, <1>3, <1>4, <1>6, <1>7 DEF CInv

LEMMA LeaveStep ==
    ASSUME CInv, NEW c \in Clients, LeaveInside(c) \/ LeaveHook(c)
    PROVE  CInv'
<1>0. OtherTypes /\ Exposes /\ Inside
  BY DEF CInv
<1>1. /\ Alive /\ UNCHANGED <<at, installVars, codeVars, prot, worldVars>>
      /\ client' = [client EXCEPT ![c] = "out"]
      /\ crash' = crash \/ (client[c] = "inside" /\ crash' = [crash EXCEPT ![c] = "inside"])
  BY DEF LeaveInside, LeaveHook
<1>2. IInv' /\ ReadyFirst' /\ InOrder' /\ \A v \in Sites : Complete(v)' = Complete(v)
  BY <1>1, PatchesUnchanged
<1>3. OtherTypes'
  BY <1>0, <1>1 DEF OtherTypes, installVars, codeVars, worldVars
<1>4. Exposes' /\ Inside'
  BY <1>0, <1>1, <1>2 DEF Exposes, Inside, OtherTypes, worldVars
<1>5. CrashOnlyIfExposed'
  <2>1. \A d \in Clients : crash'[d] = "no" \/ (crash'[d] = "inside" /\ client[d] = "inside")
    BY <1>0, <1>1 DEF Alive, OtherTypes
  <2>2. QED
    BY <1>0, <1>1, <2>1 DEF CrashOnlyIfExposed, Inside, worldVars
<1>6. QED
  BY <1>2, <1>3, <1>4, <1>5 DEF CInv

LEMMA NextCInv == CInv /\ [Next]_vars => CInv'
<1> SUFFICES ASSUME CInv, [Next]_vars PROVE CInv'
  OBVIOUS
<1>0. /\ IInv /\ OtherTypes /\ ReadyFirst /\ InOrder /\ Exposes /\ Inside /\ CrashOnlyIfExposed
      /\ IInv'
  BY NextIInv DEF CInv
<1>1. ASSUME NEW t \in Installers, Install(t)
      PROVE  CInv'
  <2>1. Alive /\ UNCHANGED <<worldVars, clientVars>>
    BY <1>1 DEF Install, FindModule, Configure, Allocate, Protect, BeginWrite, EndWrite, Restore
  <2>2. Exposes' /\ Inside' /\ CrashOnlyIfExposed'
    BY <1>0, <1>1, <2>1, InstallCompletes, UntouchedStep
  <2>3. QED
    BY <1>0, <1>1, <2>2, InstallTyped, InstallOrder DEF CInv
<1>2. CASE StartLate
  <2>1. /\ Alive /\ phase[Starter] = "end"
        /\ phase' = [t \in Installers |-> IF t = Starter THEN "gone" ELSE "wait"]
        /\ UNCHANGED <<entry, saved, ready, codeVars, prot, worldVars, clientVars>>
    BY <1>2 DEF StartLate
  <2>2. /\ \A t \in Late : phase[t] = "unborn" /\ phase'[t] = "wait"
        /\ phase'[Starter] = "gone" /\ ready[Starter]
    BY <1>0, <2>1, StarterAssumption DEF IInv, StarterFirst, ReadyFirst, Before, Installers
  <2>3. ReadyFirst'
    BY <2>1, <2>2 DEF ReadyFirst, Before, Installers
  <2>4. InOrder'
    BY <1>0, <2>1, <2>2 DEF InOrder, Before, Installers, codeVars, Writes
  <2>5. OtherTypes'
    BY <1>0, <2>1 DEF OtherTypes, codeVars, worldVars, clientVars
  <2>6. \A s \in Sites : Complete(s) => Complete(s)'
    BY <2>1 DEF Complete, Writes, codeVars
  <2>7. QED
    BY <1>0, <2>1, <2>3, <2>4, <2>5, <2>6, UntouchedStep DEF CInv
<1>3. ASSUME NEW t \in Late, LoadModule(t)
      PROVE  CInv'
  <2>1. /\ UNCHANGED <<installVars, codeVars, prot, resumed, exposed, clientVars>>
        /\ loaded' = [loaded EXCEPT ![t] = TRUE]
    BY <1>3 DEF LoadModule
  <2>2. IInv' /\ ReadyFirst' /\ InOrder' /\ \A s \in Sites : Complete(s)' = Complete(s)
    BY <2>1, PatchesUnchanged
  <2>3. OtherTypes'
    BY <1>0, <2>1 DEF OtherTypes, installVars, codeVars, clientVars
  <2>4. Exposes' /\ Inside' /\ CrashOnlyIfExposed'
    BY <1>0, <2>1, <2>2 DEF Exposes, Inside, CrashOnlyIfExposed, clientVars, codeVars
  <2>5. QED
    BY <2>2, <2>3, <2>4 DEF CInv
<1>4. CASE Resume
  <2>1. /\ Alive /\ ~resumed /\ resumed' /\ exposed' = {s \in Sites : ~Complete(s)}
        /\ resumed' \in BOOLEAN
        /\ UNCHANGED <<installVars, codeVars, prot, loaded, clientVars>>
    BY <1>4 DEF Resume
  <2>2. IInv' /\ ReadyFirst' /\ InOrder' /\ \A s \in Sites : Complete(s)' = Complete(s)
    BY <2>1, PatchesUnchanged
  <2>3. OtherTypes'
    BY <1>0, <2>1 DEF OtherTypes, installVars, codeVars, clientVars
  <2>4. Exposes'
    BY <2>1, <2>2 DEF Exposes
  <2>5. Inside' /\ CrashOnlyIfExposed'
    BY <1>0, <2>1 DEF Inside, CrashOnlyIfExposed, Alive, clientVars
  <2>6. QED
    BY <2>2, <2>3, <2>4, <2>5 DEF CInv
<1>5. ASSUME NEW c \in Clients, Client(c)
      PROVE  CInv'
  BY <1>5, EnterStep, LeaveStep DEF Client
<1>6. CASE UNCHANGED vars
  <2>1. UNCHANGED <<installVars, codeVars, prot, worldVars, clientVars>>
    BY <1>6 DEF vars
  <2>2. IInv' /\ ReadyFirst' /\ InOrder' /\ \A s \in Sites : Complete(s)' = Complete(s)
    BY <2>1, PatchesUnchanged
  <2>3. OtherTypes' /\ Exposes' /\ Inside' /\ CrashOnlyIfExposed'
    BY <1>0, <2>1, <2>2
       DEF OtherTypes, Exposes, Inside, CrashOnlyIfExposed, installVars, codeVars, worldVars, clientVars
  <2>4. QED
    BY <2>2, <2>3 DEF CInv
<1>7. QED
  BY <1>1, <1>2, <1>3, <1>4, <1>5, <1>6 DEF Next

LEMMA SpecCInv == Spec => []CInv
BY InitCInv, NextCInv, PTL DEF Spec

(* However many installers and clients there are and however the client is *)
(* resumed: a thread crashes at a hook only if its site was unfinished at  *)
(* that moment or its trampoline could not be allocated.                   *)
THEOREM CrashNeedsExposure == Spec => []CrashOnlyIfExposed
<1>1. CInv => CrashOnlyIfExposed
  BY DEF CInv
<1>2. QED
  BY <1>1, SpecCInv, PTL

(* However many installers there are, the protection that VirtualProtect   *)
(* is given back is one that it returned.                                  *)
THEOREM InstallersTyped == Spec => []TypeOK
<1>1. CInv => TypeOK
  BY DEF CInv, IInv, InstallTypes, OtherTypes, TypeOK
<1>2. QED
  BY <1>1, SpecCInv, PTL

=============================================================================
