---------------------------- MODULE HookInstall ----------------------------
(***************************************************************************)
(* How ag_mho.dll patches the client: patch.h, hook_table.h and the        *)
(* install_*_hooks functions.                                              *)
(*                                                                         *)
(* dllmain's run() patches kernel32 and MHOClient.exe, then starts one     *)
(* installer thread for each module that the client loads later.  An       *)
(* installer polls until its module is there, reads its configuration and  *)
(* saves the original functions, and works through its hook table.  Every  *)
(* hook is a few calls of WriteMemory, each of which lifts the protection  *)
(* of the page, copies, and puts the old protection back.  Nothing stops   *)
(* the threads of the client meanwhile.                                    *)
(*                                                                         *)
(* The bytes of a hook site are what a thread that executes them can tell  *)
(* apart: how many of the site's writes are complete, and whether one is   *)
(* under way.  No hook of the tables straddles two pages.                  *)
(***************************************************************************)
EXTENDS Integers, Sequences

CONSTANTS
    Starter,    \* the thread of run()
    Late,       \* the threads that run() starts, each for a module of its own
    Clients,    \* threads of the client
    Sites,      \* hook sites
    Table,      \* the sites of each installer, in the order of its tables
    Kind,       \* "jmp", "detour", "call" or "nop"
    Extra,      \* bytes of a jmp site beyond the five of the jump
    Pages,
    Page,       \* the page of a site
    Original    \* the protection every page is loaded with

Installers == Late \cup {Starter}
Protection == {"RX", "RWX"}

ASSUME StarterAssumption == Starter \notin Late
ASSUME TableAssumption == Table \in [Installers -> Seq(Sites)]
ASSUME SiteAssumption ==
    /\ Kind \in [Sites -> {"jmp", "detour", "call", "nop"}]
    /\ Extra \in [Sites -> Nat]
    /\ Page \in [Sites -> Pages]
ASSUME OriginalAssumption == Original \in [Pages -> Protection]

(* A page belongs to one module, and a module to one installer.  The       *)
(* starter is through with its tables before the others begin.             *)
ASSUME PagesAssumption ==
    \A t, u \in Late : \A i \in DOMAIN Table[t], j \in DOMAIN Table[u] :
        Page[Table[t][i]] = Page[Table[u][j]] => t = u

(* Every site is in one place of one table: no code is patched twice.      *)
ASSUME SitesAssumption ==
    /\ \A s \in Sites : \E t \in Installers : \E i \in DOMAIN Table[t] : Table[t][i] = s
    /\ \A t, u \in Installers : \A i \in DOMAIN Table[t], j \in DOMAIN Table[u] :
           Table[t][i] = Table[u][j] => t = u /\ i = j

VARIABLES
    phase,      \* where each installer is
    entry,      \* the index of its current table entry
    saved,      \* OldProtection of its WriteMemory
    ready,      \* has it read its configuration and saved the original functions?
    done,       \* the writes of each site that are complete
    target,     \* where the jump of each site leads: "none", "code" or "null"
    prot,       \* the protection of each page
    loaded,     \* is the installer's module loaded?
    resumed,    \* has the launcher let the client's own threads run?
    exposed,    \* history: sites not completely patched at that moment
    client,     \* where each client thread is: "out", "inside" or "hooked"
    at,         \* the site it is at
    crash       \* why it crashed

installVars == <<phase, entry, saved, ready>>
codeVars == <<done, target>>
worldVars == <<loaded, resumed, exposed>>
clientVars == <<client, at, crash>>
vars == <<installVars, codeVars, prot, worldVars, clientVars>>

Init ==
    /\ phase = [t \in Installers |-> IF t = Starter THEN "wait" ELSE "unborn"]
    /\ entry = [t \in Installers |-> 1]
    /\ saved = [t \in Installers |-> "RX"]        \* set before it is read
    /\ ready = [t \in Installers |-> FALSE]
    /\ done = [s \in Sites |-> 0]
    /\ target = [s \in Sites |-> "none"]
    /\ prot = Original
    /\ loaded = [t \in Installers |-> t = Starter]
    /\ resumed = FALSE
    /\ exposed = {}
    /\ client = [c \in Clients |-> "out"]
    /\ at = [c \in Clients |-> "nowhere"]
    /\ crash = [c \in Clients |-> "no"]

(* A thread that executes a broken instruction takes the process with it.  *)
Alive == \A c \in Clients : crash[c] = "no"

-----------------------------------------------------------------------------
(* Installers                                                              *)

Goto(t, p) == phase' = [phase EXCEPT ![t] = p]

Writes(s) == CASE Kind[s] = "jmp" -> 2 + Extra[s]    \* E9, rel32, one NOP at a time
               [] Kind[s] = "detour" -> 2           \* E9, rel32
               [] Kind[s] = "call" -> 2             \* E8, rel32
               [] Kind[s] = "nop" -> 1              \* all NOPs at once

Current(t) == Table[t][entry[t]]

(* The first step of an entry: a jmp hook allocates its trampoline.        *)
FirstPhase(t, e) ==
    IF e > Len(Table[t]) THEN "end"
    ELSE IF Kind[Table[t][e]] = "jmp" THEN "alloc" ELSE "protect"

(* Mutation: the module is looked for once, not polled for.                *)
FindModuleOnce(t) ==
    /\ Alive /\ phase[t] = "wait"
    /\ Goto(t, IF loaded[t] THEN "config" ELSE "gone")
    /\ UNCHANGED <<entry, saved, ready, codeVars, prot, worldVars, clientVars>>

(* wait_for_module returns.                                                *)
FindModule(t) ==
    /\ Alive /\ phase[t] = "wait" /\ loaded[t]
    /\ Goto(t, "config")
    /\ UNCHANGED <<entry, saved, ready, codeVars, prot, worldVars, clientVars>>

(* Mutation: the org_ pointers are not set before the hooks.               *)
ConfigureLate(t) ==
    /\ Alive /\ phase[t] = "config"
    /\ Goto(t, FirstPhase(t, 1))
    /\ UNCHANGED <<entry, saved, ready, codeVars, prot, worldVars, clientVars>>

(* The ini is read and the org_ pointers are set, all before any hook.     *)
Configure(t) ==
    /\ Alive /\ phase[t] = "config"
    /\ ready' = [ready EXCEPT ![t] = TRUE]
    /\ Goto(t, FirstPhase(t, 1))
    /\ UNCHANGED <<entry, saved, codeVars, prot, worldVars, clientVars>>

(* generate_trampoline: nobody looks at a null result.                     *)
Allocate(t) ==
    /\ Alive /\ phase[t] = "alloc"
    /\ \E r \in {"code", "null"} : target' = [target EXCEPT ![Current(t)] = r]
    /\ Goto(t, "protect")
    /\ UNCHANGED <<entry, saved, ready, done, prot, worldVars, clientVars>>

(* VirtualProtect(..., PAGE_EXECUTE_READWRITE, &OldProtection)             *)
Protect(t) ==
    /\ Alive /\ phase[t] = "protect"
    /\ saved' = [saved EXCEPT ![t] = prot[Page[Current(t)]]]
    /\ prot' = [prot EXCEPT ![Page[Current(t)]] = "RWX"]
    /\ Goto(t, "write")
    /\ UNCHANGED <<entry, ready, codeVars, worldVars, clientVars>>

(* memcpy begins...                                                        *)
BeginWrite(t) ==
    /\ Alive /\ phase[t] = "write"
    /\ Goto(t, "writing")
    /\ UNCHANGED <<entry, saved, ready, codeVars, prot, worldVars, clientVars>>

(* ... and ends.                                                           *)
EndWrite(t) ==
    /\ Alive /\ phase[t] = "writing"
    /\ done' = [done EXCEPT ![Current(t)] = @ + 1]
    /\ Goto(t, "restore")
    /\ UNCHANGED <<entry, saved, ready, target, prot, worldVars, clientVars>>

(* The protection put back.  Mutations: a fixed one, or none.              *)
PutBackReadWrite(t) == "RW"
PutBackNothing(t) == prot[Page[Current(t)]]
PutBack(t) == saved[t]

(* Is there another write to the site? *)
MoreWrites(t) == done[Current(t)] < Writes(Current(t))

(* VirtualProtect(..., OldProtection, ...), then the next write of the     *)
(* site, or the next entry of the table.                                   *)
Restore(t) ==
    /\ Alive /\ phase[t] = "restore"
    /\ prot' = [prot EXCEPT ![Page[Current(t)]] = PutBack(t)]
    /\ IF MoreWrites(t)
       THEN Goto(t, "protect") /\ UNCHANGED entry
       ELSE /\ entry' = [entry EXCEPT ![t] = @ + 1]
            /\ Goto(t, FirstPhase(t, entry[t] + 1))
    /\ UNCHANGED <<saved, ready, codeVars, worldVars, clientVars>>

(* The end of run(): the other installers are started.                     *)
StartLate ==
    /\ Alive /\ phase[Starter] = "end"
    /\ phase' = [t \in Installers |-> IF t = Starter THEN "gone" ELSE "wait"]
    /\ UNCHANGED <<entry, saved, ready, codeVars, prot, worldVars, clientVars>>

Install(t) ==
    \/ FindModule(t) \/ Configure(t) \/ Allocate(t)
    \/ Protect(t) \/ BeginWrite(t) \/ EndWrite(t) \/ Restore(t)

-----------------------------------------------------------------------------
(* The client                                                              *)

LoadModule(t) ==
    /\ Alive /\ ~loaded[t]
    /\ loaded' = [loaded EXCEPT ![t] = TRUE]
    /\ UNCHANGED <<installVars, codeVars, prot, resumed, exposed, clientVars>>

Complete(s) == done[s] = Writes(s)

(* The launcher resumes the client, without asking how far run() is.       *)
Resume ==
    /\ Alive /\ ~resumed
    /\ resumed' = TRUE
    /\ exposed' = {s \in Sites : ~Complete(s)}
    /\ UNCHANGED <<installVars, codeVars, prot, loaded, clientVars>>

Owner(s) == CHOOSE t \in Installers : \E i \in DOMAIN Table[t] : Table[t][i] = s

BeingWritten(s) == phase[Owner(s)] = "writing" /\ Current(Owner(s)) = s

(* The first instruction at the site is neither the old one nor the new    *)
(* one.  A jump has its opcode but not its displacement; a call keeps its  *)
(* opcode, so only the copying of its displacement can be seen.            *)
Torn(s) == CASE Kind[s] \in {"jmp", "detour"} -> done[s] = 1
             [] Kind[s] = "call" -> done[s] = 1 /\ BeingWritten(s)
             [] Kind[s] = "nop" -> BeingWritten(s)

Hooked(s) == Kind[s] # "nop" /\ done[s] >= 2

(* The old instructions; a call is a single one, so no thread is inside it. *)
Untouched(s) == Kind[s] # "call" /\ done[s] = 0

(* What a thread meets that runs into a hooked site.                       *)
HookFault(s) == IF Kind[s] = "jmp" /\ target[s] = "null" THEN "null"
                ELSE IF ~ready[Owner(s)] THEN "org"
                ELSE "no"

(* A client thread begins to execute the first instruction of a site.      *)
Enter(c, s) ==
    /\ Alive /\ resumed /\ loaded[Owner(s)]
    /\ client[c] = "out"
    /\ at' = [at EXCEPT ![c] = s]
    /\ crash' = [crash EXCEPT ![c] = IF Torn(s) THEN "torn"
                                     ELSE IF Hooked(s) THEN HookFault(s) ELSE "no"]
    /\ client' = [client EXCEPT ![c] = IF Hooked(s) THEN "hooked"
                                       ELSE IF Untouched(s) THEN "inside" ELSE "out"]
    /\ UNCHANGED <<installVars, codeVars, prot, worldVars>>

(* Past the first instruction, but within the bytes a patch replaces: they *)
(* may have been replaced since.                                           *)
LeaveInside(c) ==
    /\ Alive /\ client[c] = "inside"
    /\ \/ crash' = crash
       \/ /\ done[at[c]] > 0 \/ BeingWritten(at[c])
          /\ crash' = [crash EXCEPT ![c] = "inside"]
    /\ client' = [client EXCEPT ![c] = "out"]
    /\ UNCHANGED <<at, installVars, codeVars, prot, worldVars>>

(* The callback and the stolen bytes have run.                             *)
LeaveHook(c) ==
    /\ Alive /\ client[c] = "hooked"
    /\ client' = [client EXCEPT ![c] = "out"]
    /\ UNCHANGED <<at, crash, installVars, codeVars, prot, worldVars>>

Client(c) == (\E s \in Sites : Enter(c, s)) \/ LeaveInside(c) \/ LeaveHook(c)

Next ==
    \/ \E t \in Installers : Install(t)
    \/ StartLate
    \/ \E t \in Late : LoadModule(t)
    \/ Resume
    \/ \E c \in Clients : Client(c)

(* Installer threads are scheduled; whether a module is ever loaded, the   *)
(* client resumed or a site executed is up to others.                      *)
Spec == Init /\ [][Next]_vars /\ WF_vars(StartLate) /\ \A t \in Installers : WF_vars(Install(t))

-----------------------------------------------------------------------------

Phases == {"unborn", "wait", "config", "alloc", "protect", "write", "writing",
           "restore", "end", "gone"}

TypeOK ==
    /\ phase \in [Installers -> Phases]
    /\ entry \in [Installers -> Nat]
    /\ saved \in [Installers -> Protection]
    /\ ready \in [Installers -> BOOLEAN]
    /\ done \in [Sites -> Nat]
    /\ target \in [Sites -> {"none", "code", "null"}]
    /\ prot \in [Pages -> Protection]
    /\ loaded \in [Installers -> BOOLEAN]
    /\ resumed \in BOOLEAN
    /\ exposed \subseteq Sites
    /\ client \in [Clients -> {"out", "inside", "hooked"}]
    /\ at \in [Clients -> Sites \cup {"nowhere"}]
    /\ crash \in [Clients -> {"no", "torn", "inside", "null", "org"}]

InWriteMemory(t) == phase[t] \in {"write", "writing", "restore"}

(* A page that no WriteMemory is busy with has the protection it was       *)
(* loaded with, however many entries of a table are on it: none stays      *)
(* writable, and one that was loaded writable is not made read-only.       *)
ProtectionRestored ==
    \A p \in Pages :
        (\A t \in Installers : InWriteMemory(t) => Page[Current(t)] # p) => prot[p] = Original[p]

(* Once a site is complete no client thread crashes at it, unless its      *)
(* trampoline could not be allocated; in particular no hook runs before    *)
(* the functions it calls were saved.  Torn and half-replaced instructions *)
(* are met only at sites that were still being patched when the client     *)
(* was resumed.                                                            *)
CrashOnlyIfExposed ==
    \A c \in Clients :
        /\ crash[c] \in {"torn", "inside"} => at[c] \in exposed
        /\ crash[c] = "null" => target[at[c]] = "null"
        /\ crash[c] # "org"

(* If its module is ever loaded, an installer completes its table, unless  *)
(* the client crashes first.                                               *)
EventuallyInstalled ==
    \A t \in Installers :
        loaded[t] ~> (~Alive \/ \A i \in DOMAIN Table[t] : Complete(Table[t][i]))

=============================================================================
