--------------------------- MODULE ProcessProofs ---------------------------
(***************************************************************************)
(* The process of the client, from its start to its end: theorems of       *)
(* Launch and of CrashDump, which share no variable.                       *)
(*                                                                         *)
(* Launch.  Whatever fails, the launcher comes to its key whenever the     *)
(* client is suspended, and whoever has filled the client's memory still   *)
(* holds it when the client may look for it.                               *)
(*                                                                         *)
(* CrashDump.  For any number of threads that crash, over any time: a dump *)
(* is lost only to a failure of Windows or to another crash in the same    *)
(* second, and the previous filter is called for every crash after         *)
(* DllMain.  The file a thread writes is its own as long as no other       *)
(* thread has its second: a thread takes its second once, when it has      *)
(* none, and writes to no other file.                                      *)
(***************************************************************************)
EXTENDS Launch, CrashDump, TLAPS

-----------------------------------------------------------------------------
(* Launch *)

(* Only a launcher that means to resume it makes a suspended client.       *)
Resumes ==
    /\ launcher \in {"ini", "read", "create"} => proc = "none"
    /\ proc = "suspended" => cfg.inject_dll
    /\ launcher \in {"map", "fill"} => ~cfg.inject_dll
    /\ ResumedInTheEnd

(* From its map on, run() keeps the memory alive; from its write on, it is *)
(* filled.                                                                 *)
PublishedByRun ==
    proc # "dead" =>
        /\ run \in {"fill", "hooks", "spawn", "done"} => "client" \in holders["client"]
        /\ run \in {"hooks", "spawn", "done"} => memory["client"] = "filled"

(* The same of the launcher, as long as it waits for its key.              *)
PublishedByLauncher ==
    proc # "none" /\ ~cfg.inject_dll =>
        /\ launcher \in {"fill", "key"} => "launcher" \in holders["client"]
        /\ launcher = "key" => memory["client"] = "filled"

(* TypeOK, of where everybody is and of what they have. *)
Places ==
    /\ launcher \in {"ini", "read", "create", "inject", "wait", "map", "fill", "key", "exited", "crashed"}
    /\ dll \in {"none", "ag", "haunt"}
    /\ proc \in {"none", "suspended", "running", "dead"}
    /\ lock \in {"free", "remote", "main"}
    /\ remote \in {"none", "start", "load", "attached", "ended"}
    /\ run \in RunPlaces

Possessions ==
    /\ ini \in [Dirs -> Config]
    /\ cfg \in Config
    /\ memory \in [Pids -> {"absent", "blank", "filled"}]
    /\ holders \in [Pids -> SUBSET Pids]
    /\ saw \in {"nothing yet", "absent", "blank", "filled"}

LaunchInv == Places /\ Possessions /\ Resumes /\ PublishedByRun /\ PublishedByLauncher

LEMMA ConfigsThere == Missing \in Config /\ Defaults \in Config
BY DEF Missing, Defaults, Config

LEMMA InitLaunchInv == Init => LaunchInv
<1> SUFFICES ASSUME Init PROVE LaunchInv
  OBVIOUS
<1>1. Places
  BY DEF Init, Places, RunPlaces
<1>2. Possessions
  BY ConfigsThere DEF Init, Possessions
<1>3. Resumes /\ PublishedByRun /\ PublishedByLauncher
  BY DEF Init, Resumes, ResumedInTheEnd, PublishedByRun, PublishedByLauncher
<1>4. QED
  BY <1>1, <1>2, <1>3 DEF LaunchInv

LEMMA CreateIfMissingTyped ==
    ASSUME Possessions, NEW d \in Dirs, CreateIfMissing(d)
    PROVE  ini' \in [Dirs -> Config]
BY ConfigsThere DEF Possessions, CreateIfMissing

(* Where After leads, whatever has been injected. *)
LEMMA AfterLeads ==
    ASSUME NEW d \in {"none", "ag", "haunt"}, After(d)
    PROVE  /\ launcher' \in {"inject", "key", "map"} /\ dll' \in {"none", "ag", "haunt"}
           /\ launcher' = "key" => cfg.inject_dll
           /\ launcher' = "map" => ~cfg.inject_dll
BY DEF After

(* What mapping, filling and releasing do to the client's memory. *)
LEMMA MapMemoryMaps ==
    ASSUME Possessions, NEW n \in Pids, NEW p \in Pids, MapMemory(n, p)
    PROVE  /\ memory' \in [Pids -> {"absent", "blank", "filled"}] /\ holders' \in [Pids -> SUBSET Pids]
           /\ p \in holders'[n]
           /\ \A q \in Pids : holders[q] \subseteq holders'[q]
           /\ \A q \in Pids : memory[q] = "filled" => memory'[q] = "filled"
BY DEF Possessions, MapMemory

LEMMA FillFills ==
    ASSUME Possessions, NEW n \in Pids, Fill(n)
    PROVE  /\ memory' \in [Pids -> {"absent", "blank", "filled"}] /\ holders' = holders
           /\ memory'[n] = "filled"
           /\ \A q \in Pids : memory[q] = "filled" => memory'[q] = "filled"
BY DEF Possessions, Fill

LEMMA ReleaseSpares ==
    ASSUME Possessions, NEW p \in Pids, Release(p)
    PROVE  /\ memory' \in [Pids -> {"absent", "blank", "filled"}] /\ holders' \in [Pids -> SUBSET Pids]
           /\ \A n, q \in Pids : q # p /\ q \in holders[n] =>
                  q \in holders'[n] /\ memory'[n] = memory[n]
BY DEF Possessions, Release

(* A step of the launcher that leaves the client and its memory alone.     *)
LEMMA LauncherStep ==
    ASSUME LaunchInv, UNCHANGED <<processVars, memoryVars, saw>>,
           ini' \in [Dirs -> Config], cfg' \in Config, dll' \in {"none", "ag", "haunt"},
           \/ launcher' \in {"read", "create"} /\ proc = "none"
           \/ launcher' \in {"inject", "wait"} /\ cfg' = cfg
           \/ launcher' = "key" /\ cfg' = cfg /\ cfg.inject_dll
           \/ launcher' = "map" /\ cfg' = cfg /\ ~cfg.inject_dll
    PROVE  LaunchInv'
<1>1. Places /\ Possessions /\ Resumes /\ PublishedByRun /\ PublishedByLauncher
  BY DEF LaunchInv
<1>2. UNCHANGED <<proc, lock, remote, run, memory, holders, saw>>
  BY DEF processVars, memoryVars
<1>3. Places'
  BY <1>1, <1>2 DEF Places
<1>4. Possessions'
  BY <1>1, <1>2 DEF Possessions
<1>5. Resumes'
  BY <1>1, <1>2 DEF Resumes, ResumedInTheEnd
<1>6. PublishedByRun' /\ PublishedByLauncher'
  BY <1>1, <1>2 DEF PublishedByRun, PublishedByLauncher, Resumes
<1>7. QED
  BY <1>3, <1>4, <1>5, <1>6 DEF LaunchInv

(* A step of the remote thread, of run() or of the client's thread that    *)
(* leaves the memory alone.                                                *)
LEMMA ClientStep ==
    ASSUME LaunchInv, UNCHANGED <<launcherVars, proc, memory>>,
           ini' \in [Dirs -> Config], lock' \in {"free", "remote", "main"},
           remote' \in {"none", "start", "load", "attached", "ended"}, run' \in RunPlaces,
           run' = run \/ run' \in RunPlaces \ {"fill", "hooks", "spawn", "done"} \/ run \in {"hooks", "spawn"},
           holders' \in [Pids -> SUBSET Pids], \A n \in Pids : holders[n] \subseteq holders'[n],
           saw' \in {"nothing yet", "absent", "blank", "filled"}
    PROVE  LaunchInv'
<1>1. Places /\ Possessions /\ Resumes /\ PublishedByRun /\ PublishedByLauncher
  BY DEF LaunchInv
<1>2. UNCHANGED <<cfg, launcher, dll, proc, memory>>
  BY DEF launcherVars
<1>3. Places'
  BY <1>1, <1>2 DEF Places
<1>4. Possessions'
  BY <1>1, <1>2 DEF Possessions
<1>5. Resumes'
  BY <1>1, <1>2 DEF Resumes, ResumedInTheEnd
<1>6. holders["client"] \subseteq holders'["client"]
  BY DEF Pids
<1>7. PublishedByRun' /\ PublishedByLauncher'
  BY <1>1, <1>2, <1>6 DEF PublishedByRun, PublishedByLauncher
<1>8. QED
  BY <1>3, <1>4, <1>5, <1>7 DEF LaunchInv

LEMMA PrepareKeepsInv == LaunchInv /\ Prepare => LaunchInv'
<1> SUFFICES ASSUME LaunchInv, Prepare PROVE LaunchInv'
  OBVIOUS
<1>1. Places /\ Possessions /\ Resumes /\ PublishedByRun /\ PublishedByLauncher
  BY DEF LaunchInv
<1>2. LauncherDir \in Dirs /\ "launcher" \in Pids /\ "client" \in Pids /\ TargetPid \in Pids
  BY DEF Dirs, Pids, TargetPid
<1>3. CASE LauncherIni
  <2>1. ini' \in [Dirs -> Config]
    BY <1>1, <1>3, <1>2, CreateIfMissingTyped DEF LauncherIni
  <2>2. QED
    BY <1>1, <1>3, <2>1, LauncherStep DEF LauncherIni, Possessions, Places, Resumes
<1>4. CASE LauncherRead
  <2>1. cfg' \in Config
    BY <1>1, <1>4, <1>2 DEF LauncherRead, Possessions
  <2>2. QED
    BY <1>1, <1>4, <2>1, LauncherStep DEF LauncherRead, Possessions, Places, Resumes
<1>5. CASE Create
  <2>1. /\ launcher' \in {"inject", "key", "map"} /\ dll' \in {"none", "ag", "haunt"}
        /\ launcher' = "key" => cfg.inject_dll
        /\ launcher' = "map" => ~cfg.inject_dll
    BY <1>1, <1>5, AfterLeads DEF Create
  <2>2. /\ UNCHANGED <<ini, cfg, lock, remote, run, memory, holders, saw>>
        /\ proc' \in {"none", "suspended", "running"}
        /\ proc' = "suspended" => cfg.inject_dll
        /\ proc = "none"
    BY <1>1, <1>5 DEF Create, Created, memoryVars, Resumes
  <2>3. Places'
    BY <1>1, <2>1, <2>2 DEF Places
  <2>4. Possessions'
    BY <1>1, <2>1, <2>2 DEF Possessions
  <2>5. Resumes'
    BY <2>1, <2>2 DEF Resumes, ResumedInTheEnd
  <2>6. PublishedByRun' /\ PublishedByLauncher'
    BY <1>1, <2>1, <2>2 DEF PublishedByRun, PublishedByLauncher
  <2>7. QED
    BY <2>3, <2>4, <2>5, <2>6 DEF LaunchInv
<1>6. CASE Inject
  <2>1. dll \in {"none", "ag", "haunt"}
    BY <1>1 DEF Places
  <2>2. CASE InjectSkipped \/ InjectWaited
    <3>1. After(dll) /\ UNCHANGED <<ini, cfg, processVars, memoryVars, saw>>
      BY <2>2 DEF InjectSkipped, InjectWaited
    <3>2. QED
      BY <1>1, <2>1, <3>1, AfterLeads, LauncherStep DEF Possessions
  <2>3. CASE InjectStarted
    <3>1. /\ launcher' = "wait" /\ remote' = "start"
          /\ UNCHANGED <<ini, cfg, dll, proc, lock, run, memory, holders, saw>>
      BY <2>3 DEF InjectStarted, memoryVars
    <3>2. Places'
      BY <1>1, <3>1 DEF Places
    <3>3. Possessions'
      BY <1>1, <3>1 DEF Possessions
    <3>4. Resumes' /\ PublishedByRun' /\ PublishedByLauncher'
      BY <1>1, <3>1 DEF Resumes, ResumedInTheEnd, PublishedByRun, PublishedByLauncher
    <3>5. QED
      BY <3>2, <3>3, <3>4 DEF LaunchInv
  <2>4. QED
    BY <1>6, <2>2, <2>3 DEF Inject
<1>7. CASE LauncherMap
  <2>1. /\ launcher = "map" /\ ~cfg.inject_dll
        /\ UNCHANGED <<ini, cfg, dll, proc, lock, remote, run, saw>>
    BY <1>1, <1>7 DEF LauncherMap, processVars, Resumes
  <2>2. CASE MapMemory(TargetPid, "launcher") /\ launcher' = "fill"
    <3>1. Places'
      BY <1>1, <1>2, <2>1, <2>2, MapMemoryMaps DEF Places
    <3>2. Possessions'
      BY <1>1, <1>2, <2>1, <2>2, MapMemoryMaps DEF Possessions
    <3>3. Resumes'
      BY <1>1, <2>1, <2>2 DEF Resumes, ResumedInTheEnd
    <3>4. PublishedByRun'
      BY <1>1, <1>2, <2>1, <2>2, MapMemoryMaps DEF PublishedByRun
    <3>5. PublishedByLauncher'
      BY <1>1, <1>2, <2>1, <2>2, MapMemoryMaps DEF PublishedByLauncher, TargetPid
    <3>6. QED
      BY <3>1, <3>2, <3>3, <3>4, <3>5 DEF LaunchInv
  <2>3. CASE Release("launcher") /\ launcher' = "crashed"
    <3>1. Places'
      BY <1>1, <1>2, <2>1, <2>3, ReleaseSpares DEF Places
    <3>2. Possessions'
      BY <1>1, <1>2, <2>1, <2>3, ReleaseSpares DEF Possessions
    <3>3. Resumes'
      BY <1>1, <2>1, <2>3 DEF Resumes, ResumedInTheEnd
    <3>4. PublishedByRun' /\ PublishedByLauncher'
      BY <1>1, <1>2, <2>1, <2>3, ReleaseSpares DEF PublishedByRun, PublishedByLauncher
    <3>5. QED
      BY <3>1, <3>2, <3>3, <3>4 DEF LaunchInv
  <2>4. QED
    BY <1>7, <2>2, <2>3 DEF LauncherMap
<1>8. CASE LauncherFill
  <2>1. /\ launcher = "fill" /\ ~cfg.inject_dll /\ launcher' = "key" /\ Fill(TargetPid)
        /\ UNCHANGED <<ini, cfg, dll, proc, lock, remote, run, saw>>
    BY <1>1, <1>8 DEF LauncherFill, processVars, Resumes
  <2>2. /\ memory' \in [Pids -> {"absent", "blank", "filled"}] /\ holders' = holders
        /\ memory'[TargetPid] = "filled"
        /\ memory["client"] = "filled" => memory'["client"] = "filled"
    BY <1>1, <1>2, <2>1, FillFills
  <2>3. Places'
    BY <1>1, <2>1, <2>2 DEF Places
  <2>4. Possessions'
    BY <1>1, <2>1, <2>2 DEF Possessions
  <2>5. Resumes' /\ PublishedByRun'
    BY <1>1, <2>1, <2>2 DEF Resumes, ResumedInTheEnd, PublishedByRun
  <2>6. PublishedByLauncher'
    BY <1>1, <2>1, <2>2 DEF PublishedByLauncher, TargetPid
  <2>7. QED
    BY <2>3, <2>4, <2>5, <2>6 DEF LaunchInv
<1>9. QED
  BY <1>3, <1>4, <1>5, <1>6, <1>7, <1>8 DEF Prepare

LEMMA RunKeepsInv == LaunchInv /\ Run => LaunchInv'
<1> SUFFICES ASSUME LaunchInv, Run PROVE LaunchInv'
  OBVIOUS
<1>1. Places /\ Possessions /\ Resumes /\ PublishedByRun /\ PublishedByLauncher
  BY DEF LaunchInv
<1>2. ClientDir \in Dirs /\ "client" \in Pids
  BY DEF Dirs, Pids
<1>3. CASE RunBegin \/ RunLogInit \/ RunOds
  <2>1. /\ run' \in {"log_init", "ini", "map"}
        /\ UNCHANGED <<ini, launcherVars, proc, lock, remote, memory, holders, saw>>
    BY <1>3 DEF RunBegin, RunLogInit, RunOds, RunStep, memoryVars
  <2>2. QED
    BY <1>1, <2>1, ClientStep DEF Places, Possessions, RunPlaces
<1>4. CASE RunIni
  <2>1. ini' \in [Dirs -> Config]
    BY <1>1, <1>4, <1>2, CreateIfMissingTyped DEF RunIni
  <2>2. run' = "ods" /\ UNCHANGED <<launcherVars, proc, lock, remote, memory, holders, saw>>
    BY <1>4 DEF RunIni, RunStep, memoryVars
  <2>3. QED
    BY <1>1, <2>1, <2>2, ClientStep DEF Places, Possessions, RunPlaces
<1>5. CASE RunHooks \/ RunSpawn
  <2>1. /\ run \in {"hooks", "spawn"} /\ run' \in {"spawn", "done"}
        /\ UNCHANGED <<ini, launcherVars, proc, lock, remote, memory, holders, saw>>
    BY <1>5 DEF RunHooks, RunSpawn, RunStep, memoryVars
  <2>2. QED
    BY <1>1, <2>1, ClientStep DEF Places, Possessions, RunPlaces
<1>6. CASE RunMap
  <2>1. /\ run' = "fill" /\ MapMemory("client", "client")
        /\ UNCHANGED <<ini, cfg, launcher, dll, proc, lock, remote, saw>>
    BY <1>6 DEF RunMap, RunStep, launcherVars
  <2>2. /\ memory' \in [Pids -> {"absent", "blank", "filled"}] /\ holders' \in [Pids -> SUBSET Pids]
        /\ "client" \in holders'["client"] /\ holders["client"] \subseteq holders'["client"]
        /\ memory["client"] = "filled" => memory'["client"] = "filled"
    BY <1>1, <1>2, <2>1, MapMemoryMaps
  <2>3. Places'
    BY <1>1, <2>1, <2>2 DEF Places, RunPlaces
  <2>4. Possessions'
    BY <1>1, <2>1, <2>2 DEF Possessions
  <2>5. Resumes' /\ PublishedByRun' /\ PublishedByLauncher'
    BY <1>1, <2>1, <2>2 DEF Resumes, ResumedInTheEnd, PublishedByRun, PublishedByLauncher
  <2>6. QED
    BY <2>3, <2>4, <2>5 DEF LaunchInv
<1>7. CASE RunFill
  <2>1. /\ run = "fill" /\ run' = "hooks" /\ Fill("client")
        /\ UNCHANGED <<ini, cfg, launcher, dll, proc, lock, remote, saw>>
    BY <1>7 DEF RunFill, RunStep, launcherVars
  <2>2. /\ memory' \in [Pids -> {"absent", "blank", "filled"}] /\ holders' = holders
        /\ memory'["client"] = "filled"
    BY <1>1, <1>2, <2>1, FillFills
  <2>3. Places'
    BY <1>1, <2>1, <2>2 DEF Places, RunPlaces
  <2>4. Possessions'
    BY <1>1, <2>1, <2>2 DEF Possessions
  <2>5. Resumes' /\ PublishedByRun' /\ PublishedByLauncher'
    BY <1>1, <2>1, <2>2 DEF Resumes, ResumedInTheEnd, PublishedByRun, PublishedByLauncher
  <2>6. QED
    BY <2>3, <2>4, <2>5 DEF LaunchInv
<1>8. QED
  BY <1>3, <1>4, <1>5, <1>6, <1>7 DEF Run

LEMMA NextLaunchInv == LaunchInv /\ [Next]_vars => LaunchInv'
<1> SUFFICES ASSUME LaunchInv, [Next]_vars PROVE LaunchInv'
  OBVIOUS
<1>1. Places /\ Possessions /\ Resumes /\ PublishedByRun /\ PublishedByLauncher
  BY DEF LaunchInv
<1>2. "launcher" \in Pids /\ "client" \in Pids
  BY DEF Pids
<1>3. CASE Key
  <2>1. /\ launcher = "key" /\ launcher' = "exited" /\ Release("launcher")
        /\ proc' = IF cfg.inject_dll /\ proc = "suspended" THEN "running" ELSE proc
        /\ UNCHANGED <<ini, cfg, dll, lock, remote, run, saw>>
    BY <1>3 DEF Key
  <2>2. proc' \in {"none", "running", "dead"} /\ (proc' = "dead" <=> proc = "dead")
    BY <1>1, <2>1 DEF Places, Resumes
  <2>3. Places'
    BY <1>1, <1>2, <2>1, <2>2, ReleaseSpares DEF Places
  <2>4. Possessions'
    BY <1>1, <1>2, <2>1, <2>2, ReleaseSpares DEF Possessions
  <2>5. Resumes' /\ PublishedByLauncher'
    BY <2>1, <2>2 DEF Resumes, ResumedInTheEnd, PublishedByLauncher
  <2>6. PublishedByRun'
    BY <1>1, <1>2, <2>1, <2>2, ReleaseSpares DEF PublishedByRun
  <2>7. QED
    BY <2>3, <2>4, <2>5, <2>6 DEF LaunchInv
<1>4. CASE Remote
  <2>1. CASE RemoteLock
    <3>1. /\ lock' = "remote" /\ remote' = "load"
          /\ UNCHANGED <<ini, launcherVars, proc, run, memory, holders, saw>>
      BY <2>1 DEF RemoteLock, memoryVars
    <3>2. QED
      BY <1>1, <3>1, ClientStep DEF Possessions, Places
  <2>2. CASE RemoteAttach
    <3>1. /\ remote' = "attached" /\ run' \in {run, "begin"}
          /\ UNCHANGED <<ini, launcherVars, proc, lock, memory, holders, saw>>
      BY <2>2 DEF RemoteAttach, memoryVars
    <3>2. run' \in RunPlaces /\ (run' = run \/ run' \in RunPlaces \ {"fill", "hooks", "spawn", "done"})
      BY <1>1, <3>1 DEF Places, RunPlaces
    <3>3. QED
      BY <1>1, <3>1, <3>2, ClientStep DEF Possessions, Places
  <2>3. CASE RemoteEnd
    <3>1. /\ lock' = "free" /\ remote' = "ended"
          /\ UNCHANGED <<ini, launcherVars, proc, run, memory, holders, saw>>
      BY <2>3 DEF RemoteEnd, memoryVars
    <3>2. QED
      BY <1>1, <3>1, ClientStep DEF Possessions, Places
  <2>4. QED
    BY <1>4, <2>1, <2>2, <2>3 DEF Remote
<1>5. CASE MainLock \/ MainUnlock
  <2>1. /\ lock' \in {"free", "main"}
        /\ UNCHANGED <<ini, launcherVars, proc, remote, run, memory, holders, saw>>
    BY <1>5 DEF MainLock, MainUnlock, memoryVars
  <2>2. QED
    BY <1>1, <2>1, ClientStep DEF Possessions, Places
<1>6. CASE MainOpen
  <2>1. /\ UNCHANGED <<ini, launcherVars, proc, lock, remote, run, memory>>
        /\ saw' = memory["client"]
        /\ holders' = [holders EXCEPT !["client"] =
                           IF memory["client"] = "absent" THEN @ ELSE @ \cup {"client"}]
    BY <1>6 DEF MainOpen, processVars
  <2>2. holders' \in [Pids -> SUBSET Pids] /\ \A n \in Pids : holders[n] \subseteq holders'[n]
    BY <1>1, <1>2, <2>1 DEF Possessions
  <2>3. saw' \in {"nothing yet", "absent", "blank", "filled"}
    BY <1>1, <1>2, <2>1 DEF Possessions
  <2>4. QED
    BY <1>1, <2>1, <2>2, <2>3, ClientStep DEF Possessions, Places
<1>7. CASE Die
  <2>1. /\ proc \in {"running", "suspended"} /\ proc' = "dead" /\ Release("client")
        /\ UNCHANGED <<ini, cfg, launcher, dll, lock, remote, run, saw>>
    BY <1>7 DEF Die, launcherVars
  <2>2. Places'
    BY <1>1, <1>2, <2>1, ReleaseSpares DEF Places
  <2>3. Possessions'
    BY <1>1, <1>2, <2>1, ReleaseSpares DEF Possessions
  <2>4. Resumes' /\ PublishedByRun'
    BY <1>1, <2>1 DEF Resumes, ResumedInTheEnd, PublishedByRun
  <2>5. PublishedByLauncher'
    BY <1>1, <1>2, <2>1, ReleaseSpares DEF PublishedByLauncher
  <2>6. QED
    BY <2>2, <2>3, <2>4, <2>5 DEF LaunchInv
<1>8. CASE UNCHANGED vars
  <2>1. UNCHANGED <<ini, cfg, launcher, dll, proc, lock, remote, run, memory, holders, saw>>
    BY <1>8 DEF vars, launcherVars, processVars, memoryVars
  <2>2. Places'
    BY <1>1, <2>1 DEF Places
  <2>3. Possessions'
    BY <1>1, <2>1 DEF Possessions
  <2>4. Resumes' /\ PublishedByRun' /\ PublishedByLauncher'
    BY <1>1, <2>1 DEF Resumes, ResumedInTheEnd, PublishedByRun, PublishedByLauncher
  <2>5. QED
    BY <2>2, <2>3, <2>4 DEF LaunchInv
<1>9. QED
  BY <1>3, <1>4, <1>5, <1>6, <1>7, <1>8, PrepareKeepsInv, RunKeepsInv DEF Next

LEMMA SpecLaunchInv == Spec => []LaunchInv
BY InitLaunchInv, NextLaunchInv, PTL DEF Spec

(* The states of the start, also where the launcher lies beside the client *)
(* and both read one ag_mho.ini.                                           *)
THEOREM LaunchTyped == Spec => []TypeOK
<1>1. LaunchInv => TypeOK
  BY DEF LaunchInv, Places, Possessions, TypeOK
<1>2. QED
  BY <1>1, SpecLaunchInv, PTL

(* Whatever of the injection fails, and whatever the two ini files say: a  *)
(* launcher that is gone has left no suspended client behind.              *)
THEOREM NeverLeftSuspended == Spec => []ResumedInTheEnd
<1>1. LaunchInv => ResumedInTheEnd
  BY DEF LaunchInv, Resumes
<1>2. QED
  BY <1>1, SpecLaunchInv, PTL

(* A client that opens its memory after run() has written it, or while the *)
(* launcher that has written it waits, finds it filled, whoever else has   *)
(* mapped or released it since.                                            *)
THEOREM OpensFilledMemory == Spec => FindsPublished
<1>1. LaunchInv /\ [Next]_vars => [MainOpen /\ Published => saw' = "filled"]_vars
  <2> SUFFICES ASSUME LaunchInv, MainOpen, Published PROVE saw' = "filled"
    OBVIOUS
  <2>1. proc = "running" /\ saw' = memory["client"]
    BY DEF MainOpen
  <2>2. PublishedByRun /\ PublishedByLauncher
    BY DEF LaunchInv
  <2>3. memory["client"] = "filled"
    BY <2>1, <2>2 DEF Published, PublishedByRun, PublishedByLauncher
  <2>4. QED
    BY <2>1, <2>3
<1>2. QED
  BY <1>1, SpecLaunchInv, PTL DEF Spec, FindsPublished

-----------------------------------------------------------------------------
(* CrashDump *)


Labels == {"running", "directory", "path", "create", "write", "close", "chain", "return"}

Types ==
    /\ filter \in {"previous", "ours"} /\ prev \in {"null", "previous"}
    /\ second \in Seconds /\ dir \in BOOLEAN /\ alive \in BOOLEAN
    /\ files \in [Seconds -> {"absent", "empty", "part", "whole"}]
    /\ pc \in [Threads -> Labels]
    /\ stamp \in [Threads -> Seconds \cup {NoStamp}]
    /\ open \in [Threads -> BOOLEAN]
    /\ failed \in [Threads -> BOOLEAN] /\ chained \in [Threads -> BOOLEAN]

Opened == \A t \in Threads : open[t] <=> pc[t] \in {"write", "close"}

Exclusive == \A t, u \in Threads : open[t] /\ open[u] /\ t # u => stamp[t] # stamp[u]

(* A thread has its second from get_dump_path on. *)
Stamped ==
    \A t \in Threads :
        /\ pc[t] \in {"running", "directory", "path"} => stamp[t] = NoStamp
        /\ pc[t] \in {"create", "write", "close"} => stamp[t] \in Seconds

(* LostOnlyToSameSecond, from the moment the dump is written. *)
Kept ==
    \A t \in Threads :
        pc[t] \in {"close", "chain", "return"} /\ stamp[t] # NoStamp /\ ~failed[t] =>
            \/ files[stamp[t]] = "whole"
            \/ \E u \in Threads \ {t} : stamp[u] = stamp[t]

Noted == prev # "null" => filter = "ours"

CrashInv == Types /\ Opened /\ Exclusive /\ Stamped /\ Kept /\ Noted

LEMMA InitCrashInv == CrashInit => CrashInv
<1> SUFFICES ASSUME CrashInit PROVE CrashInv
  OBVIOUS
<1>1. 0 \in Seconds
  BY CrashDumpAssumption DEF Seconds
<1>2. Types
  BY <1>1 DEF CrashInit, Types, Labels
<1>3. Opened /\ Exclusive /\ Stamped /\ Kept /\ Noted
  BY DEF CrashInit, Opened, Exclusive, Stamped, Kept, Noted
<1>4. QED
  BY <1>2, <1>3 DEF CrashInv

LEMMA NoStampNoSecond == NoStamp \notin Seconds
BY CrashDumpAssumption DEF NoStamp, Seconds

(* Steps of one thread that leave the files and the seconds alone. *)
LEMMA QuietStep ==
    ASSUME CrashInv, NEW t \in Threads, NEW label \in Labels,
           pc' = [pc EXCEPT ![t] = label], UNCHANGED <<files, stamp, second, filter, prev>>,
           open' \in [Threads -> BOOLEAN], \A u \in Threads \ {t} : open'[u] = open[u],
           open'[t] => open[t], open'[t] <=> label \in {"write", "close"},
           failed' \in [Threads -> BOOLEAN], \A u \in Threads \ {t} : failed'[u] = failed[u],
           chained' \in [Threads -> BOOLEAN], dir' \in BOOLEAN, alive' \in BOOLEAN,
           label \in {"running", "directory", "path"} => stamp[t] = NoStamp,
           label \in {"create", "write", "close"} => stamp[t] \in Seconds,
           label \in {"close", "chain", "return"} /\ stamp[t] # NoStamp /\ ~failed'[t] =>
               pc[t] \in {"close", "chain", "return"} /\ ~failed[t]
    PROVE  CrashInv'
<1>1. Types /\ Opened /\ Exclusive /\ Stamped /\ Kept /\ Noted
  BY DEF CrashInv
<1>2. pc'[t] = label /\ \A u \in Threads \ {t} : pc'[u] = pc[u]
  BY <1>1 DEF Types
<1>3. Types'
  BY <1>1 DEF Types
<1>4. Opened' /\ Exclusive'
  BY <1>1, <1>2 DEF Opened, Exclusive
<1>5. Stamped' /\ Noted'
  BY <1>1, <1>2 DEF Stamped, Noted
<1>6. Kept'
  BY <1>1, <1>2 DEF Kept
<1>7. QED
  BY <1>3, <1>4, <1>5, <1>6 DEF CrashInv

LEMMA NextCrashInv == CrashInv /\ [CrashNext]_crashVars => CrashInv'
<1> SUFFICES ASSUME CrashInv, [CrashNext]_crashVars PROVE CrashInv'
  OBVIOUS
<1>1. Types /\ Opened /\ Exclusive /\ Stamped /\ Kept /\ Noted
  BY DEF CrashInv
<1>2. CASE SetFilter
  BY <1>1, <1>2 DEF SetFilter, CrashInv, Types, Opened, Exclusive, Stamped, Kept, Noted
<1>3. CASE NotePrevious
  BY <1>1, <1>3 DEF NotePrevious, CrashInv, Types, Opened, Exclusive, Stamped, Kept, Noted
<1>4. CASE Tick
  <2>1. second' \in Seconds
    BY <1>1, <1>4, CrashDumpAssumption DEF Tick, Types, Seconds
  <2>2. UNCHANGED <<filter, prev, dir, files, pc, stamp, open, failed, chained, alive>>
    BY <1>4 DEF Tick
  <2>3. QED
    BY <1>1, <2>1, <2>2 DEF CrashInv, Types, Opened, Exclusive, Stamped, Kept, Noted
<1>5. ASSUME NEW t \in Threads, Crash(t)
      PROVE  CrashInv'
  <2>1. At(t, "running") /\ UNCHANGED <<filter, prev, second, dir, files, stamp, open, failed, alive>>
    BY <1>5 DEF Crash
  <2>2. pc[t] = "running" /\ stamp[t] = NoStamp /\ ~open[t]
    BY <1>1, <2>1 DEF At, Stamped, Opened, Types
  <2>3. PICK label \in {"directory", "return"} : pc' = [pc EXCEPT ![t] = label]
    BY <1>5 DEF Crash, Goto
  <2>4. chained' \in [Threads -> BOOLEAN]
    BY <1>1, <1>5 DEF Crash, Types
  <2>5. /\ label \in Labels \ {"create", "write", "close", "chain"}
        /\ label \in {"running", "directory", "path"} => stamp[t] = NoStamp
    BY <2>2 DEF Labels
  <2>6. /\ open' \in [Threads -> BOOLEAN] /\ failed' \in [Threads -> BOOLEAN]
        /\ dir' \in BOOLEAN /\ alive' \in BOOLEAN
    BY <1>1, <2>1 DEF Types
  <2>7. QED
    BY <2>1, <2>2, <2>3, <2>4, <2>5, <2>6, QuietStep
<1>6. ASSUME NEW t \in Threads, Handle(t)
      PROVE  CrashInv'
  <2> USE DEF At, Goto
  <2>1. CASE EnsureDirectory(t)
    <3>1. pc[t] = "directory" /\ stamp[t] = NoStamp /\ ~open[t]
      BY <1>1, <2>1 DEF EnsureDirectory, Stamped, Opened
    <3>2. dir' \in BOOLEAN
      BY <1>1, <2>1 DEF EnsureDirectory, Types
    <3>3. QED
      BY <1>1, <2>1, <3>1, <3>2, QuietStep, NoStampNoSecond DEF EnsureDirectory, Labels, Types
  <2>2. CASE DumpPath(t)
    <3>1. /\ pc[t] = "path" /\ stamp[t] = NoStamp /\ ~open[t]
          /\ pc' = [pc EXCEPT ![t] = "create"]
          /\ stamp' = [stamp EXCEPT ![t] = second]
          /\ UNCHANGED <<filter, prev, second, dir, files, open, failed, chained, alive>>
      BY <1>1, <2>2 DEF DumpPath, Stamped, Opened
    <3>2. second \in Seconds /\ second # NoStamp
      BY <1>1, NoStampNoSecond DEF Types
    <3>3. /\ pc'[t] = "create" /\ stamp'[t] = second
          /\ \A u \in Threads \ {t} : pc'[u] = pc[u] /\ stamp'[u] = stamp[u]
      BY <1>1, <3>1 DEF Types
    <3>4. Types'
      BY <1>1, <3>1, <3>2 DEF Types, Labels
    <3>5. Opened' /\ Exclusive' /\ Stamped' /\ Noted'
      BY <1>1, <3>1, <3>2, <3>3 DEF Opened, Exclusive, Stamped, Noted
    <3>6. Kept'
      <4> SUFFICES ASSUME NEW u \in Threads, pc'[u] \in {"close", "chain", "return"},
                          stamp'[u] # NoStamp, ~failed'[u]
                   PROVE  \/ files'[stamp'[u]] = "whole"
                          \/ \E w \in Threads \ {u} : stamp'[w] = stamp'[u]
        BY DEF Kept
      <4>1. u # t /\ stamp'[u] = stamp[u] /\ pc'[u] = pc[u]
        BY <3>3
      <4>2. CASE files[stamp[u]] = "whole"
        BY <3>1, <4>1, <4>2
      <4>3. CASE \E w \in Threads \ {u} : stamp[w] = stamp[u]
        BY <3>1, <3>3, <4>1, <4>3
      <4>4. QED
        BY <1>1, <3>1, <4>1, <4>2, <4>3 DEF Kept
    <3>7. QED
      BY <3>4, <3>5, <3>6 DEF CrashInv
  <2>3. CASE CreateDump(t)
    <3>1. /\ pc[t] = "create" /\ stamp[t] \in Seconds
          /\ pc' = [pc EXCEPT ![t] = "write"]
          /\ files' = [files EXCEPT ![stamp[t]] = "empty"]
          /\ open' = [open EXCEPT ![t] = TRUE]
          /\ \A u \in Threads : open[u] => stamp[u] # stamp[t]
          /\ UNCHANGED <<filter, prev, second, dir, stamp, failed, chained, alive>>
      BY <1>1, <2>3 DEF CreateDump, InUse, Name, NameOf, Stamped
    <3>2. /\ pc'[t] = "write" /\ open'[t]
          /\ \A u \in Threads \ {t} : pc'[u] = pc[u] /\ open'[u] = open[u]
      BY <1>1, <3>1 DEF Types
    <3>3. Types'
      BY <1>1, <3>1 DEF Types, Labels
    <3>4. Opened' /\ Exclusive' /\ Stamped' /\ Noted'
      BY <1>1, <3>1, <3>2 DEF Opened, Exclusive, Stamped, Noted
    <3>5. Kept'
      <4> SUFFICES ASSUME NEW u \in Threads, pc'[u] \in {"close", "chain", "return"},
                          stamp[u] # NoStamp, ~failed[u], \A w \in Threads \ {u} : stamp[w] # stamp[u]
                   PROVE  files'[stamp[u]] = "whole"
        BY <3>1 DEF Kept
      <4>1. u # t /\ pc[u] \in {"close", "chain", "return"} /\ stamp[t] # stamp[u]
        BY <3>2
      <4>2. files[stamp[u]] = "whole" /\ stamp[u] \in Seconds
        BY <1>1, <4>1 DEF Kept, Types
      <4>3. QED
        BY <1>1, <3>1, <4>1, <4>2 DEF Types
    <3>6. QED
      BY <3>3, <3>4, <3>5 DEF CrashInv
  <2>4. CASE CreateFails(t)
    <3>1. pc[t] = "create" /\ ~open[t] /\ stamp[t] \in Seconds
      BY <1>1, <2>4 DEF CreateFails, Opened, Stamped
    <3>2. failed'[t]
      BY <1>1, <2>4 DEF CreateFails, Types
    <3>3. QED
      BY <1>1, <2>4, <3>1, <3>2, QuietStep DEF CreateFails, AfterNoFile, Labels, Types
  <2>5. CASE WriteDump(t)
    <3>1. PICK written \in {"part", "whole"} :
             /\ files' = [files EXCEPT ![stamp[t]] = written]
             /\ failed' = [failed EXCEPT ![t] = written # "whole"]
      BY <2>5 DEF WriteDump, Name, NameOf
    <3>2. /\ pc[t] = "write" /\ stamp[t] \in Seconds /\ open[t]
          /\ pc' = [pc EXCEPT ![t] = "close"]
          /\ UNCHANGED <<filter, prev, second, dir, stamp, open, chained, alive>>
      BY <1>1, <2>5 DEF WriteDump, Stamped, Opened
    <3>3. /\ pc'[t] = "close" /\ failed'[t] = (written # "whole") /\ files'[stamp[t]] = written
          /\ \A u \in Threads \ {t} : pc'[u] = pc[u] /\ failed'[u] = failed[u]
      BY <1>1, <3>1, <3>2 DEF Types
    <3>4. Types'
      BY <1>1, <3>1, <3>2 DEF Types, Labels
    <3>5. Opened' /\ Exclusive' /\ Stamped' /\ Noted'
      BY <1>1, <3>2, <3>3 DEF Opened, Exclusive, Stamped, Noted
    <3>6. Kept'
      <4> SUFFICES ASSUME NEW u \in Threads, pc'[u] \in {"close", "chain", "return"},
                          stamp[u] # NoStamp, ~failed'[u], \A w \in Threads \ {u} : stamp[w] # stamp[u]
                   PROVE  files'[stamp[u]] = "whole"
        BY <3>2 DEF Kept
      <4>1. CASE u = t
        BY <3>3, <4>1
      <4>2. CASE u # t
        <5>1. stamp[t] # stamp[u]
          BY <4>2
        <5>2. files[stamp[u]] = "whole" /\ stamp[u] \in Seconds
          BY <1>1, <3>3, <4>2 DEF Kept, Types
        <5>3. QED
          BY <1>1, <3>1, <5>1, <5>2 DEF Types
      <4>3. QED
        BY <4>1, <4>2
    <3>7. QED
      BY <3>4, <3>5, <3>6 DEF CrashInv
  <2>6. CASE CloseDump(t)
    <3>1. pc[t] = "close"
      BY <2>6 DEF CloseDump
    <3>2. QED
      BY <1>1, <2>6, <3>1, QuietStep DEF CloseDump, Labels, Types
  <2>7. CASE CallPrevious(t)
    <3>1. pc[t] = "chain" /\ ~open[t]
      BY <1>1, <2>7 DEF CallPrevious, Opened
    <3>2. QED
      BY <1>1, <2>7, <3>1, QuietStep DEF CallPrevious, Labels, Types
  <2>8. CASE Return(t)
    BY <1>1, <2>8 DEF Return, CrashInv, Types, Opened, Exclusive, Stamped, Kept, Noted
  <2>9. QED
    BY <1>6, <2>1, <2>2, <2>3, <2>4, <2>5, <2>6, <2>7, <2>8 DEF Handle
<1>7. CASE UNCHANGED crashVars
  BY <1>1, <1>7 DEF crashVars, CrashInv, Types, Opened, Exclusive, Stamped, Kept, Noted
<1>8. QED
  BY <1>2, <1>3, <1>4, <1>5, <1>6, <1>7 DEF CrashNext

LEMMA SpecCrashInv == CrashSpec => []CrashInv
BY InitCrashInv, NextCrashInv, PTL DEF CrashSpec

(* However many threads crash, no two of them have one dump file open.     *)
THEOREM TypesHold == CrashSpec => []CrashTypeOK
<1>1. CrashInv => CrashTypeOK
  BY DEF CrashInv, Types, Labels, Opened, Exclusive, CrashTypeOK, Name, NameOf
<1>2. QED
  BY <1>1, SpecCrashInv, PTL

(* However many threads crash: whoever returns first, its dump is whole    *)
(* unless Windows failed or another thread crashed in the same second.     *)
THEOREM DumpLostOnlyToSameSecond == CrashSpec => []LostOnlyToSameSecond
<1>1. CrashInv => LostOnlyToSameSecond
  BY DEF CrashInv, Kept, LostOnlyToSameSecond, Name, NameOf
<1>2. QED
  BY <1>1, SpecCrashInv, PTL

(* The previous filter is known, and will have been called when the filter *)
(* of the thread returns.                                                  *)
Calls(t) == prev # "null" /\ (pc[t] = "return" => chained[t])

LEMMA CallsStable ==
    ASSUME NEW t \in Threads, CrashInv, Calls(t), [CrashNext]_crashVars
    PROVE  Calls(t)'
<1>1. Types /\ Noted
  BY DEF CrashInv
<1>2. CASE SetFilter \/ NotePrevious \/ Tick \/ UNCHANGED crashVars
  BY <1>2 DEF Calls, SetFilter, NotePrevious, Tick, crashVars
<1>3. ASSUME NEW u \in Threads, Crash(u)
      PROVE  Calls(t)'
  <2>1. filter = "ours"
    BY <1>1 DEF Noted, Calls
  <2>2. QED
    BY <1>1, <1>3, <2>1 DEF Calls, Crash, Goto, Types
<1>4. ASSUME NEW u \in Threads, Handle(u)
      PROVE  Calls(t)'
  <2> USE DEF Goto
  <2>1. CASE CallPrevious(u)
    BY <1>1, <2>1 DEF Calls, CallPrevious, Types
  <2>2. CASE EnsureDirectory(u) \/ DumpPath(u) \/ CreateDump(u) \/ CreateFails(u)
             \/ WriteDump(u) \/ CloseDump(u) \/ Return(u)
    BY <1>1, <2>2
       DEF Calls, EnsureDirectory, DumpPath, CreateDump, CreateFails, AfterNoFile, WriteDump,
           CloseDump, Return, Types
  <2>3. QED
    BY <1>4, <2>1, <2>2 DEF Handle
<1>5. QED
  BY <1>2, <1>3, <1>4 DEF CrashNext

(* Once DllMain is done, every crash of every thread reaches the filter    *)
(* that was there before.                                                  *)
THEOREM PreviousFilterRuns == CrashSpec => PreviousRuns
<1> SUFFICES ASSUME NEW t \in Threads
             PROVE  CrashSpec => [](pc[t] = "running" /\ prev # "null" => [](pc[t] = "return" => chained[t]))
  BY DEF PreviousRuns
<1>1. pc[t] = "running" /\ prev # "null" => Calls(t)
  BY DEF Calls
<1>2. CrashInv /\ Calls(t) /\ [CrashNext]_crashVars => Calls(t)'
  BY CallsStable
<1>3. Calls(t) => (pc[t] = "return" => chained[t])
  BY DEF Calls
<1>4. QED
  BY <1>1, <1>2, <1>3, SpecCrashInv, PTL DEF CrashSpec

=============================================================================
