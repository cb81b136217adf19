------------------------------- MODULE Launch -------------------------------
(***************************************************************************)
(* Starting the client: ag_mho_exe/main.cpp, and in the client DllMain and *)
(* run() of ag_mho_dll/dllmain.cpp.                                        *)
(*                                                                         *)
(* The launcher reads ag_mho.ini.  With inject_dll it creates the client   *)
(* suspended, loads ag_mho.dll into it with a remote thread, waits for a   *)
(* key and resumes it; the DLL's own thread publishes the TCLS shared      *)
(* memory.  Without, the client runs at once and the launcher publishes    *)
(* the memory.  The threads of the client share Windows' loader lock.      *)
(***************************************************************************)
EXTENDS FiniteSets

CONSTANTS
    LauncherDir, ClientDir  \* the directories of the two executables: where each looks for ag_mho.ini

Dirs == {LauncherDir, ClientDir}
Pids == {"launcher", "client"}

VARIABLES
    ini,        \* ag_mho.ini of each directory
    cfg,        \* what the launcher read
    launcher,   \* where main() is
    dll,        \* the DLL inject_dll is about: "ag", "haunt" or "none"
    proc,       \* the client: "none", "suspended", "running" or "dead"
    lock,       \* the holder of its loader lock: "free", "remote" or "main"
    remote,     \* the remote thread: "none", "start", "load", "attached" or "ended"
    run,        \* where the thread of run() is
    memory,     \* the shared memory named after each process: "absent", "blank" or "filled"
    holders,    \* the processes that keep it alive
    saw         \* what the client found when it opened its memory: "nothing yet" or a state

launcherVars == <<cfg, launcher, dll>>
processVars == <<proc, lock, remote, run>>
memoryVars == <<memory, holders>>
vars == <<ini, launcherVars, processVars, memoryVars, saw>>

(* An ini file: without one, or without its keys, both switches read as 0. *)
Config == {c \in [there : BOOLEAN, inject_dll : BOOLEAN, inject_haunt : BOOLEAN] :
               ~c.there => ~c.inject_dll /\ ~c.inject_haunt}
Missing == [there |-> FALSE, inject_dll |-> FALSE, inject_haunt |-> FALSE]
Miswritten == [there |-> FALSE, inject_dll |-> TRUE, inject_haunt |-> FALSE] \* mutation of Defaults
Defaults == [there |-> TRUE, inject_dll |-> FALSE, inject_haunt |-> FALSE]

Init ==
    /\ ini \in [Dirs -> Config]
    /\ cfg = Missing
    /\ launcher = "ini"
    /\ dll = "none"
    /\ proc = "none"
    /\ lock = "free"
    /\ remote = "none"
    /\ run = "none"
    /\ memory = [p \in Pids |-> "absent"]
    /\ holders = [p \in Pids |-> {}]
    /\ saw = "nothing yet"

HasProcess == proc \in {"suspended", "running"}

-----------------------------------------------------------------------------
(* ag_mho.ini and the TCLS memory, used by both sides                      *)

(* ag_ini_create_if_missing: the directory may be unwritable.              *)
CreateIfMissing(d) ==
    \/ ini[d] = Missing /\ ini' = [ini EXCEPT ![d] = Defaults]
    \/ UNCHANGED ini

(* map_memory: the mapping of this name is created, or opened if it is     *)
(* there; no handle is ever closed, so the process keeps it.               *)
MapMemory(name, process) ==
    /\ memory' = [memory EXCEPT ![name] = IF @ = "absent" THEN "blank" ELSE @]
    /\ holders' = [holders EXCEPT ![name] = @ \cup {process}]

(* Mutation: the mapping is closed when the object goes out of scope.      *)
FillAndClose(name) ==
    /\ memory' = [memory EXCEPT ![name] = "absent"]
    /\ holders' = [holders EXCEPT ![name] = {}]

(* TenProxyTclsSharedMeMemory::write.                                      *)
Fill(name) ==
    /\ memory' = [memory EXCEPT ![name] = "filled"]
    /\ UNCHANGED holders

(* The end of a process closes its handles.                                *)
Release(process) ==
    /\ holders' = [n \in Pids |-> holders[n] \ {process}]
    /\ memory' = [n \in Pids |-> IF holders[n] \subseteq {process} THEN "absent" ELSE memory[n]]

-----------------------------------------------------------------------------
(* main() of the launcher                                                  *)

LauncherIni ==
    /\ launcher = "ini"
    /\ CreateIfMissing(LauncherDir)
    /\ launcher' = "read"
    /\ UNCHANGED <<cfg, dll, processVars, memoryVars, saw>>

LauncherRead ==
    /\ launcher = "read"
    /\ cfg' = ini[LauncherDir]     \* ag_ini_read, ag_ini_get_int
    /\ launcher' = "create"
    /\ UNCHANGED <<ini, dll, processVars, memoryVars, saw>>

(* What follows the injection of d, or of nothing.                         *)
After(d) ==
    IF d = "none" /\ cfg.inject_dll THEN launcher' = "inject" /\ dll' = "ag"
    ELSE IF d # "haunt" /\ cfg.inject_haunt THEN launcher' = "inject" /\ dll' = "haunt"
    ELSE launcher' = (IF cfg.inject_dll THEN "key" ELSE "map") /\ dll' = "none"

(* How the process is created. *)
Created == IF cfg.inject_dll THEN "suspended" ELSE "running"

(* CreateMhoProcess or CreateMhoProcessOrg; when it fails the process      *)
(* information is all zeroes.                                              *)
Create ==
    /\ launcher = "create"
    /\ \/ proc' = Created
       \/ proc' = "none"
    /\ After("none")
    /\ UNCHANGED <<ini, cfg, lock, remote, run, memoryVars, saw>>

(* Mutation: the launcher gives up when it cannot inject.                  *)
InjectFatal ==
    /\ launcher = "inject"
    /\ launcher' = "exited" /\ dll' = "none"
    /\ UNCHANGED <<ini, cfg, processVars, memoryVars, saw>>

(* inject_dll returns early: no process, no memory in it or no thread.     *)
InjectSkipped ==
    /\ launcher = "inject"
    /\ After(dll)
    /\ UNCHANGED <<ini, cfg, processVars, memoryVars, saw>>

InjectStarted ==
    /\ launcher = "inject" /\ HasProcess
    /\ remote' = "start"
    /\ launcher' = "wait"
    /\ UNCHANGED <<ini, cfg, dll, proc, lock, run, memoryVars, saw>>

(* WaitForSingleObject(..., INFINITE); success and failure of LoadLibraryW *)
(* differ in what is logged.                                               *)
InjectWaited ==
    /\ launcher = "wait"
    /\ remote = "ended" \/ proc = "dead"
    /\ After(dll)
    /\ UNCHANGED <<ini, cfg, processVars, memoryVars, saw>>

(* tptsmm->map(pi.dwProcessId); process id 0 stands for the launcher's.    *)
(* If the memory cannot be mapped, show() dereferences the null pointer.   *)
TargetPid == IF proc = "none" THEN "launcher" ELSE "client"

LauncherMap ==
    /\ launcher = "map"
    /\ \/ /\ MapMemory(TargetPid, "launcher")
          /\ launcher' = "fill"
       \/ /\ Release("launcher")
          /\ launcher' = "crashed"
    /\ UNCHANGED <<ini, cfg, dll, processVars, saw>>

LauncherFill ==
    /\ launcher = "fill"
    /\ Fill(TargetPid)
    /\ launcher' = "key"
    /\ UNCHANGED <<ini, cfg, dll, processVars, saw>>

(* A key: with inject_dll, ResumeThread.  Then the launcher exits.         *)
Key ==
    /\ launcher = "key"
    /\ proc' = IF cfg.inject_dll /\ proc = "suspended" THEN "running" ELSE proc
    /\ Release("launcher")
    /\ launcher' = "exited"
    /\ UNCHANGED <<ini, cfg, dll, lock, remote, run, saw>>

-----------------------------------------------------------------------------
(* The remote thread: LoadLibraryW                                         *)

RemoteLock ==
    /\ HasProcess /\ remote = "start" /\ lock = "free"
    /\ lock' = "remote"
    /\ remote' = "load"
    /\ UNCHANGED <<ini, launcherVars, proc, run, memoryVars, saw>>

(* The DLL is mapped and its DllMain runs: ag_mho.dll starts run() and     *)
(* does not wait for it.                                                   *)
RemoteAttach ==
    /\ HasProcess /\ remote = "load"
    /\ run' = IF dll = "ag" THEN "begin" ELSE run
    /\ remote' = "attached"
    /\ UNCHANGED <<ini, launcherVars, proc, lock, memoryVars, saw>>

(* Mutation: DllMain joins the thread of run().                            *)
RemoteEndJoins ==
    /\ HasProcess /\ remote \in {"load", "attached"}
    /\ remote = "attached" /\ dll = "ag" => run = "done"
    /\ lock' = "free"
    /\ remote' = "ended"
    /\ UNCHANGED <<ini, launcherVars, proc, run, memoryVars, saw>>

(* DllMain returns TRUE at once and so does LoadLibraryW, unless it has    *)
(* not found the DLL.                                                      *)
RemoteEnd ==
    /\ HasProcess /\ remote \in {"load", "attached"}
    /\ lock' = "free"
    /\ remote' = "ended"
    /\ UNCHANGED <<ini, launcherVars, proc, run, memoryVars, saw>>

-----------------------------------------------------------------------------
(* run() of the DLL                                                        *)

RunStep(from, to) == HasProcess /\ run = from /\ run' = to

(* A new thread announces itself to every DLL under the loader lock.       *)
RunBegin ==
    /\ RunStep("begin", "log_init")
    /\ lock = "free"
    /\ UNCHANGED <<ini, launcherVars, proc, lock, remote, memoryVars, saw>>

RunLogInit ==
    /\ RunStep("log_init", "ini")
    /\ UNCHANGED <<ini, launcherVars, proc, lock, remote, memoryVars, saw>>

RunIni ==
    /\ RunStep("ini", "ods")
    /\ CreateIfMissing(ClientDir)
    /\ UNCHANGED <<launcherVars, proc, lock, remote, memoryVars, saw>>

(* install_ods_hooks: GetModuleHandle takes the loader lock.               *)
RunOds ==
    /\ RunStep("ods", "map")
    /\ lock = "free"
    /\ UNCHANGED <<ini, launcherVars, proc, lock, remote, memoryVars, saw>>

(* tptsmm.map(0): the process is the client.                               *)
RunMap ==
    /\ RunStep("map", "fill")
    /\ MapMemory("client", "client")
    /\ UNCHANGED <<ini, launcherVars, proc, lock, remote, saw>>

RunFill ==
    /\ RunStep("fill", "hooks")
    /\ Fill("client")
    /\ UNCHANGED <<ini, launcherVars, proc, lock, remote, saw>>

(* install_mhoclient_hooks, then the installer threads.                    *)
RunHooks ==
    /\ RunStep("hooks", "spawn")
    /\ lock = "free"
    /\ UNCHANGED <<ini, launcherVars, proc, lock, remote, memoryVars, saw>>

RunSpawn ==
    /\ RunStep("spawn", "done")
    /\ UNCHANGED <<ini, launcherVars, proc, lock, remote, memoryVars, saw>>

Run == RunBegin \/ RunLogInit \/ RunIni \/ RunOds \/ RunMap \/ RunFill \/ RunHooks \/ RunSpawn

-----------------------------------------------------------------------------
(* The client's own thread, and the end of the client                      *)

MainLock ==
    /\ proc = "running" /\ lock = "free"
    /\ lock' = "main"
    /\ UNCHANGED <<ini, launcherVars, proc, remote, run, memoryVars, saw>>

MainUnlock ==
    /\ proc = "running" /\ lock = "main"
    /\ lock' = "free"
    /\ UNCHANGED <<ini, launcherVars, proc, remote, run, memoryVars, saw>>

(* TenProxy opens the memory named after its process, once.                *)
MainOpen ==
    /\ proc = "running" /\ saw = "nothing yet"
    /\ saw' = memory["client"]
    /\ holders' = [holders EXCEPT !["client"] =
                       IF memory["client"] = "absent" THEN @ ELSE @ \cup {"client"}]
    /\ UNCHANGED <<ini, launcherVars, processVars, memory>>

(* The client ends, for reasons of its own or because run() could not map  *)
(* the memory and show() dereferenced the null pointer.                    *)
Die ==
    /\ proc = "running" \/ (proc = "suspended" /\ run = "map")
    /\ proc' = "dead"
    /\ Release("client")
    /\ UNCHANGED <<ini, launcherVars, lock, remote, run, saw>>

Inject == InjectSkipped \/ InjectStarted \/ InjectWaited
Prepare == LauncherIni \/ LauncherRead \/ Create \/ Inject \/ LauncherMap \/ LauncherFill
Remote == RemoteLock \/ RemoteAttach \/ RemoteEnd

Next == Prepare \/ Key \/ Remote \/ Run \/ MainLock \/ MainUnlock \/ MainOpen \/ Die

(* Threads are scheduled, and one that waits for the loader lock gets it   *)
(* in the end; the key and the client's own doings are left to others.     *)
Fairness ==
    /\ WF_vars(Prepare)
    /\ SF_vars(Remote)
    /\ SF_vars(Run)
    /\ WF_vars(MainUnlock)

Spec == Init /\ [][Next]_vars /\ Fairness

-----------------------------------------------------------------------------

RunPlaces == {"none", "begin", "log_init", "ini", "ods", "map", "fill", "hooks", "spawn", "done"}

TypeOK ==
    /\ ini \in [Dirs -> Config]
    /\ cfg \in Config
    /\ launcher \in {"ini", "read", "create", "inject", "wait", "map", "fill", "key", "exited", "crashed"}
    /\ dll \in {"none", "ag", "haunt"}
    /\ proc \in {"none", "suspended", "running", "dead"}
    /\ lock \in {"free", "remote", "main"}
    /\ remote \in {"none", "start", "load", "attached", "ended"}
    /\ run \in RunPlaces
    /\ memory \in [Pids -> {"absent", "blank", "filled"}]
    /\ holders \in [Pids -> SUBSET Pids]
    /\ saw \in {"nothing yet", "absent", "blank", "filled"}

(* The launcher never leaves a client suspended behind, whichever step of  *)
(* the injection failed.                                                   *)
ResumedInTheEnd == launcher \in {"exited", "crashed"} => proc # "suspended"

(* A client that opens its memory after it was published finds it filled:  *)
(* after run() has passed map in the one case, while the launcher waits    *)
(* for its key in the other.                                               *)
Published ==
    \/ run \in {"hooks", "spawn", "done"}
    \/ launcher = "key" /\ ~cfg.inject_dll

FindsPublished == [][MainOpen /\ Published => saw' = "filled"]_vars

(* Nobody waits for the loader lock for ever: once ag_mho.dll is attached  *)
(* run() comes to its end.                                                 *)
RunCompletes == (run = "begin") ~> (run = "done" \/ proc = "dead")

=============================================================================
