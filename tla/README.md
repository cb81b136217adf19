# mho_launcher: a verification project

TLA+ modules for the launcher, the injected DLL and its observation hooks, with
the TLC configurations that check them and the TLAPS proofs of what holds for
every size. The source paths are relative to the repository.

## The system

`ag_mho.exe` (`ag_mho_exe/main.cpp`) starts the game client. With `inject_dll = 1`
it creates the client suspended, loads `ag_mho.dll` into it with a remote thread
and resumes it on a key. The DLL (`ag_mho_dll/`) opens a log, publishes a shared
memory that the client's TenProxy expects, and patches jumps and calls into the
code of five modules; the patched code calls back into the DLL from whatever
thread of the client runs it. Two stub DLLs (`tersafe_dll/`, `bugtrace_dll/`)
stand in for parts of the client.

| Component | State | Operations | Interacts through |
|---|---|---|---|
| Launcher, `main.cpp` | config, process handle, shared memory handle | create process, inject, publish memory, wait for key, resume | the client's process and loader lock; `ag_mho.ini`; a named mapping |
| DLL startup, `dllmain.cpp` | none of its own | `DllMain`, `run()`, four installer threads | loader lock, every component below |
| Log pipeline, `log.cpp` | queue, running flag, log file | `log_init`, `log`, `run_events`, `log_shutdown` | called from every thread; one consumer |
| Code patching, `patch.h`, `hook_table.h` | the client's code bytes and page protections | `WriteMemory`, `hook_call`, `patch_jmp`, `patch_nop`, trampolines, `wait_for_module` | the client executes what is patched |
| Installers, `hooks_*.cpp` | original function pointers, config flags | one `install_*_hooks` each | patching; `ag_mho.ini` |
| Backtrace dedup, `hooks_mho_handlers.cpp` | count and 256 slots, no lock | `note_caller_pair_new` | called from every hooked handler |
| CryGame observers, `hooks_crygame.cpp` | snapshots of the client's handler tables | dispatch lookup, path B resolution and diff | reads the client's memory |
| TCLS memory, `shared_memory.h`, `ag_buffer.h` | a growable buffer | `write`, `map` | the named mapping |
| Trampolines, `hook_table.h`, and stack walk, `backtrace_util.h` | the client's stack and registers; the modules whose base is known | save, call back, restore, steal; walk the frame pointers | run on the client's thread |
| TerSafe stub, `tersafe.c` | an object with a table of methods | methods that return constants | called by the client |
| BugTrace stub, `bugtrace.c` | the previous exception filter | write a dump, call the previous filter | called by Windows on the thread that crashed |
| Tables of ids, `cs_cmd.h`, `internal_notification_ids.h` | none | id to name | used by the observers |
| ini parser, text helpers | none | pure functions | |

What is hard: the hooks run on threads the DLL knows nothing about, without
locks; the client's code is rewritten in several steps while it may run; process
start-up crosses two processes and the loader lock; trampolines and stubs change
the client's stack below code that must not notice; shutdown ends threads
wherever they are; every step of the injection may fail. The list of hazards,
each with its line, is in `PROJECT.json`.

## Modules

| Module | Models | Its state and actions in the code |
|---|---|---|
| `SeenTable` | the dedup table of `hooks_mho_handlers.cpp` | one action per memory access of `note_caller_pair_new`; a slot is two 32-bit halves |
| `MuteOnce` | what the table promises | `SeenTable` implements it as long as calls do not overlap |
| `LogPipeline` | `log.cpp` over the blocking queue | the steps of `log_init`, insert and signal of `enqueue`, the consumer loop, exit |
| `LogContract` | what the log promises | implemented by `LogPipeline` |
| `Semaphore` | `LightweightSemaphore` under the queue | one action per atomic operation on `m_count` or call on `m_sema` |
| `Permits` | a counting semaphore with timed waits | implemented by `Semaphore`; what `LogPipeline` takes for granted of its `permits` |
| `HookInstall` | `patch.h`, `hook_table.h`, the order in `install_*_hooks` | protect, copy, restore of every `WriteMemory`; client threads at the sites |
| `Launch` | `main.cpp`, `DllMain`, `run()` | every branch of `main`, the remote thread, the loader lock, the mapping and who holds it |
| `PathBDiff` | the path B hooks of `hooks_crygame.cpp` | the client's lists, the cache, the hook of the switch and those of three stubs |
| `AgBuffer` | `ag_buffer.h` | cursor, lengths and bytes; one operator for the writes, whose growth may fail |
| `TclsMemory` | `write()` of `shared_memory.h`, over `AgBuffer` | one action per variable, raw value and table that `write()` appends; what TenProxy reads back |
| `HandlerLookup` | `protocol_dispatch_find_handler` | one action per visited node of the client's tree, each read of which may fail |
| `PlainClient` | a thread of the client without hooks and with the original TerSafe | external: the instructions that the stolen bytes and the comments of the tables show, over a stack, a frame pointer and the volatile registers |
| `HookFrames` | trampolines, callbacks with their stack walk, and the stub, under such a thread | one action per group of instructions that `generate_trampoline` emits; implements `PlainClient` |
| `Observers` | spawn filter, `path_b_resolve`, names of commands and events | operators over the client's jump tables; `HookFrames` evaluates them in its callbacks |
| `IdTables` | `cs_cmd.h`, `internal_notification_ids.h` | every id, enumeration member and case, as sets of numbers |
| `TersafeStub` | the table of methods of `tersafe.c` | per slot: the dwords removed, the value returned, the user kept |
| `CrashDump` | `bugtrace.c` | one action per call of Windows in `DllMain` and in the filter, each of which may fail; a clock in seconds |

`MC*` modules instantiate them for TLC, and `*Proofs` modules hold the theorems.
A definition that begins with "Mutation:" is a variant of the one below it with a
plausible bug; nothing in the specifications uses it, and with it in the place of
the original the named property of the run fails.

How they compose:

- `LogPipeline` sees the semaphore as a number: its timed wait fails only at zero.
  That this is so while signals and timeouts cross is what `Semaphore` shows by
  implementing `Permits`; with the log's one waiter a wait gives up only when
  `permits < 1`.
- `Launch` treats `install_*_hooks` as one step of `run()`, and `HookInstall`
  treats the launcher as one action, `Resume`, which may come at any time: each is
  the environment of the other.
- `HookFrames` starts where `HookInstall` ends, with every site installed. It
  extends `PlainClient`, whose instructions it executes, `Observers`, which
  extends `IdTables`, and `TersafeStub`.
- `TclsMemory` extends `AgBuffer`.

Four refinements are checked: `SeenTable` implements `MuteOnce`, `LogPipeline`
implements `LogContract`, `Semaphore` implements `Permits`, `HookFrames`
implements `PlainClient`. All four are proved as well.

## Runs

| Run | Instance | What it shows |
|---|---|---|
| `seen` | two threads, four pairs, two slots, four calls | the table is never addressed out of bounds; a slot below the count was written, however the threads move the count; the promise of `MuteOnce` holds until two calls overlap, also when the table is full |
| `seen_phantom` | as `seen` | **violated**: a slot torn between two stores mutes a pair that nobody stored |
| `log` | the thread of `run()` and a client thread, three lines each | queue before use, `LogContract` implemented, queued lines printed unless the process exits |
| `semaphore` | two waiters, two threads with two signals, three permits each | no wake-up lost or left over, `Permits` implemented, waits return |
| `hooks` | three installers, five sites (each kind of hook), four pages, a client thread | a page that no `WriteMemory` is busy with has the protection it was loaded with; a crash at a hook needs a site that was unfinished when the client was resumed, or a failed allocation; tables are completed |
| `launch` | both ini files in every state | whichever step fails the client is not left suspended, published memory is found filled, `run()` does not wait for the loader lock for ever |
| `diff` | four commands, two slots, window of two | the log of differences stays consistent with the cache, repeats nothing across two hooks of a dispatch, and is exact for lists that fit |
| `diff_removed` | one command, three nodes, window of two | **violated**: a node pushed out of the window is logged as removed |
| `lookup` | four ids | in every tree, with every set of unreadable nodes and with registrations during the walk: no wrong handler, found when registered, the walk ends |
| `tcls` | each text that the source sets or has commented out | growth at every place it can come, and failing growth: no write leaves the allocation otherwise, all published bytes were written, and each variable is found through the tables |
| `frames` | a client thread, seven sites, one of each kind the tables have, four nested calls | the client behaves as without hooks (`SameAsUnhooked`); a logged walk names true callers, in order and from the last one on, until it has passed a function that uses `ebp` for data, and `register_handler` and `path_c1` log something else than the caller's address (`CallersReported`); callers are named for their modules, except where the windows of the list make a neighbour or `?` of them (`NamesTheModule`); the commands and events named are those of the packet |
| `crash` | three threads that crash, two seconds, during and after `DllMain` | a dump is lost only to a failure of Windows or to a crash in the same second; the previous filter is called for every crash after `DllMain` |

The violated ones are disagreements between the code and what its comments or
its README say; `PROJECT.json` quotes each.

### Bounds, and why they are enough

- `SeenTable`: two slots hold the cases of no, one and no more room, and four
  calls let two threads overlap twice. Four pairs differ in either half, which
  is what a torn slot needs. `MaxCalls` bounds the histories, not the table.
- `LogPipeline`: three lines make a subqueue of more than one line and a consumer
  that is behind by one while the other thread signals. Two threads are the
  least that can overtake each other.
- `Semaphore`: a timeout needs one waiter, the theft of a wake-up two; two signals
  per thread leave permits for a wait that begins later. One spin is the least
  that has a loop; `MaxGrants` is above what the signals can grant to one waiter
  at a time.
- `HookInstall`: one site of every kind, two on one page, a page that is loaded
  writable; one client thread, as client threads share nothing.
- `Launch`: nothing is bounded but that the client opens its memory once. The run has
  the two executables in different directories; the proofs cover one directory as well.
- `PathBDiff`: one list longer than the window, one command more than there are
  slots, an unreadable node and an unreadable head, a stub with and one without a
  resolved list.
- `TclsMemory`: the sizes are those of the source and nothing is cut down:
  `GROW_SIZE` is 1024, `connection` takes 28 bytes or, commented out, 110, the
  client's path none or 92. Only with both longer texts does the buffer grow.
- `HandlerLookup`: four ids give every shape of a tree of depth four, so left and
  right turns alternate.
- `HookFrames`: sites before, within and behind the prologue, at the epilogue, with
  a stolen call and with a stolen absolute address; functions without a frame
  pointer and one that keeps data in `ebp`. Three calls are the least that nest a
  trampoline within a call that a trampoline makes; the fourth makes chains that
  two frames of a walk (`MaxFrames`) cut off. One module is relocated; CrySystem is in
  one of the two lists of windows only. Modules lie in units of 64 KB: `tenproxy.dll`,
  loaded later, is behind `CryGame.dll`, within its window of one list but not of the
  other, and a trampoline lies in that window too. One user (`Uins`) and none are the
  least that `Init` of TerSafe can tell apart.
- `CrashDump`: two threads race for one file, and a third has a file of its own or
  crashes first; two seconds are the least that differ.

### Fairness

- `LogPipeline`, `HookInstall`, `Launch`, `HandlerLookup`: weak fairness on the
  steps of our own threads; Windows schedules every runnable thread. Module
  loads, keys, client threads and exits have none: they belong to others.
- `Launch`: strong fairness for the remote thread and for `run()`, which wait for
  the loader lock that the client's thread takes and gives back again and again;
  the lock is a critical section, whose waiters are served. The client's thread
  gives the lock back (weak fairness on `MainUnlock`).
- `Semaphore`: weak fairness on a wait in progress and on the release that a
  signaller owes. No wait has to begin and no signal has to come. A wait is
  allowed to starve only if another waiter comes and goes for ever.

- `HookFrames`, `CrashDump`, `PathBDiff`, `SeenTable`, `TclsMemory` assume none and
  claim nothing that must eventually happen: they describe threads of the client.

`CHECK_DEADLOCK FALSE` is set everywhere: bounded histories end, the launcher and
the client end, installers finish, a crash ends the process.

## Proofs

| Module | Theorems | Argument |
|---|---|---|
| `SeenTableProofs` | `TableInBounds`, `TablePublishedWritten`, `SeenTyped` | the count moves back and forth, so what a thread knows is not about the count: slots are never unwritten (`WrittenStable`), hence what was below the count when it was read stays written; a thread about to publish has written slot `n`, and everything below it was written when it read `n` |
| | `MutesExactlyOnce` | a thread alone with the table knows that its count is the count: the slots below it hold each dumped pair once, and there are as many dumped pairs as slots used; each step is then one of `MuteOnce` or none |
| `HookInstallProofs` | `ProtectionIsRestored`, `InstallersTyped` | within `WriteMemory`, `OldProtection` is what the page was loaded with (`Lifted`); two installers are never within one page, by `PagesAssumption` and because the starter is done before the late ones begin |
| | `CrashNeedsExposure` | an installer goes through its tables in order and saves the original functions first, writes are only added to an unfinished site, and a thread within a site entered it when it was exposed |
| `SemaphoreProofs` | `NoWakeupLost`, `SemaphoreImplementsPermits`, `SemaphoreTyped` | the registered waiters are those counted below zero plus the wake-ups in flight (`WakeupsMatch`), together with what a thread remembers of the count (`Remembered`); every step is then one of `Permits` or none |
| `LogPipelineProofs` | `NoUseBeforeQueue`, `LinesOnly`, `LogKeepsContract` | `run()` allocates the queue before it starts the consumer or hooks anything; a subqueue holds lines of its own thread only (`InOwnQueue`), so the line in the consumer's hand belongs in front of that one; every step is then one of `LogContract` or none |
| `CryGameProofs`, of `PathBDiff` | `ToldStaysCached`, `NeverAnnouncedTwice`, `DiffTyped` | a command never has two slots, because a free one is claimed only when none is its own; what was announced is what that slot holds |
| | `ExactForListsThatFit` | the walk of a list that fits the window and can be read is the whole list; the slot then holds it, and what is announced is what the slot holds |
| `CryGameProofs`, of `HandlerLookup` | `WalkStaysInTree`, `ReportedHandlerIsRight` | the candidate's id is never below the packet's, and the last comparison excludes that it is above; registrations only add nodes |
| | `RegisteredIsFound` | some assignment of the nodes below each node makes the tree a search tree (`SearchTree`), and a registration extends it; what the walk looks for stays below where it is, or is its candidate. No induction over trees is needed: the assignment is part of the invariant |
| `ProcessProofs`, of `Launch` | `LaunchTyped`, `NeverLeftSuspended`, `OpensFilledMemory` | only a launcher that will come to its key makes a suspended client (`Resumes`); from its map on, `run()` keeps the memory alive and from its write on it is filled (`PublishedByRun`), as the launcher does until its key (`PublishedByLauncher`): a second map or write does no harm, and the end of one holder leaves it to the other |
| `ProcessProofs`, of `CrashDump` | `TypesHold`, `DumpLostOnlyToSameSecond`, `PreviousFilterRuns` | a thread takes its second once and writes to no other file, so a file that only one thread names is its own; the chain of filters is complete when `DllMain` is done |
| `TclsMemoryProofs` | `StaysInAllocation` | no value is longer than one growth makes room for, every write begins within the bytes in use, hence appends without a gap, and both tables are written over what was reserved |
| | `TclsTyped`, `EveryVariableIsFound` | `Layout`: writes append, so a variable written earlier stays as it is; the tables lie off every variable, so filling them in disturbs none; no variable takes more than one growth, so all of it is copied |
| `HookFramesProofs` | `FramesTyped`, `HooksUnnoticed` | the stack parses into activations, of an argument, an address to return to and the saved `ebp` if the function has pushed it (`Parsed`); a frame pointer refers to a saved one below (`Linked`), and a function finds its own again when a call returns (`Kept`); what a trampoline lays on top is known dword by dword (`InTrampoline`), so that what it takes off again is what was there |
| | `WalksNameCallers` | by `Kept`, the frame pointer of a function that keeps a frame leads to the next caller and past none that keeps one (`NextCaller`); data in `ebp`, or in a saved one, comes from a function below that uses `ebp` for data (`DInv`), so the walk descends from caller to caller at least until it has passed that one |
| | `ModulesAreNamed`, `ObserversAreRight` | a walk refreshes the list of modules before it names any, so a caller's own window, if it has one that holds it, is among those searched, and the first that holds the address is that one or an earlier one; no two modules overlap (`AddressAssumption`), so an earlier one belongs to a module that ends before the address. The tables of ids are checked interval by interval, and the packet is the argument below the address to return to |

They hold for any number of threads, sites, pages, slots, signals, lines, ids and
commands, and for texts of any size up to `GROW_SIZE - 4`. Assumed are
the named assumptions on the constants, which TLC evaluates in the runs. Those
with content are `CompiledAssumption` of `PlainClient` and `StolenAssumption` of
`HookFrames`, that functions push and pop `ebp` as their compiler makes them and
as the bytes in the hook tables show; `AddressAssumption` of `HookFrames`, that modules
and trampolines do not overlap, as Windows places them; `MemAssumption` of `TclsMemory`, that the mapping holds one growth
for the table and one for each variable (it is 24 times as large); and two of `HookInstall`: `PagesAssumption`, two late installers have no
page in common, as each patches the one module it waits for; and
`SitesAssumption`, each site is in one place of one table, as the tables of
`hooks_*.cpp` are. The starter may
share pages with anyone since it is done before they begin, which is proved.

Left to TLC:

- liveness, which needs fairness and `ENABLED`: `EventuallyPrinted`, `WaitReturns`,
  `EventuallyInstalled`, `RunCompletes`, `WalkEnds`;
- the two runs that find a property violated.

## Abstractions

- x86: in `note_caller_pair_new` all loads come before all stores and the locked
  instructions of the log queue separate calls, so interleaving single accesses
  covers what the store buffer allows. The two halves of a 64-bit slot may be
  accessed in either order. `compare_exchange_weak` does not fail spuriously.
- The queue is its contract (a FIFO per producing thread, a dequeue takes from any
  of them); its subqueues are vendored code and not modelled. `signal(count)` is
  called with 1 only and no wait is untimed.
- The end of the process kills every thread before `DLL_PROCESS_DETACH`; nothing
  unloads the DLL earlier.
- The bytes of a hook site are the number of completed writes and whether one is
  under way; no site of the tables straddles two pages. `VirtualProtect` does not
  fail: its result is ignored by the code, and the pages are those of a loaded
  module.
- Every address on the modelled stack is the index of a dword; `eax`, `ecx` and `edx`
  are one value. The flags, the XMM registers and the last error of the thread, which a
  trampoline does not save, are left out, so that `SameAsUnhooked` says nothing of them.
- Local variables are not on the modelled stack: what is on top of it behind a
  prologue is the saved `ebp`, where `path_c1` logs a local variable. Data in `ebp` is
  too small for an address, above the stack, or the address of any dword of the stack,
  as that of a local variable is. What a walk reads above the stack, or in an argument,
  passes for an address to return to or not.
- `CompiledAssumption` of `PlainClient`: `push ebp` is the first instruction of a
  function or is not there, `mov ebp,esp` is the second, `pop ebp` or `leave` the
  last but one, and only a function without a frame uses `ebp` for data. The main
  function of a thread, which never returns, pushes nothing.
- `BytesAssumption` of `HookFrames`: no absolute address is among the stolen bytes of
  a relocated module. The tables have such bytes for `MHOClient.exe`, which is not
  relocated, and for `CryGame.dll` at `hooks_crygame.cpp:1492` (`staticdata_set`),
  which relies on its preferred base. That site is left out, and no property would
  notice if `CryGame.dll` were elsewhere.
- The original TerSafe is known by how the client calls it; the slots nobody has
  characterised are taken to have the arguments the stub gives them.
- `MiniDumpWriteDump` is one step, as it suspends the other threads of the process;
  the process may still end before the file is closed. The names of two dumps are
  equal when their seconds are.
- A write past the allocation is where the behaviour of `TclsMemory` ends: what the
  heap does then is not the program's. `malloc` of the first 1024 bytes succeeds,
  and `wchar_t` has two bytes, as in the Windows build.
- The client dispatches path B commands on one thread, changes its lists between
  dispatches, and does not rebalance its handler tree during a lookup. The code
  under `src/` cannot show otherwise; the hooks take no lock. `WalkEnds` and
  `FindsRegistered` hold only as long as the tree is not rotated or made cyclic under
  the walk.

## Not modelled

`PROJECT.json` lists each part with its reason. In short:

- the ini parser, the text helpers and the wording of log lines: pure functions
  of their input, without state and without a promise beyond their result;
- callbacks that read fields of the client and format a line
  (`hooks_protocalhandler.cpp`, most of `hooks_crygame.cpp`): they keep no state;
- `hooks_tersafe.cpp`, which returns before it installs anything, and
  `dump_module.cpp`, which is not in the build;
- the subqueues of the vendored queue: by their contract only;
- the reading half of `AgBuffer`, which nothing calls.

Read in the code and worth knowing, but not the subject of a run:

- `hooks_mho_handlers.cpp:30`: besides the torn slot of `seen_phantom`, two threads
  with different new pairs may take one slot, and a late thread may publish an old
  count. Either costs an extra backtrace each time, more than the one that the
  comment names.
- `hooks_crygame.cpp:677`: `register_handler` logs `stack[0]` as the return address
  (`ret=`); behind `push ebp` that is the saved frame pointer. At line 1028 `path_c1`
  logs a local variable as `ret_after_call`. `CallersReported` states both.
- `hooks_crygame.cpp:160`: the comment says that an address is named for the closest
  module base; `format_module_offset` takes the first window of its table that holds
  it. `NamesTheModule` states what comes of that.
- `tersafe.c:240`: the comment hopes that the method for unknown slots is harmless;
  it removes four arguments, whatever the caller pushed.
- `README.md:10` of the sources: without `inject_dll` the client is not created
  suspended.

## What could follow

The subqueues of `concurrentqueue.h`, block by block, under `LogPipeline`.
