----------------------------- MODULE CrashDump -----------------------------
(***************************************************************************)
(* The BugTrace.dll that the launcher ships (bugtrace.c): an exception     *)
(* filter that writes a dump of the client and then calls the filter that  *)
(* was there before.  Several threads may crash at once: nothing makes one *)
(* filter wait for another, and when one has returned Windows ends the     *)
(* process, whatever the others are doing.                                 *)
(*                                                                         *)
(* A dump file is named by the second it was created in.                   *)
(***************************************************************************)
EXTENDS Naturals, FiniteSets

CONSTANTS
    Threads,
    MaxSecond       \* bound: the seconds in which threads crash

ASSUME CrashDumpAssumption == MaxSecond \in Nat

VARIABLES
    filter,     \* the filter that Windows calls: "previous" or "ours"
    prev,       \* g_prev_filter: "null" or "previous"
    second,     \* the clock
    dir,        \* the directory CrashDumps exists
    files,      \* what is in the dump file of each second
    pc,         \* where each thread is
    stamp,      \* the second in the dump_path of each thread
    open,       \* the thread has the file of its name open
    failed,     \* a call of Windows failed in the filter of the thread
    chained,    \* the previous filter has been called for the crash of the thread
    alive       \* the process has not ended

crashVars == <<filter, prev, second, dir, files, pc, stamp, open, failed, chained, alive>>

Seconds == 0 .. MaxSecond
NoStamp == MaxSecond + 1

CrashInit ==
    /\ filter = "previous" /\ prev = "null"
    /\ second = 0
    /\ dir \in BOOLEAN
    /\ files = [s \in Seconds |-> "absent"]
    /\ pc = [t \in Threads |-> "running"]
    /\ stamp = [t \in Threads |-> NoStamp]
    /\ open = [t \in Threads |-> FALSE]
    /\ failed = [t \in Threads |-> FALSE]
    /\ chained = [t \in Threads |-> FALSE]
    /\ alive = TRUE

Goto(t, label) == pc' = [pc EXCEPT ![t] = label]
At(t, label) == alive /\ pc[t] = label

-----------------------------------------------------------------------------
(* DllMain.  The filter is in force before what it replaces is noted.      *)

SetFilter ==
    /\ alive
    /\ filter = "previous"
    /\ filter' = "ours"
    /\ UNCHANGED <<prev, second, dir, files, pc, stamp, open, failed, chained, alive>>

NotePrevious ==
    /\ alive
    /\ filter = "ours" /\ prev = "null"
    /\ prev' = "previous"
    /\ UNCHANGED <<filter, second, dir, files, pc, stamp, open, failed, chained, alive>>

-----------------------------------------------------------------------------
(* crash_handler *)

(* A thread crashes; before DllMain the previous filter is all there is.   *)
Crash(t) ==
    /\ At(t, "running")
    /\ IF filter = "ours"
       THEN Goto(t, "directory") /\ UNCHANGED chained
       ELSE Goto(t, "return") /\ chained' = [chained EXCEPT ![t] = TRUE]
    /\ UNCHANGED <<filter, prev, second, dir, files, stamp, open, failed, alive>>

(* ensure_crashdumps_dir: nobody looks at the result. *)
EnsureDirectory(t) ==
    /\ At(t, "directory")
    /\ dir' \in {dir, TRUE}
    /\ failed' = [failed EXCEPT ![t] = ~dir']
    /\ Goto(t, "path")
    /\ UNCHANGED <<filter, prev, second, files, stamp, open, chained, alive>>

(* get_dump_path.  Mutation: the name goes without the seconds.            *)
NameOfMinute(s) == 0
NameOf(s) == s
Name(t) == NameOf(stamp[t])
DumpPath(t) ==
    /\ At(t, "path")
    /\ stamp' = [stamp EXCEPT ![t] = second]
    /\ Goto(t, "create")
    /\ UNCHANGED <<filter, prev, second, dir, files, open, failed, chained, alive>>

(* The file of the name is shared with nobody, and emptied.  Mutation: it  *)
(* is shared.                                                              *)
Shared(t) == FALSE
InUse(t) == \E u \in Threads : open[u] /\ Name(u) = Name(t)
CreateDump(t) ==
    /\ At(t, "create")
    /\ dir /\ ~InUse(t)
    /\ files' = [files EXCEPT ![Name(t)] = "empty"]
    /\ open' = [open EXCEPT ![t] = TRUE]
    /\ Goto(t, "write")
    /\ UNCHANGED <<filter, prev, second, dir, stamp, failed, chained, alive>>

(* No directory, no permission, or a file in use.  Mutation: the filter    *)
(* gives up.                                                               *)
GiveUp == "return"
AfterNoFile == "chain"
CreateFails(t) ==
    /\ At(t, "create")
    /\ failed' = [failed EXCEPT ![t] = TRUE]
    /\ Goto(t, AfterNoFile)
    /\ UNCHANGED <<filter, prev, second, dir, files, stamp, open, chained, alive>>

(* MiniDumpWriteDump, whose result nobody looks at: part of a dump, or a   *)
(* whole one.                                                              *)
WriteDump(t) ==
    /\ At(t, "write")
    /\ \E written \in {"part", "whole"} :
        /\ files' = [files EXCEPT ![Name(t)] = written]
        /\ failed' = [failed EXCEPT ![t] = written # "whole"]
    /\ Goto(t, "close")
    /\ UNCHANGED <<filter, prev, second, dir, stamp, open, chained, alive>>

CloseDump(t) ==
    /\ At(t, "close")
    /\ open' = [open EXCEPT ![t] = FALSE]
    /\ Goto(t, "chain")
    /\ UNCHANGED <<filter, prev, second, dir, files, stamp, failed, chained, alive>>

CallPrevious(t) ==
    /\ At(t, "chain")
    /\ chained' = [chained EXCEPT ![t] = prev # "null"]
    /\ Goto(t, "return")
    /\ UNCHANGED <<filter, prev, second, dir, files, stamp, open, failed, alive>>

(* Whatever the filter returns, Windows ends the process. *)
Return(t) ==
    /\ At(t, "return")
    /\ alive' = FALSE
    /\ UNCHANGED <<filter, prev, second, dir, files, pc, stamp, open, failed, chained>>

-----------------------------------------------------------------------------

Tick ==
    /\ alive
    /\ second < MaxSecond
    /\ second' = second + 1
    /\ UNCHANGED <<filter, prev, dir, files, pc, stamp, open, failed, chained, alive>>

Handle(t) ==
    \/ EnsureDirectory(t) \/ DumpPath(t) \/ CreateDump(t) \/ CreateFails(t)
    \/ WriteDump(t) \/ CloseDump(t) \/ CallPrevious(t) \/ Return(t)

CrashNext == SetFilter \/ NotePrevious \/ Tick \/ \E t \in Threads : Crash(t) \/ Handle(t)

CrashSpec == CrashInit /\ [][CrashNext]_crashVars

-----------------------------------------------------------------------------

(* Types; a file that is open is open in one thread only.                  *)
CrashTypeOK ==
    /\ filter \in {"previous", "ours"} /\ prev \in {"null", "previous"}
    /\ second \in Seconds /\ dir \in BOOLEAN /\ alive \in BOOLEAN
    /\ files \in [Seconds -> {"absent", "empty", "part", "whole"}]
    /\ pc \in [Threads -> {"running", "directory", "path", "create", "write", "close", "chain", "return"}]
    /\ stamp \in [Threads -> Seconds \cup {NoStamp}]
    /\ failed \in [Threads -> BOOLEAN] /\ chained \in [Threads -> BOOLEAN]
    /\ \A t \in Threads : open[t] <=> pc[t] \in {"write", "close"}
    /\ \A t, u \in Threads : open[t] /\ open[u] /\ t # u => Name(t) # Name(u)

(* When the filter of a thread returns, and with it the process ends, the  *)
(* thread's dump is on the disk and whole, unless a call of Windows failed *)
(* or another thread crashed in the same second (crash_handler): threads   *)
(* that crash at other times do not touch it.                              *)
LostOnlyToSameSecond ==
    \A t \in Threads :
        pc[t] = "return" /\ stamp[t] # NoStamp /\ ~failed[t] =>
            \/ files[Name(t)] = "whole"
            \/ \E u \in Threads \ {t} : stamp[u] = stamp[t]

(* The filter that was there before is called for every crash after        *)
(* DllMain, whether there is a dump or not (crash_handler).                *)
PreviousRuns ==
    \A t \in Threads :
        [](pc[t] = "running" /\ prev # "null" => [](pc[t] = "return" => chained[t]))

=============================================================================
