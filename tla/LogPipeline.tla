---------------------------- MODULE LogPipeline ----------------------------
(***************************************************************************)
(* ag_mho_dll/log.cpp: any thread of the client logs a line by enqueueing  *)
(* it; one consumer thread prints the lines to the console and the log     *)
(* file; DLL_PROCESS_DETACH stops the logging.                             *)
(*                                                                         *)
(* The queue is moodycamel::BlockingConcurrentQueue: a subqueue for each   *)
(* producing thread and a counting semaphore that is signalled after the   *)
(* insertion.  A dequeue takes the head of any nonempty subqueue.  The     *)
(* timed wait gives up only when the semaphore has no permit left.         *)
(*                                                                         *)
(* Nothing unloads ag_mho.dll, so DLL_PROCESS_DETACH comes from the exit   *)
(* of the process: Windows has then ended every other thread, wherever it  *)
(* was, before the exiting thread runs log_shutdown.                       *)
(***************************************************************************)
EXTENDS Integers, Sequences

CONSTANTS
    Threads,    \* the threads that log
    Starter,    \* the one that runs dllmain's run()
    MaxLines    \* bound: lines each thread logs

ASSUME StarterAssumption == Starter \in Threads
ASSUME MaxLinesAssumption == MaxLines \in Nat

Line == Threads \X (1 .. MaxLines)

VARIABLES
    starter,    \* progress of run(): log_init, then the hooks that make other threads log
    events,     \* is the queue allocated?
    is_running,
    log_file,   \* "closed", "open", or "failed" when it could not be opened
    alive,      \* is the process running? FALSE once it exits
    queue,      \* the subqueue of each thread
    permits,    \* the semaphore of the queue
    logger,     \* where each thread is in log()
    made,       \* lines each thread has formatted
    consumer,   \* where run_events is
    event,      \* the line the consumer holds
    console,    \* lines printed to std::cout
    file        \* lines written to the log file

initVars == <<starter, events, log_file>>
queueVars == <<queue, permits>>
logVars == <<logger, made>>
outVars == <<event, console, file>>
vars == <<initVars, is_running, alive, queueVars, logVars, consumer, outVars>>

Init ==
    /\ starter = "open"
    /\ events = FALSE
    /\ is_running = FALSE
    /\ log_file = "closed"
    /\ alive = TRUE
    /\ queue = [t \in Threads |-> <<>>]
    /\ permits = 0
    /\ logger = [t \in Threads |-> "idle"]
    /\ made = [t \in Threads |-> 0]
    /\ consumer = "none"
    /\ event = <<>>
    /\ console = <<>>
    /\ file = <<>>

-----------------------------------------------------------------------------
(* log_init, one action per effect, and the hooks that come after it       *)

OpenFile ==
    /\ alive /\ starter = "open"
    /\ log_file' \in {"open", "failed"}     \* the directory may be unwritable
    /\ starter' = "queue"
    /\ UNCHANGED <<events, is_running, alive, queueVars, logVars, consumer, outVars>>

MakeQueue ==
    /\ alive /\ starter = "queue"
    /\ events' = TRUE
    /\ starter' = "flag"
    /\ UNCHANGED <<log_file, is_running, alive, queueVars, logVars, consumer, outVars>>

SetRunning ==
    /\ alive /\ starter = "flag"
    /\ is_running' = TRUE
    /\ starter' = "spawn"
    /\ UNCHANGED <<events, log_file, alive, queueVars, logVars, consumer, outVars>>

SpawnConsumer ==
    /\ alive /\ starter = "spawn"
    /\ consumer' = "test"
    /\ starter' = "hook"
    /\ UNCHANGED <<events, log_file, is_running, alive, queueVars, logVars, outVars>>

(* install_ods_hooks and the rest of run(): from here on other threads log. *)
InstallHooks ==
    /\ alive /\ starter = "hook"
    /\ starter' = "hooked"
    /\ UNCHANGED <<events, log_file, is_running, alive, queueVars, logVars, consumer, outVars>>

-----------------------------------------------------------------------------
(* log(): vformat, then events->enqueue, which inserts and then signals    *)

(* Which threads reach log().  Mutation: hooks installed before log_init.  *)
MayLogEarly(t) == TRUE
MayLog(t) == starter = "hooked" \/ (t = Starter /\ starter = "hook")

Format(t) ==
    /\ alive /\ MayLog(t)
    /\ logger[t] = "idle"
    /\ made[t] < MaxLines
    /\ made' = [made EXCEPT ![t] = @ + 1]
    /\ logger' = [logger EXCEPT ![t] = "insert"]
    /\ UNCHANGED <<initVars, is_running, alive, queueVars, consumer, outVars>>

Insert(t) ==
    /\ alive /\ logger[t] = "insert"
    /\ queue' = [queue EXCEPT ![t] = Append(@, <<t, made[t]>>)]
    /\ logger' = [logger EXCEPT ![t] = "signal"]
    /\ UNCHANGED <<initVars, is_running, alive, permits, made, consumer, outVars>>

(* inner.enqueue fails when memory runs out: log() ignores the result.     *)
InsertFails(t) ==
    /\ alive /\ logger[t] = "insert"
    /\ logger' = [logger EXCEPT ![t] = "idle"]
    /\ UNCHANGED <<initVars, is_running, alive, queueVars, made, consumer, outVars>>

Signal(t) ==
    /\ alive /\ logger[t] = "signal"
    /\ permits' = permits + 1
    /\ logger' = [logger EXCEPT ![t] = "idle"]
    /\ UNCHANGED <<initVars, is_running, alive, queue, made, consumer, outVars>>

-----------------------------------------------------------------------------
(* run_events                                                              *)

Test ==
    /\ alive /\ consumer = "test"
    /\ consumer' = IF is_running THEN "wait" ELSE "ended"
    /\ UNCHANGED <<initVars, is_running, alive, queueVars, logVars, outVars>>

(* The semaphore has a permit.  Mutation: it hands out one too many.       *)
OnePermitTooMany == permits >= 0
HasPermit == permits > 0

(* Mutations of Timeout: the result of the timed wait is not looked at, or *)
(* it ends the loop.                                                       *)
TimeoutPrints ==
    /\ alive /\ consumer = "wait" /\ ~HasPermit
    /\ consumer' = "print"
    /\ UNCHANGED <<initVars, is_running, alive, queueVars, logVars, outVars>>

TimeoutBreaks ==
    /\ alive /\ consumer = "wait" /\ ~HasPermit
    /\ consumer' = "ended"
    /\ UNCHANGED <<initVars, is_running, alive, queueVars, logVars, outVars>>

(* wait_dequeue_timed gives up: continue. *)
Timeout ==
    /\ alive /\ consumer = "wait" /\ ~HasPermit
    /\ consumer' = "test"
    /\ UNCHANGED <<initVars, is_running, alive, queueVars, logVars, outVars>>

TakePermit ==
    /\ alive /\ consumer = "wait" /\ HasPermit
    /\ permits' = permits - 1
    /\ consumer' = "dequeue"
    /\ UNCHANGED <<initVars, is_running, alive, queue, logVars, outVars>>

(* while (!inner.try_dequeue(item)) continue: it spins until some subqueue *)
(* has a line.                                                             *)
Dequeue(t) ==
    /\ alive /\ consumer = "dequeue"
    /\ queue[t] # <<>>
    /\ event' = Head(queue[t])
    /\ queue' = [queue EXCEPT ![t] = Tail(@)]
    /\ consumer' = "print"
    /\ UNCHANGED <<initVars, is_running, alive, permits, logVars, console, file>>

PrintLine ==
    /\ alive /\ consumer = "print"
    /\ console' = Append(console, event)
    /\ consumer' = "write"
    /\ UNCHANGED <<initVars, is_running, alive, queueVars, logVars, event, file>>

(* The file after a line is written and flushed. *)
Flushed == IF log_file = "open" THEN Append(file, event) ELSE file

WriteLine ==
    /\ alive /\ consumer = "write"
    /\ file' = Flushed
    /\ consumer' = "test"
    /\ UNCHANGED <<initVars, is_running, alive, queueVars, logVars, event, console>>

-----------------------------------------------------------------------------
(* The process exits: the other threads end, then DllMain(DETACH) runs     *)
(* log_shutdown on the last one.                                           *)

Shutdown ==
    /\ alive
    /\ alive' = FALSE
    /\ is_running' = FALSE
    /\ log_file' = IF log_file = "open" THEN "closed" ELSE log_file
    /\ UNCHANGED <<starter, events, queueVars, logVars, consumer, outVars>>

Consumer == Test \/ Timeout \/ TakePermit \/ (\E t \in Threads : Dequeue(t)) \/ PrintLine \/ WriteLine
Start == OpenFile \/ MakeQueue \/ SetRunning \/ SpawnConsumer \/ InstallHooks
Log(t) == Format(t) \/ Insert(t) \/ InsertFails(t) \/ Signal(t)

Next == Start \/ (\E t \in Threads : Log(t)) \/ Consumer \/ Shutdown

(* The scheduler runs every thread that can run; nothing makes a thread    *)
(* log, and nothing makes the process exit.                                *)
Fairness ==
    /\ WF_vars(Consumer)
    /\ WF_vars(Start)
    /\ \A t \in Threads : WF_vars(Insert(t) \/ Signal(t))

Spec == Init /\ [][Next]_vars /\ Fairness

-----------------------------------------------------------------------------

TypeOK ==
    /\ starter \in {"open", "queue", "flag", "spawn", "hook", "hooked"}
    /\ events \in BOOLEAN
    /\ is_running \in BOOLEAN
    /\ log_file \in {"closed", "open", "failed"}
    /\ alive \in BOOLEAN
    /\ queue \in [Threads -> Seq(Line)]
    /\ permits \in Nat
    /\ logger \in [Threads -> {"idle", "insert", "signal"}]
    /\ made \in [Threads -> 0 .. MaxLines]
    /\ consumer \in {"none", "test", "wait", "dequeue", "print", "write", "ended"}
    /\ event \in Line \cup {<<>>}
    /\ console \in Seq(Line)
    /\ file \in Seq(Line)

(* No thread logs, and the consumer does not run, before log_init has      *)
(* allocated the queue: run() calls it before it installs any hook.        *)
QueueBeforeUse ==
    /\ \A t \in Threads : logger[t] # "idle" => events
    /\ consumer # "none" => events /\ (alive => is_running)

(* The pipeline implements the contract of the log: per thread, no line is *)
(* lost, doubled or overtaken on its way from log() to the console.        *)
InHand(t) == IF consumer = "print" /\ event # <<>> /\ event[1] = t THEN <<event>> ELSE <<>>

Contract == INSTANCE LogContract
    WITH Lines <- Line,
         pending <- [t \in Threads |-> InHand(t) \o queue[t]],
         out <- console

KeepsContract == Contract!Spec

(* A line that was enqueued is printed in the end, unless the process      *)
(* exits first.  The threads stop logging at MaxLines; while some thread   *)
(* logs without pause the queue may leave another one's line waiting.      *)
Queued(l) == \E k \in DOMAIN queue[l[1]] : queue[l[1]][k] = l
Printed(l) == \E k \in DOMAIN console : console[k] = l

EventuallyPrinted == \A l \in Line : Queued(l) ~> (Printed(l) \/ ~alive)

=============================================================================
