\* The thread of run() and a client thread.
CONSTANTS
    Threads = {run, client}
    Starter = run
    MaxLines = 3
SPECIFICATION Spec
INVARIANTS TypeOK QueueBeforeUse
PROPERTIES KeepsContract EventuallyPrinted
CHECK_DEADLOCK FALSE
