CONSTANTS
    Threads = {t1, t2, t3}
    MaxSecond = 1
SPECIFICATION CrashSpec
INVARIANTS CrashTypeOK LostOnlyToSameSecond
PROPERTY PreviousRuns
CHECK_DEADLOCK FALSE
