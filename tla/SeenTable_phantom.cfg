\* The claim that a muted pair was logged, under two threads.
CONSTANTS
    Threads = {t1, t2}
    Funcs = {f1, f2}
    Rets = {r1, r2}
    Zero = Zero
    Capacity = 2
    MaxCalls = 4
SPECIFICATION Spec
PROPERTY MutedOnlyIfStored
CHECK_DEADLOCK FALSE
