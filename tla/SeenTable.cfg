\* Two threads race on a table of two slots.
CONSTANTS
    Threads = {t1, t2}
    Funcs = {f1, f2}
    Rets = {r1, r2}
    Zero = Zero
    Capacity = 2
    MaxCalls = 4
SPECIFICATION Spec
SYMMETRY ThreadSymmetry
INVARIANTS TypeOK InBounds PublishedWritten
PROPERTY MutesOnce
CHECK_DEADLOCK FALSE
