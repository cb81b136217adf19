\* Two waiters and two signallers: every crossing of a timeout and a signal.
CONSTANTS
    Waiters = {w1, w2}
    Signallers = {s1, s2}
    MaxSpins = 1
    MaxSignals = 2
    MaxGrants = 3
SPECIFICATION Spec
INVARIANTS TypeOK WakeupsMatch
PROPERTIES KeepsPermits WaitReturns
CHECK_DEADLOCK FALSE
