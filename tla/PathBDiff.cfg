\* Two slots for four commands: c1 outgrows the window, c2 has a hooked stub but no
\* resolved list, the stub of c3 is not hooked, the head of c4 cannot be read.
CONSTANTS
    c1 = c1
    c2 = c2
    c3 = c3
    c4 = c4
    Cmds = {c1, c2, c3, c4}
    Nodes = {n1, n2, n3}
    SpawnCmds = {c1, c2, c3, c4}
    Resolved = {c1, c3, c4}
    Stubs = {c1, c2}
    NoCmd = NoCmd
    Slots = 2
    Window = 2
    Unreadable = {n3, c4}
    MaxSubs <- Short
SPECIFICATION Spec
INVARIANTS TypeOK ToldIsCached
PROPERTIES NeverTwice ExactWhenItFits
CHECK_DEADLOCK FALSE
