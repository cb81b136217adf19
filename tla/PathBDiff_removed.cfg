\* A list longer than the window.
CONSTANTS
    c1 = c1
    c2 = c2
    c3 = c3
    c4 = c4
    Cmds = {c1}
    Nodes = {n1, n2, n3}
    SpawnCmds = {c1}
    Resolved = {c1}
    Stubs = {c1}
    NoCmd = NoCmd
    Slots = 1
    Window = 2
    Unreadable = {}
    MaxSubs <- Long
SPECIFICATION Spec
INVARIANT RemovedIsGone
CHECK_DEADLOCK FALSE
