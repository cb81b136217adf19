\* The launcher started from elsewhere: two directories, two ini files.
CONSTANTS
    LauncherDir = LauncherDir
    ClientDir = ClientDir
SPECIFICATION Spec
INVARIANTS TypeOK ResumedInTheEnd
PROPERTIES FindsPublished RunCompletes
CHECK_DEADLOCK FALSE
