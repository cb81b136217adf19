CONSTANTS
    run = run
    crygame = crygame
    protocal = protocal
    ods = ods
    exejmp = exejmp
    exenop = exenop
    gamejmp = gamejmp
    protocall = protocall
    k32 = k32
    exe = exe
    game = game
    proto = proto
    Starter = run
    Late = {crygame, protocal}
    Clients = {c1}
    Sites = {ods, exejmp, exenop, gamejmp, protocall}
    Pages = {k32, exe, game, proto}
    Table <- MCTable
    Kind <- MCKind
    Extra <- MCExtra
    Page <- MCPage
    Original <- MCOriginal
SPECIFICATION Spec
INVARIANTS TypeOK ProtectionRestored CrashOnlyIfExposed
PROPERTY EventuallyInstalled
CHECK_DEADLOCK FALSE
