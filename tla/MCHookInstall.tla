--------------------------- MODULE MCHookInstall ---------------------------
(* A table with every kind of entry.  kernel32 and MHOClient.exe are the   *)
(* starter's; the executable's page holds a jmp and a nop site, and it is  *)
(* loaded writable, as a packed executable is.                             *)
EXTENDS HookInstall, TLC

CONSTANTS run, crygame, protocal, ods, exejmp, exenop, gamejmp, protocall, k32, exe, game, proto

MCTable == (run :> <<ods, exejmp, exenop>>) @@ (crygame :> <<gamejmp>>) @@ (protocal :> <<protocall>>)
MCKind == (ods :> "detour") @@ (exejmp :> "jmp") @@ (exenop :> "nop")
          @@ (gamejmp :> "jmp") @@ (protocall :> "call")
MCExtra == [s \in Sites |-> IF s = exejmp THEN 1 ELSE 0]
MCPage == (ods :> k32) @@ (exejmp :> exe) @@ (exenop :> exe) @@ (gamejmp :> game) @@ (protocall :> proto)
MCOriginal == [p \in Pages |-> IF p = exe THEN "RWX" ELSE "RX"]
=============================================================================
