---------------------------- MODULE MCHookFrames ----------------------------
EXTENDS HookFrames

MCCode ==
    ("main" :> <<"body">>) @@
    ("CmdDispatchSwitch" :> <<"push_ebp", "mov_ebp", "load", "body", "pop_ebp", "ret">>) @@
    ("register_handler" :> <<"push_ebp", "mov_ebp", "load", "pop_ebp", "ret">>) @@
    ("log_notification" :> <<"push_ebp", "mov_ebp", "pop_ebp", "ret">>) @@
    ("monster_ai_skill" :> <<"push_ebp", "mov_ebp", "load", "pop_ebp", "ret">>) @@
    ("path_c1_vt5" :> <<"push_ebp", "mov_ebp", "load", "call", "pop_ebp", "ret">>) @@
    ("mho_480450" :> <<"push_ebp", "mov_ebp", "global", "pop_ebp", "ret">>) @@
    ("client_log" :> <<"push_ebp", "mov_ebp", "body", "leave", "ret">>) @@
    ("frameless" :> <<"body", "tersafe", "ret">>) @@
    ("scratch" :> <<"push_ebp", "scratch", "body", "pop_ebp", "ret">>)
MCModuleOf ==
    [f \in DOMAIN MCCode |->
        CASE f \in {"main", "mho_480450", "client_log"} -> "mho"
          [] f = "frameless" -> "csys"
          [] f = "scratch" -> "tp"
          [] OTHER -> "cry"]

(* CrySystem.dll is in one list of the two, and tenproxy.dll lies behind   *)
(* CryGame.dll, in its window of one list but not of the other.            *)
MCBase == [mho |-> 64, cry |-> 4096, tp |-> 4640, csys |-> 8192]
MCImage == [mho |-> 400, cry |-> 480, tp |-> 8, csys |-> 16]
MCAddress == [f \in DOMAIN MCCode |-> MCBase[MCModuleOf[f]] + 4]
MCTrampolineAt == [f \in DOMAIN MCCode |-> IF f = "path_c1_vt5" THEN 4600 ELSE 1024]
MCArgs ==
    [f \in DOMAIN MCCode |->
        CASE f = "CmdDispatchSwitch" -> {641, 700}
          [] f = "log_notification" -> {1065353216}
          [] OTHER -> {0}]
MCCases == {1, 270, 514, 528, 641, 700, 1033}
=============================================================================
