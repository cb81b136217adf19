----------------------------- MODULE Observers -----------------------------
(***************************************************************************)
(* What callbacks of hooks_crygame.cpp make of a packet or a notification: *)
(* the filter of the spawn commands, path_b_resolve, which finds the list  *)
(* of subscribers of a command by reading the jump tables of the client's  *)
(* switch, and the names of commands and events.                           *)
(***************************************************************************)
EXTENDS IdTables, Sequences

CONSTANTS
    Cases,      \* commands for which the client's switch has a case
    Stray       \* what a byte behind a selector table selects

ASSUME ObserversAssumption ==
    /\ Cases \subseteq (1 .. 270) \cup (514 .. 1033)
    /\ Stray \in Cases

-----------------------------------------------------------------------------
(* The client's switch, as its compiler laid it out: a selector table and  *)
(* a jump table per range.  An entry of the jump table leads to a thunk,   *)
(* which jumps to a stub, which holds the offset of the list.  A case is   *)
(* named by its command, and so are its selector, thunk, stub and list;    *)
(* commands without a case share a selector whose entry is no thunk.       *)

Selectors == <<1 .. 270, 514 .. 1033>>
Selector(table, cmd) ==
    IF cmd \notin Selectors[table] THEN Stray
    ELSE IF cmd \in Cases THEN cmd ELSE Unknown

IsThunk(sel) == sel # Unknown

-----------------------------------------------------------------------------
(* path_b_resolve *)

(* Which table holds the command. *)
Table(cmd) == IF cmd \in 1 .. 513 THEN 1 ELSE 2

(* The command is one of the switch, and its index is within the table.    *)
(* Mutation: the size of a table is not looked at.                         *)
InSwitch(cmd) == cmd \in 1 .. 1281
InSelector(cmd) == cmd \in 1 .. 1281 /\ cmd - <<1, 514>>[Table(cmd)] < <<270, 520>>[Table(cmd)]

(* The stub is checked behind the bytes that a hook replaces.  Mutation:   *)
(* the whole prologue is.                                                  *)
WholeStub(stub, hooked) == stub \notin hooked
StubChecks(stub, hooked) == TRUE

(* The list of the command, when every read succeeds; Unknown when it is   *)
(* not found.  "hooked" are the stubs with a hook of our own.              *)
Resolve(cmd, hooked) ==
    LET sel == Selector(Table(cmd), cmd) IN
    IF InSelector(cmd) /\ IsThunk(sel) /\ StubChecks(sel, hooked) THEN sel ELSE Unknown

-----------------------------------------------------------------------------

(* is_spawn_cmd *)
SpawnCmds == {528, 533, 534, 641, 648, 650, 651, 662, 663, 714, 720, 730}

Nothing == [name |-> Unknown, list |-> Unknown]

(* on_cmd_dispatch_switch, of a packet that can be read or not. *)
ObservePacket(cmd, readable, hooked) ==
    IF ~readable \/ cmd \notin SpawnCmds THEN Nothing
    ELSE [name |-> CmdName(cmd), list |-> Resolve(cmd, hooked)]

(* log_handle_notification: which table depends on the kind of the event.  *)
ObserveNotification(kind, id) ==
    [name |-> IF kind = "logic" THEN LogicEventName(id) ELSE GameEventName(id),
     list |-> Unknown]

=============================================================================
