---------------------------- MODULE TersafeStub ----------------------------
(***************************************************************************)
(* The TerSafe.dll that the launcher ships in place of the original        *)
(* (tersafe.c): an object with a table of methods that return constants.   *)
(***************************************************************************)
EXTENDS Integers

(* init_tersafe_vtable.  Mutation: Release is taken for one of the slots   *)
(* that nobody has characterised.                                          *)
MethodOfFive(slot) ==
    IF slot \in 0 .. 4 THEN <<"Init", "Notify", "ProcessPacket", "QueryState", "Tick">>[slot + 1]
    ELSE "catch"
Method(slot) ==
    IF slot \in 0 .. 5
    THEN <<"Init", "Notify", "ProcessPacket", "QueryState", "Tick", "Release">>[slot + 1]
    ELSE "catch"

(* A fastcall method removes its stack arguments from the stack.           *)
Removed(slot) ==
    CASE Method(slot) \in {"Init", "ProcessPacket", "QueryState"} -> 1
      [] Method(slot) = "catch" -> 4
      [] OTHER -> 0

Answer(slot) == IF Method(slot) = "ProcessPacket" THEN "one" ELSE "zero"

(* The three fields of the object that Init copies from its argument, as   *)
(* one; 0 stands for no argument, and for their value before.              *)
BlankUser == 0
UserAfter(slot, arg, user) ==
    IF Method(slot) = "Init" /\ arg # BlankUser THEN arg ELSE user

=============================================================================
