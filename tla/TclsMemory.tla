----------------------------- MODULE TclsMemory -----------------------------
(***************************************************************************)
(* ag_mho_exe/shared_memory.h: the TCLS memory that TenProxy reads.  It    *)
(* begins with a table of offsets, entry k for variable k; at each offset  *)
(* is a length and that many bytes.  Variable 20 is a table of its own.    *)
(* write() reserves the tables, appends the variables in an order of their *)
(* own and notes their offsets, then seeks back and fills in the tables.   *)
(***************************************************************************)
EXTENDS AgBuffer, SequencesExt

CONSTANTS
    ConnectionSizes,    \* bytes of connection in UTF-16: the value set, and the one commented out
    ClientExeSizes,     \* bytes of tcls_client_exe, likewise
    MemSize             \* mem_size

ASSUME TextAssumption ==
    ConnectionSizes \cup ClientExeSizes \subseteq 0 .. GROW_SIZE - 4
ASSUME TableAssumption == GROW_SIZE >= 4 * (64 + 1)    \* the longest write of a fixed length

OFFSET_TABLE_SIZE == 64
VAR_20_OFFSET_TABLE_SIZE == 17

VARIABLES
    stage,      \* where write() is
    at,         \* the variable it writes, by its place in Order
    size,       \* bytes of every variable
    offset,     \* var_<k>_offset of those written
    memory      \* what the mapping holds

vars == <<buffer, stage, at, size, offset, memory>>

Sub(k) == 200 + k     \* var_20_v<k>

(* The variables in the order they are written. *)
Order ==
    <<1, 2, 6, 3, 4, 5, 21, 22, 23, 24, 25, 26, 27, 32, 33, 17, 18, 19, 36, 37, 40, 42, 20,
      Sub(2), Sub(3), Sub(4), Sub(5), Sub(6), Sub(7), Sub(8), Sub(9), Sub(10), 7, 60, 14, 41, 15, 16>>

(* The mapping holds the table and every variable, however long the texts. *)
ASSUME MemAssumption == MemSize \in Nat /\ MemSize >= (Len(Order) + 1) * GROW_SIZE

Raw == {4, 5, 25, 27, 60}                      \* written with write_data
Variables == ToSet(Order)
Main == {v \in Variables : v < 200}

(* Bytes of the variables.  Those of text are in UTF-16. *)
SizeWith(connection, exe) ==
    [v \in Variables |->
        CASE v \in {22, 24, 7} -> 0
          [] v \in {3, 21, 23, 26} -> 1
          [] v \in {16, Sub(10)} -> 2
          [] v \in {5, 25, 60} -> 16
          [] v = 4 -> 96
          [] v = 27 -> 72
          [] v = 33 -> 42
          [] v = 19 -> 44
          [] v = 15 -> 20
          [] v = 14 -> exe
          [] v = Sub(2) -> connection
          [] v = Sub(3) -> 18
          [] v = Sub(5) -> 14
          [] v = Sub(9) -> 5
          [] OTHER -> 4]

Init ==
    /\ InitBuffer
    /\ stage = "reserve"
    /\ at = 1
    /\ size \in {SizeWith(c, e) : c \in ConnectionSizes, e \in ClientExeSizes}
    /\ offset = [v \in Variables |-> 0]
    /\ memory = <<>>

-----------------------------------------------------------------------------
(* Bytes: byte k of a 32-bit word, or byte k of a variable's value         *)

Word(w) == [k \in 1 .. 4 |-> [word |-> w, byte |-> k]]
Words(ws) == [k \in 1 .. 4 * Len(ws) |-> Word(ws[1 + ((k - 1) \div 4)])[1 + ((k - 1) % 4)]]
Zeros(n) == Words([k \in 1 .. n |-> 0])
Value(v) == [k \in 1 .. size[v] |-> [variable |-> v, byte |-> k]]

-----------------------------------------------------------------------------
(* TenProxyTclsSharedMeMemory::write                                       *)

(* The main table is reserved: its size and its entries.  Mutation: the    *)
(* size is not counted.                                                    *)
ReservedForEntries == OFFSET_TABLE_SIZE
Reserved == OFFSET_TABLE_SIZE + 1

Reserve ==
    /\ stage = "reserve"
    /\ Write(0, Zeros(Reserved), 1)
    /\ stage' = "length"
    /\ UNCHANGED <<at, size, offset, memory>>

Advance ==
    /\ at' = at + 1
    /\ stage' = IF at = Len(Order) THEN "table20" ELSE "length"

(* The offset noted for a variable.  Mutation: after its length.           *)
NotedLate == position + 4
Noted == position

(* The length of a variable, and its bytes unless they are Raw; for        *)
(* variable 20 the entries of its table.                                   *)
WriteVariable ==
    /\ stage = "length"
    /\ LET v == Order[at] IN
         /\ offset' = [offset EXCEPT ![v] = Noted]
         /\ \/ /\ v = 20
               /\ Write(position, Zeros(VAR_20_OFFSET_TABLE_SIZE), 1)
               /\ Advance
            \/ /\ v \in Raw
               /\ Write(position, Word(size[v]), 1)
               /\ stage' = "data"
               /\ UNCHANGED at
            \/ /\ v \notin Raw \cup {20}
               /\ Write(position, Word(size[v]) \o Value(v), 1)
               /\ Advance
    /\ UNCHANGED <<size, memory>>

WriteData ==
    /\ stage = "data"
    /\ Write(position, Value(Order[at]), size[Order[at]])
    /\ Advance
    /\ UNCHANGED <<size, offset, memory>>

(* "points into offset table to connection offset entry" *)
Table20 == <<offset[20] + 4>> \o [k \in 1 .. 9 |-> offset[Sub(k + 1)]] \o [k \in 1 .. 7 |-> 0]

WriteTable20 ==
    /\ stage = "table20"
    /\ Write(Sought(offset[20]), Words(Table20), 1)
    /\ stage' = "table"
    /\ UNCHANGED <<at, size, offset, memory>>

(* The entries of the main table, 0 for none. *)
Entries ==
    <<1, 2, 3, 4, 5, 6, 7, 0, 0, 0, 0, 0, 0, 14, 15, 16, 17, 18, 19, 20, 21, 22, 23, 24, 25, 26, 27, 0, 0, 0,
      0, 32, 33, 0, 0, 36, 37, 0, 0, 40, 41, 42>> \o [k \in 1 .. 17 |-> 0] \o <<60, 0, 0, 0, 0>>

WriteTable ==
    /\ stage = "table"
    /\ Write(Sought(0),
             Words(<<OFFSET_TABLE_SIZE>>
                   \o [k \in DOMAIN Entries |-> IF Entries[k] = 0 THEN 0 ELSE offset[Entries[k]]]), 1)
    /\ stage' = "copy"
    /\ UNCHANGED <<at, size, offset, memory>>

(* get_data, into the mapping: all of it or nothing.  Without a mapping    *)
(* get_data copies nothing, and show() reads through the null pointer.     *)
Copy ==
    /\ stage = "copy"
    /\ \/ /\ memory' = IF virtual_length <= MemSize THEN data ELSE <<>>
          /\ stage' = "shown"
       \/ /\ stage' = "crashed"
          /\ UNCHANGED memory
    /\ UNCHANGED <<buffer, at, size, offset>>

Next ==
    /\ ~overrun
    /\ Reserve \/ WriteVariable \/ WriteData \/ WriteTable20 \/ WriteTable \/ Copy

Spec == Init /\ [][Next]_vars

-----------------------------------------------------------------------------
(* TenProxy, as far as the layout tells: it takes entry k of the table for *)
(* variable k, and reads a length and as many bytes.                       *)

WordAt(p) ==
    IF /\ p + 3 \in DOMAIN memory
       /\ \E w \in 0 .. virtual_length : \A k \in 1 .. 4 : memory[p + k - 1] = Word(w)[k]
    THEN memory[p].word
    ELSE -1

Finds(v, entry) ==
    LET p == WordAt(entry) IN
    /\ WordAt(p) = size[v]
    /\ \A k \in 1 .. size[v] : p + 3 + k \in DOMAIN memory /\ memory[p + 3 + k] = Value(v)[k]

TypeOK ==
    /\ position \in Nat /\ virtual_length \in Nat /\ real_length \in Nat
    /\ overrun \in BOOLEAN
    /\ stage \in {"reserve", "length", "data", "table20", "table", "copy", "shown", "crashed"}
    /\ at \in 1 .. Len(Order) + 1
    /\ DOMAIN size = Variables /\ DOMAIN offset = Variables
    /\ \A v \in Variables :
        /\ size[v] \in Nat
        /\ offset[v] = 0 \/ offset[v] \in 1 .. virtual_length - 4

(* Every variable is found through the table under its own number, with    *)
(* the length and the bytes that were meant for it, the entries of other   *)
(* numbers are 0, and those of variable 20 lead through its own table:     *)
(* none of some hundred lines that append, note an offset and repeat it in *)
(* a table is missing, misplaced or overwritten by the tables.             *)
RoundTrip ==
    stage = "shown" =>
        /\ WordAt(0) = OFFSET_TABLE_SIZE
        /\ \A v \in Main \ {20} : Finds(v, 4 * v)
        /\ \A k \in (1 .. OFFSET_TABLE_SIZE) \ Main : WordAt(4 * k) = 0
        /\ LET first == WordAt(WordAt(4 * 20)) IN
             \A k \in 2 .. 10 : Finds(Sub(k), first + 4 * (k - 2))
=============================================================================
