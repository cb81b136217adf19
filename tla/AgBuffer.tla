------------------------------ MODULE AgBuffer ------------------------------
(***************************************************************************)
(* common/ag_buffer.h: a byte buffer with a cursor that grows as it is     *)
(* written.  The launcher writes and seeks; it does not read, slice or set *)
(* the length, so those operations are left out.                           *)
(***************************************************************************)
EXTENDS Integers, Sequences, FiniteSetsExt

CONSTANT GROW_SIZE

ASSUME GrowAssumption == GROW_SIZE \in Nat \ {0}

VARIABLES
    position,
    virtual_length, \* bytes in use
    real_length,    \* bytes allocated
    data,           \* the bytes written, by offset
    overrun         \* has a write left the allocation?

buffer == <<position, virtual_length, real_length, data, overrun>>

InitBuffer ==
    /\ position = 0
    /\ virtual_length = 0
    /\ real_length = GROW_SIZE
    /\ data = [k \in {} |-> 0]
    /\ overrun = FALSE

(* Is there room for n bytes at a position?  Mutation: the length of what  *)
(* is written is forgotten.                                                *)
HasRoomForNone(from, n) == from <= real_length
HasRoom(from, n) == from + n <= real_length

(* seek *)
Sought(p) == IF p > virtual_length THEN virtual_length ELSE p

(* The bytes after a write.                                                *)
Overwritten(from, bytes) ==
    [k \in DOMAIN data \cup (from .. from + Len(bytes) - 1) |->
        IF k \in from .. from + Len(bytes) - 1 THEN bytes[k - from + 1] ELSE data[k]]

(* Bytes are written at a position.  grow(step) makes room for step bytes  *)
(* and GROW_SIZE more: the step is 1 for write_u8, which the other         *)
(* operations call byte by byte, and the whole length for write_data.  No  *)
(* write is longer than GROW_SIZE, so it grows once at most.  If realloc   *)
(* fails the bytes are written all the same.                               *)
Write(from, bytes, step) ==
    /\ position' = from + Len(bytes)
    /\ virtual_length' = IF position' > virtual_length THEN position' ELSE virtual_length
    /\ data' = Overwritten(from, bytes)
    /\ IF HasRoom(from, Len(bytes))
         THEN UNCHANGED <<real_length, overrun>>
         ELSE \/ /\ real_length' = real_length + step + GROW_SIZE
                 /\ UNCHANGED overrun
              \/ /\ overrun' = TRUE
                 /\ UNCHANGED real_length

(* Unless realloc fails, no write leaves the allocation, and every byte in *)
(* use has been written: what is copied out of the buffer is never what    *)
(* malloc happened to return.                                              *)
InAllocation ==
    /\ ~overrun => virtual_length <= real_length
    /\ position <= virtual_length
    /\ DOMAIN data = 0 .. virtual_length - 1
=============================================================================
