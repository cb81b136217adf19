-------------------------- MODULE TclsMemoryProofs --------------------------
(***************************************************************************)
(* For any texts and any GROW_SIZE that holds the table: writing the TCLS  *)
(* memory stays within the buffer's allocation unless realloc fails, and   *)
(* leaves no byte in use unwritten.  The invariant adds what the writes    *)
(* rely on: sizes that one growth makes room for, and seeks back into what *)
(* was written.  A second invariant, Layout, follows the variables through *)
(* memory: TenProxy finds every one of them, whatever the texts.           *)
(***************************************************************************)
EXTENDS TclsMemory, SequenceTheorems, TLAPS

BufferTypes ==
    /\ position \in Nat /\ virtual_length \in Nat /\ real_length \in Nat
    /\ overrun \in BOOLEAN

Sizes ==
    /\ size \in [Variables -> 0 .. GROW_SIZE - 4]
    /\ offset \in [Variables -> Nat]

InOrder ==
    /\ at \in Nat \ {0}
    /\ stage \in {"reserve", "length", "data"} => at <= Len(Order)

IInv == BufferTypes /\ InAllocation /\ Sizes /\ InOrder

(* Order is a sequence of Variables. *)
LEMMA OrderIsSequence ==
    /\ Len(Order) \in Nat \ {0}
    /\ \A k \in 1 .. Len(Order) : Order[k] \in Variables
<1>1. Len(Order) = 38 /\ DOMAIN Order = 1 .. 38
  BY DEF Order
<1> QED
  BY <1>1 DEF Variables, ToSet

(* What Write does to the buffer, wherever in it it begins.                *)
LEMMA WriteKeeps ==
    ASSUME BufferTypes, InAllocation, ~overrun,
           NEW from \in 0 .. virtual_length, NEW bytes, Len(bytes) \in 0 .. GROW_SIZE,
           NEW step \in Nat, Write(from, bytes, step)
    PROVE  BufferTypes' /\ InAllocation'
<1>0. GROW_SIZE \in Nat \ {0}
  BY GrowAssumption
<1> DEFINE n == Len(bytes)
<1>1. /\ position' = from + n
      /\ virtual_length' = IF position' > virtual_length THEN position' ELSE virtual_length
      /\ data' = Overwritten(from, bytes)
  BY DEF Write
<1>2. position' \in Nat /\ virtual_length' \in Nat /\ position' <= virtual_length'
  BY <1>1, <1>0 DEF BufferTypes
<1>3. DOMAIN data' = 0 .. virtual_length' - 1
  <2>1. DOMAIN data' = DOMAIN data \cup (from .. from + n - 1)
    BY <1>1 DEF Overwritten
  <2>2. DOMAIN data' = (0 .. virtual_length - 1) \cup (from .. from + n - 1)
    BY <2>1 DEF InAllocation
  <2>3. CASE from + n > virtual_length
    BY <2>2, <2>3, <1>0, <1>1 DEF BufferTypes
  <2>4. CASE ~(from + n > virtual_length)
    BY <2>2, <2>4, <1>0, <1>1 DEF BufferTypes
  <2> QED
    BY <2>3, <2>4
<1>4. real_length' \in Nat /\ overrun' \in BOOLEAN /\ (~overrun' => virtual_length' <= real_length')
  <2>1. CASE from + n <= real_length
    <3>1. UNCHANGED <<real_length, overrun>>
      BY <2>1 DEF Write, HasRoom
    <3> QED
      BY <2>1, <3>1, <1>0, <1>1 DEF BufferTypes, InAllocation
  <2>2. CASE ~(from + n <= real_length)
    <3>1. \/ real_length' = real_length + step + GROW_SIZE /\ UNCHANGED overrun
          \/ overrun' = TRUE /\ UNCHANGED real_length
      BY <2>2 DEF Write, HasRoom
    <3>2. CASE real_length' = real_length + step + GROW_SIZE /\ UNCHANGED overrun
      BY <3>2, <1>0, <1>1 DEF BufferTypes, InAllocation
    <3>3. CASE overrun' = TRUE /\ UNCHANGED real_length
      BY <3>3 DEF BufferTypes
    <3> QED
      BY <3>1, <3>2, <3>3
  <2> QED
    BY <2>1, <2>2
<1> QED
  BY <1>2, <1>3, <1>4 DEF BufferTypes, InAllocation

LEMMA InitIInv == Init => IInv
<1> SUFFICES ASSUME Init PROVE IInv
  OBVIOUS
<1>0. GROW_SIZE \in Nat /\ GROW_SIZE >= 260
  BY GrowAssumption, TableAssumption
<1>1. BufferTypes /\ InAllocation
  <2>1. /\ position = 0 /\ virtual_length = 0 /\ real_length = GROW_SIZE /\ overrun = FALSE
        /\ DOMAIN data = {}
    BY DEF Init, InitBuffer
  <2>2. 0 .. 0 - 1 = {}
    OBVIOUS
  <2>3. DOMAIN data = 0 .. virtual_length - 1
    BY <2>1, <2>2
  <2> QED
    <3>1. BufferTypes
      BY <1>0, <2>1 DEF BufferTypes
    <3>2. InAllocation
      BY <1>0, <2>1, <2>3 DEF InAllocation
    <3> QED
      BY <3>1, <3>2
<1>2. PICK c \in ConnectionSizes, e \in ClientExeSizes : size = SizeWith(c, e)
  BY DEF Init
<1>3. c \in 0 .. GROW_SIZE - 4 /\ e \in 0 .. GROW_SIZE - 4
  BY TextAssumption
<1>4. Sizes
  <2>1. size \in [Variables -> 0 .. GROW_SIZE - 4]
    <3> SUFFICES ASSUME NEW v \in Variables PROVE SizeWith(c, e)[v] \in 0 .. GROW_SIZE - 4
      BY <1>2 DEF SizeWith
    <3>1. SizeWith(c, e)[v] \in {0, 1, 2, 4, 5, 14, 16, 18, 20, 42, 44, 72, 96, c, e}
      BY DEF SizeWith
    <3> QED
      BY <1>0, <1>3, <3>1
  <2> QED
    BY <2>1 DEF Init, Sizes
<1>5. InOrder
  <2>1. at = 1
    BY DEF Init
  <2> QED
    BY <2>1, OrderIsSequence DEF InOrder
<1> QED
  BY <1>1, <1>4, <1>5 DEF IInv

(* The table is the longest write of a fixed length. *)
LEMMA Fits == \A n \in 0 .. 260 : n \in 0 .. GROW_SIZE
BY GrowAssumption, TableAssumption

LEMMA WordLength == \A w : Len(Word(w)) = 4 /\ Word(w) \in Seq({Word(w)[k] : k \in 1 .. 4})
BY DEF Word

LEMMA WordsLength == \A ws : Len(ws) \in Nat => Len(Words(ws)) = 4 * Len(ws)
BY DEF Words

LEMMA ZerosLength == \A n \in Nat : Len(Zeros(n)) = 4 * n
<1> TAKE n \in Nat
<1>1. Len([k \in 1 .. n |-> 0]) = n
  OBVIOUS
<1> QED
  BY <1>1, WordsLength DEF Zeros

LEMMA ValueLength ==
    ASSUME Sizes, NEW v \in Variables
    PROVE  /\ Len(Value(v)) = size[v]
           /\ Len(Word(size[v]) \o Value(v)) = 4 + size[v]
           /\ size[v] \in 0 .. GROW_SIZE - 4
<1>0. size[v] \in 0 .. GROW_SIZE - 4 /\ size[v] \in Nat
  BY GrowAssumption DEF Sizes
<1> DEFINE S == {[variable |-> v, byte |-> k] : k \in Nat} \cup {[word |-> size[v], byte |-> k] : k \in Nat}
<1>1. Value(v) \in Seq(S) /\ Len(Value(v)) = size[v]
  BY <1>0 DEF Value
<1>2. Word(size[v]) \in Seq(S) /\ Len(Word(size[v])) = 4
  BY DEF Word
<1>3. Len(Word(size[v]) \o Value(v)) = Len(Word(size[v])) + Len(Value(v))
  BY <1>1, <1>2, ConcatProperties
<1> QED
  BY <1>0, <1>1, <1>2, <1>3

(* What the steps that write have in common. *)
LEMMA WriteStep ==
    ASSUME IInv, ~overrun,
           NEW from \in 0 .. virtual_length, NEW bytes, Len(bytes) \in 0 .. GROW_SIZE,
           NEW step \in Nat, Write(from, bytes, step), Sizes', InOrder'
    PROVE  IInv'
BY WriteKeeps DEF IInv

LEMMA AdvanceInOrder == ASSUME InOrder, Advance, at <= Len(Order) PROVE InOrder'
<1>1. CASE at = Len(Order)
  BY <1>1 DEF InOrder, Advance
<1>2. CASE at # Len(Order)
  BY <1>2, OrderIsSequence DEF InOrder, Advance
<1> QED
  BY <1>1, <1>2

LEMMA NextIInv == IInv /\ [Next]_vars => IInv'
<1> SUFFICES ASSUME IInv, [Next]_vars PROVE IInv'
  OBVIOUS
<1>0. GROW_SIZE \in Nat /\ GROW_SIZE >= 260
  BY GrowAssumption, TableAssumption
<1>p. position \in 0 .. virtual_length /\ 0 \in 0 .. virtual_length
  BY DEF IInv, BufferTypes, InAllocation
<1>1. ASSUME ~overrun, Reserve PROVE IInv'
  <2>1. Len(Zeros(65)) = 4 * 65
    <3>1. 65 \in Nat
      OBVIOUS
    <3> QED
      BY <3>1, ZerosLength
  <2>2. Write(0, Zeros(65), 1)
    BY <1>1 DEF Reserve, Reserved, OFFSET_TABLE_SIZE
  <2>3. Sizes' /\ InOrder'
    BY <1>1, OrderIsSequence DEF Reserve, IInv, Sizes, InOrder
  <2>4. Len(Zeros(65)) \in 0 .. GROW_SIZE
    <3>1. 4 * 65 \in 0 .. 260
      OBVIOUS
    <3> QED
      BY <3>1, <2>1, Fits
  <2> QED
    BY <1>1, <1>p, <2>2, <2>3, <2>4, WriteStep
<1>2. ASSUME ~overrun, WriteVariable PROVE IInv'
  <2> DEFINE v == Order[at]
  <2>1. v \in Variables /\ at <= Len(Order)
    BY <1>2, OrderIsSequence DEF WriteVariable, IInv, InOrder
  <2>2. Sizes'
    BY <1>2, <1>p DEF WriteVariable, IInv, Sizes, Noted, BufferTypes
  <2>3. CASE v = 20
    <3>1. Len(Zeros(17)) = 4 * 17
      <4>1. 17 \in Nat
        OBVIOUS
      <4> QED
        BY <4>1, ZerosLength
    <3>2. Write(position, Zeros(17), 1) /\ Advance
      BY <1>2, <2>3 DEF WriteVariable, Raw, VAR_20_OFFSET_TABLE_SIZE
    <3>3. InOrder'
      BY <2>1, <3>2, AdvanceInOrder DEF IInv
    <3>4. Len(Zeros(17)) \in 0 .. GROW_SIZE
      <4>1. 4 * 17 \in 0 .. 260
        OBVIOUS
      <4> QED
        BY <4>1, <3>1, Fits
    <3> QED
      BY <1>2, <1>p, <2>2, <3>2, <3>3, <3>4, WriteStep
  <2>4. CASE v \in Raw
    <3>1. Write(position, Word(size[v]), 1) /\ stage' = "data" /\ at' = at
      BY <1>2, <2>4 DEF WriteVariable, Raw
    <3>2. InOrder'
      BY <2>1, <3>1 DEF IInv, InOrder
    <3>3. Len(Word(size[v])) \in 0 .. GROW_SIZE
      <4>1. Len(Word(size[v])) = 4 /\ 4 \in 0 .. 260
        BY WordLength
      <4> QED
        BY <4>1, Fits
    <3> QED
      BY <1>2, <1>p, <2>2, <3>1, <3>2, <3>3, WriteStep
  <2>5. CASE v \notin Raw \cup {20}
    <3>1. Write(position, Word(size[v]) \o Value(v), 1) /\ Advance
      BY <1>2, <2>5 DEF WriteVariable
    <3>2. InOrder'
      BY <2>1, <3>1, AdvanceInOrder DEF IInv
    <3>3. Len(Word(size[v]) \o Value(v)) \in 0 .. GROW_SIZE
      BY <1>0, <2>1, ValueLength DEF IInv
    <3> QED
      BY <1>2, <1>p, <2>2, <3>1, <3>2, <3>3, WriteStep
  <2> QED
    BY <2>3, <2>4, <2>5
<1>3. ASSUME ~overrun, WriteData PROVE IInv'
  <2> DEFINE v == Order[at]
  <2>1. v \in Variables /\ at <= Len(Order)
    BY <1>3, OrderIsSequence DEF WriteData, IInv, InOrder
  <2>2. Write(position, Value(v), size[v]) /\ Advance
    BY <1>3 DEF WriteData
  <2>3. Sizes' /\ InOrder'
    BY <1>3, <2>1, <2>2, AdvanceInOrder DEF WriteData, IInv, Sizes
  <2>4. Len(Value(v)) \in 0 .. GROW_SIZE /\ size[v] \in Nat
    BY <1>0, <2>1, ValueLength DEF IInv
  <2> QED
    BY <1>3, <1>p, <2>2, <2>3, <2>4, WriteStep
<1>4. ASSUME ~overrun, WriteTable20 PROVE IInv'
  <2>1. Sought(offset[20]) \in 0 .. virtual_length
    <3>1. 20 \in Variables
      BY DEF Variables, ToSet, Order
    <3>2. offset[20] \in Nat
      BY <3>1 DEF IInv, Sizes
    <3> QED
      BY <3>2 DEF Sought, IInv, BufferTypes
  <2>2. Len(Table20) = 17
    BY DEF Table20
  <2>3. Len(Words(Table20)) \in 0 .. GROW_SIZE
    <3>1. Len(Words(Table20)) = 4 * 17
      <4>1. 17 \in Nat
        OBVIOUS
      <4> QED
        BY <2>2, <4>1, WordsLength
    <3>2. 4 * 17 \in 0 .. 260
      OBVIOUS
    <3> QED
      BY <3>1, <3>2, Fits
  <2>4. Write(Sought(offset[20]), Words(Table20), 1)
    BY <1>4 DEF WriteTable20
  <2>5. Sizes' /\ InOrder'
    BY <1>4 DEF WriteTable20, IInv, Sizes, InOrder
  <2> QED
    BY <1>4, <2>1, <2>3, <2>4, <2>5, WriteStep
<1>5. ASSUME ~overrun, WriteTable PROVE IInv'
  <2> DEFINE words == <<OFFSET_TABLE_SIZE>> \o [k \in DOMAIN Entries |-> IF Entries[k] = 0 THEN 0 ELSE offset[Entries[k]]]
  <2>1. Len(words) = 65
    BY DEF Entries
  <2>2. Len(Words(words)) \in 0 .. GROW_SIZE
    <3>1. Len(Words(words)) = 4 * 65
      <4>1. 65 \in Nat
        OBVIOUS
      <4> HIDE DEF words
      <4> QED
        BY <2>1, <4>1, WordsLength
    <3>2. 4 * 65 \in 0 .. 260
      OBVIOUS
    <3> HIDE DEF words
    <3> QED
      BY <3>1, <3>2, Fits
  <2>3. Write(Sought(0), Words(words), 1)
    BY <1>5 DEF WriteTable
  <2>4. Sought(0) \in 0 .. virtual_length
    BY <1>p DEF Sought, IInv, BufferTypes
  <2>5. Sizes' /\ InOrder'
    BY <1>5 DEF WriteTable, IInv, Sizes, InOrder
  <2> QED
    BY <1>5, <2>2, <2>3, <2>4, <2>5, WriteStep
<1>6. ASSUME Copy PROVE IInv'
  BY <1>6 DEF Copy, buffer, IInv, BufferTypes, InAllocation, Sizes, InOrder
<1>7. CASE UNCHANGED vars
  BY <1>7 DEF vars, buffer, IInv, BufferTypes, InAllocation, Sizes, InOrder
<1> QED
  BY <1>1, <1>2, <1>3, <1>4, <1>5, <1>6, <1>7 DEF Next

(* Unless realloc fails, no write leaves the allocation, and every byte of *)
(* the buffer that is copied to the client has been written, whatever the  *)
(* texts and however the buffer grows.                                     *)
THEOREM StaysInAllocation == Spec => []InAllocation
<1>1. IInv => InAllocation
  BY DEF IInv
<1> QED
  BY <1>1, InitIInv, NextIInv, PTL DEF Spec
-----------------------------------------------------------------------------
(* The layout of the memory: what RoundTrip relies on.                     *)

HasWord(f, p, w) == \A k \in 1 .. 4 : f[p + k - 1] = Word(w)[k]
HasValue(f, p, v) == \A k \in 1 .. size[v] : f[p + k - 1] = Value(v)[k]

Header == 260       \* bytes of the main table
Header20 == 68      \* bytes of the table of variable 20

(* The variables written, and those whose offset and length are.           *)
Written == {Order[k] : k \in 1 .. at - 1}
Begun == Written \cup (IF stage = "data" THEN {Order[at]} ELSE {})

MainWords ==
    <<OFFSET_TABLE_SIZE>> \o [k \in DOMAIN Entries |-> IF Entries[k] = 0 THEN 0 ELSE offset[Entries[k]]]

(* Where each stage begins. *)
Stages ==
    /\ stage \in {"reserve", "length", "data", "table20", "table", "copy", "shown", "crashed"}
    /\ stage = "reserve" => at = 1 /\ virtual_length = 0
    /\ stage # "reserve" => virtual_length >= Header
    /\ stage \in {"length", "data"} => position = virtual_length
    /\ stage \in {"table20", "table", "copy", "shown", "crashed"} => at = Len(Order) + 1
    /\ stage = "data" => Order[at] \in Raw /\ offset[Order[at]] = virtual_length - 4
    /\ at \in 1 .. Len(Order) + 1

(* No variable has taken more than one growth of the buffer. *)
Room ==
    stage # "reserve" =>
        IF stage = "data" THEN virtual_length + size[Order[at]] <= (at + 1) * GROW_SIZE
                          ELSE virtual_length <= at * GROW_SIZE

(* A variable begun lies behind the main table and off the other one, and  *)
(* its length stands at its offset; once it is written, so does its value. *)
Held ==
    /\ \A v \in Variables \ Begun : offset[v] = 0
    /\ \A v \in Begun :
        /\ offset[v] >= Header
        /\ offset[v] + 4 <= virtual_length
    /\ 20 \in Written => offset[20] + Header20 <= virtual_length
    /\ \A v \in Begun \ {20} : HasWord(data, offset[v], size[v])
    /\ \A v \in Written \ {20} :
        /\ offset[v] + 4 + size[v] <= virtual_length
        /\ HasValue(data, offset[v] + 4, v)

OffTable20 ==
    20 \in Written =>
        /\ \A v \in Begun \ {20} : offset[v] < offset[20] \/ offset[20] + Header20 <= offset[v]
        /\ \A v \in Written \ {20} :
            offset[v] < offset[20] => offset[v] + 4 + size[v] <= offset[20]

(* The tables, once they are filled in, and the copy. *)
Tables ==
    /\ stage \in {"table", "copy", "shown"} =>
        \A k \in 1 .. 17 : HasWord(data, offset[20] + 4 * (k - 1), Table20[k])
    /\ stage \in {"copy", "shown"} =>
        \A k \in 1 .. 65 : HasWord(data, 4 * (k - 1), MainWords[k])
    /\ stage = "shown" => memory = data

Layout == Stages /\ Room /\ Held /\ OffTable20 /\ Tables

LEMMA OrderLength == Len(Order) = 38 /\ DOMAIN Order = 1 .. 38
BY DEF Order

(* No variable is written twice. *)
LEMMA OrderDistinct == \A i, j \in 1 .. 38 : Order[i] = Order[j] => i = j
BY DEF Order, Sub

LEMMA AllVariables ==
    Variables = {1, 2, 3, 4, 5, 6, 7, 14, 15, 16, 17, 18, 19, 20, 21, 22, 23, 24, 25, 26, 27,
                 32, 33, 36, 37, 40, 41, 42, 60, 202, 203, 204, 205, 206, 207, 208, 209, 210}
BY DEF Order, Sub, Variables, ToSet

LEMMA MainEntries ==
    /\ Len(Entries) = 64 /\ DOMAIN Entries = 1 .. 64
    /\ \A v \in Main \ {20} : Entries[v] = v /\ v \in 1 .. 64
    /\ Entries[20] = 20
    /\ \A k \in (1 .. 64) \ Main : Entries[k] = 0
    /\ \A k \in 1 .. 64 : Entries[k] = 0 \/ Entries[k] \in Main
    /\ 0 \notin Main /\ 20 \in Variables
<1>1. Len(Entries) = 64 /\ DOMAIN Entries = 1 .. 64 /\ Entries[20] = 20
  BY DEF Entries
<1>2. /\ \A v \in Main \ {20} : Entries[v] = v /\ v \in 1 .. 64
      /\ 0 \notin Main /\ 20 \in Variables
  BY AllVariables DEF Main, Entries
<1>3. \A k \in (1 .. 64) \ Main : Entries[k] = 0
  BY AllVariables DEF Main, Entries
<1>4. \A k \in 1 .. 64 : Entries[k] = 0 \/ Entries[k] \in Main
  BY <1>1, <1>2, <1>3 DEF Main
<1> QED
  BY <1>1, <1>2, <1>3, <1>4

LEMMA MainWordsAt ==
    /\ Len(MainWords) = 65
    /\ MainWords[1] = OFFSET_TABLE_SIZE
    /\ \A k \in 1 .. 64 : MainWords[k + 1] = IF Entries[k] = 0 THEN 0 ELSE offset[Entries[k]]
<1> DEFINE es == [k \in 1 .. 64 |-> IF Entries[k] = 0 THEN 0 ELSE offset[Entries[k]]]
<1>1. MainWords = <<OFFSET_TABLE_SIZE>> \o es
  BY MainEntries DEF MainWords
<1> QED
  BY <1>1

LEMMA Table20At ==
    /\ Len(Table20) = 17
    /\ Table20[1] = offset[20] + 4
    /\ \A k \in 2 .. 10 : Table20[k] = offset[Sub(k)]
BY DEF Table20

(* Word i of a sequence of them. *)
LEMMA WordsAt ==
    ASSUME NEW ws, Len(ws) \in Nat, NEW i \in 1 .. Len(ws), NEW k \in 1 .. 4
    PROVE  Words(ws)[4 * (i - 1) + k] = Word(ws[i])[k]
<1>1. 4 * (i - 1) + k \in 1 .. 4 * Len(ws)
  OBVIOUS
<1>2. (4 * (i - 1) + k - 1) \div 4 = i - 1 /\ (4 * (i - 1) + k - 1) % 4 = k - 1
  OBVIOUS
<1> QED
  BY <1>1, <1>2 DEF Words

LEMMA SequenceOf ==
    ASSUME NEW n \in Nat, NEW S, NEW f, f = [i \in 1 .. n |-> f[i]], \A i \in 1 .. n : f[i] \in S
    PROVE  f \in Seq(S) /\ Len(f) = n
<1>1. f \in [1 .. n -> S]
  OBVIOUS
<1> QED
  BY <1>1

(* A length and a value, one after the other. *)
LEMMA WordThenValue ==
    ASSUME Sizes, NEW v \in Variables, NEW k \in 1 .. 4 + size[v]
    PROVE  (Word(size[v]) \o Value(v))[k] = IF k <= 4 THEN Word(size[v])[k] ELSE Value(v)[k - 4]
<1>0. size[v] \in Nat
  BY GrowAssumption DEF Sizes
<1> DEFINE W == Word(size[v])
           V == Value(v)
           S == {W[i] : i \in 1 .. 4} \cup {V[i] : i \in 1 .. size[v]}
<1>1. W = [i \in 1 .. 4 |-> W[i]] /\ V = [i \in 1 .. size[v] |-> V[i]]
  BY DEF Word, Value
<1> HIDE DEF W, V
<1>s. (\A i \in 1 .. 4 : W[i] \in S) /\ (\A i \in 1 .. size[v] : V[i] \in S)
  OBVIOUS
<1> HIDE DEF S
<1>2. W \in Seq(S) /\ Len(W) = 4
  <2>1. 4 \in Nat
    OBVIOUS
  <2> QED
    BY <1>1, <1>s, <2>1, SequenceOf
<1>3. V \in Seq(S) /\ Len(V) = size[v]
  BY <1>0, <1>1, <1>s, SequenceOf
<1>4. (W \o V)[k] = IF k <= 4 THEN W[k] ELSE V[k - 4]
  <2>1. k \in 1 .. Len(W) + Len(V)
    BY <1>2, <1>3
  <2>2. (W \o V)[k] = IF k <= Len(W) THEN W[k] ELSE V[k - Len(W)]
    BY <1>2, <1>3, <2>1, ConcatProperties
  <2> QED
    BY <1>2, <2>2
<1> QED
  BY <1>4 DEF W, V

(* The bytes after a write, and how far they reach. *)
LEMMA WriteBytes ==
    ASSUME BufferTypes, InAllocation, NEW from \in 0 .. virtual_length,
           NEW bytes, Len(bytes) \in Nat, NEW step, Write(from, bytes, step)
    PROVE  /\ \A k \in 1 .. Len(bytes) : data'[from + k - 1] = bytes[k]
           /\ \A p \in 0 .. virtual_length - 1 :
                p < from \/ from + Len(bytes) <= p => data'[p] = data[p]
           /\ position' = from + Len(bytes)
           /\ virtual_length' = IF position' > virtual_length THEN position' ELSE virtual_length
<1> DEFINE n == Len(bytes)
<1>1. data' = Overwritten(from, bytes)
  BY DEF Write
<1>2. ASSUME NEW k \in 1 .. n PROVE data'[from + k - 1] = bytes[k]
  <2>1. from + k - 1 \in from .. from + n - 1 /\ from + k - 1 - from + 1 = k
    BY DEF BufferTypes
  <2> QED
    BY <1>1, <2>1 DEF Overwritten
<1>3. ASSUME NEW p \in 0 .. virtual_length - 1, p < from \/ from + n <= p PROVE data'[p] = data[p]
  <2>1. p \in DOMAIN data /\ p \notin from .. from + n - 1
    BY <1>3 DEF InAllocation, BufferTypes
  <2> QED
    BY <1>1, <2>1 DEF Overwritten
<1> QED
  BY <1>2, <1>3 DEF Write

LEMMA BegunVariables ==
    ASSUME Stages
    PROVE  Written \subseteq Variables /\ Begun \subseteq Variables
<1>1. \A k \in 1 .. 38 : Order[k] \in Variables
  BY OrderIsSequence, OrderLength
<1>2. Written \subseteq Variables
  BY <1>1, OrderLength DEF Written, Stages
<1>3. stage = "data" => Order[at] \in Variables
  BY AllVariables DEF Stages, Raw
<1> QED
  BY <1>2, <1>3 DEF Begun

(* What is written over neither a length nor a value keeps them. *)
LEMMA HeldKept ==
    ASSUME IInv, Stages, Held, UNCHANGED size, NEW from \in Nat, NEW n \in Nat,
           \A p \in 0 .. virtual_length - 1 : p < from \/ from + n <= p => data'[p] = data[p],
           \A v \in Begun \ {20} : /\ offset'[v] = offset[v]
                                   /\ offset[v] + 4 <= from \/ from + n <= offset[v],
           \A v \in Written \ {20} : offset[v] + 4 + size[v] <= from \/ from + n <= offset[v]
    PROVE  /\ \A v \in Begun \ {20} : HasWord(data', offset'[v], size[v])
           /\ \A v \in Written \ {20} : HasValue(data', offset'[v] + 4, v)
<1>1. ASSUME NEW v \in Begun \ {20} PROVE HasWord(data', offset'[v], size[v])
  <2>1. offset[v] \in Nat /\ offset[v] + 4 <= virtual_length /\ HasWord(data, offset[v], size[v])
    BY BegunVariables DEF Held, IInv, Sizes
  <2> SUFFICES ASSUME NEW k \in 1 .. 4 PROVE data'[offset[v] + k - 1] = Word(size[v])[k]
    BY DEF HasWord
  <2>2. data'[offset[v] + k - 1] = data[offset[v] + k - 1]
    BY <2>1 DEF IInv, BufferTypes
  <2> QED
    BY <2>1, <2>2 DEF HasWord
<1>2. ASSUME NEW v \in Written \ {20} PROVE HasValue(data', offset'[v] + 4, v)
  <2>1. offset[v] \in Nat /\ size[v] \in Nat /\ offset'[v] = offset[v]
    BY BegunVariables, GrowAssumption DEF IInv, Sizes, Begun
  <2>2. offset[v] + 4 + size[v] <= virtual_length /\ HasValue(data, offset[v] + 4, v)
    BY DEF Held
  <2> SUFFICES ASSUME NEW k \in 1 .. size[v] PROVE data'[offset[v] + 4 + k - 1] = Value(v)[k]
    BY <2>1 DEF HasValue
  <2>3. data'[offset[v] + 4 + k - 1] = data[offset[v] + 4 + k - 1]
    BY <2>1, <2>2 DEF IInv, BufferTypes
  <2> QED
    BY <2>2, <2>3 DEF HasValue
<1> QED
  BY <1>1, <1>2

LEMMA RoomGrows == \A n \in Nat : n * GROW_SIZE \in Nat /\ (n + 1) * GROW_SIZE = n * GROW_SIZE + GROW_SIZE
<1>1. GROW_SIZE \in Nat
  BY GrowAssumption
<1> QED
  BY <1>1

(* Once the turn of a variable is over, it is written. *)
LEMMA WrittenGrows ==
    ASSUME Stages, at <= 38, Advance
    PROVE  /\ Written' = Written \cup {Order[at]}
           /\ Begun' = Written'
           /\ at' = at + 1 /\ stage' = IF at = 38 THEN "table20" ELSE "length"
<1>1. at' = at + 1 /\ stage' = IF at = 38 THEN "table20" ELSE "length"
  BY OrderLength DEF Advance
<1>2. Written' = {Order[k] : k \in 1 .. at}
  <2>1. at' - 1 = at
    BY <1>1 DEF Stages
  <2> QED
    BY <2>1 DEF Written
<1>3. 1 .. at = (1 .. at - 1) \cup {at}
  BY DEF Stages
<1> QED
  BY <1>1, <1>2, <1>3 DEF Written, Begun

LEMMA NotYetWritten == ASSUME Stages, at <= 38 PROVE Order[at] \notin Written /\ Order[at] \in Variables
<1>1. at \in 1 .. 38
  BY OrderLength DEF Stages
<1>2. \A k \in 1 .. at - 1 : k \in 1 .. 38 /\ k # at
  BY <1>1
<1>3. Order[at] \in Variables
  BY <1>1, OrderIsSequence, OrderLength
<1> QED
  BY <1>1, <1>2, <1>3, OrderDistinct DEF Written

LEMMA InitLayout == Init => Layout
<1> SUFFICES ASSUME Init PROVE Layout
  OBVIOUS
<1>1. Written = {} /\ Begun = {}
  <2>1. at = 1 /\ stage = "reserve"
    BY DEF Init
  <2> QED
    BY <2>1 DEF Written, Begun
<1>2. Stages
  BY OrderLength DEF Init, InitBuffer, Stages
<1>3. Room
  BY DEF Init, Room
<1>4. Held
  BY <1>1 DEF Init, Held
<1>5. OffTable20
  BY <1>1 DEF OffTable20
<1>6. Tables
  BY DEF Init, Tables
<1> QED
  BY <1>2, <1>3, <1>4, <1>5, <1>6 DEF Layout

LEMMA ReserveLayout == ASSUME IInv, Layout, ~overrun, Reserve PROVE Layout'
<1>1. Len(Zeros(65)) = 260
  <2>1. 65 \in Nat /\ 4 * 65 = 260
    OBVIOUS
  <2> QED
    BY <2>1, ZerosLength
<1>2. Write(0, Zeros(65), 1) /\ stage = "reserve" /\ stage' = "length" /\ UNCHANGED <<at, size, offset, memory>>
  BY DEF Reserve, Reserved, OFFSET_TABLE_SIZE
<1>3. at = 1 /\ virtual_length = 0
  BY <1>2 DEF Layout, Stages
<1>4. position' = 260 /\ virtual_length' = 260
  <2> DEFINE n == Len(Zeros(65))
  <2>1. position' = 0 + n /\ virtual_length' = IF position' > virtual_length THEN position' ELSE virtual_length
    BY <1>2 DEF Write
  <2>2. n = 260
    BY <1>1
  <2> HIDE DEF n
  <2> QED
    BY <1>3, <2>1, <2>2
<1>5. Written = {} /\ Begun = {} /\ Written' = {} /\ Begun' = {}
  BY <1>2, <1>3 DEF Written, Begun
<1>6. Stages'
  BY <1>2, <1>3, <1>4, OrderLength DEF Stages, Header
<1>7. Room'
  BY <1>2, <1>3, <1>4, TableAssumption, GrowAssumption DEF Room
<1>8. Held'
  BY <1>2, <1>5 DEF Layout, Held
<1>9. OffTable20'
  BY <1>5 DEF OffTable20
<1>10. Tables'
  BY <1>2 DEF Tables
<1> QED
  BY <1>6, <1>7, <1>8, <1>9, <1>10 DEF Layout

(* A step that appends keeps what the variables before hold. *)
LEMMA AppendKeeps ==
    ASSUME IInv, Layout, NEW bytes, Len(bytes) \in Nat, NEW step, Write(position, bytes, step),
           stage \in {"length", "data"}, UNCHANGED size,
           \A v \in Begun : offset'[v] = offset[v]
    PROVE  /\ \A v \in Begun \ {20} : HasWord(data', offset'[v], size[v])
           /\ \A v \in Written \ {20} : HasValue(data', offset'[v] + 4, v)
           /\ virtual_length' = virtual_length + Len(bytes) /\ position' = virtual_length'
           /\ \A k \in 1 .. Len(bytes) : data'[virtual_length + k - 1] = bytes[k]
           /\ \A p \in 0 .. virtual_length - 1 : data'[p] = data[p]
<1> DEFINE n == Len(bytes)
<1>1. position = virtual_length /\ virtual_length \in Nat
  BY DEF Layout, Stages, IInv, BufferTypes
<1>2. /\ \A k \in 1 .. n : data'[virtual_length + k - 1] = bytes[k]
      /\ \A p \in 0 .. virtual_length - 1 :
            p < virtual_length \/ virtual_length + n <= p => data'[p] = data[p]
      /\ position' = virtual_length + n
      /\ virtual_length' = IF position' > virtual_length THEN position' ELSE virtual_length
  <2>1. virtual_length \in 0 .. virtual_length /\ Write(virtual_length, bytes, step)
    BY <1>1
  <2> HIDE DEF n
  <2> QED
    BY <2>1, WriteBytes DEF IInv, n
<1>3. virtual_length' = virtual_length + n
  BY <1>1, <1>2
<1>4. /\ \A v \in Begun \ {20} : offset'[v] = offset[v]
                                 /\ (offset[v] + 4 <= virtual_length \/ virtual_length + n <= offset[v])
      /\ \A v \in Written \ {20} :
            offset[v] + 4 + size[v] <= virtual_length \/ virtual_length + n <= offset[v]
  BY DEF Layout, Held
<1>5. /\ \A v \in Begun \ {20} : HasWord(data', offset'[v], size[v])
      /\ \A v \in Written \ {20} : HasValue(data', offset'[v] + 4, v)
  <2> HIDE DEF n
  <2>1. n \in Nat
    BY DEF n
  <2> QED
    BY <1>1, <1>2, <1>4, <2>1, HeldKept DEF Layout
<1> QED
  BY <1>1, <1>2, <1>3, <1>5

(* Held in the next state, with the sizes of this one. *)
LEMMA HeldNext ==
    ASSUME UNCHANGED size,
           \A v \in Variables \ Begun' : offset'[v] = 0,
           \A v \in Begun' : offset'[v] >= Header /\ offset'[v] + 4 <= virtual_length',
           20 \in Written' => offset'[20] + Header20 <= virtual_length',
           \A v \in Begun' \ {20} : HasWord(data', offset'[v], size[v]),
           \A v \in Written' \ {20} : offset'[v] + 4 + size[v] <= virtual_length',
           \A v \in Written' \ {20} : HasValue(data', offset'[v] + 4, v)
    PROVE  Held'
<1>1. \A v \in Begun' \ {20} : HasWord(data', offset'[v], size'[v])
  OBVIOUS
<1>2. \A v \in Written' \ {20} : offset'[v] + 4 + size'[v] <= virtual_length'
  OBVIOUS
<1>3. ASSUME NEW v \in Written' \ {20} PROVE HasValue(data, offset[v] + 4, v)'
  <2>1. HasValue(data', offset'[v] + 4, v)
    OBVIOUS
  <2> QED
    BY <2>1 DEF HasValue, Value
<1> QED
  BY <1>1, <1>2, <1>3 DEF Held

(* What WriteVariable and WriteData find. *)
LEMMA TurnFacts ==
    ASSUME IInv, Layout, stage \in {"length", "data"}
    PROVE  /\ at \in 1 .. 38 /\ at \in Nat
           /\ Order[at] \in Variables /\ Order[at] \notin Written
           /\ size[Order[at]] \in 0 .. GROW_SIZE - 4 /\ size[Order[at]] \in Nat
           /\ position = virtual_length /\ virtual_length \in Nat /\ virtual_length >= Header
           /\ \A v \in Variables : offset[v] \in Nat /\ size[v] \in Nat
           /\ Written \subseteq Variables
           /\ GROW_SIZE \in Nat /\ GROW_SIZE >= 260
           /\ DOMAIN offset = Variables
<1>1. at \in 1 .. 38 /\ at \in Nat
  BY OrderLength DEF IInv, InOrder, Layout
<1>2. Stages
  BY DEF Layout
<1>3. Order[at] \in Variables /\ Order[at] \notin Written /\ Written \subseteq Variables
  BY <1>1, <1>2, NotYetWritten, BegunVariables
<1>4. GROW_SIZE \in Nat /\ GROW_SIZE >= 260
  BY GrowAssumption, TableAssumption
<1>5. DOMAIN offset = Variables /\ \A v \in Variables : offset[v] \in Nat /\ size[v] \in 0 .. GROW_SIZE - 4
  BY DEF IInv, Sizes
<1>6. position = virtual_length /\ virtual_length \in Nat /\ virtual_length >= Header
  BY <1>2 DEF Stages, IInv, BufferTypes
<1>7. \A v \in Variables : size[v] \in Nat
  BY <1>4, <1>5
<1> QED
  BY <1>1, <1>3, <1>4, <1>5, <1>6, <1>7

(* The table of variable 20 is reserved. *)
LEMMA Reserve20Layout ==
    ASSUME IInv, Layout, stage = "length", Order[at] = 20,
           offset' = [offset EXCEPT ![20] = position], Write(position, Zeros(17), 1), Advance,
           UNCHANGED <<size, memory>>
    PROVE  Layout'
<1>n. Len(Zeros(17)) = 68 /\ Len(Zeros(17)) \in Nat
  <2>1. 17 \in Nat
    OBVIOUS
  <2>2. Len(Zeros(17)) = 4 * 17
    BY <2>1, ZerosLength
  <2> QED
    BY <2>2
<1>t. /\ at \in 1 .. 38 /\ at \in Nat
      /\ 20 \in Variables /\ 20 \notin Written
      /\ position = virtual_length /\ virtual_length \in Nat /\ virtual_length >= Header
      /\ \A v \in Variables : offset[v] \in Nat /\ size[v] \in Nat
      /\ Written \subseteq Variables
      /\ GROW_SIZE \in Nat /\ GROW_SIZE >= 260
      /\ DOMAIN offset = Variables
  BY TurnFacts
<1>w. /\ Written' = Written \cup {20} /\ Begun' = Written' /\ Begun = Written
      /\ at' = at + 1 /\ stage' = IF at = 38 THEN "table20" ELSE "length"
  BY <1>t, WrittenGrows DEF Layout, Begun
<1>o. offset'[20] = virtual_length /\ \A v \in Variables \ {20} : offset'[v] = offset[v]
  BY <1>t
<1>k. /\ \A v \in Written \ {20} : HasWord(data', offset'[v], size[v])
      /\ \A v \in Written \ {20} : HasValue(data', offset'[v] + 4, v)
      /\ virtual_length' = virtual_length + 68 /\ position' = virtual_length'
  <2>1. \A v \in Begun : offset'[v] = offset[v]
    BY <1>t, <1>w, <1>o
  <2> DEFINE bytes == Zeros(17)
  <2>2. Write(position, bytes, 1) /\ Len(bytes) \in Nat
    BY <1>n
  <2>3. /\ \A v \in Begun \ {20} : HasWord(data', offset'[v], size[v])
        /\ \A v \in Written \ {20} : HasValue(data', offset'[v] + 4, v)
        /\ virtual_length' = virtual_length + Len(bytes) /\ position' = virtual_length'
    <3> HIDE DEF bytes
    <3> QED
      BY <2>1, <2>2, AppendKeeps
  <2> QED
    BY <1>n, <2>3, <1>w
<1>1. Stages'
  BY <1>t, <1>w, <1>k, OrderLength DEF Stages, Header
<1>2. Room'
  <2>1. virtual_length <= at * GROW_SIZE
    BY DEF Layout, Room
  <2> QED
    BY <2>1, <1>t, <1>w, <1>k, RoomGrows DEF Room
<1>3. Held'
  <2>1. \A v \in Variables \ Begun' : offset'[v] = 0
    BY <1>w, <1>o DEF Layout, Held
  <2>2. \A v \in Begun' : offset'[v] >= Header /\ offset'[v] + 4 <= virtual_length'
    BY <1>t, <1>w, <1>o, <1>k DEF Layout, Held
  <2>3. offset'[20] + Header20 <= virtual_length'
    BY <1>t, <1>o, <1>k DEF Header20
  <2>4. \A v \in Written' \ {20} : offset'[v] + 4 + size[v] <= virtual_length'
    BY <1>t, <1>w, <1>o, <1>k DEF Layout, Held
  <2>5. \A v \in Begun' \ {20} : HasWord(data', offset'[v], size[v])
    BY <1>w, <1>k
  <2>6. \A v \in Written' \ {20} : HasValue(data', offset'[v] + 4, v)
    BY <1>w, <1>k
  <2> QED
    BY <2>1, <2>2, <2>3, <2>4, <2>5, <2>6, HeldNext
<1>4. OffTable20'
  <2> SUFFICES ASSUME NEW v \in Written \ {20}
               PROVE  offset'[v] < offset'[20] /\ offset'[v] + 4 + size[v] <= offset'[20]
    BY <1>w DEF OffTable20
  <2> QED
    BY <1>t, <1>o DEF Layout, Held
<1>5. Tables'
  BY <1>w DEF Tables
<1> QED
  BY <1>1, <1>2, <1>3, <1>4, <1>5 DEF Layout

(* The offset of a variable is noted and its length written; its value     *)
(* follows in the next step.                                               *)
LEMMA LengthLayout ==
    ASSUME IInv, Layout, stage = "length", Order[at] \in Raw,
           offset' = [offset EXCEPT ![Order[at]] = position], Write(position, Word(size[Order[at]]), 1),
           stage' = "data", UNCHANGED <<at, size, memory>>
    PROVE  Layout'
<1> DEFINE u == Order[at]
<1>n. Len(Word(size[u])) = 4 /\ Len(Word(size[u])) \in Nat
  BY WordLength
<1>t. /\ at \in 1 .. 38 /\ at \in Nat
      /\ u \in Variables /\ u \notin Written /\ u # 20
      /\ size[u] \in 0 .. GROW_SIZE - 4 /\ size[u] \in Nat
      /\ position = virtual_length /\ virtual_length \in Nat /\ virtual_length >= Header
      /\ \A v \in Variables : offset[v] \in Nat /\ size[v] \in Nat
      /\ Written \subseteq Variables
      /\ GROW_SIZE \in Nat /\ GROW_SIZE >= 260
      /\ DOMAIN offset = Variables
  BY TurnFacts DEF Raw
<1>w. /\ Written' = Written /\ Begun' = Written \cup {u} /\ Begun = Written
      /\ Order[at]' = u
  BY DEF Written, Begun
<1>o. offset'[u] = virtual_length /\ \A v \in Variables \ {u} : offset'[v] = offset[v]
  BY <1>t
<1>k. /\ \A v \in Written \ {20} : HasWord(data', offset'[v], size[v])
      /\ \A v \in Written \ {20} : HasValue(data', offset'[v] + 4, v)
      /\ virtual_length' = virtual_length + 4 /\ position' = virtual_length'
      /\ \A k \in 1 .. 4 : data'[virtual_length + k - 1] = Word(size[u])[k]
  <2>1. \A v \in Begun : offset'[v] = offset[v]
    BY <1>t, <1>w, <1>o
  <2> DEFINE bytes == Word(size[u])
  <2>2. Write(position, bytes, 1) /\ Len(bytes) = 4 /\ Len(bytes) \in Nat
    BY <1>n
  <2>3. /\ \A v \in Begun \ {20} : HasWord(data', offset'[v], size[v])
        /\ \A v \in Written \ {20} : HasValue(data', offset'[v] + 4, v)
        /\ virtual_length' = virtual_length + Len(bytes) /\ position' = virtual_length'
        /\ \A k \in 1 .. Len(bytes) : data'[virtual_length + k - 1] = bytes[k]
    <3> HIDE DEF u, bytes
    <3> QED
      BY <2>1, <2>2, AppendKeeps
  <2> QED
    BY <2>2, <2>3, <1>w
<1> HIDE DEF u
<1>1. Stages'
  <2>1. virtual_length' >= Header /\ position' = virtual_length' /\ offset'[u] = virtual_length' - 4
    BY <1>t, <1>o, <1>k DEF Header
  <2>2. at' \in 1 .. Len(Order) + 1 /\ Order[at]' = u /\ u \in Raw
    BY <1>t, <1>w, OrderLength DEF u
  <2> QED
    BY <2>1, <2>2 DEF Stages
<1>2. Room'
  <2>1. virtual_length <= at * GROW_SIZE
    BY DEF Layout, Room
  <2> QED
    BY <2>1, <1>t, <1>w, <1>k, RoomGrows DEF Room
<1>3. Held'
  <2>1. \A v \in Variables \ Begun' : offset'[v] = 0
    BY <1>w, <1>o DEF Layout, Held
  <2>2. \A v \in Begun' : offset'[v] >= Header /\ offset'[v] + 4 <= virtual_length'
    BY <1>t, <1>w, <1>o, <1>k DEF Layout, Held
  <2>3. 20 \in Written' => offset'[20] + Header20 <= virtual_length'
    BY <1>t, <1>w, <1>o, <1>k DEF Layout, Held, Header20
  <2>4. \A v \in Written' \ {20} : offset'[v] + 4 + size[v] <= virtual_length'
    BY <1>t, <1>w, <1>o, <1>k DEF Layout, Held
  <2>5. \A v \in Begun' \ {20} : HasWord(data', offset'[v], size[v])
    BY <1>w, <1>o, <1>k DEF HasWord
  <2>6. \A v \in Written' \ {20} : HasValue(data', offset'[v] + 4, v)
    BY <1>w, <1>k
  <2> QED
    BY <2>1, <2>2, <2>3, <2>4, <2>5, <2>6, HeldNext
<1>4. OffTable20'
  <2> SUFFICES ASSUME 20 \in Written
               PROVE  /\ \A v \in (Written \cup {u}) \ {20} : offset'[v] < offset'[20] \/ offset'[20] + Header20 <= offset'[v]
                      /\ \A v \in Written \ {20} : offset'[v] < offset'[20] => offset'[v] + 4 + size[v] <= offset'[20]
    BY <1>w DEF OffTable20
  <2>1. offset'[20] = offset[20] /\ offset[20] + Header20 <= virtual_length
    BY <1>t, <1>o DEF Layout, Held
  <2> QED
    BY <2>1, <1>t, <1>w, <1>o DEF Layout, OffTable20
<1>5. Tables'
  BY <1>w DEF Tables
<1> QED
  BY <1>1, <1>2, <1>3, <1>4, <1>5 DEF Layout

(* A length and a value are written in one step. *)
LEMMA VariableLayout ==
    ASSUME IInv, Layout, stage = "length", Order[at] # 20,
           offset' = [offset EXCEPT ![Order[at]] = position],
           Write(position, Word(size[Order[at]]) \o Value(Order[at]), 1), Advance,
           UNCHANGED <<size, memory>>
    PROVE  Layout'
<1> DEFINE u == Order[at]
           bytes == Word(size[u]) \o Value(u)
<1>t. /\ at \in 1 .. 38 /\ at \in Nat
      /\ u \in Variables /\ u \notin Written /\ u # 20
      /\ size[u] \in 0 .. GROW_SIZE - 4 /\ size[u] \in Nat
      /\ position = virtual_length /\ virtual_length \in Nat /\ virtual_length >= Header
      /\ \A v \in Variables : offset[v] \in Nat /\ size[v] \in Nat
      /\ Written \subseteq Variables
      /\ GROW_SIZE \in Nat /\ GROW_SIZE >= 260
      /\ DOMAIN offset = Variables
  <2>1. stage \in {"length", "data"}
    OBVIOUS
  <2>2. /\ at \in 1 .. 38 /\ at \in Nat
        /\ u \in Variables /\ u \notin Written
        /\ size[u] \in 0 .. GROW_SIZE - 4 /\ size[u] \in Nat
    BY <2>1, TurnFacts
  <2>3. /\ position = virtual_length /\ virtual_length \in Nat /\ virtual_length >= Header
        /\ \A v \in Variables : offset[v] \in Nat /\ size[v] \in Nat
        /\ Written \subseteq Variables
        /\ GROW_SIZE \in Nat /\ GROW_SIZE >= 260
        /\ DOMAIN offset = Variables
    BY <2>1, TurnFacts
  <2>4. u # 20
    OBVIOUS
  <2> HIDE DEF u, bytes
  <2> QED
    BY <2>2, <2>3, <2>4
<1>n. Len(bytes) = 4 + size[u] /\ Len(bytes) \in Nat
  <2>1. Sizes /\ u \in Variables /\ size[u] \in Nat
    BY <1>t DEF IInv
  <2>2. Len(bytes) = 4 + size[u]
    <3> HIDE DEF u
    <3> QED
      BY <2>1, ValueLength
  <2> HIDE DEF u, bytes
  <2> QED
    BY <2>1, <2>2
<1>w. /\ Written' = Written \cup {u} /\ Begun' = Written' /\ Begun = Written
      /\ at' = at + 1 /\ stage' = IF at = 38 THEN "table20" ELSE "length"
  BY <1>t, WrittenGrows DEF Layout, Begun
<1>o. offset'[u] = virtual_length /\ \A v \in Variables \ {u} : offset'[v] = offset[v]
  BY <1>t
<1>k. /\ \A v \in Written \ {20} : HasWord(data', offset'[v], size[v])
      /\ \A v \in Written \ {20} : HasValue(data', offset'[v] + 4, v)
      /\ virtual_length' = virtual_length + 4 + size[u] /\ position' = virtual_length'
      /\ \A k \in 1 .. 4 + size[u] : data'[virtual_length + k - 1] = bytes[k]
  <2>1. \A v \in Begun : offset'[v] = offset[v]
    BY <1>t, <1>w, <1>o
  <2>2. Write(position, bytes, 1)
    OBVIOUS
  <2>3. /\ \A v \in Begun \ {20} : HasWord(data', offset'[v], size[v])
        /\ \A v \in Written \ {20} : HasValue(data', offset'[v] + 4, v)
        /\ virtual_length' = virtual_length + Len(bytes) /\ position' = virtual_length'
        /\ \A k \in 1 .. Len(bytes) : data'[virtual_length + k - 1] = bytes[k]
    <3> HIDE DEF u, bytes
    <3> QED
      BY <2>1, <2>2, <1>n, AppendKeeps
  <2> HIDE DEF u, bytes
  <2>4. virtual_length' = virtual_length + 4 + size[u]
    <3>1. virtual_length' = virtual_length + (4 + size[u])
      BY <2>3, <1>n
    <3>2. size[u] \in Nat /\ virtual_length \in Nat
      BY <1>t
    <3> QED
      BY <3>1, <3>2
  <2>5. \A k \in 1 .. 4 + size[u] : data'[virtual_length + k - 1] = bytes[k]
    BY <2>3, <1>n
  <2> QED
    BY <2>3, <2>4, <2>5, <1>w
<1>b. \A k \in 1 .. 4 + size[u] : bytes[k] = IF k <= 4 THEN Word(size[u])[k] ELSE Value(u)[k - 4]
  BY <1>t, WordThenValue DEF IInv
<1> HIDE DEF u, bytes
<1>v. HasWord(data', offset'[u], size[u]) /\ HasValue(data', offset'[u] + 4, u)
  <2>1. ASSUME NEW k \in 1 .. 4 PROVE data'[offset'[u] + k - 1] = Word(size[u])[k]
    BY <1>t, <1>o, <1>k, <1>b
  <2>2. ASSUME NEW k \in 1 .. size[u] PROVE data'[offset'[u] + 4 + k - 1] = Value(u)[k]
    <3>1. k + 4 \in 1 .. 4 + size[u] /\ ~(k + 4 <= 4) /\ k + 4 - 4 = k
      BY <1>t
    <3>2. data'[virtual_length + (k + 4) - 1] = Value(u)[k]
      BY <1>k, <1>b, <3>1
    <3>3. virtual_length + (k + 4) - 1 = offset'[u] + 4 + k - 1
      BY <1>t, <1>o
    <3> QED
      BY <3>2, <3>3
  <2> QED
    BY <2>1, <2>2 DEF HasWord, HasValue
<1>1. Stages'
  BY <1>t, <1>w, <1>k, OrderLength DEF Stages, Header
<1>2. Room'
  <2>1. virtual_length <= at * GROW_SIZE
    BY DEF Layout, Room
  <2> QED
    BY <2>1, <1>t, <1>w, <1>k, RoomGrows DEF Room
<1>3. Held'
  <2>1. \A v \in Variables \ Begun' : offset'[v] = 0
    BY <1>w, <1>o DEF Layout, Held
  <2>2. \A v \in Begun' : offset'[v] >= Header /\ offset'[v] + 4 <= virtual_length'
    BY <1>t, <1>w, <1>o, <1>k DEF Layout, Held
  <2>3. 20 \in Written' => offset'[20] + Header20 <= virtual_length'
    BY <1>t, <1>w, <1>o, <1>k DEF Layout, Held, Header20
  <2>4. \A v \in Written' \ {20} : offset'[v] + 4 + size[v] <= virtual_length'
    BY <1>t, <1>w, <1>o, <1>k DEF Layout, Held
  <2>5. \A v \in Begun' \ {20} : HasWord(data', offset'[v], size[v])
    BY <1>w, <1>k, <1>v
  <2>6. \A v \in Written' \ {20} : HasValue(data', offset'[v] + 4, v)
    BY <1>w, <1>k, <1>v
  <2> QED
    BY <2>1, <2>2, <2>3, <2>4, <2>5, <2>6, HeldNext
<1>4. OffTable20'
  <2> SUFFICES ASSUME 20 \in Written
               PROVE  \A v \in (Written \cup {u}) \ {20} :
                        /\ offset'[v] < offset'[20] \/ offset'[20] + Header20 <= offset'[v]
                        /\ offset'[v] < offset'[20] => offset'[v] + 4 + size[v] <= offset'[20]
    BY <1>t, <1>w DEF OffTable20
  <2>1. offset'[20] = offset[20] /\ offset[20] + Header20 <= virtual_length
    BY <1>t, <1>o DEF Layout, Held
  <2> QED
    BY <2>1, <1>t, <1>w, <1>o DEF Layout, OffTable20, Header20
<1>5. Tables'
  BY <1>w DEF Tables
<1> QED
  BY <1>1, <1>2, <1>3, <1>4, <1>5 DEF Layout

(* The value of a variable follows its length. *)
LEMMA WriteDataLayout == ASSUME IInv, Layout, WriteData PROVE Layout'
<1> DEFINE u == Order[at]
           bytes == Value(u)
<1>s. /\ stage = "data" /\ Write(position, bytes, size[u]) /\ Advance
      /\ UNCHANGED <<size, offset, memory>>
  BY DEF WriteData
<1>t. /\ at \in 1 .. 38 /\ at \in Nat
      /\ u \in Variables /\ u \notin Written /\ u # 20
      /\ size[u] \in 0 .. GROW_SIZE - 4 /\ size[u] \in Nat
      /\ position = virtual_length /\ virtual_length \in Nat /\ virtual_length >= Header
      /\ \A v \in Variables : offset[v] \in Nat /\ size[v] \in Nat
      /\ Written \subseteq Variables
      /\ GROW_SIZE \in Nat /\ GROW_SIZE >= 260
  <2>1. u # 20
    BY <1>s DEF Layout, Stages, Raw
  <2> QED
    BY <1>s, <2>1, TurnFacts
<1>n. Len(bytes) = size[u] /\ Len(bytes) \in Nat
  BY <1>t, ValueLength DEF IInv
<1>w. /\ Written' = Written \cup {u} /\ Begun' = Written' /\ Begun = Written \cup {u}
      /\ at' = at + 1 /\ stage' = IF at = 38 THEN "table20" ELSE "length"
  BY <1>s, <1>t, WrittenGrows DEF Layout, Begun
<1>o. offset' = offset /\ offset[u] + 4 = virtual_length
  <2>1. offset[u] = virtual_length - 4
    BY <1>s DEF Layout, Stages
  <2> QED
    BY <1>s, <1>t, <2>1
<1>k. /\ \A v \in Begun \ {20} : HasWord(data', offset'[v], size[v])
      /\ \A v \in Written \ {20} : HasValue(data', offset'[v] + 4, v)
      /\ virtual_length' = virtual_length + size[u] /\ position' = virtual_length'
      /\ \A k \in 1 .. size[u] : data'[virtual_length + k - 1] = bytes[k]
  <2>1. \A v \in Begun : offset'[v] = offset[v]
    BY <1>o
  <2>2. /\ \A v \in Begun \ {20} : HasWord(data', offset'[v], size[v])
        /\ \A v \in Written \ {20} : HasValue(data', offset'[v] + 4, v)
        /\ virtual_length' = virtual_length + Len(bytes) /\ position' = virtual_length'
        /\ \A k \in 1 .. Len(bytes) : data'[virtual_length + k - 1] = bytes[k]
    <3> HIDE DEF u, bytes
    <3> QED
      BY <1>n, <1>s, <2>1, AppendKeeps
  <2> HIDE DEF u, bytes
  <2> QED
    BY <1>n, <2>2
<1>v. HasValue(data', offset'[u] + 4, u)
  <2> HIDE DEF u
  <2> QED
    BY <1>o, <1>k DEF HasValue
<1> HIDE DEF u, bytes
<1>1. Stages'
  BY <1>t, <1>w, <1>k, OrderLength DEF Stages, Header
<1>2. Room'
  <2>1. virtual_length + size[u] <= (at + 1) * GROW_SIZE
    BY <1>s DEF Layout, Room, u
  <2> QED
    BY <2>1, <1>t, <1>w, <1>k DEF Room
<1>3. Held'
  <2>1. \A v \in Variables \ Begun' : offset'[v] = 0
    BY <1>w, <1>o DEF Layout, Held
  <2>2. \A v \in Begun' : offset'[v] >= Header /\ offset'[v] + 4 <= virtual_length'
    BY <1>t, <1>w, <1>o, <1>k DEF Layout, Held
  <2>3. 20 \in Written' => offset'[20] + Header20 <= virtual_length'
    BY <1>t, <1>w, <1>o, <1>k DEF Layout, Held, Header20
  <2>4. \A v \in Written' \ {20} : offset'[v] + 4 + size[v] <= virtual_length'
    BY <1>t, <1>w, <1>o, <1>k DEF Layout, Held
  <2>5. \A v \in Begun' \ {20} : HasWord(data', offset'[v], size[v])
    BY <1>w, <1>k
  <2>6. \A v \in Written' \ {20} : HasValue(data', offset'[v] + 4, v)
    BY <1>w, <1>k, <1>v
  <2> QED
    BY <1>s, <2>1, <2>2, <2>3, <2>4, <2>5, <2>6, HeldNext
<1>4. OffTable20'
  <2> SUFFICES ASSUME 20 \in Written
               PROVE  \A v \in (Written \cup {u}) \ {20} :
                        /\ offset[v] < offset[20] \/ offset[20] + Header20 <= offset[v]
                        /\ offset[v] < offset[20] => offset[v] + 4 + size[v] <= offset[20]
    BY <1>s, <1>t, <1>w, <1>o DEF OffTable20
  <2>1. offset[20] + Header20 <= virtual_length /\ offset[20] \in Nat
    BY <1>t DEF Layout, Held
  <2>2. /\ \A v \in Begun \ {20} : offset[v] < offset[20] \/ offset[20] + Header20 <= offset[v]
        /\ \A v \in Written \ {20} : offset[v] < offset[20] => offset[v] + 4 + size[v] <= offset[20]
    BY DEF Layout, OffTable20
  <2>3. ~(offset[u] < offset[20])
    <3>1. offset[u] \in Nat /\ offset[u] + 4 = virtual_length
      BY <1>t, <1>o
    <3> QED
      BY <2>1, <3>1 DEF Header20
  <2> QED
    BY <2>2, <2>3, <1>w
<1>5. Tables'
  BY <1>w DEF Tables
<1> QED
  BY <1>1, <1>2, <1>3, <1>4, <1>5 DEF Layout

(* When the tables are filled in, every variable has been written. *)
LEMMA AllWritten ==
    ASSUME IInv, Layout, stage \in {"table20", "table", "copy", "shown", "crashed"}
    PROVE  /\ Written = Variables /\ Begun = Variables
           /\ virtual_length \in Nat /\ virtual_length >= Header
           /\ 20 \in Variables /\ offset[20] + Header20 <= virtual_length
           /\ \A v \in Variables : /\ offset[v] \in Nat /\ size[v] \in Nat
                                   /\ offset[v] >= Header /\ offset[v] + 4 <= virtual_length
<1>1. at - 1 = 38
  BY OrderLength DEF Layout, Stages
<1>2. Written = Variables
  BY <1>1, OrderLength DEF Written, Variables, ToSet
<1>3. Begun = Variables
  BY <1>2 DEF Begun
<1>4. 20 \in Variables
  BY AllVariables
<1>5. \A v \in Variables : offset[v] \in Nat /\ size[v] \in Nat
  BY GrowAssumption DEF IInv, Sizes
<1> QED
  BY <1>2, <1>3, <1>4, <1>5 DEF Layout, Held, Stages, IInv, BufferTypes

(* A table is filled in: it stands where it was reserved, and nothing else *)
(* has moved.                                                              *)
LEMMA FillKeeps ==
    ASSUME IInv, Layout, UNCHANGED <<at, size, offset, memory>>,
           stage \in {"table20", "table"}, stage' \in {"table", "copy"},
           NEW from \in Nat, NEW ws, Len(ws) \in Nat, from + 4 * Len(ws) <= virtual_length,
           Write(from, Words(ws), 1),
           \A v \in Variables \ {20} : \/ offset[v] + 4 + size[v] <= from
                                       \/ from + 4 * Len(ws) <= offset[v]
    PROVE  /\ Stages' /\ Room' /\ Held' /\ OffTable20'
           /\ \A k \in 1 .. Len(ws) : HasWord(data', from + 4 * (k - 1), ws[k])
           /\ \A p \in 0 .. virtual_length - 1 : p < from \/ from + 4 * Len(ws) <= p => data'[p] = data[p]
<1> DEFINE n == 4 * Len(ws)
           bytes == Words(ws)
<1>a. /\ Written = Variables /\ Begun = Variables
      /\ virtual_length \in Nat /\ virtual_length >= Header
      /\ 20 \in Variables /\ offset[20] + Header20 <= virtual_length
      /\ \A v \in Variables : /\ offset[v] \in Nat /\ size[v] \in Nat
                              /\ offset[v] >= Header /\ offset[v] + 4 <= virtual_length
  BY AllWritten
<1>w. Written' = Variables /\ Begun' = Variables
  BY <1>a DEF Written, Begun
<1>b. /\ \A k \in 1 .. n : data'[from + k - 1] = bytes[k]
      /\ \A p \in 0 .. virtual_length - 1 : p < from \/ from + n <= p => data'[p] = data[p]
      /\ virtual_length' = virtual_length
  <2>1. Len(bytes) = n /\ Len(bytes) \in Nat
    BY WordsLength
  <2>2. from \in 0 .. virtual_length /\ BufferTypes /\ InAllocation
    BY DEF IInv, BufferTypes
  <2>3. Write(from, bytes, 1)
    OBVIOUS
  <2>4. /\ \A k \in 1 .. Len(bytes) : data'[from + k - 1] = bytes[k]
        /\ \A p \in 0 .. virtual_length - 1 : p < from \/ from + Len(bytes) <= p => data'[p] = data[p]
        /\ position' = from + Len(bytes)
        /\ virtual_length' = IF position' > virtual_length THEN position' ELSE virtual_length
    <3> HIDE DEF bytes, n
    <3> QED
      BY <2>1, <2>2, <2>3, WriteBytes
  <2>5. from + n <= virtual_length /\ n \in Nat
    OBVIOUS
  <2> HIDE DEF bytes, n
  <2> QED
    BY <2>1, <2>4, <2>5, <1>a
<1>k. /\ \A v \in Variables \ {20} : HasWord(data', offset'[v], size[v])
      /\ \A v \in Variables \ {20} : HasValue(data', offset'[v] + 4, v)
  <2>1. n \in Nat /\ Stages /\ Held /\ UNCHANGED size
    BY DEF Layout
  <2>2. \A v \in Variables \ {20} : /\ offset'[v] = offset[v]
                                    /\ offset[v] + 4 + size[v] <= from \/ from + n <= offset[v]
                                    /\ offset[v] + 4 <= from \/ from + n <= offset[v]
    <3> TAKE v \in Variables \ {20}
    <3>1. offset[v] + 4 + size[v] <= from \/ from + n <= offset[v]
      OBVIOUS
    <3> HIDE DEF n
    <3>2. offset[v] \in Nat /\ size[v] \in Nat /\ offset'[v] = offset[v]
      BY <1>a
    <3>3. offset[v] + 4 <= from \/ from + n <= offset[v]
      BY <2>1, <3>1, <3>2
    <3> QED
      BY <3>1, <3>2, <3>3
  <2> HIDE DEF n
  <2> QED
    BY <1>a, <1>b, <2>1, <2>2, HeldKept
<1>1. \A k \in 1 .. Len(ws) : HasWord(data', from + 4 * (k - 1), ws[k])
  <2> SUFFICES ASSUME NEW k \in 1 .. Len(ws), NEW i \in 1 .. 4
               PROVE  data'[from + 4 * (k - 1) + i - 1] = Word(ws[k])[i]
    BY DEF HasWord
  <2>1. 4 * (k - 1) + i \in 1 .. n /\ from + (4 * (k - 1) + i) - 1 = from + 4 * (k - 1) + i - 1
    OBVIOUS
  <2>2. bytes[4 * (k - 1) + i] = Word(ws[k])[i]
    BY WordsAt
  <2> HIDE DEF n, bytes
  <2> QED
    BY <1>b, <2>1, <2>2
<1>2. Stages'
  BY <1>a, <1>b DEF Layout, Stages
<1>3. Room'
  BY <1>b DEF Layout, Room
<1>4. Held'
  <2>1. \A v \in Variables \ {20} : offset[v] + 4 + size[v] <= virtual_length
    BY <1>a DEF Layout, Held
  <2> QED
    BY <1>a, <1>b, <1>w, <1>k, <2>1, HeldNext
<1>5. OffTable20'
  BY <1>a, <1>w DEF Layout, OffTable20
<1> QED
  BY <1>1, <1>2, <1>3, <1>4, <1>5, <1>b

LEMMA WriteTable20Layout == ASSUME IInv, Layout, WriteTable20 PROVE Layout'
<1>a. /\ Written = Variables /\ Begun = Variables
      /\ virtual_length \in Nat
      /\ 20 \in Variables /\ offset[20] + Header20 <= virtual_length
      /\ \A v \in Variables : offset[v] \in Nat /\ size[v] \in Nat
  BY AllWritten DEF WriteTable20
<1>1. Sought(offset[20]) = offset[20]
  BY <1>a DEF Sought, Header20
<1>2. /\ stage = "table20" /\ stage' = "table" /\ Write(offset[20], Words(Table20), 1)
      /\ UNCHANGED <<at, size, offset, memory>>
  BY <1>1 DEF WriteTable20
<1>3. Len(Table20) = 17
  BY Table20At
<1>4. \A v \in Variables \ {20} : offset[v] + 4 + size[v] <= offset[20] \/ offset[20] + 4 * 17 <= offset[v]
  BY <1>a DEF Layout, OffTable20, Header20
<1>5. /\ Stages' /\ Room' /\ Held' /\ OffTable20'
      /\ \A k \in 1 .. 17 : HasWord(data', offset[20] + 4 * (k - 1), Table20[k])
  <2> DEFINE ws == Table20
             from == offset[20]
  <2>1. from \in Nat /\ Len(ws) = 17 /\ from + 4 * Len(ws) <= virtual_length /\ Write(from, Words(ws), 1)
    BY <1>a, <1>2, <1>3 DEF Header20
  <2>2. \A v \in Variables \ {20} : offset[v] + 4 + size[v] <= from \/ from + 4 * Len(ws) <= offset[v]
    BY <1>3, <1>4
  <2>3. Len(ws) \in Nat
    BY <1>3
  <2>4. /\ Stages' /\ Room' /\ Held' /\ OffTable20'
        /\ \A k \in 1 .. Len(ws) : HasWord(data', from + 4 * (k - 1), ws[k])
    <3> HIDE DEF ws, from
    <3> QED
      BY <1>2, <2>1, <2>2, <2>3, FillKeeps
  <2> QED
    BY <2>1, <2>4
<1>6. Table20' = Table20
  BY <1>2 DEF Table20
<1>7. Tables'
  BY <1>2, <1>5, <1>6 DEF Tables
<1> QED
  BY <1>5, <1>7 DEF Layout

LEMMA WriteTableLayout == ASSUME IInv, Layout, WriteTable PROVE Layout'
<1>a. /\ Written = Variables /\ Begun = Variables
      /\ virtual_length \in Nat /\ virtual_length >= Header
      /\ 20 \in Variables /\ offset[20] + Header20 <= virtual_length
      /\ \A v \in Variables : offset[v] \in Nat /\ size[v] \in Nat /\ offset[v] >= Header
  BY AllWritten DEF WriteTable
<1>1. Sought(0) = 0
  BY <1>a DEF Sought
<1>2. /\ stage = "table" /\ stage' = "copy" /\ Write(0, Words(MainWords), 1)
      /\ UNCHANGED <<at, size, offset, memory>>
  BY <1>1 DEF WriteTable, MainWords
<1>3. Len(MainWords) = 65
  BY MainWordsAt
<1>5. /\ Stages' /\ Room' /\ Held' /\ OffTable20'
      /\ \A k \in 1 .. 65 : HasWord(data', 4 * (k - 1), MainWords[k])
      /\ \A p \in 0 .. virtual_length - 1 : 260 <= p => data'[p] = data[p]
  <2> DEFINE ws == MainWords
             from == 0
  <2>1. from \in Nat /\ Len(ws) = 65 /\ from + 4 * Len(ws) <= virtual_length /\ Write(from, Words(ws), 1)
    BY <1>a, <1>2, <1>3 DEF Header
  <2>2. \A v \in Variables \ {20} : offset[v] + 4 + size[v] <= from \/ from + 4 * Len(ws) <= offset[v]
    BY <1>a, <1>3 DEF Header
  <2>3. Len(ws) \in Nat
    BY <1>3
  <2>4. /\ Stages' /\ Room' /\ Held' /\ OffTable20'
        /\ \A k \in 1 .. Len(ws) : HasWord(data', from + 4 * (k - 1), ws[k])
        /\ \A p \in 0 .. virtual_length - 1 : p < from \/ from + 4 * Len(ws) <= p => data'[p] = data[p]
    <3>1. /\ stage \in {"table20", "table"} /\ stage' \in {"table", "copy"}
          /\ UNCHANGED <<at, size, offset, memory>>
      BY <1>2
    <3>2. from + 4 * Len(ws) <= virtual_length /\ Write(from, Words(ws), 1) /\ from \in Nat
      BY <2>1
    <3> HIDE DEF ws, from
    <3> QED
      BY <3>1, <3>2, <2>2, <2>3, FillKeeps
  <2> HIDE DEF ws
  <2>5. \A k \in 1 .. 65 : HasWord(data', 4 * (k - 1), ws[k])
    <3>1. \A k \in 1 .. 65 : 0 + 4 * (k - 1) = 4 * (k - 1)
      OBVIOUS
    <3> QED
      BY <2>1, <2>4, <3>1
  <2>6. \A p \in 0 .. virtual_length - 1 : 260 <= p => data'[p] = data[p]
    BY <2>1, <2>4
  <2> QED
    BY <2>4, <2>5, <2>6 DEF ws
<1>6. Table20' = Table20 /\ MainWords' = MainWords
  BY <1>2 DEF Table20, MainWords
<1>7. \A k \in 1 .. 17 : HasWord(data', offset[20] + 4 * (k - 1), Table20[k])
  <2> SUFFICES ASSUME NEW k \in 1 .. 17, NEW i \in 1 .. 4
               PROVE  data'[offset[20] + 4 * (k - 1) + i - 1] = Word(Table20[k])[i]
    BY DEF HasWord
  <2>1. data[offset[20] + 4 * (k - 1) + i - 1] = Word(Table20[k])[i]
    BY <1>2 DEF Layout, Tables, HasWord
  <2>2. /\ offset[20] + 4 * (k - 1) + i - 1 \in 0 .. virtual_length - 1
        /\ 260 <= offset[20] + 4 * (k - 1) + i - 1
    BY <1>a DEF Header, Header20
  <2> QED
    BY <1>5, <2>1, <2>2
<1>8. Tables'
  BY <1>2, <1>5, <1>6, <1>7 DEF Tables
<1> QED
  BY <1>5, <1>8 DEF Layout

(* The mapping holds all of the buffer. *)
LEMMA CopyLayout == ASSUME IInv, Layout, Copy PROVE Layout'
<1>1. stage = "copy" /\ stage' \in {"shown", "crashed"} /\ UNCHANGED <<buffer, at, size, offset>>
  BY DEF Copy
<1>2. UNCHANGED <<position, virtual_length, data>>
  BY <1>1 DEF buffer
<1>3. stage' = "shown" => memory' = data
  <2>1. virtual_length <= MemSize
    <3>1. virtual_length <= at * GROW_SIZE /\ at = Len(Order) + 1
      BY <1>1 DEF Layout, Room, Stages
    <3>2. virtual_length \in Nat /\ MemSize \in Nat /\ (Len(Order) + 1) * GROW_SIZE <= MemSize
      BY MemAssumption, GrowAssumption, OrderLength DEF IInv, BufferTypes
    <3>3. (Len(Order) + 1) * GROW_SIZE \in Nat
      <4>1. Len(Order) + 1 \in Nat
        BY OrderLength
      <4> QED
        BY <4>1, RoomGrows
    <3> QED
      BY <3>1, <3>2, <3>3
  <2> QED
    BY <2>1 DEF Copy
<1>4. Written' = Written /\ Begun' = Begun
  BY <1>1 DEF Written, Begun
<1>5. Stages' /\ Room'
  BY <1>1, <1>2 DEF Layout, Stages, Room
<1>6. Held' /\ OffTable20'
  BY <1>1, <1>2, <1>4, HeldNext DEF Layout, Held, OffTable20
<1>7. Tables'
  <2>1. Table20' = Table20 /\ MainWords' = MainWords
    BY <1>1 DEF Table20, MainWords
  <2> QED
    BY <1>1, <1>2, <1>3, <2>1 DEF Layout, Tables
<1> QED
  BY <1>5, <1>6, <1>7 DEF Layout

LEMMA NextLayout == IInv /\ Layout /\ [Next]_vars => Layout'
<1> SUFFICES ASSUME IInv, Layout, [Next]_vars PROVE Layout'
  OBVIOUS
<1>1. CASE ~overrun /\ Reserve
  BY <1>1, ReserveLayout
<1>2. ASSUME WriteVariable PROVE Layout'
  <2>1. stage = "length" /\ offset' = [offset EXCEPT ![Order[at]] = position] /\ UNCHANGED <<size, memory>>
    BY <1>2 DEF WriteVariable, Noted
  <2>2. CASE Order[at] = 20
    <3>1. Write(position, Zeros(17), 1) /\ Advance
      BY <1>2, <2>2 DEF WriteVariable, VAR_20_OFFSET_TABLE_SIZE, Raw
    <3> QED
      BY <2>1, <2>2, <3>1, Reserve20Layout
  <2>3. CASE Order[at] \in Raw
    <3>1. Write(position, Word(size[Order[at]]), 1) /\ stage' = "data" /\ UNCHANGED at
      BY <1>2, <2>3 DEF WriteVariable, Raw
    <3> QED
      BY <2>1, <2>3, <3>1, LengthLayout
  <2>4. CASE Order[at] \notin Raw \cup {20}
    <3>1. Write(position, Word(size[Order[at]]) \o Value(Order[at]), 1) /\ Advance
      BY <1>2, <2>4 DEF WriteVariable
    <3> QED
      BY <2>1, <2>4, <3>1, VariableLayout
  <2> QED
    BY <2>2, <2>3, <2>4
<1>7. CASE UNCHANGED vars
  <2>1. UNCHANGED <<position, virtual_length, data, stage, at, size, offset, memory>>
    BY <1>7 DEF vars, buffer
  <2>2. Written' = Written /\ Begun' = Begun /\ Table20' = Table20 /\ MainWords' = MainWords
    BY <2>1 DEF Written, Begun, Table20, MainWords
  <2>3. Stages' /\ Room'
    BY <2>1 DEF Layout, Stages, Room
  <2>4. Held' /\ OffTable20'
    BY <2>1, <2>2, HeldNext DEF Layout, Held, OffTable20
  <2>5. Tables'
    BY <2>1, <2>2 DEF Layout, Tables
  <2> QED
    BY <2>3, <2>4, <2>5 DEF Layout
<1> QED
  BY <1>1, <1>2, <1>7, WriteDataLayout, WriteTable20Layout, WriteTableLayout, CopyLayout DEF Next

(* A word that the mapping holds is read there. *)
LEMMA WordRead ==
    ASSUME BufferTypes, InAllocation, memory = data,
           NEW p \in Nat, p + 4 <= virtual_length, NEW w \in 0 .. virtual_length, HasWord(data, p, w)
    PROVE  WordAt(p) = w
<1>1. p + 3 \in DOMAIN memory
  BY DEF InAllocation, BufferTypes
<1>2. \A k \in 1 .. 4 : memory[p + k - 1] = Word(w)[k]
  BY DEF HasWord
<1>3. memory[p].word = w
  <2>1. memory[p + 1 - 1] = Word(w)[1] /\ p + 1 - 1 = p
    BY <1>2
  <2> QED
    BY <2>1 DEF Word
<1> QED
  BY <1>1, <1>2, <1>3 DEF WordAt

LEMMA LayoutRoundTrip == IInv /\ Layout => RoundTrip
<1> SUFFICES ASSUME IInv, Layout, stage = "shown"
             PROVE  /\ WordAt(0) = OFFSET_TABLE_SIZE
                    /\ \A v \in Main \ {20} : Finds(v, 4 * v)
                    /\ \A k \in (1 .. OFFSET_TABLE_SIZE) \ Main : WordAt(4 * k) = 0
                    /\ LET first == WordAt(WordAt(4 * 20)) IN
                         \A k \in 2 .. 10 : Finds(Sub(k), first + 4 * (k - 2))
  BY DEF RoundTrip
<1>a. /\ Written = Variables /\ Begun = Variables
      /\ virtual_length \in Nat /\ virtual_length >= 260
      /\ 20 \in Variables /\ offset[20] + 68 <= virtual_length
      /\ \A v \in Variables : /\ offset[v] \in Nat /\ size[v] \in Nat
                              /\ offset[v] >= Header /\ offset[v] + 4 <= virtual_length
  BY AllWritten DEF Header, Header20
<1>m. memory = data /\ BufferTypes /\ InAllocation
  BY DEF Layout, Tables, IInv
<1>1. ASSUME NEW k \in 1 .. 65, MainWords[k] \in 0 .. virtual_length
      PROVE  WordAt(4 * (k - 1)) = MainWords[k]
  <2>1. HasWord(data, 4 * (k - 1), MainWords[k])
    BY DEF Layout, Tables
  <2>2. 4 * (k - 1) \in Nat /\ 4 * (k - 1) + 4 <= virtual_length
    BY <1>a
  <2> QED
    BY <1>1, <1>m, <2>1, <2>2, WordRead
<1>2. WordAt(0) = OFFSET_TABLE_SIZE
  <2>1. MainWords[1] = 64 /\ 64 \in 0 .. virtual_length /\ 1 \in 1 .. 65 /\ 4 * (1 - 1) = 0
    BY <1>a, MainWordsAt DEF OFFSET_TABLE_SIZE
  <2>2. MainWords[1] \in 0 .. virtual_length
    BY <2>1
  <2>3. WordAt(4 * (1 - 1)) = MainWords[1]
    BY <1>1, <2>1, <2>2
  <2> QED
    BY <2>1, <2>3 DEF OFFSET_TABLE_SIZE
<1>3. \A v \in Main : v \in 1 .. 64 /\ v \in Variables /\ WordAt(4 * v) = offset[v]
  <2> TAKE v \in Main
  <2>1. v \in Variables /\ v \in 1 .. 64 /\ Entries[v] = v /\ v # 0
    BY MainEntries DEF Main
  <2>2. MainWords[v + 1] = offset[v]
    BY <2>1, MainWordsAt
  <2>3. v + 1 \in 1 .. 65 /\ 4 * (v + 1 - 1) = 4 * v
    BY <2>1
  <2>4. offset[v] \in 0 .. virtual_length
    BY <1>a, <2>1
  <2> DEFINE k == v + 1
  <2>5. k \in 1 .. 65 /\ MainWords[k] \in 0 .. virtual_length
    BY <2>2, <2>3, <2>4
  <2>6. WordAt(4 * (k - 1)) = MainWords[k]
    <3> HIDE DEF k
    <3> QED
      BY <1>1, <2>5
  <2> QED
    BY <2>1, <2>2, <2>3, <2>6
<1>4. \A k \in (1 .. OFFSET_TABLE_SIZE) \ Main : WordAt(4 * k) = 0
  <2> SUFFICES ASSUME NEW k \in (1 .. 64) \ Main PROVE WordAt(4 * k) = 0
    BY DEF OFFSET_TABLE_SIZE
  <2>1. MainWords[k + 1] = 0
    BY MainEntries, MainWordsAt
  <2>2. k + 1 \in 1 .. 65 /\ 4 * (k + 1 - 1) = 4 * k /\ 0 \in 0 .. virtual_length
    BY <1>a
  <2>3. WordAt(4 * (k + 1 - 1)) = 0
    BY <1>1, <2>1, <2>2
  <2> QED
    BY <2>2, <2>3
<1>5. ASSUME NEW v \in Variables \ {20}, NEW e \in Nat, WordAt(e) = offset[v] PROVE Finds(v, e)
  <2>1. /\ offset[v] + 4 + size[v] <= virtual_length
        /\ HasWord(data, offset[v], size[v]) /\ HasValue(data, offset[v] + 4, v)
    BY <1>a DEF Layout, Held
  <2>2. size[v] \in 0 .. virtual_length /\ offset[v] \in Nat /\ offset[v] + 4 <= virtual_length
    BY <1>a, <2>1
  <2>3. WordAt(offset[v]) = size[v]
    BY <1>m, <2>1, <2>2, WordRead
  <2>4. ASSUME NEW k \in 1 .. size[v]
        PROVE  offset[v] + 3 + k \in DOMAIN memory /\ memory[offset[v] + 3 + k] = Value(v)[k]
    <3>1. size[v] \in Nat /\ offset[v] + 3 + k = offset[v] + 4 + k - 1
      BY <1>a
    <3>2. offset[v] + 3 + k \in 0 .. virtual_length - 1
      BY <1>a, <2>1, <2>2
    <3>3. data[offset[v] + 4 + k - 1] = Value(v)[k]
      BY <2>1 DEF HasValue
    <3> QED
      BY <1>m, <3>1, <3>2, <3>3 DEF InAllocation
  <2> QED
    BY <1>5, <2>3, <2>4 DEF Finds
<1>6. \A v \in Main \ {20} : Finds(v, 4 * v)
  <2> TAKE v \in Main \ {20}
  <2>1. v \in Variables \ {20} /\ 4 * v \in Nat /\ WordAt(4 * v) = offset[v]
    BY <1>3
  <2> QED
    BY <2>1, <1>5
<1>7. ASSUME NEW k \in 1 .. 17, Table20[k] \in 0 .. virtual_length
      PROVE  WordAt(offset[20] + 4 * (k - 1)) = Table20[k]
  <2>1. HasWord(data, offset[20] + 4 * (k - 1), Table20[k])
    BY DEF Layout, Tables
  <2>2. offset[20] + 4 * (k - 1) \in Nat /\ offset[20] + 4 * (k - 1) + 4 <= virtual_length
    BY <1>a
  <2> QED
    BY <1>7, <1>m, <2>1, <2>2, WordRead
<1>8. WordAt(WordAt(4 * 20)) = offset[20] + 4
  <2>1. WordAt(4 * 20) = offset[20]
    <3>1. 20 \in Main
      BY <1>a DEF Main
    <3>2. \A v \in Main : WordAt(4 * v) = offset[v]
      BY <1>3
    <3> QED
      BY <3>1, <3>2
  <2>2. Table20[1] = offset[20] + 4 /\ Table20[1] \in 0 .. virtual_length
    BY <1>a, Table20At
  <2>3. 1 \in 1 .. 17 /\ offset[20] + 4 * (1 - 1) = offset[20]
    BY <1>a
  <2>4. WordAt(offset[20] + 4 * (1 - 1)) = offset[20] + 4
    BY <1>7, <2>2, <2>3
  <2> QED
    BY <2>1, <2>3, <2>4
<1>9. \A k \in 2 .. 10 : Finds(Sub(k), (offset[20] + 4) + 4 * (k - 2))
  <2> TAKE k \in 2 .. 10
  <2>1. Sub(k) \in Variables \ {20}
    BY AllVariables DEF Sub
  <2>2. Table20[k] = offset[Sub(k)] /\ offset[Sub(k)] \in 0 .. virtual_length
    BY <1>a, <2>1, Table20At
  <2>3. k \in 1 .. 17 /\ offset[20] + 4 * (k - 1) = (offset[20] + 4) + 4 * (k - 2)
        /\ (offset[20] + 4) + 4 * (k - 2) \in Nat
    BY <1>a
  <2>4. WordAt(offset[20] + 4 * (k - 1)) = offset[Sub(k)]
    BY <1>7, <2>2, <2>3
  <2> QED
    BY <1>5, <2>1, <2>3, <2>4
<1> QED
  BY <1>2, <1>4, <1>6, <1>8, <1>9

LEMMA LayoutTypeOK == IInv /\ Layout => TypeOK
<1> SUFFICES ASSUME IInv, Layout PROVE TypeOK
  OBVIOUS
<1>1. \A v \in Variables : size[v] \in Nat /\ (offset[v] = 0 \/ offset[v] \in 1 .. virtual_length - 4)
  <2> TAKE v \in Variables
  <2>1. size[v] \in Nat /\ offset[v] \in Nat
    BY GrowAssumption DEF IInv, Sizes
  <2>2. CASE v \in Begun
    BY <2>1, <2>2 DEF Layout, Held, Header, IInv, BufferTypes
  <2>3. CASE v \notin Begun
    BY <2>1, <2>3 DEF Layout, Held
  <2> QED
    BY <2>1, <2>2, <2>3
<1>2. DOMAIN size = Variables /\ DOMAIN offset = Variables
  BY DEF IInv, Sizes
<1> QED
  BY <1>1, <1>2 DEF TypeOK, IInv, BufferTypes, Layout, Stages

LEMMA LayoutInvariant == Spec => [](IInv /\ Layout)
BY InitIInv, InitLayout, NextIInv, NextLayout, PTL DEF Spec

(* The cursor and the lengths are numbers, and an offset that is noted is  *)
(* one at which a length fits.                                             *)
THEOREM TclsTyped == Spec => []TypeOK
BY LayoutInvariant, LayoutTypeOK, PTL

(* Whatever the texts, every variable of the memory that TenProxy is shown *)
(* is found through the table under its own number, with its length and    *)
(* its bytes, and the entries of other numbers are 0: none of the writes   *)
(* that append, note an offset and repeat it in a table loses or           *)
(* overwrites one.                                                         *)
THEOREM EveryVariableIsFound == Spec => []RoundTrip
BY LayoutInvariant, LayoutRoundTrip, PTL
=============================================================================
