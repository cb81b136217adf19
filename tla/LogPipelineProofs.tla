------------------------- MODULE LogPipelineProofs -------------------------
(***************************************************************************)
(* For any number of threads and lines: no thread logs before there is a   *)
(* queue, and the log keeps its contract, so per thread no line is lost,   *)
(* doubled or overtaken between log() and the console.                     *)
(*                                                                         *)
(* A subqueue holds lines of its own thread only, hence the line in the    *)
(* consumer's hand belongs in front of that subqueue and of no other; and  *)
(* the consumer has a line in hand whenever it prints.                     *)
(***************************************************************************)
EXTENDS LogPipeline, SequenceTheorems, TLAPS

Own(t) == {t} \X (1 .. MaxLines)

(* The starter goes through run() in order, and the rest comes after it.   *)
StartOrder ==
    /\ starter \in {"flag", "spawn", "hook", "hooked"} => events
    /\ starter \in {"spawn", "hook", "hooked"} /\ alive => is_running
    /\ starter \notin {"hook", "hooked"} => consumer = "none"
    /\ \A t \in Threads : logger[t] # "idle" => starter \in {"hook", "hooked"}

InOwnQueue == \A t \in Threads : queue[t] \in Seq(Own(t))

Formatted == \A t \in Threads : logger[t] = "insert" => made[t] \in 1 .. MaxLines

HasLine == consumer \in {"print", "write"} => event \in Line

IInv == TypeOK /\ StartOrder /\ InOwnQueue /\ Formatted /\ HasLine

-----------------------------------------------------------------------------
(* Sequences                                                               *)

LEMMA ConcatAppend ==
    ASSUME NEW S, NEW hand \in Seq(S), NEW q \in Seq(S), NEW l \in S
    PROVE  hand \o Append(q, l) = Append(hand \o q, l)
<1>1. hand \o q \in Seq(S) /\ <<l>> \in Seq(S)
  BY ConcatProperties
<1>2. Append(q, l) = q \o <<l>> /\ Append(hand \o q, l) = (hand \o q) \o <<l>>
  BY <1>1, AppendIsConcat
<1>3. QED
  BY <1>1, <1>2, ConcatAssociative

LEMMA HeadInFront ==
    ASSUME NEW S, NEW q \in Seq(S), q # <<>>
    PROVE  <<Head(q)>> \o Tail(q) = q
<1>1. Head(q) \in S /\ Tail(q) \in Seq(S) /\ Len(Tail(q)) = Len(q) - 1
  BY HeadTailProperties
<1>2. <<Head(q)>> \in Seq(S)
  BY <1>1
<1>3. SubSeq(q, 1, Len(q)) = <<q[1]>> \o SubSeq(q, 2, Len(q))
  BY SubSeqRecursiveFirst, EmptySeq
<1>4. Tail(q) = SubSeq(q, 2, Len(q)) /\ Head(q) = q[1]
  BY TailIsSubSeq
<1>5. QED
  BY <1>3, <1>4, SubSeqFull

LEMMA FrontIsHead ==
    ASSUME NEW S, NEW q \in Seq(S), NEW l \in S
    PROVE  /\ <<l>> \o q # <<>>
           /\ Head(<<l>> \o q) = l
           /\ Tail(<<l>> \o q) = q
<1>1. <<l>> \in Seq(S) /\ Len(<<l>>) = 1 /\ <<l>>[1] = l
  OBVIOUS
<1>2. /\ <<l>> \o q \in Seq(S) /\ Len(<<l>> \o q) = 1 + Len(q)
      /\ \A i \in 1 .. 1 + Len(q) : (<<l>> \o q)[i] = IF i <= 1 THEN <<l>>[i] ELSE q[i - 1]
  BY <1>1, ConcatProperties
<1>3. Len(q) \in Nat
  BY LenProperties
<1>4. <<l>> \o q # <<>>
  BY <1>2, <1>3, EmptySeq
<1>5. Head(<<l>> \o q) = l
  BY <1>1, <1>2, <1>3, <1>4
<1>6. /\ Tail(<<l>> \o q) \in Seq(S) /\ Len(Tail(<<l>> \o q)) = Len(q)
      /\ \A i \in 1 .. Len(q) : Tail(<<l>> \o q)[i] = (<<l>> \o q)[i + 1]
  BY <1>2, <1>3, <1>4, HeadTailProperties
<1>7. \A i \in 1 .. Len(q) : Tail(<<l>> \o q)[i] = q[i]
  BY <1>2, <1>3, <1>6
<1>8. Tail(<<l>> \o q) = q
  BY <1>6, <1>7, SeqEqual
<1>9. QED
  BY <1>4, <1>5, <1>8

-----------------------------------------------------------------------------
(* The invariant                                                           *)

LEMMA LinesAreLines == \A t \in Threads : Own(t) \subseteq Line
BY DEF Own, Line

LEMMA InitIInv == Init => IInv
<1> SUFFICES ASSUME Init PROVE IInv
  OBVIOUS
<1>1. TypeOK
  <2>1. made \in [Threads -> 0 .. MaxLines]
    BY MaxLinesAssumption DEF Init
  <2>2. queue \in [Threads -> Seq(Line)] /\ console \in Seq(Line) /\ file \in Seq(Line)
    BY EmptySeq DEF Init
  <2>3. QED
    BY <2>1, <2>2 DEF Init, TypeOK
<1>2. StartOrder /\ Formatted /\ HasLine
  BY DEF Init, StartOrder, Formatted, HasLine
<1>3. InOwnQueue
  BY EmptySeq DEF Init, InOwnQueue
<1>4. QED
  BY <1>1, <1>2, <1>3 DEF IInv

(* The step is one of the contract's, or none of its business.             *)
Pending == [t \in Threads |-> InHand(t) \o queue[t]]
ContractStep == [Contract!Next]_<<Pending, console>>

(* The consumer has no line in hand. *)
Handless == {"none", "test", "wait", "dequeue", "ended"}

(* Steps that move no line and leave the threads in log() alone.           *)
LEMMA QuietStep ==
    ASSUME IInv, UNCHANGED <<queue, event, console, file, made, logger>>, permits' \in Nat,
           UNCHANGED consumer \/ (consumer \in Handless /\ consumer' \in Handless),
           starter' \in {"open", "queue", "flag", "spawn", "hook", "hooked"},
           log_file' \in {"closed", "open", "failed"},
           alive' \in BOOLEAN, is_running' \in BOOLEAN, events' \in BOOLEAN, StartOrder'
    PROVE  IInv' /\ ContractStep
<1>1. TypeOK' /\ InOwnQueue' /\ Formatted' /\ HasLine'
  BY DEF IInv, TypeOK, InOwnQueue, Formatted, HasLine, Handless
<1>2. UNCHANGED <<Pending, console>>
  BY DEF Pending, InHand, Handless
<1>3. QED
  BY <1>1, <1>2 DEF IInv, ContractStep

LEMMA StartStep ==
    ASSUME IInv, Start
    PROVE  IInv' /\ ContractStep
<1>0. TypeOK /\ StartOrder
  BY DEF IInv
<1> USE DEF queueVars, logVars, outVars
<1>1. /\ UNCHANGED <<queue, event, console, file, made, logger, permits, alive>>
      /\ starter' \in {"open", "queue", "flag", "spawn", "hook", "hooked"}
      /\ log_file' \in {"closed", "open", "failed"}
      /\ is_running' \in BOOLEAN /\ events' \in BOOLEAN
  BY <1>0 DEF Start, OpenFile, MakeQueue, SetRunning, SpawnConsumer, InstallHooks, TypeOK
<1>2. UNCHANGED consumer \/ (consumer \in Handless /\ consumer' \in Handless)
  BY <1>0 DEF Start, OpenFile, MakeQueue, SetRunning, SpawnConsumer, InstallHooks, StartOrder, Handless
<1>3. StartOrder'
  BY <1>0 DEF Start, OpenFile, MakeQueue, SetRunning, SpawnConsumer, InstallHooks, StartOrder, TypeOK
<1>4. QED
  BY <1>0, <1>1, <1>2, <1>3, QuietStep DEF TypeOK

LEMMA LogStep ==
    ASSUME IInv, NEW t \in Threads, Log(t)
    PROVE  IInv' /\ ContractStep
<1>0. TypeOK /\ StartOrder /\ InOwnQueue /\ Formatted /\ HasLine
  BY DEF IInv
<1> USE DEF initVars, queueVars, logVars, outVars
<1>1. CASE Format(t)
  <2>1. /\ UNCHANGED <<initVars, is_running, alive, queueVars, consumer, outVars>>
        /\ made[t] < MaxLines /\ made' = [made EXCEPT ![t] = @ + 1]
        /\ logger' = [logger EXCEPT ![t] = "insert"]
        /\ starter \in {"hook", "hooked"}
    BY <1>1 DEF Format, MayLog
  <2>2. made[t] + 1 \in 1 .. MaxLines
    BY <1>0, <2>1, MaxLinesAssumption DEF TypeOK
  <2>3. TypeOK' /\ Formatted'
    BY <1>0, <2>1, <2>2 DEF TypeOK, Formatted
  <2>4. StartOrder' /\ InOwnQueue' /\ HasLine'
    BY <1>0, <2>1 DEF StartOrder, InOwnQueue, HasLine, TypeOK
  <2>5. UNCHANGED <<Pending, console>>
    BY <2>1 DEF Pending, InHand
  <2>6. QED
    BY <2>3, <2>4, <2>5 DEF IInv, ContractStep
<1>2. CASE Insert(t)
  <2> DEFINE l == <<t, made[t]>>
  <2>1. /\ UNCHANGED <<initVars, is_running, alive, permits, made, consumer, outVars>>
        /\ logger[t] = "insert" /\ logger' = [logger EXCEPT ![t] = "signal"]
        /\ queue' = [queue EXCEPT ![t] = Append(@, l)]
    BY <1>2 DEF Insert
  <2>2. l \in Own(t) /\ l \in Line
    BY <1>0, <2>1, LinesAreLines DEF Formatted, Own
  <2>3. Append(queue[t], l) \in Seq(Own(t)) /\ Append(queue[t], l) \in Seq(Line)
    BY <1>0, <2>2, AppendProperties DEF InOwnQueue, TypeOK
  <2>4. /\ queue'[t] = Append(queue[t], l)
        /\ \A u \in Threads \ {t} : queue'[u] = queue[u]
    BY <1>0, <2>1 DEF TypeOK
  <2> HIDE DEF l
  <2>5. TypeOK'
    BY <1>0, <2>1, <2>3 DEF TypeOK
  <2>6. StartOrder' /\ Formatted' /\ HasLine'
    BY <1>0, <2>1 DEF StartOrder, Formatted, HasLine, TypeOK
  <2>7. InOwnQueue'
    BY <1>0, <2>3, <2>4 DEF InOwnQueue
  <2>8. ContractStep
    <3>1. \A u \in Threads : InHand(u)' = InHand(u) /\ InHand(u) \in Seq(Line)
      BY <1>0, <2>1, EmptySeq DEF InHand, HasLine
    <3>2. InHand(t) \o Append(queue[t], l) = Append(InHand(t) \o queue[t], l)
      BY <1>0, <2>2, <3>1, ConcatAppend DEF TypeOK
    <3>3. Pending' = [Pending EXCEPT ![t] = Append(@, l)]
      BY <2>4, <3>1, <3>2 DEF Pending
    <3>4. Contract!Accept(t)
      BY <2>1, <2>2, <3>3 DEF Contract!Accept, Pending
    <3>5. QED
      BY <3>4 DEF ContractStep, Contract!Next
  <2>9. QED
    BY <2>5, <2>6, <2>7, <2>8 DEF IInv
<1>3. CASE InsertFails(t) \/ Signal(t)
  <2>1. /\ UNCHANGED <<initVars, is_running, alive, queue, made, consumer, outVars>>
        /\ logger[t] # "idle" /\ logger' = [logger EXCEPT ![t] = "idle"]
        /\ permits' \in Nat
    BY <1>0, <1>3 DEF InsertFails, Signal, TypeOK
  <2>2. TypeOK' /\ StartOrder' /\ InOwnQueue' /\ Formatted' /\ HasLine'
    BY <1>0, <2>1 DEF TypeOK, StartOrder, InOwnQueue, Formatted, HasLine
  <2>3. UNCHANGED <<Pending, console>>
    BY <2>1 DEF Pending, InHand
  <2>4. QED
    BY <2>2, <2>3 DEF IInv, ContractStep
<1>4. QED
  BY <1>1, <1>2, <1>3 DEF Log

LEMMA DequeueStep ==
    ASSUME IInv, NEW t \in Threads, Dequeue(t)
    PROVE  IInv' /\ ContractStep
<1>0. TypeOK /\ StartOrder /\ InOwnQueue /\ Formatted
  BY DEF IInv
<1> DEFINE q == queue[t]
<1>1. /\ UNCHANGED <<initVars, is_running, alive, permits, logVars, console, file>>
      /\ consumer = "dequeue" /\ consumer' = "print"
      /\ q # <<>> /\ event' = Head(q) /\ queue' = [queue EXCEPT ![t] = Tail(@)]
  BY DEF Dequeue
<1>2. q \in Seq(Own(t)) /\ q \in Seq(Line)
  BY <1>0 DEF InOwnQueue, TypeOK
<1>3. Head(q) \in Own(t) /\ Tail(q) \in Seq(Own(t)) /\ Tail(q) \in Seq(Line)
  BY <1>1, <1>2, HeadTailProperties
<1>4. Head(q) \in Line /\ Head(q)[1] = t /\ Head(q) # <<>>
  BY <1>3, LinesAreLines DEF Own
<1>5. queue'[t] = Tail(q) /\ \A u \in Threads \ {t} : queue'[u] = queue[u]
  BY <1>0, <1>1 DEF TypeOK
<1>6. TypeOK' /\ HasLine'
  BY <1>0, <1>1, <1>3, <1>4 DEF TypeOK, HasLine, initVars, logVars
<1>7. StartOrder' /\ Formatted'
  BY <1>0, <1>1 DEF StartOrder, Formatted, initVars, logVars
<1>8. InOwnQueue'
  BY <1>0, <1>3, <1>5 DEF InOwnQueue
<1>9. UNCHANGED <<Pending, console>>
  <2>1. InHand(t)' \o queue'[t] = InHand(t) \o queue[t]
    <3>1. InHand(t)' = <<Head(q)>> /\ InHand(t) = <<>>
      BY <1>1, <1>4 DEF InHand
    <3>2. <<Head(q)>> \o Tail(q) = q /\ <<>> \o q = q
      BY <1>1, <1>2, HeadInFront, ConcatEmptySeq
    <3>3. QED
      BY <1>5, <3>1, <3>2
  <2>2. \A u \in Threads \ {t} : InHand(u)' = InHand(u) /\ queue'[u] = queue[u]
    BY <1>1, <1>4, <1>5 DEF InHand
  <2>3. \A u \in Threads : InHand(u)' \o queue'[u] = InHand(u) \o queue[u]
    BY <2>1, <2>2
  <2>4. QED
    BY <1>1, <2>3 DEF Pending
<1>10. QED
  BY <1>6, <1>7, <1>8, <1>9 DEF IInv, ContractStep

LEMMA PrintStep ==
    ASSUME IInv, PrintLine
    PROVE  IInv' /\ ContractStep
<1>0. TypeOK /\ StartOrder /\ InOwnQueue /\ Formatted /\ HasLine
  BY DEF IInv
<1>1. /\ UNCHANGED <<initVars, is_running, alive, queueVars, logVars, event, file>>
      /\ consumer = "print" /\ consumer' = "write"
      /\ console' = Append(console, event)
  BY DEF PrintLine
<1>2. event \in Line /\ event[1] \in Threads /\ event # <<>>
  BY <1>0, <1>1 DEF HasLine, Line
<1>3. console' \in Seq(Line)
  BY <1>0, <1>1, <1>2, AppendProperties DEF TypeOK
<1>4. TypeOK' /\ StartOrder' /\ InOwnQueue' /\ Formatted' /\ HasLine'
  BY <1>0, <1>1, <1>2, <1>3
     DEF TypeOK, StartOrder, InOwnQueue, Formatted, HasLine, initVars, queueVars, logVars
<1>5. ContractStep
  <2>0. PICK t \in Threads : t = event[1]
    BY <1>2
  <2>1. /\ InHand(t) = <<event>> /\ \A u \in Threads \ {t} : InHand(u) = <<>>
        /\ \A u \in Threads : InHand(u)' = <<>>
    BY <1>1, <1>2, <2>0 DEF InHand
  <2>2. /\ <<event>> \o queue[t] # <<>>
        /\ Head(<<event>> \o queue[t]) = event
        /\ Tail(<<event>> \o queue[t]) = queue[t]
    BY <1>0, <1>2, FrontIsHead DEF TypeOK
  <2>3. \A u \in Threads : <<>> \o queue[u] = queue[u]
    BY <1>0, ConcatEmptySeq DEF TypeOK
  <2>4. /\ Pending[t] = <<event>> \o queue[t]
        /\ Pending' = [Pending EXCEPT ![t] = Tail(@)]
    BY <1>1, <1>2, <2>1, <2>2, <2>3 DEF Pending, queueVars
  <2>5. Contract!Emit(t)
    BY <1>1, <2>2, <2>4 DEF Contract!Emit, Pending
  <2>6. QED
    BY <2>5 DEF ContractStep, Contract!Next
<1>6. QED
  BY <1>4, <1>5 DEF IInv

LEMMA ConsumerStep ==
    ASSUME IInv, Consumer
    PROVE  IInv' /\ ContractStep
<1>0. TypeOK /\ StartOrder /\ InOwnQueue /\ Formatted /\ HasLine
  BY DEF IInv
<1> USE DEF initVars, queueVars, logVars, outVars
<1>1. CASE Test \/ Timeout \/ TakePermit
  <2>1. /\ UNCHANGED <<initVars, is_running, alive, queue, logVars, outVars>>
        /\ consumer \in Handless \ {"none"} /\ consumer' \in Handless \ {"none"}
        /\ permits' \in Nat
    BY <1>0, <1>1 DEF Test, Timeout, TakePermit, HasPermit, Handless, TypeOK
  <2>2. StartOrder'
    BY <1>0, <2>1 DEF StartOrder
  <2>3. QED
    BY <1>0, <2>1, <2>2, QuietStep DEF TypeOK
<1>2. ASSUME NEW t \in Threads, Dequeue(t)
      PROVE  IInv' /\ ContractStep
  BY <1>2, DequeueStep
<1>3. CASE PrintLine
  BY <1>3, PrintStep
<1>4. CASE WriteLine
  <2>1. /\ UNCHANGED <<initVars, is_running, alive, queueVars, logVars, event, console>>
        /\ consumer = "write" /\ consumer' = "test" /\ file' = Flushed
    BY <1>4 DEF WriteLine
  <2>2. file' \in Seq(Line)
    BY <1>0, <2>1, AppendProperties DEF Flushed, HasLine, TypeOK
  <2>3. TypeOK' /\ StartOrder' /\ InOwnQueue' /\ Formatted' /\ HasLine'
    BY <1>0, <2>1, <2>2 DEF TypeOK, StartOrder, InOwnQueue, Formatted, HasLine
  <2>4. UNCHANGED <<Pending, console>>
    BY <2>1 DEF Pending, InHand
  <2>5. QED
    BY <2>3, <2>4 DEF IInv, ContractStep
<1>5. QED
  BY <1>1, <1>2, <1>3, <1>4 DEF Consumer

LEMMA Step == IInv /\ [Next]_vars => IInv' /\ ContractStep
<1> SUFFICES ASSUME IInv, [Next]_vars PROVE IInv' /\ ContractStep
  OBVIOUS
<1> USE DEF initVars, queueVars, logVars, outVars
<1>1. CASE Shutdown
  <2>1. StartOrder'
    BY <1>1 DEF Shutdown, IInv, StartOrder
  <2>2. QED
    BY <1>1, <2>1, QuietStep DEF Shutdown, IInv, TypeOK
<1>2. CASE UNCHANGED vars
  <2>1. StartOrder'
    BY <1>2 DEF vars, IInv, StartOrder
  <2>2. QED
    BY <1>2, <2>1, QuietStep DEF vars, IInv, TypeOK
<1>3. QED
  BY <1>1, <1>2, StartStep, LogStep, ConsumerStep DEF Next

-----------------------------------------------------------------------------
(* log_init comes before every line and before the consumer.               *)
THEOREM NoUseBeforeQueue == Spec => []QueueBeforeUse
<1>1. IInv => QueueBeforeUse
  BY DEF IInv, StartOrder, QueueBeforeUse, TypeOK
<1>2. IInv /\ [Next]_vars => IInv'
  BY Step
<1>3. QED
  BY <1>1, <1>2, InitIInv, PTL DEF Spec

(* However many threads log: what they enqueue and what the consumer holds *)
(* are lines, and the semaphore never goes below zero.                     *)
THEOREM LinesOnly == Spec => []TypeOK
<1>1. IInv => TypeOK
  BY DEF IInv
<1>2. IInv /\ [Next]_vars => IInv'
  BY Step
<1>3. QED
  BY <1>1, <1>2, InitIInv, PTL DEF Spec

(* However many threads log and whenever the process exits: per thread, no *)
(* line is lost, doubled or overtaken on its way to the console.           *)
THEOREM LogKeepsContract == Spec => KeepsContract
<1>1. Init => Contract!Init
  BY ConcatEmptySeq, EmptySeq DEF Init, Contract!Init, InHand
<1>2. IInv /\ [Next]_vars => IInv' /\ ContractStep
  BY Step
<1>3. QED
  BY <1>1, <1>2, InitIInv, PTL DEF Spec, KeepsContract, Contract!Spec, ContractStep, Pending

=============================================================================
