---------------------------- MODULE PlainClient ----------------------------
(***************************************************************************)
(* The client as it was compiled, with no hook in it and with the original *)
(* TerSafe.dll: one of its threads, executing the instructions that touch  *)
(* the stack and the frame pointer.  It is external code, modelled by the  *)
(* instructions that the stolen bytes and the comments of the hook tables  *)
(* show.                                                                   *)
(*                                                                         *)
(* The stack is a sequence whose last element is at the top, so the        *)
(* address of an element is its index, and a deeper one has a smaller      *)
(* index (a greater address).                                              *)
(***************************************************************************)
EXTENDS Integers, Sequences, FiniteSets

CONSTANTS
    Code,       \* the instructions of each function
    Main,       \* the function the thread starts in: it never returns
    Args,       \* the arguments each function is called with
    Uins,       \* the users that TerSafe is told of
    MaxCalls    \* bound: calls under way

ASSUME CodeAssumption == Main \in DOMAIN Code /\ Args \in [DOMAIN Code -> SUBSET Nat]

Fns == DOMAIN Code

Instructions == {"push_ebp", "mov_ebp", "scratch", "pop_ebp", "leave", "load", "global",
                 "body", "call", "tersafe", "ret"}

(* The frame of a function: ebp is pushed first of all, popped last of all *)
(* before it returns, and refers to where it was pushed in between, or is  *)
(* used for data.                                                          *)
PushesEbp(f) == Code[f][1] = "push_ebp"
KeepsFrame(f) == PushesEbp(f) /\ Code[f][2] = "mov_ebp"
Compiled(f) ==
    LET last == Len(Code[f]) IN
    /\ Code[f] \in Seq(Instructions) \ {<<>>}
    /\ Code[f][last] = IF f = Main THEN "body" ELSE "ret"
    /\ PushesEbp(f) => f # Main /\ last > 2 /\ Code[f][last - 1] \in {"pop_ebp", "leave"}
    /\ \A k \in 1 .. last :
        /\ Code[f][k] = "push_ebp" => k = 1
        /\ Code[f][k] = "mov_ebp" => k = 2 /\ PushesEbp(f)
        /\ Code[f][k] = "scratch" => k > 1 /\ PushesEbp(f) /\ ~KeepsFrame(f)
        /\ Code[f][k] = "pop_ebp" => k = last - 1 /\ PushesEbp(f)
        /\ Code[f][k] = "leave" => k = last - 1 /\ KeepsFrame(f)
        /\ Code[f][k] = "ret" => k = last

ASSUME CompiledAssumption == \A f \in Fns : Compiled(f)

VARIABLES
    stack,
    ebp,        \* the frame pointer
    vol,        \* what the registers that a call does not preserve hold
    fn, pc,     \* the instruction to execute
    uin         \* the user that TerSafe's object holds; 0: none

client == <<stack, ebp, vol, fn, pc, uin>>

(* A dword: of which kind, of which function, and a number. *)
Dword(k, f, n) == [kind |-> k, of |-> f, n |-> n]
Frame(i) == Dword("frame", Main, i)
NoFrame == Dword("none", Main, 0)   \* too small for an address
Heap == Dword("heap", Main, 0)      \* an address above the stack
Local(i) == Dword("local", Main, i) \* the address of an element, of a local variable say
Arg(n) == Dword("arg", Main, n)

Top == stack[Len(stack)]
Pop(n) == SubSeq(stack, 1, Len(stack) - n)
Returns == {"ret", "tramp"}
Calls == Cardinality({i \in DOMAIN stack : stack[i].kind \in Returns})

Init ==
    /\ stack = <<>>
    /\ ebp = NoFrame
    /\ vol = "start"
    /\ fn = Main /\ pc = 1
    /\ uin = 0

Goto(f, i) == fn' = f /\ pc' = i

PushEbp == stack' = Append(stack, ebp) /\ UNCHANGED <<ebp, vol>>
MovEbp == ebp' = Frame(Len(stack)) /\ UNCHANGED <<stack, vol>>

(* A function compiled without a frame pointer may use ebp for data. *)
Scratch == ebp' \in {NoFrame, Heap} \cup {Local(i) : i \in DOMAIN stack} /\ UNCHANGED <<stack, vol>>
PopEbp == ebp' = Top /\ stack' = Pop(1) /\ UNCHANGED vol

(* mov esp,ebp and pop ebp. *)
Leave == stack' = SubSeq(stack, 1, ebp.n - 1) /\ ebp' = stack[ebp.n] /\ UNCHANGED vol

(* An instruction that leaves a value in a register. *)
Load(value) == vol' = value /\ UNCHANGED <<stack, ebp>>

(* A call pushes an argument, and the address to return to: in the code of *)
(* the function, or in a copy of its instructions elsewhere.               *)
Call(kind, next) ==
    /\ Calls < MaxCalls
    /\ \E g \in Fns \ {Main} : \E a \in Args[g] :
        /\ stack' = stack \o <<Arg(a), Dword(kind, fn, next)>>
        /\ Goto(g, 1)
    /\ vol' = "args"
    /\ UNCHANGED ebp

(* The callee removes the argument. *)
Ret ==
    /\ Goto(Top.of, Top.n)
    /\ stack' = Pop(2)
    /\ vol' = "result"
    /\ UNCHANGED ebp

Instruction == Code[fn][pc]

(* One instruction, of which a copy may be executed elsewhere: a call then *)
(* returns to the copy.  "global" reads a variable at an absolute address. *)
Execute(kind, global) ==
    /\ \/ /\ \/ Instruction = "push_ebp" /\ PushEbp
             \/ Instruction = "mov_ebp" /\ MovEbp
             \/ Instruction = "scratch" /\ Scratch
             \/ Instruction = "pop_ebp" /\ PopEbp
             \/ Instruction = "leave" /\ Leave
             \/ Instruction = "load" /\ Load(vol)
             \/ Instruction = "global" /\ Load(global)
             \/ Instruction = "body" /\ fn # Main /\ Load("computed")
          /\ Goto(fn, pc + 1)
       \/ Instruction = "body" /\ Call(kind, pc)
       \/ Instruction = "call" /\ Call(kind, pc + 1)
       \/ Instruction = "ret" /\ Ret
    /\ UNCHANGED uin

(* The methods of TerSafe's object that the client has been observed to    *)
(* call: how many arguments it pushes, and what it gets.                   *)
Pushed == [s \in {0, 1, 2, 3, 5} |-> IF s \in {0, 2, 3} THEN 1 ELSE 0]
Answered(s) == IF s = 2 THEN "one" ELSE "zero"

CallTersafe ==
    /\ Instruction = "tersafe"
    /\ \E s \in DOMAIN Pushed :
        /\ vol' = Answered(s)
        /\ \/ s = 0 /\ uin' \in Uins      \* Init
           \/ UNCHANGED uin
    /\ Goto(fn, pc + 1)
    /\ UNCHANGED <<stack, ebp>>

Next == Execute("ret", "variable") \/ CallTersafe

Spec == Init /\ [][Next]_client

=============================================================================
