----------------------------- MODULE HookFrames -----------------------------
(***************************************************************************)
(* A thread of the client with the jmp hooks of hook_table.h installed and *)
(* the stub of TerSafe loaded: what generate_trampoline emits, the         *)
(* callbacks, and the walk up the stack that some callbacks log            *)
(* (log_backtrace, log_caller_stack).                                      *)
(*                                                                         *)
(* The trampoline saves the registers, calls the callback, restores them,  *)
(* executes the stolen instructions, and jumps back behind the site.       *)
(***************************************************************************)
EXTENDS PlainClient, Observers, TersafeStub, SequencesExt, TLC

CONSTANTS
    ModuleOf,       \* the module of each function
    Address,        \* where each function is, in units of 64 KB, the granularity of module bases
    TrampolineAt,   \* where the trampoline of each function is
    Base, Image,    \* where each module is when it is loaded, and its size
    Loaded,         \* modules loaded at the start
    Relocated,      \* modules that are not at their preferred base
    MaxFrames       \* max_depth of a walk

VARIABLES
    where,      \* "code", "stolen", or what the trampoline does next
    loaded,     \* modules of the process
    bases,      \* modules whose base each of the walks knows
    report      \* what the callback in progress has logged

vars == <<client, where, loaded, bases, report>>

(* Hook sites: before which instruction of a function, and how many        *)
(* instructions are stolen; one site of each kind, in the table of each    *)
(* kind of client module (staticdata_set of CryGame.dll, which has an      *)
(* absolute address too, is of the kind of mho_480450).                    *)
CryGameSites ==
    [CmdDispatchSwitch |-> [at |-> 1, count |-> 3],     \* push ebp; mov ebp,esp; mov ecx,[ecx+3c]
     register_handler |-> [at |-> 2, count |-> 2],      \* mov ebp,esp; mov eax,[ecx+0c]
     log_notification |-> [at |-> 2, count |-> 1],      \* mov ebp,esp
     monster_ai_skill |-> [at |-> 3, count |-> 1],      \* mov ecx,[ebp+08]
     path_c1_vt5 |-> [at |-> 3, count |-> 2]]           \* mov eax,[ecx]; call [eax+14]
HandlerSites == [mho_480450 |-> [at |-> 1, count |-> 3]]  \* push ebp; mov ebp,esp; mov eax,[1E100B4]
ClientSites == [client_log |-> [at |-> 4, count |-> 2]]   \* mov esp,ebp; pop ebp; ret 0Ch
Site ==
    [f \in UNION {DOMAIN CryGameSites, DOMAIN HandlerSites, DOMAIN ClientSites} |->
        IF f \in DOMAIN CryGameSites THEN CryGameSites[f]
        ELSE IF f \in DOMAIN HandlerSites THEN HandlerSites[f]
        ELSE ClientSites[f]]

AtSite == fn \in DOMAIN Site /\ pc = Site[fn].at
PastStolen == pc = Site[fn].at + Site[fn].count
Stolen(f) == {Code[f][Site[f].at + i] : i \in 0 .. Site[f].count - 1}

Modules == {ModuleOf[f] : f \in DOMAIN ModuleOf}

(* Hooks are installed in modules that are loaded. *)
ASSUME ModulesAssumption ==
    /\ DOMAIN Site \subseteq Fns \ {Main} /\ Fns \subseteq DOMAIN ModuleOf
    /\ {ModuleOf[f] : f \in DOMAIN Site \cup {Main}} \subseteq Loaded
    /\ Loaded \subseteq Modules
    /\ MaxFrames \in Nat \ {0}

Within(m, a) == Base[m] <= a /\ a < Base[m] + Image[m]

(* Modules do not overlap each other or what VirtualAlloc returns. *)
ASSUME AddressAssumption ==
    /\ \A m \in Modules : Base[m] \in Nat /\ Image[m] \in Nat
    /\ \A f \in Fns : Address[f] \in Nat /\ Within(ModuleOf[f], Address[f])
    /\ \A m, n \in Modules : m # n => Base[m] + Image[m] <= Base[n] \/ Base[n] + Image[n] <= Base[m]
    /\ \A f \in DOMAIN Site : TrampolineAt[f] \in Nat /\ \A m \in Modules : ~Within(m, TrampolineAt[f])

(* The stolen bytes are those of the module at its preferred base: an      *)
(* absolute address among them is wrong anywhere else.                     *)
ASSUME BytesAssumption ==
    \A f \in DOMAIN Site : "global" \in Stolen(f) => ModuleOf[f] \notin Relocated

(* The functions are those of the tables: no stolen instruction is "body", *)
(* which stands for the rest of a function, and each has its prologue.     *)
ASSUME StolenAssumption == \A f \in DOMAIN Site : "body" \notin Stolen(f) /\ KeepsFrame(f)

(* The modules of a walk's list, in the order in which it looks an address *)
(* up, each with the window it is taken for (format_module_offset,         *)
(* g_modules).                                                             *)
Win(m, s) == [name |-> m, span |-> s]
SmallWins == <<Win("tp", 64), Win("ph", 64), Win("msvcr", 64), Win("ntdll", 64), Win("k32", 64)>>
CryGameWins == <<Win("cry", 512), Win("mho", 512)>> \o SmallWins
HandlerWins == <<Win("mho", 512), Win("cry", 576), Win("cact", 400), Win("csys", 128)>> \o SmallWins
Wins == [CmdDispatchSwitch |-> CryGameWins, mho_480450 |-> HandlerWins]

(* The sites whose callback logs a walk, after the address to return to.   *)
Walks == DOMAIN Wins
Listed(w) == {Wins[w][i].name : i \in DOMAIN Wins[w]}

NoReport == [site |-> Main, ret |-> NoFrame, chain |-> <<>>, names |-> <<>>, seen |-> Nothing]

HookedInit ==
    /\ Init
    /\ where = "code"
    /\ loaded = Loaded
    /\ bases = [w \in Walks |-> IF w = "CmdDispatchSwitch" THEN Loaded \cap Listed(w) ELSE {}]
    /\ report = NoReport

-----------------------------------------------------------------------------
(* The client's own code, and its loader.                                  *)

(* Where a branch leads: an address to return to may be in a trampoline,   *)
(* before the stolen instructions that follow the call.                    *)
Branch ==
    /\ ModuleOf[fn'] \in loaded
    /\ where' = IF Instruction = "ret" /\ Top.kind = "tramp" THEN "stolen" ELSE "code"

(* A method of the stub removes what it takes for its arguments.           *)
CallStub ==
    /\ Instruction = "tersafe"
    /\ \E slot \in DOMAIN Pushed : \E arg \in Uins \cup {BlankUser} :
        /\ stack' = IF Removed(slot) > Pushed[slot] THEN Pop(Removed(slot) - Pushed[slot])
                    ELSE stack \o [i \in 1 .. Pushed[slot] - Removed(slot) |-> Arg(arg)]
        /\ vol' = Answer(slot)
        /\ uin' = UserAfter(slot, arg, uin)
    /\ Goto(fn, pc + 1)
    /\ UNCHANGED ebp

RunCode ==
    /\ where = "code"
    /\ ~AtSite
    /\ Execute("ret", "variable") \/ CallStub
    /\ Branch
    /\ UNCHANGED <<loaded, bases, report>>

LoadModule(m) ==
    /\ m \notin loaded
    /\ loaded' = loaded \cup {m}
    /\ UNCHANGED <<client, where, bases, report>>

(* The jump at the site. *)
Jump ==
    /\ where = "code"
    /\ AtSite
    /\ where' = "pushad"
    /\ UNCHANGED <<client, loaded, bases, report>>

-----------------------------------------------------------------------------
(* The trampoline.  pushad pushes eax ecx edx ebx esp ebp esi edi; vol     *)
(* stands for eax, ecx and edx.                                            *)

Saved(v) == [Dword("reg", Main, 0) EXCEPT !.of = v]
Pushad ==
    /\ where = "pushad"
    /\ stack' = stack \o <<Saved(vol), Saved(vol), Saved(vol), Saved("ebx"), Saved("esp"),
                           ebp, Saved("esi"), Saved("edi")>>
    /\ where' = "lea"
    /\ UNCHANGED <<ebp, vol, fn, pc, uin, loaded, bases, report>>

(* lea eax,[esp]; push eax; mov eax,callback. *)
PushContext ==
    /\ where = "lea"
    /\ stack' = Append(stack, Dword("context", Main, Len(stack)))
    /\ vol' = "junk"
    /\ where' = "call"
    /\ UNCHANGED <<ebp, fn, pc, uin, loaded, bases, report>>

CallCallback ==
    /\ where = "call"
    /\ stack' = Append(stack, Dword("back", Main, 0))
    /\ where' = "callback"
    /\ UNCHANGED <<ebp, vol, fn, pc, uin, loaded, bases, report>>

(* HookContext is laid out as pushad leaves the registers; hook_stack is   *)
(* the stack below it.  Mutation: its size is off by one.                  *)
Context == stack[Len(stack) - 1].n
ContextEbp == stack[Context - 2]
HookStackOff(k) == stack[Context - 9 - k]
HookStack(k) == stack[Context - 8 - k]

(* What the walk reads at a frame pointer: in the thread's own stack, what *)
(* is there; above it, anything.                                           *)
InStack(e) == e.kind \in {"frame", "local"}
SavedEbpAt(e) == IF InStack(e) THEN stack[e.n] ELSE Heap
ReturnAbove(e) == IF InStack(e) /\ e.n > 1 THEN stack[e.n - 1] ELSE Heap

(* The walk logs what is no less than 64 K, a return address or not.  What *)
(* an unknown value is at step i of the walk, likely decides.              *)
Visit(e, i, likely) ==
    LET ret == ReturnAbove(e).kind IN
    IF e.kind # "none" /\ ret # "none" /\ (ret \in {"arg", "heap"} => i \in likely) THEN e ELSE NoFrame

(* It goes on while the saved frame pointer grows upward.  A code address  *)
(* or an argument may be above the stack.                                  *)
NextFrame(e) ==
    LET saved == SavedEbpAt(e) IN
    IF e.kind = "none" \/ saved.kind = "none" THEN NoFrame
    ELSE IF ~InStack(saved) THEN Heap
    ELSE IF saved.n < e.n THEN saved ELSE NoFrame

Frames(start, likely) ==
    LET frame[i \in 1 .. MaxFrames] ==
            Visit(IF i = 1 THEN start ELSE NextFrame(frame[i - 1]), i, likely)
    IN frame
Walked(start, likely) ==
    LET frame == Frames(start, likely)
        visited == {i \in 1 .. MaxFrames : frame[i].kind # "none"}
    IN  [i \in 1 .. Cardinality(visited) |-> ReturnAbove(frame[i])]
Walk(likely) == IF fn \in Walks THEN <<HookStack(0)>> \o Walked(ContextEbp, likely) ELSE <<>>

(* Bases not known yet are looked up at every walk.  Mutation: at the      *)
(* first one only.                                                         *)
LookUp(w) == [bases EXCEPT ![w] = @ \cup (loaded \cap Listed(w))]
RefreshOnce == IF fn \in Walks /\ bases[fn] = {} THEN LookUp(fn) ELSE bases
Refresh == IF fn \in Walks THEN LookUp(fn) ELSE bases

(* The first window of the list that holds the address.                    *)
AddressOf(ret) == IF ret.kind = "tramp" THEN TrampolineAt[ret.of] ELSE Address[ret.of]
Holds(win, a) == Base[win.name] <= a /\ a < Base[win.name] + win.span
Format(ret) ==
    LET wins == Wins[fn]
        holding == {i \in DOMAIN wins : wins[i].name \in Refresh[fn] /\ Holds(wins[i], AddressOf(ret))}
    IN  IF holding = {} THEN "?" ELSE wins[Min(holding)].name
Named(chain) == [i \in {j \in DOMAIN chain : chain[j].kind \in Returns} |-> Format(chain[i])]

(* The address to return to: what is at the top of the stack, or above the *)
(* saved ebp where the callback takes it from there.                       *)
LogsReturn == Walks \cup {"register_handler", "path_c1_vt5", "monster_ai_skill"}
LoggedReturn ==
    IF fn = "monster_ai_skill" THEN stack[ContextEbp.n - 1]
    ELSE IF fn \in LogsReturn THEN HookStack(0) ELSE NoFrame

(* The arguments: behind the address to return to, and behind the saved    *)
(* ebp too where the hook sits behind its push.                            *)
Observed(readable) ==
    CASE fn = "CmdDispatchSwitch" -> ObservePacket(HookStack(1).n, readable, {641, 648, 651})
      [] fn = "log_notification" -> ObserveNotification("game", HookStack(2).n)
      [] OTHER -> Nothing

(* The callback returns, and the registers that it may change have. *)
Callback ==
    /\ where = "callback"
    /\ \E likely \in SUBSET (1 .. MaxFrames), readable \in BOOLEAN :
        report' = [site |-> fn, ret |-> LoggedReturn, chain |-> Walk(likely),
                   names |-> Named(Walk(likely)), seen |-> Observed(readable)]
    /\ bases' = Refresh
    /\ stack' = Pop(1)
    /\ vol' = "junk"
    /\ where' = "drop"
    /\ UNCHANGED <<ebp, fn, pc, uin, loaded>>

(* add esp,4.  Mutation: the callback is taken to remove its argument.     *)
DropNothing == 0
Dropped == 1
Drop ==
    /\ where = "drop"
    /\ stack' = Pop(Dropped)
    /\ report' = NoReport
    /\ where' = "popad"
    /\ UNCHANGED <<ebp, vol, fn, pc, uin, loaded, bases>>

(* Mutation: popad takes the frame pointer from the slot of esp.           *)
SavedEbpSwapped == stack[Len(stack) - 3]
SavedEbp == stack[Len(stack) - 2]
Popad ==
    /\ where = "popad"
    /\ ebp' = SavedEbp
    /\ vol' = stack[Len(stack) - 7].of
    /\ stack' = Pop(8)
    /\ where' = "stolen"
    /\ UNCHANGED <<fn, pc, uin, loaded, bases, report>>

(* A stolen instruction. *)
RunStolen ==
    /\ where = "stolen"
    /\ ~PastStolen
    /\ Execute("tramp", IF ModuleOf[fn] \in Relocated THEN "stray" ELSE "variable")
    /\ IF Instruction \in {"call", "ret"} THEN Branch ELSE UNCHANGED where
    /\ UNCHANGED <<loaded, bases, report>>

(* The jump back. *)
JumpBack ==
    /\ where = "stolen"
    /\ PastStolen
    /\ where' = "code"
    /\ UNCHANGED <<client, loaded, bases, report>>

Trampoline == Pushad \/ PushContext \/ CallCallback \/ Callback \/ Drop \/ Popad \/ RunStolen \/ JumpBack

HookedNext == RunCode \/ Jump \/ Trampoline \/ \E m \in Modules : LoadModule(m)

HookedSpec == HookedInit /\ [][HookedNext]_vars

-----------------------------------------------------------------------------
(* What the client's thread would have without the trampoline's dwords.    *)

Own == [w \in {"code", "stolen", "pushad", "lea", "call", "callback", "drop", "popad"} |->
            CASE w \in {"lea", "popad"} -> 8
              [] w \in {"call", "drop"} -> 9
              [] w = "callback" -> 10
              [] OTHER -> 0]

AsReturn(d) == IF d.kind = "tramp" THEN [d EXCEPT !.kind = "ret"] ELSE d
PlainStack == [i \in 1 .. Len(stack) - Own[where] |-> AsReturn(stack[i])]
PlainVol == IF Own[where] > 0 THEN stack[Len(stack) - Own[where] + 1].of ELSE vol

(* The types of the variables: a frame pointer refers to an element of the *)
(* stack that holds a frame pointer, and the callback's frame is complete. *)
Values == {"start", "variable", "stray", "computed", "args", "result", "one", "zero", "junk"}
Dwords == [kind : {"frame", "none", "heap", "local", "arg", "ret", "tramp", "reg", "context", "back"},
           of : Fns \cup Values \cup {"ebx", "esp", "esi", "edi"}, n : Nat]
TypeOK ==
    /\ \A i \in DOMAIN stack : stack[i] \in Dwords
    /\ \A e \in {ebp} \cup {stack[i] : i \in DOMAIN stack} :
        e.kind = "frame" => e.n \in DOMAIN stack /\ stack[e.n].kind \in {"frame", "none", "heap", "local"}
    /\ fn \in Fns /\ pc \in 1 .. Len(Code[fn]) + 1
    /\ where \in DOMAIN Own
    /\ Loaded \subseteq loaded /\ loaded \subseteq Modules /\ bases \in [Walks -> SUBSET loaded]
    /\ vol \in Values /\ uin \in Uins \cup {0}

(* The client does not notice the hooks or the stub (hook_table.h,         *)
(* generate_trampoline): wherever its thread is interrupted, in a          *)
(* trampoline within a trampoline's call too, stack, frame pointer and     *)
(* registers evolve as in the unhooked client.                             *)
Plain == INSTANCE PlainClient WITH stack <- PlainStack, vol <- PlainVol
SameAsUnhooked == Plain!Spec

(* Where the addresses to return to are, for a reader who sees it all.     *)
CallersAt == {i \in DOMAIN PlainStack : PlainStack[i].kind = "ret"}

(* What a callback logs by itself as the return address is that of the     *)
(* caller where the site is the first instruction of its function, and     *)
(* where on_monster_ai_skill takes it from the frame; at the two sites     *)
(* behind push ebp it is not (on_register_handler, on_path_c1_vt5_call).   *)
(*                                                                         *)
(* A logged walk starts with the true caller and names true callers, in    *)
(* order, until it has passed a function that uses ebp for data; then it   *)
(* may name anything (log_backtrace, log_caller_stack).  It skips          *)
(* functions that keep no frame, and none before its last if all do.       *)
UsesEbpForData(f) == PushesEbp(f) /\ ~KeepsFrame(f)
AllKeepFrames == \A c \in CallersAt : PlainStack[c].of = Main \/ KeepsFrame(PlainStack[c].of)
TrueUpTo(chain, k, at) ==
    /\ \A i \in 1 .. k : AsReturn(chain[i]) = PlainStack[at[i]]
    /\ \A i, j \in 1 .. k : i < j => at[j] < at[i]
    /\ at[1] = Max(CallersAt)
    /\ k < Len(chain) => \E c \in CallersAt : c <= at[k] /\ UsesEbpForData(PlainStack[c].of)
    /\ AllKeepFrames => \A c \in CallersAt :
            (\E i \in 1 .. k : c = at[i]) \/ (k = MaxFrames + 1 /\ \A i \in 1 .. k : c < at[i])
CallersReported ==
    /\ report.site \in LogsReturn =>
        (AsReturn(report.ret) = PlainStack[Max(CallersAt)] <=> report.site \in Walks \cup {"monster_ai_skill"})
    /\ report.chain # <<>> =>
        \E k \in DOMAIN report.chain : \E at \in [1 .. k -> CallersAt] : TrueUpTo(report.chain, k, at)

(* An address in a walk is named for the module it is in, of one that was  *)
(* loaded after the hooks were installed or after the last walk too        *)
(* (refresh_backtrace_modules), unless no window of the list is the        *)
(* module's own and holds it, or it is behind another module's image and   *)
(* in that one's window, which comes earlier in the list                   *)
(* (format_module_offset, format_addr).                                    *)
OwnWins(ret, wins) ==
    {i \in DOMAIN wins : /\ ret.kind = "ret" /\ wins[i].name = ModuleOf[ret.of]
                         /\ Holds(wins[i], AddressOf(ret))}
NamesTheModule ==
    \A i \in DOMAIN report.names :
        LET ret == report.chain[i]
            name == report.names[i]
            wins == Wins[report.site]
            own == OwnWins(ret, wins)
        IN  \/ name = "?" /\ own = {}
            \/ name = ModuleOf[ret.of] /\ own # {}
            \/ \E j \in DOMAIN wins :
                /\ name = wins[j].name /\ \A k \in own : j < k
                /\ Holds(wins[j], AddressOf(ret)) /\ ~Within(name, AddressOf(ret))

(* A spawn packet is reported under the name and the list of its own       *)
(* command, with hooks of our own on the stubs (on_cmd_dispatch_switch,    *)
(* path_b_resolve); every command of the switch resolves to its own list,  *)
(* and every member of the enumerations has a name, in both encodings of a *)
(* game event.                                                             *)
OwnList(cmd) == IF cmd \in Cases THEN cmd ELSE Unknown
TablesAgree ==
    /\ \A cmd \in 0 .. 1300 : Resolve(cmd, {641, 648, 651}) = OwnList(cmd)
    /\ \A id \in GameEvents : ObserveNotification("game", id).name = id
    /\ \A e \in FloatEvents : ObserveNotification("game", e[2]).name = e[1]
    /\ \A id \in LogicEvents : ObserveNotification("logic", id).name = id
ObservesTruly ==
    /\ TablesAgree
    /\ report.seen # Nothing /\ report.site = "CmdDispatchSwitch" =>
        LET packet == PlainStack[Len(PlainStack) - 1].n IN
        report.seen = [name |-> packet, list |-> OwnList(packet)]

=============================================================================
