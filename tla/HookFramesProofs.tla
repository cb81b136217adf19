-------------------------- MODULE HookFramesProofs --------------------------
(***************************************************************************)
(* For any client, compiled as CompiledAssumption says, and any modules:   *)
(* the hooks and the stub of TerSafe leave no trace in the client's stack, *)
(* frame pointer and registers, and what the callbacks log of callers,     *)
(* modules and commands is true as far as CallersReported, NamesTheModule  *)
(* and ObservesTruly say.                                                  *)
(*                                                                         *)
(* The stack parses into activations (Parsed), a frame pointer refers to a *)
(* saved one further down (Linked), and a function finds its own again     *)
(* when a call returns (Kept).  Data in ebp, or in a saved one, comes from *)
(* a function below that uses ebp for data (DInv).  A trampoline takes off *)
(* what it has laid on top (InTrampoline).  A walk then descends from      *)
(* caller to caller until it has passed such a function, and by Kept it    *)
(* passes none that keeps a frame.                                         *)
(***************************************************************************)
EXTENDS HookFrames, FiniteSetTheorems, SequenceTheorems, WellFoundedInduction, TLAPS

-----------------------------------------------------------------------------
(* The shape of a stack s of b dwords, below those of a trampoline, when   *)
(* ebp is e, the thread is at instruction k of f, and the modules m are    *)
(* loaded.                                                                 *)

SavedKinds == {"frame", "none", "heap", "local"}
SavedAt(s, i) == s[i].kind \in SavedKinds
ReturnAt(s, i) == s[i].kind \in Returns

(* Where a function has pushed ebp, and where ebp refers to its frame. *)
HasPushed(f, k) == PushesEbp(f) /\ k \in 2 .. Len(Code[f]) - 1
HasFrame(f, k) == KeepsFrame(f) /\ k \in 3 .. Len(Code[f]) - 1

(* In a trampoline of f, before its instruction k or behind the last.      *)
InStolen(f, k) == f \in DOMAIN Site /\ k \in Site[f].at .. Site[f].at + Site[f].count

(* What lies on top of the first p dwords. *)
OnTop(s, p, f, k) ==
    IF HasPushed(f, k) THEN p > 0 /\ SavedAt(s, p)
    ELSE IF f = Main THEN p = 0
    ELSE p > 0 /\ ReturnAt(s, p)

(* Activations, from the bottom of the stack: an argument, the address to  *)
(* return to, and the ebp of the caller if the function has pushed it.     *)
ReturnOK(s, i, m) ==
    /\ i > 1 /\ s[i - 1].kind = "arg"
    /\ s[i].of \in Fns /\ s[i].n \in 1 .. Len(Code[s[i].of])
    /\ OnTop(s, i - 2, s[i].of, s[i].n)
    /\ ModuleOf[s[i].of] \in m
    /\ s[i].kind = "tramp" => InStolen(s[i].of, s[i].n)
    /\ KeepsFrame(s[i].of) => HasFrame(s[i].of, s[i].n)

Parsed(s, b, f, k, m) ==
    /\ OnTop(s, b, f, k)
    /\ \A i \in 1 .. b :
        /\ SavedAt(s, i) \/ ReturnAt(s, i) \/ s[i].kind = "arg"
        /\ SavedAt(s, i) => i > 1 /\ ReturnAt(s, i - 1)
        /\ ReturnAt(s, i) => ReturnOK(s, i, m)

(* A frame pointer, saved or not, refers to a saved one further down. *)
LinkOK(s, b, e) == e.kind = "frame" => e.n \in 1 .. b /\ SavedAt(s, e.n)
Linked(s, b, e) ==
    /\ e.kind \in SavedKinds /\ LinkOK(s, b, e)
    /\ \A i \in 1 .. b : LinkOK(s, i - 1, s[i])

(* A function finds its frame pointer again when a call returns: it is the *)
(* first that was saved since, or still in ebp.                            *)
NoneSaved(s, i, j) == \A k \in i .. j : ~SavedAt(s, k)
KeptFrom(s, b, e, i) ==
    /\ \A k \in i + 1 .. b : SavedAt(s, k) /\ NoneSaved(s, i + 1, k - 1) => s[k] = Frame(i - 2)
    /\ NoneSaved(s, i + 1, b) => e = Frame(i - 2)
Kept(s, b, e, f, k) ==
    /\ HasFrame(f, k) => e = Frame(b)
    /\ \A i \in 1 .. b : ReturnAt(s, i) /\ HasFrame(s[i].of, s[i].n) => KeptFrom(s, b, e, i)

Shape(s, b, e, f, k, m) == Parsed(s, b, f, k, m) /\ Linked(s, b, e) /\ Kept(s, b, e, f, k)

-----------------------------------------------------------------------------
(* The invariant.                                                          *)

Body == Len(stack) - Own[where]     \* the client's own dwords

BasesOK(known, there) == there \subseteq Modules /\ known \in [Walks -> SUBSET there]

Typed ==
    /\ stack \in Seq(Dwords) /\ Body \in Nat
    /\ ebp \in Dwords /\ vol \in Values
    /\ fn \in Fns /\ pc \in 1 .. Len(Code[fn])
    /\ where \in DOMAIN Own
    /\ ModuleOf[fn] \in loaded /\ Loaded \subseteq loaded /\ BasesOK(bases, loaded)
    /\ uin \in Uins \cup {0}

(* What a trampoline has pushed. *)
InTrampoline ==
    /\ where \notin {"code", "stolen"} => AtSite
    /\ where = "stolen" => InStolen(fn, pc)
    /\ Own[where] > 0 =>
        /\ stack[Body + 6] = ebp
        /\ stack[Body + 1].kind = "reg" /\ stack[Body + 1].of \in Values
    /\ \A i \in Body + 1 .. Len(stack) : i # Body + 6 => stack[i].kind \in {"reg", "context", "back"}
    /\ Own[where] > 8 => stack[Body + 9] = Dword("context", Main, Body + 8)

HInv == Typed /\ Shape(stack, Body, ebp, fn, pc, loaded) /\ InTrampoline

-----------------------------------------------------------------------------
(* The tables and the operators.                                           *)

LEMMA OwnIs ==
    /\ DOMAIN Own = {"code", "stolen", "pushad", "lea", "call", "callback", "drop", "popad"}
    /\ Own["code"] = 0 /\ Own["stolen"] = 0 /\ Own["pushad"] = 0
    /\ Own["lea"] = 8 /\ Own["popad"] = 8
    /\ Own["call"] = 9 /\ Own["drop"] = 9 /\ Own["callback"] = 10
BY DEF Own

LEMMA OwnNat == \A w \in DOMAIN Own : Own[w] \in Nat
BY OwnIs

LEMMA SiteIs == \A f \in DOMAIN Site : Site[f].at \in Nat \ {0} /\ Site[f].count \in Nat
BY DEF Site, CryGameSites, HandlerSites, ClientSites

LEMMA CodeIs ==
    ASSUME NEW f \in Fns
    PROVE  /\ Code[f] \in Seq(Instructions) /\ Len(Code[f]) \in Nat \ {0}
           /\ \A k \in 1 .. Len(Code[f]) : Code[f][k] \in Instructions
<1>1. Code[f] \in Seq(Instructions) /\ Code[f] # <<>>
  BY CompiledAssumption DEF Compiled
<1>2. Len(Code[f]) \in Nat /\ Len(Code[f]) # 0
  BY <1>1
<1> QED
  BY <1>1, <1>2

LEMMA DwordIs ==
    \A k, f, n : /\ Dword(k, f, n).kind = k /\ Dword(k, f, n).of = f /\ Dword(k, f, n).n = n
BY DEF Dword

LEMMA FrameIsDword ==
    /\ \A n \in Nat : Frame(n) \in Dwords
    /\ NoFrame \in Dwords /\ Heap \in Dwords /\ \A n \in Nat : Local(n) \in Dwords
    /\ \A n \in Nat : Arg(n) \in Dwords
    /\ \A f \in Fns, n \in Nat, k \in Returns : Dword(k, f, n) \in Dwords
<1>1. Main \in Fns
  BY CodeAssumption DEF Fns
<1> QED
  BY <1>1 DEF Frame, NoFrame, Heap, Local, Arg, Dword, Dwords, Returns

(* How an instruction lies in its function. *)
LEMMA EntryPlace == \A f \in Fns : ~HasPushed(f, 1) /\ ~HasFrame(f, 1)
BY DEF HasPushed, HasFrame

LEMMA PushPlace ==
    ASSUME NEW f \in Fns, NEW k \in 1 .. Len(Code[f]), Code[f][k] = "push_ebp"
    PROVE  /\ k = 1 /\ k + 1 \in 1 .. Len(Code[f])
           /\ HasPushed(f, k + 1) /\ ~HasPushed(f, k) /\ ~HasFrame(f, k + 1) /\ f # Main
<1>1. k = 1 /\ Len(Code[f]) \in Nat
  BY CompiledAssumption, CodeIs DEF Compiled
<1>2. PushesEbp(f)
  BY <1>1 DEF PushesEbp
<1>3. f # Main /\ Len(Code[f]) > 2
  BY <1>2, CompiledAssumption DEF Compiled
<1> QED
  BY <1>1, <1>2, <1>3 DEF HasPushed, HasFrame

LEMMA MovPlace ==
    ASSUME NEW f \in Fns, NEW k \in 1 .. Len(Code[f]), Code[f][k] = "mov_ebp"
    PROVE  /\ k = 2 /\ k + 1 \in 1 .. Len(Code[f])
           /\ HasPushed(f, k) /\ HasPushed(f, k + 1) /\ HasFrame(f, k + 1)
<1>1. k = 2 /\ PushesEbp(f) /\ Len(Code[f]) \in Nat
  BY CompiledAssumption, CodeIs DEF Compiled
<1>2. Len(Code[f]) > 2 /\ Code[f][Len(Code[f]) - 1] \in {"pop_ebp", "leave"}
  BY <1>1, CompiledAssumption DEF Compiled
<1>3. Len(Code[f]) - 1 # 2
  BY <1>1, <1>2
<1> QED
  BY <1>1, <1>2, <1>3 DEF HasPushed, HasFrame, KeepsFrame

(* Between the first instructions and the last ones. *)
LEMMA InnerPlace ==
    ASSUME NEW f \in Fns, NEW k \in 1 .. Len(Code[f]), PushesEbp(f),
           Code[f][k] \notin {"push_ebp", "pop_ebp", "leave", "ret"}
    PROVE  k \in 2 .. Len(Code[f]) - 2
<1>1. /\ Len(Code[f]) \in Nat /\ Len(Code[f]) > 2 /\ f # Main
      /\ Code[f][Len(Code[f]) - 1] \in {"pop_ebp", "leave"}
      /\ Code[f][Len(Code[f])] = "ret"
  BY CompiledAssumption, CodeIs DEF Compiled
<1>2. Code[f][1] = "push_ebp"
  BY DEF PushesEbp
<1>3. k # 1 /\ k # Len(Code[f]) /\ k # Len(Code[f]) - 1
  BY <1>1, <1>2
<1> QED
  BY <1>1, <1>3

LEMMA ScratchPlace ==
    ASSUME NEW f \in Fns, NEW k \in 1 .. Len(Code[f]), Code[f][k] = "scratch"
    PROVE  /\ k + 1 \in 1 .. Len(Code[f])
           /\ HasPushed(f, k) /\ HasPushed(f, k + 1) /\ ~HasFrame(f, k + 1)
           /\ ~KeepsFrame(f)
<1>1. PushesEbp(f) /\ ~KeepsFrame(f) /\ Len(Code[f]) \in Nat
  BY CompiledAssumption, CodeIs DEF Compiled
<1>2. k \in 2 .. Len(Code[f]) - 2
  BY <1>1, InnerPlace
<1> QED
  BY <1>1, <1>2 DEF HasPushed, HasFrame

LEMMA PopPlace ==
    ASSUME NEW f \in Fns, NEW k \in 1 .. Len(Code[f]), Code[f][k] \in {"pop_ebp", "leave"}
    PROVE  /\ k + 1 \in 1 .. Len(Code[f]) /\ f # Main
           /\ HasPushed(f, k) /\ ~HasPushed(f, k + 1) /\ ~HasFrame(f, k + 1)
           /\ Code[f][k] = "leave" => HasFrame(f, k)
<1>1. k = Len(Code[f]) - 1 /\ PushesEbp(f) /\ Len(Code[f]) \in Nat
  BY CompiledAssumption, CodeIs DEF Compiled, KeepsFrame
<1>2. f # Main /\ Len(Code[f]) > 2
  BY <1>1, CompiledAssumption DEF Compiled
<1>3. Code[f][k] = "leave" => KeepsFrame(f) /\ k # 2
  BY CompiledAssumption DEF Compiled, KeepsFrame
<1>4. k + 1 = Len(Code[f]) /\ k >= 2 /\ k \in Nat
  BY <1>1, <1>2
<1>5. HasPushed(f, k) /\ ~HasPushed(f, k + 1) /\ ~HasFrame(f, k + 1)
  BY <1>1, <1>4 DEF HasPushed, HasFrame
<1>6. Code[f][k] = "leave" => HasFrame(f, k)
  <2>1. k # 2 => k \in 3 .. k
    BY <1>4
  <2>2. k = Len(Code[f]) - 1
    BY <1>1
  <2> QED
    BY <1>3, <2>1, <2>2 DEF HasFrame
<1> QED
  BY <1>1, <1>2, <1>4, <1>5, <1>6

LEMMA QuietPlace ==
    ASSUME NEW f \in Fns, NEW k \in 1 .. Len(Code[f]),
           Code[f][k] \in {"load", "global", "call", "tersafe", "body"},
           Code[f][k] = "body" => f # Main
    PROVE  /\ k + 1 \in 1 .. Len(Code[f])
           /\ HasPushed(f, k + 1) = HasPushed(f, k)
           /\ HasFrame(f, k + 1) = HasFrame(f, k)
<1>1. Len(Code[f]) \in Nat /\ Code[f][Len(Code[f])] = IF f = Main THEN "body" ELSE "ret"
  BY CompiledAssumption, CodeIs DEF Compiled
<1>2. k # Len(Code[f])
  BY <1>1
<1>3. CASE ~PushesEbp(f)
  BY <1>1, <1>2, <1>3 DEF HasPushed, HasFrame, KeepsFrame
<1>4. CASE PushesEbp(f)
  <2>1. k \in 2 .. Len(Code[f]) - 2
    BY <1>4, InnerPlace
  <2>2. KeepsFrame(f) => k # 2
    BY DEF KeepsFrame
  <2> QED
    BY <1>1, <1>4, <2>1, <2>2 DEF HasPushed, HasFrame
<1> QED
  BY <1>3, <1>4

LEMMA RetPlace ==
    ASSUME NEW f \in Fns, NEW k \in 1 .. Len(Code[f]), Code[f][k] = "ret"
    PROVE  f # Main /\ ~HasPushed(f, k)
<1>1. k = Len(Code[f]) /\ Len(Code[f]) \in Nat /\ Code[f][Len(Code[f])] = IF f = Main THEN "body" ELSE "ret"
  BY CompiledAssumption, CodeIs DEF Compiled
<1> QED
  BY <1>1 DEF HasPushed

LEMMA CallPlace ==
    ASSUME NEW f \in Fns, NEW k \in 1 .. Len(Code[f]), Code[f][k] \in {"body", "call"},
           KeepsFrame(f), NEW l \in {k, k + 1}
    PROVE  HasFrame(f, l)
<1>1. k \in 2 .. Len(Code[f]) - 2 /\ Len(Code[f]) \in Nat
  BY CodeIs, InnerPlace DEF KeepsFrame
<1>2. k # 2
  BY DEF KeepsFrame
<1> QED
  BY <1>1, <1>2 DEF HasFrame

-----------------------------------------------------------------------------
(* What the instructions of the client do to the shape of the stack.       *)

LEMMA KindsDiffer ==
    \A s, i : /\ ~(SavedAt(s, i) /\ ReturnAt(s, i))
              /\ s[i].kind = "arg" => ~SavedAt(s, i) /\ ~ReturnAt(s, i)
BY DEF SavedAt, ReturnAt, SavedKinds, Returns

(* The first b dwords decide what lies among them. *)
Preserved(s, t, b) ==
    /\ \A i \in 1 .. b : SavedAt(t, i) = SavedAt(s, i) /\ ReturnAt(t, i) = ReturnAt(s, i)
    /\ \A f, k : \A p \in Int : p <= b /\ OnTop(s, p, f, k) => OnTop(t, p, f, k)
    /\ \A m : \A i \in 1 .. b : ReturnOK(s, i, m) => ReturnOK(t, i, m)
    /\ \A e : \A p \in Int : p <= b /\ LinkOK(s, p, e) => LinkOK(t, p, e)
    /\ \A i \in Nat, j \in Int : j <= b /\ NoneSaved(t, i + 1, j) => NoneSaved(s, i + 1, j)

LEMMA SameBelow ==
    ASSUME NEW s, NEW t, NEW b \in Nat, \A i \in 1 .. b : t[i] = s[i]
    PROVE  Preserved(s, t, b)
<1>1. \A i \in 1 .. b : SavedAt(t, i) = SavedAt(s, i) /\ ReturnAt(t, i) = ReturnAt(s, i)
  BY DEF SavedAt, ReturnAt
<1>2. ASSUME NEW p \in Int, NEW f, NEW k, p <= b, OnTop(s, p, f, k) PROVE OnTop(t, p, f, k)
  <2>1. p > 0 => p \in 1 .. b
    BY <1>2
  <2> QED
    BY <1>1, <1>2, <2>1 DEF OnTop
<1>3. ASSUME NEW i \in 1 .. b, NEW m, ReturnOK(s, i, m) PROVE ReturnOK(t, i, m)
  <2>1. i > 1 /\ i - 1 \in 1 .. b /\ i - 2 \in Int /\ i - 2 <= b
    BY <1>3 DEF ReturnOK
  <2>2. t[i] = s[i] /\ t[i - 1] = s[i - 1]
    BY <2>1
  <2>3. OnTop(t, i - 2, s[i].of, s[i].n)
    BY <1>2, <1>3, <2>1 DEF ReturnOK
  <2> QED
    BY <1>3, <2>2, <2>3 DEF ReturnOK
<1>4. ASSUME NEW p \in Int, NEW e, p <= b, LinkOK(s, p, e) PROVE LinkOK(t, p, e)
  <2>1. \A n \in 1 .. p : n \in 1 .. b
    BY <1>4
  <2> QED
    BY <1>1, <1>4, <2>1 DEF LinkOK
<1>5. ASSUME NEW i \in Nat, NEW j \in Int, j <= b, NoneSaved(t, i + 1, j) PROVE NoneSaved(s, i + 1, j)
  <2>1. \A k \in i + 1 .. j : k \in 1 .. b
    BY <1>5
  <2> QED
    BY <1>1, <1>5, <2>1 DEF NoneSaved
<1> QED
  BY <1>1, <1>2, <1>3, <1>4, <1>5 DEF Preserved

(* ebp is pushed. *)
LEMMA PushShape ==
    ASSUME NEW s, NEW b \in Nat, NEW e, NEW f, NEW k, NEW m, Shape(s, b, e, f, k, m),
           NEW t, \A i \in 1 .. b : t[i] = s[i], t[b + 1] = e,
           f # Main, ~HasPushed(f, k), NEW l, HasPushed(f, l), ~HasFrame(f, l)
    PROVE  Shape(t, b + 1, e, f, l, m)
<1>1. Preserved(s, t, b)
  BY SameBelow
<1>2. SavedAt(t, b + 1) /\ ~ReturnAt(t, b + 1)
  BY KindsDiffer DEF Shape, Linked, SavedAt
<1>3. b > 0 /\ ReturnAt(s, b) /\ ReturnAt(t, b)
  BY <1>1 DEF Shape, Parsed, OnTop, Preserved
<1>4. \A i \in 1 .. b + 1 : i \in 1 .. b \/ i = b + 1
  OBVIOUS
<1>5. Parsed(t, b + 1, f, l, m)
  <2>1. OnTop(t, b + 1, f, l)
    BY <1>2 DEF OnTop
  <2>2. ASSUME NEW i \in 1 .. b
        PROVE  /\ SavedAt(t, i) \/ ReturnAt(t, i) \/ t[i].kind = "arg"
               /\ SavedAt(t, i) => i > 1 /\ ReturnAt(t, i - 1)
               /\ ReturnAt(t, i) => ReturnOK(t, i, m)
    <3>1. /\ SavedAt(s, i) \/ ReturnAt(s, i) \/ s[i].kind = "arg"
          /\ SavedAt(s, i) => i > 1 /\ ReturnAt(s, i - 1)
          /\ ReturnAt(s, i) => ReturnOK(s, i, m)
      BY DEF Shape, Parsed
    <3>2. i > 1 => i - 1 \in 1 .. b
      OBVIOUS
    <3> QED
      BY <3>1, <3>2, <1>1 DEF Preserved
  <2>3. /\ SavedAt(t, b + 1)
        /\ b + 1 > 1 /\ ReturnAt(t, (b + 1) - 1)
    BY <1>2, <1>3
  <2> QED
    BY <1>2, <1>4, <2>1, <2>2, <2>3 DEF Parsed
<1>6. Linked(t, b + 1, e)
  <2>1. e.kind \in SavedKinds /\ LinkOK(s, b, e)
    BY DEF Shape, Linked
  <2>2. LinkOK(t, b, e)
    BY <2>1, <1>1 DEF Preserved
  <2>3. LinkOK(t, b + 1, e)
    BY <2>2 DEF LinkOK
  <2>4. ASSUME NEW i \in 1 .. b PROVE LinkOK(t, i - 1, t[i])
    <3>1. LinkOK(s, i - 1, s[i]) /\ i - 1 \in Int /\ i - 1 <= b
      BY DEF Shape, Linked
    <3> QED
      BY <3>1, <1>1 DEF Preserved
  <2>5. LinkOK(t, (b + 1) - 1, t[b + 1])
    BY <2>2
  <2> QED
    BY <1>4, <2>1, <2>3, <2>4, <2>5 DEF Linked
<1>7. Kept(t, b + 1, e, f, l)
  <2> SUFFICES ASSUME NEW i \in 1 .. b + 1, ReturnAt(t, i), HasFrame(t[i].of, t[i].n)
               PROVE  KeptFrom(t, b + 1, e, i)
    BY DEF Kept
  <2>1. i \in 1 .. b /\ ReturnAt(s, i) /\ HasFrame(s[i].of, s[i].n)
    BY <1>2, <1>4, <1>1 DEF Preserved
  <2>2. KeptFrom(s, b, e, i)
    BY <2>1 DEF Shape, Kept
  <2>3. ASSUME NEW j \in i + 1 .. b + 1, SavedAt(t, j), NoneSaved(t, i + 1, j - 1)
        PROVE  t[j] = Frame(i - 2)
    <3>1. NoneSaved(s, i + 1, j - 1)
      BY <2>3, <1>1 DEF Preserved
    <3>2. CASE j \in i + 1 .. b
      <4>1. SavedAt(s, j) /\ t[j] = s[j]
        BY <3>2, <2>3, <2>1, <1>1 DEF Preserved
      <4> QED
        BY <4>1, <3>1, <3>2, <2>2 DEF KeptFrom
    <3>3. CASE j = b + 1
      <4>1. j - 1 = b
        BY <3>3
      <4> QED
        BY <3>1, <3>3, <4>1, <2>2 DEF KeptFrom
    <3> QED
      BY <3>2, <3>3
  <2>4. ~NoneSaved(t, i + 1, b + 1)
    <3>1. b + 1 \in i + 1 .. b + 1
      BY <2>1
    <3> QED
      BY <1>2, <3>1 DEF NoneSaved
  <2> QED
    BY <2>3, <2>4 DEF KeptFrom
<1> QED
  BY <1>5, <1>6, <1>7 DEF Shape

(* The thread moves on and neither pushes nor pops. *)
LEMMA QuietShape ==
    ASSUME NEW s, NEW b \in Nat, NEW e, NEW f, NEW k, NEW m, Shape(s, b, e, f, k, m),
           NEW l, HasPushed(f, l) = HasPushed(f, k), HasFrame(f, l) = HasFrame(f, k)
    PROVE  Shape(s, b, e, f, l, m)
<1>1. Parsed(s, b, f, l, m)
  BY DEF Shape, Parsed, OnTop
<1>2. Kept(s, b, e, f, l)
  BY DEF Shape, Kept
<1> QED
  BY <1>1, <1>2 DEF Shape

(* ebp is given another value while the old one is on the stack. *)
LEMMA SetShape ==
    ASSUME NEW s, NEW b \in Nat, NEW e, NEW f, NEW k, NEW m, Shape(s, b, e, f, k, m),
           NEW g, g.kind \in SavedKinds, LinkOK(s, b, g),
           HasPushed(f, k), NEW l, HasPushed(f, l), HasFrame(f, l) => g = Frame(b)
    PROVE  Shape(s, b, g, f, l, m)
<1>1. b > 0 /\ SavedAt(s, b)
  BY DEF Shape, Parsed, OnTop
<1>2. Parsed(s, b, f, l, m)
  BY DEF Shape, Parsed, OnTop
<1>3. Linked(s, b, g)
  BY DEF Shape, Linked
<1>4. Kept(s, b, g, f, l)
  <2> SUFFICES ASSUME NEW i \in 1 .. b, ReturnAt(s, i), HasFrame(s[i].of, s[i].n)
               PROVE  KeptFrom(s, b, g, i)
    BY DEF Kept
  <2>1. i # b
    BY <1>1, KindsDiffer
  <2>2. ~NoneSaved(s, i + 1, b)
    <3>1. b \in i + 1 .. b
      BY <2>1
    <3> QED
      BY <1>1, <3>1 DEF NoneSaved
  <2>3. KeptFrom(s, b, e, i)
    BY DEF Shape, Kept
  <2> QED
    BY <2>2, <2>3 DEF KeptFrom
<1> QED
  BY <1>2, <1>3, <1>4 DEF Shape

(* The saved ebp is popped. *)
LEMMA PopShape ==
    ASSUME NEW s, NEW b \in Nat, NEW e, NEW f, NEW k, NEW m, Shape(s, b, e, f, k, m),
           HasPushed(f, k), NEW l, ~HasPushed(f, l), ~HasFrame(f, l), f # Main,
           NEW t, \A i \in 1 .. b - 1 : t[i] = s[i]
    PROVE  b > 1 /\ Shape(t, b - 1, s[b], f, l, m)
<1>1. b > 0 /\ SavedAt(s, b) /\ b \in 1 .. b
  BY DEF Shape, Parsed, OnTop
<1>2. b > 1 /\ ReturnAt(s, b - 1) /\ ~ReturnAt(s, b)
  BY <1>1, KindsDiffer DEF Shape, Parsed
<1> DEFINE c == b - 1
<1>3. c \in Nat /\ c > 0 /\ \A i \in 1 .. c : t[i] = s[i] /\ i \in 1 .. b
  BY <1>2
<1>4. Preserved(s, t, c)
  <2> HIDE DEF c
  <2> QED
    BY <1>3, SameBelow
<1>5. Parsed(t, c, f, l, m)
  <2>1. OnTop(t, c, f, l)
    BY <1>2, <1>3, <1>4 DEF OnTop, Preserved
  <2>2. ASSUME NEW i \in 1 .. c
        PROVE  /\ SavedAt(t, i) \/ ReturnAt(t, i) \/ t[i].kind = "arg"
               /\ SavedAt(t, i) => i > 1 /\ ReturnAt(t, i - 1)
               /\ ReturnAt(t, i) => ReturnOK(t, i, m)
    <3>1. /\ SavedAt(s, i) \/ ReturnAt(s, i) \/ s[i].kind = "arg"
          /\ SavedAt(s, i) => i > 1 /\ ReturnAt(s, i - 1)
          /\ ReturnAt(s, i) => ReturnOK(s, i, m)
      BY <1>3 DEF Shape, Parsed
    <3>2. i > 1 => i - 1 \in 1 .. c
      OBVIOUS
    <3> HIDE DEF c
    <3> QED
      BY <1>3, <3>1, <3>2, <1>4 DEF Preserved
  <2> QED
    BY <2>1, <2>2 DEF Parsed
<1>6. Linked(t, c, s[b])
  <2>1. \A i \in 1 .. b : LinkOK(s, i - 1, s[i])
    BY DEF Shape, Linked
  <2>2. s[b].kind \in SavedKinds /\ LinkOK(s, c, s[b])
    BY <1>1, <2>1 DEF SavedAt
  <2>3. LinkOK(t, c, s[b])
    <3> HIDE DEF c
    <3> QED
      BY <1>3, <2>2, <1>4 DEF Preserved
  <2>4. ASSUME NEW i \in 1 .. c PROVE LinkOK(t, i - 1, t[i])
    <3>1. LinkOK(s, i - 1, s[i]) /\ i - 1 \in Int /\ i - 1 <= c
      BY <1>3, <2>1
    <3> HIDE DEF c
    <3> QED
      BY <1>3, <3>1, <1>4 DEF Preserved
  <2> QED
    BY <2>2, <2>3, <2>4 DEF Linked
<1>7. Kept(t, c, s[b], f, l)
  <2> SUFFICES ASSUME NEW i \in 1 .. c, ReturnAt(t, i), HasFrame(t[i].of, t[i].n)
               PROVE  KeptFrom(t, c, s[b], i)
    BY DEF Kept
  <2>1. i \in 1 .. b /\ i # b /\ ReturnAt(s, i) /\ HasFrame(s[i].of, s[i].n)
    <3>1. t[i] = s[i] /\ i \in 1 .. b /\ i # b
      BY <1>3
    <3> QED
      BY <3>1 DEF ReturnAt
  <2>2. KeptFrom(s, b, e, i)
    BY <2>1 DEF Shape, Kept
  <2>3. ASSUME NEW j \in i + 1 .. c, SavedAt(t, j), NoneSaved(t, i + 1, j - 1)
        PROVE  t[j] = Frame(i - 2)
    <3>1. NoneSaved(s, i + 1, j - 1)
      <4> HIDE DEF c
      <4> QED
        BY <1>3, <2>3, <1>4 DEF Preserved
    <3>2. t[j] = s[j] /\ j \in i + 1 .. b
      BY <1>3
    <3>3. SavedAt(s, j)
      BY <2>3, <3>2 DEF SavedAt
    <3> QED
      BY <2>2, <3>1, <3>2, <3>3 DEF KeptFrom
  <2>4. ASSUME NoneSaved(t, i + 1, c) PROVE s[b] = Frame(i - 2)
    <3>1. NoneSaved(s, i + 1, c)
      <4> HIDE DEF c
      <4> QED
        BY <1>3, <2>4, <1>4 DEF Preserved
    <3>2. b \in i + 1 .. b
      BY <2>1
    <3> QED
      BY <1>1, <2>2, <3>1, <3>2 DEF KeptFrom
  <2> QED
    BY <2>3, <2>4 DEF KeptFrom
<1> QED
  BY <1>2, <1>5, <1>6, <1>7 DEF Shape

(* A function is called: its argument and the address to return to are     *)
(* pushed.                                                                 *)
LEMMA CallShape ==
    ASSUME NEW s, NEW b \in Nat, NEW e, NEW f \in Fns, NEW k, NEW m, Shape(s, b, e, f, k, m),
           NEW l \in 1 .. Len(Code[f]), HasPushed(f, l) = HasPushed(f, k), HasFrame(f, l) = HasFrame(f, k),
           ModuleOf[f] \in m, KeepsFrame(f) => HasFrame(f, l),
           NEW t, \A i \in 1 .. b : t[i] = s[i],
           t[b + 1].kind = "arg",
           t[b + 2].kind \in Returns, t[b + 2].of = f, t[b + 2].n = l,
           t[b + 2].kind = "tramp" => InStolen(f, l),
           NEW g \in Fns \ {Main}
    PROVE  Shape(t, b + 2, e, g, 1, m)
<1>1. Preserved(s, t, b)
  BY SameBelow
<1>2. ReturnAt(t, b + 2) /\ ~SavedAt(t, b + 2) /\ ~SavedAt(t, b + 1) /\ ~ReturnAt(t, b + 1)
  BY KindsDiffer DEF ReturnAt
<1>3. \A i \in 1 .. b + 2 : i \in 1 .. b \/ i = b + 1 \/ i = b + 2
  OBVIOUS
<1>4. OnTop(t, b, f, l)
  <2>1. OnTop(s, b, f, l)
    BY DEF Shape, Parsed, OnTop
  <2> QED
    BY <2>1, <1>1 DEF Preserved
<1>5. Parsed(t, b + 2, g, 1, m)
  <2>1. OnTop(t, b + 2, g, 1)
    BY <1>2, EntryPlace DEF OnTop
  <2>2. ASSUME NEW i \in 1 .. b
        PROVE  /\ SavedAt(t, i) \/ ReturnAt(t, i) \/ t[i].kind = "arg"
               /\ SavedAt(t, i) => i > 1 /\ ReturnAt(t, i - 1)
               /\ ReturnAt(t, i) => ReturnOK(t, i, m)
    <3>1. /\ SavedAt(s, i) \/ ReturnAt(s, i) \/ s[i].kind = "arg"
          /\ SavedAt(s, i) => i > 1 /\ ReturnAt(s, i - 1)
          /\ ReturnAt(s, i) => ReturnOK(s, i, m)
      BY DEF Shape, Parsed
    <3>2. i > 1 => i - 1 \in 1 .. b
      OBVIOUS
    <3> QED
      BY <3>1, <3>2, <1>1 DEF Preserved
  <2>3. ReturnOK(t, b + 2, m)
    <3>1. (b + 2) - 1 = b + 1 /\ (b + 2) - 2 = b /\ b + 2 > 1
      OBVIOUS
    <3> QED
      BY <3>1, <1>4 DEF ReturnOK
  <2> QED
    BY <1>2, <1>3, <2>1, <2>2, <2>3 DEF Parsed
<1>6. Linked(t, b + 2, e)
  <2>1. e.kind \in SavedKinds /\ LinkOK(s, b, e)
    BY DEF Shape, Linked
  <2>2. LinkOK(t, b, e)
    BY <2>1, <1>1 DEF Preserved
  <2>3. LinkOK(t, b + 2, e)
    BY <2>2 DEF LinkOK
  <2>4. ASSUME NEW i \in 1 .. b PROVE LinkOK(t, i - 1, t[i])
    <3>1. LinkOK(s, i - 1, s[i]) /\ i - 1 \in Int /\ i - 1 <= b
      BY DEF Shape, Linked
    <3> QED
      BY <3>1, <1>1 DEF Preserved
  <2>5. t[b + 1].kind # "frame" /\ t[b + 2].kind # "frame"
    BY <1>2 DEF SavedAt, SavedKinds
  <2>6. LinkOK(t, (b + 1) - 1, t[b + 1]) /\ LinkOK(t, (b + 2) - 1, t[b + 2])
    BY <2>5 DEF LinkOK
  <2> QED
    BY <1>3, <2>1, <2>3, <2>4, <2>6 DEF Linked
<1>7. Kept(t, b + 2, e, g, 1)
  <2>1. ~HasFrame(g, 1)
    BY EntryPlace
  <2> SUFFICES ASSUME NEW i \in 1 .. b + 2, ReturnAt(t, i), HasFrame(t[i].of, t[i].n)
               PROVE  KeptFrom(t, b + 2, e, i)
    BY <2>1 DEF Kept
  <2>2. CASE i = b + 2
    <3>1. e = Frame(b)
      BY <2>2 DEF Shape, Kept
    <3>2. i - 2 = b /\ (i + 1) .. (b + 2) = {}
      BY <2>2
    <3> QED
      BY <3>1, <3>2 DEF KeptFrom
  <2>3. CASE i \in 1 .. b
    <3>1. KeptFrom(s, b, e, i)
      <4>1. ReturnAt(s, i) /\ HasFrame(s[i].of, s[i].n)
        BY <2>3, <1>1 DEF Preserved
      <4> QED
        BY <2>3, <4>1 DEF Shape, Kept
    <3>2. ASSUME NEW j \in i + 1 .. b + 2, SavedAt(t, j), NoneSaved(t, i + 1, j - 1)
          PROVE  t[j] = Frame(i - 2)
      <4>1. j \in i + 1 .. b
        BY <1>2, <1>3, <2>3, <3>2
      <4>2. SavedAt(s, j) /\ t[j] = s[j] /\ j - 1 \in Int /\ j - 1 <= b /\ i \in Nat
        BY <4>1, <3>2, <2>3, <1>1 DEF Preserved
      <4>3. NoneSaved(s, i + 1, j - 1)
        BY <3>2, <4>2, <1>1 DEF Preserved
      <4> QED
        BY <3>1, <4>1, <4>2, <4>3 DEF KeptFrom
    <3>3. ASSUME NoneSaved(t, i + 1, b + 2) PROVE e = Frame(i - 2)
      <4>1. NoneSaved(t, i + 1, b)
        BY <3>3 DEF NoneSaved
      <4>2. NoneSaved(s, i + 1, b)
        BY <2>3, <4>1, <1>1 DEF Preserved
      <4> QED
        BY <3>1, <4>2 DEF KeptFrom
    <3> QED
      BY <3>2, <3>3 DEF KeptFrom
  <2> QED
    BY <1>2, <1>3, <2>2, <2>3
<1> QED
  BY <1>5, <1>6, <1>7 DEF Shape

(* A function returns, and its argument is removed. *)
LEMMA RetShape ==
    ASSUME NEW s, NEW b \in Nat, NEW e, NEW f, NEW k, NEW m, Shape(s, b, e, f, k, m),
           f # Main, ~HasPushed(f, k),
           NEW t, \A i \in 1 .. b - 2 : t[i] = s[i]
    PROVE  /\ b > 1 /\ ReturnAt(s, b) /\ ReturnOK(s, b, m)
           /\ Shape(t, b - 2, e, s[b].of, s[b].n, m)
<1>1. b > 0 /\ ReturnAt(s, b) /\ ~SavedAt(s, b) /\ ReturnOK(s, b, m) /\ b > 1
  <2>1. b > 0 /\ ReturnAt(s, b)
    BY DEF Shape, Parsed, OnTop
  <2>2. ReturnOK(s, b, m)
    BY <2>1 DEF Shape, Parsed
  <2> QED
    BY <2>1, <2>2, KindsDiffer DEF ReturnOK
<1>2. ~SavedAt(s, b - 1)
  BY <1>1, KindsDiffer DEF ReturnOK
<1> DEFINE c == b - 2
           g == s[b].of
           l == s[b].n
<1>3. c \in Nat /\ \A i \in 1 .. c : t[i] = s[i] /\ i \in 1 .. b
  BY <1>1
<1>4. Preserved(s, t, c)
  <2> HIDE DEF c
  <2> QED
    BY <1>3, SameBelow
<1>5. Parsed(t, c, g, l, m)
  <2>1. OnTop(t, c, g, l)
    <3>1. OnTop(s, c, g, l)
      BY <1>1 DEF ReturnOK
    <3> HIDE DEF c, g, l
    <3> QED
      BY <1>3, <3>1, <1>4 DEF Preserved
  <2>2. ASSUME NEW i \in 1 .. c
        PROVE  /\ SavedAt(t, i) \/ ReturnAt(t, i) \/ t[i].kind = "arg"
               /\ SavedAt(t, i) => i > 1 /\ ReturnAt(t, i - 1)
               /\ ReturnAt(t, i) => ReturnOK(t, i, m)
    <3>1. /\ SavedAt(s, i) \/ ReturnAt(s, i) \/ s[i].kind = "arg"
          /\ SavedAt(s, i) => i > 1 /\ ReturnAt(s, i - 1)
          /\ ReturnAt(s, i) => ReturnOK(s, i, m)
      BY <1>3 DEF Shape, Parsed
    <3>2. i > 1 => i - 1 \in 1 .. c
      OBVIOUS
    <3> HIDE DEF c
    <3> QED
      BY <1>3, <3>1, <3>2, <1>4 DEF Preserved
  <2> QED
    BY <2>1, <2>2 DEF Parsed
<1>6. Linked(t, c, e)
  <2>1. e.kind \in SavedKinds /\ LinkOK(s, b, e)
    BY DEF Shape, Linked
  <2>2. LinkOK(s, c, e)
    <3>1. \A n \in 1 .. b : n \in 1 .. c \/ n = b - 1 \/ n = b
      BY <1>3
    <3> QED
      BY <1>1, <1>2, <2>1, <3>1 DEF LinkOK
  <2>3. LinkOK(t, c, e)
    <3> HIDE DEF c
    <3> QED
      BY <1>3, <2>2, <1>4 DEF Preserved
  <2>4. ASSUME NEW i \in 1 .. c PROVE LinkOK(t, i - 1, t[i])
    <3>1. LinkOK(s, i - 1, s[i]) /\ i - 1 \in Int /\ i - 1 <= c
      BY <1>3 DEF Shape, Linked
    <3> HIDE DEF c
    <3> QED
      BY <1>3, <3>1, <1>4 DEF Preserved
  <2> QED
    BY <2>1, <2>3, <2>4 DEF Linked
<1>7. Kept(t, c, e, g, l)
  <2>1. HasFrame(g, l) => e = Frame(c)
    <3>1. HasFrame(g, l) => KeptFrom(s, b, e, b)
      BY <1>1 DEF Shape, Kept
    <3>2. NoneSaved(s, b + 1, b)
      BY DEF NoneSaved
    <3> QED
      BY <3>1, <3>2 DEF KeptFrom
  <2> SUFFICES ASSUME NEW i \in 1 .. c, ReturnAt(t, i), HasFrame(t[i].of, t[i].n)
               PROVE  KeptFrom(t, c, e, i)
    BY <2>1 DEF Kept
  <2>2. i \in 1 .. b /\ ReturnAt(s, i) /\ HasFrame(s[i].of, s[i].n)
    <3>1. t[i] = s[i] /\ i \in 1 .. b
      BY <1>3
    <3> QED
      BY <3>1 DEF ReturnAt
  <2>3. KeptFrom(s, b, e, i)
    BY <2>2 DEF Shape, Kept
  <2>4. ASSUME NEW j \in i + 1 .. c, SavedAt(t, j), NoneSaved(t, i + 1, j - 1)
        PROVE  t[j] = Frame(i - 2)
    <3>1. NoneSaved(s, i + 1, j - 1)
      <4> HIDE DEF c
      <4> QED
        BY <1>3, <2>4, <1>4 DEF Preserved
    <3>2. t[j] = s[j] /\ j \in i + 1 .. b
      BY <1>3
    <3>3. SavedAt(s, j)
      BY <2>4, <3>2 DEF SavedAt
    <3> QED
      BY <2>3, <3>1, <3>2, <3>3 DEF KeptFrom
  <2>5. ASSUME NoneSaved(t, i + 1, c) PROVE e = Frame(i - 2)
    <3>1. NoneSaved(s, i + 1, c)
      <4> HIDE DEF c
      <4> QED
        BY <1>3, <2>5, <1>4 DEF Preserved
    <3>2. \A n \in i + 1 .. b : n \in i + 1 .. c \/ n = b - 1 \/ n = b
      BY <1>3
    <3>3. NoneSaved(s, i + 1, b)
      BY <1>1, <1>2, <3>1, <3>2 DEF NoneSaved
    <3> QED
      BY <2>3, <3>3 DEF KeptFrom
  <2> QED
    BY <2>4, <2>5 DEF KeptFrom
<1> QED
  BY <1>1, <1>5, <1>6, <1>7 DEF Shape

(* More modules are loaded. *)
LEMMA LoadedShape ==
    ASSUME NEW s, NEW b \in Nat, NEW e, NEW f, NEW k, NEW m, Shape(s, b, e, f, k, m),
           NEW n, m \subseteq n
    PROVE  Shape(s, b, e, f, k, n)
<1>1. \A i \in 1 .. b : ReturnOK(s, i, m) => ReturnOK(s, i, n)
  BY DEF ReturnOK
<1>2. Parsed(s, b, f, k, n)
  BY <1>1 DEF Shape, Parsed
<1> QED
  BY <1>2 DEF Shape

(* What a trampoline pushes above leaves the shape. *)
LEMMA AboveShape ==
    ASSUME NEW s, NEW b \in Nat, NEW e, NEW f, NEW k, NEW m, Shape(s, b, e, f, k, m),
           NEW t, \A i \in 1 .. b : t[i] = s[i]
    PROVE  Shape(t, b, e, f, k, m)
<1>1. Preserved(s, t, b)
  BY SameBelow
<1>2. Parsed(t, b, f, k, m)
  <2>1. OnTop(t, b, f, k)
    BY <1>1 DEF Shape, Parsed, Preserved
  <2>2. ASSUME NEW i \in 1 .. b
        PROVE  /\ SavedAt(t, i) \/ ReturnAt(t, i) \/ t[i].kind = "arg"
               /\ SavedAt(t, i) => i > 1 /\ ReturnAt(t, i - 1)
               /\ ReturnAt(t, i) => ReturnOK(t, i, m)
    <3>1. /\ SavedAt(s, i) \/ ReturnAt(s, i) \/ s[i].kind = "arg"
          /\ SavedAt(s, i) => i > 1 /\ ReturnAt(s, i - 1)
          /\ ReturnAt(s, i) => ReturnOK(s, i, m)
      BY DEF Shape, Parsed
    <3>2. i > 1 => i - 1 \in 1 .. b
      OBVIOUS
    <3> QED
      BY <3>1, <3>2, <1>1 DEF Preserved
  <2> QED
    BY <2>1, <2>2 DEF Parsed
<1>3. Linked(t, b, e)
  <2>1. LinkOK(t, b, e)
    BY <1>1 DEF Shape, Linked, Preserved
  <2>2. ASSUME NEW i \in 1 .. b PROVE LinkOK(t, i - 1, t[i])
    <3>1. LinkOK(s, i - 1, s[i]) /\ i - 1 \in Int /\ i - 1 <= b
      BY DEF Shape, Linked
    <3> QED
      BY <3>1, <1>1 DEF Preserved
  <2> QED
    BY <2>1, <2>2 DEF Shape, Linked
<1>4. Kept(t, b, e, f, k)
  <2> SUFFICES ASSUME NEW i \in 1 .. b, ReturnAt(t, i), HasFrame(t[i].of, t[i].n)
               PROVE  KeptFrom(t, b, e, i)
    BY DEF Shape, Kept
  <2>1. KeptFrom(s, b, e, i)
    BY <1>1 DEF Shape, Kept, Preserved
  <2>2. ASSUME NEW j \in i + 1 .. b, SavedAt(t, j), NoneSaved(t, i + 1, j - 1)
        PROVE  t[j] = Frame(i - 2)
    <3>1. NoneSaved(s, i + 1, j - 1) /\ SavedAt(s, j) /\ t[j] = s[j]
      BY <2>2, <1>1 DEF Preserved
    <3> QED
      BY <2>1, <3>1 DEF KeptFrom
  <2>3. NoneSaved(t, i + 1, b) => NoneSaved(s, i + 1, b)
    BY <1>1 DEF Preserved
  <2> QED
    BY <2>1, <2>2, <2>3 DEF KeptFrom
<1> QED
  BY <1>2, <1>3, <1>4 DEF Shape

-----------------------------------------------------------------------------
(* The instructions of the client, in its code or in a trampoline.         *)

Sound ==
    /\ stack \in Seq(Dwords) /\ ebp \in Dwords /\ vol \in Values
    /\ fn \in Fns /\ pc \in 1 .. Len(Code[fn]) /\ ModuleOf[fn] \in loaded
    /\ Shape(stack, Len(stack), ebp, fn, pc, loaded)

LEMMA Prefix ==
    ASSUME NEW S, NEW s \in Seq(S), NEW n \in 0 .. Len(s)
    PROVE  /\ SubSeq(s, 1, n) \in Seq(S) /\ Len(SubSeq(s, 1, n)) = n
           /\ \A i \in 1 .. n : SubSeq(s, 1, n)[i] = s[i]
<1>1. 1 \in 1 .. Len(s) + 1 /\ n \in 1 - 1 .. Len(s)
  OBVIOUS
<1> QED
  BY <1>1, SubSeqProperties

LEMMA ValuesIs ==
    /\ \A v \in {"start", "variable", "stray", "computed", "args", "result", "one", "zero", "junk"} : v \in Values
    /\ \A v \in Values : v \in {"start", "variable", "stray", "computed", "args", "result", "one", "zero", "junk"}
BY DEF Values

LEMMA PushStep ==
    ASSUME Sound, Instruction = "push_ebp", PushEbp, Goto(fn, pc + 1), loaded' = loaded
    PROVE  Sound'
<1>1. stack' = Append(stack, ebp) /\ ebp' = ebp /\ vol' = vol /\ fn' = fn /\ pc' = pc + 1
  BY DEF PushEbp, Goto
<1>2. /\ stack' \in Seq(Dwords) /\ Len(stack') = Len(stack) + 1 /\ Len(stack) \in Nat
      /\ \A i \in 1 .. Len(stack) : stack'[i] = stack[i]
      /\ stack'[Len(stack) + 1] = ebp
  BY <1>1 DEF Sound
<1>3. /\ pc + 1 \in 1 .. Len(Code[fn])
      /\ HasPushed(fn, pc + 1) /\ ~HasPushed(fn, pc) /\ ~HasFrame(fn, pc + 1) /\ fn # Main
  BY PushPlace DEF Sound, Instruction
<1>4. Shape(stack', Len(stack) + 1, ebp, fn, pc + 1, loaded)
  BY <1>2, <1>3, PushShape DEF Sound
<1> QED
  BY <1>1, <1>2, <1>3, <1>4 DEF Sound

(* mov ebp,esp; or ebp is used for data. *)
LEMMA SetStep ==
    ASSUME Sound, loaded' = loaded, Goto(fn, pc + 1),
           (Instruction = "mov_ebp" /\ MovEbp) \/ (Instruction = "scratch" /\ Scratch)
    PROVE  Sound'
<1>1. stack' = stack /\ vol' = vol /\ fn' = fn /\ pc' = pc + 1 /\ Len(stack) \in Nat
  BY DEF MovEbp, Scratch, Goto, Sound
<1>2. /\ pc + 1 \in 1 .. Len(Code[fn])
      /\ HasPushed(fn, pc) /\ HasPushed(fn, pc + 1)
  BY MovPlace, ScratchPlace DEF Sound, Instruction
<1>3. Len(stack) > 0 /\ SavedAt(stack, Len(stack))
  BY <1>1, <1>2 DEF Sound, Shape, Parsed, OnTop
<1>4. /\ ebp' \in Dwords /\ ebp'.kind \in SavedKinds /\ LinkOK(stack, Len(stack), ebp')
      /\ HasFrame(fn, pc + 1) => ebp' = Frame(Len(stack))
  <2>1. CASE Instruction = "mov_ebp" /\ MovEbp
    <3>1. ebp' = Frame(Len(stack))
      BY <2>1 DEF MovEbp
    <3>2. ebp'.kind = "frame" /\ ebp'.n = Len(stack)
      BY <3>1, DwordIs DEF Frame
    <3> QED
      BY <1>1, <1>3, <3>1, <3>2, FrameIsDword DEF LinkOK, SavedKinds
  <2>2. CASE Instruction = "scratch" /\ Scratch
    <3>1. ebp' \in {NoFrame, Heap} \/ \E i \in 1 .. Len(stack) : ebp' = Local(i)
      BY <2>2 DEF Scratch, Sound
    <3>2. ebp'.kind \in {"none", "heap", "local"}
      BY <3>1, DwordIs DEF NoFrame, Heap, Local
    <3>3. ~HasFrame(fn, pc + 1)
      BY <2>2, ScratchPlace DEF Sound, Instruction
    <3>4. ebp' \in Dwords
      BY <3>1, FrameIsDword
    <3> QED
      BY <3>2, <3>3, <3>4 DEF LinkOK, SavedKinds
  <2> QED
    BY <2>1, <2>2
<1>5. Shape(stack, Len(stack), ebp', fn, pc + 1, loaded)
  BY <1>1, <1>2, <1>4, SetShape DEF Sound
<1> QED
  BY <1>1, <1>2, <1>4, <1>5 DEF Sound

(* leave finds the saved ebp on top, as pop does. *)
LEMMA LeaveIsPop ==
    ASSUME Sound, Instruction = "leave"
    PROVE  ebp.n = Len(stack)
<1>1. HasFrame(fn, pc)
  BY PopPlace DEF Sound, Instruction
<1>2. ebp = Frame(Len(stack))
  BY <1>1 DEF Sound, Shape, Kept
<1> QED
  BY <1>2, DwordIs DEF Frame

LEMMA PopStep ==
    ASSUME Sound, loaded' = loaded, Goto(fn, pc + 1),
           (Instruction = "pop_ebp" /\ PopEbp) \/ (Instruction = "leave" /\ Leave)
    PROVE  Sound' /\ SavedAt(stack, Len(stack)) /\ Len(stack) > 1
<1>1. /\ pc + 1 \in 1 .. Len(Code[fn]) /\ fn # Main
      /\ HasPushed(fn, pc) /\ ~HasPushed(fn, pc + 1) /\ ~HasFrame(fn, pc + 1)
  BY PopPlace DEF Sound, Instruction
<1>2. Len(stack) \in Nat /\ Len(stack) > 0 /\ SavedAt(stack, Len(stack))
  BY <1>1 DEF Sound, Shape, Parsed, OnTop
<1>3. /\ stack' = SubSeq(stack, 1, Len(stack) - 1) /\ ebp' = stack[Len(stack)]
      /\ vol' = vol /\ fn' = fn /\ pc' = pc + 1
  BY LeaveIsPop DEF Leave, PopEbp, Pop, Top, Goto
<1>4. /\ stack' \in Seq(Dwords) /\ Len(stack') = Len(stack) - 1
      /\ \A i \in 1 .. Len(stack) - 1 : stack'[i] = stack[i]
      /\ ebp' \in Dwords
  <2>1. Len(stack) - 1 \in 0 .. Len(stack) /\ stack \in Seq(Dwords) /\ stack[Len(stack)] \in Dwords
    BY <1>2 DEF Sound
  <2> QED
    BY <1>3, <2>1, Prefix
<1>5. Len(stack) > 1 /\ Shape(stack', Len(stack) - 1, stack[Len(stack)], fn, pc + 1, loaded)
  BY <1>1, <1>2, <1>4, PopShape DEF Sound
<1> QED
  BY <1>1, <1>2, <1>3, <1>4, <1>5 DEF Sound

(* An instruction that leaves a value, or calls TerSafe. *)
LEMMA QuietStep ==
    ASSUME Sound, loaded' = loaded, Goto(fn, pc + 1), stack' = stack, ebp' = ebp, vol' \in Values,
           Instruction \in {"load", "global", "tersafe", "body"}, Instruction = "body" => fn # Main
    PROVE  Sound'
<1>1. /\ pc + 1 \in 1 .. Len(Code[fn])
      /\ HasPushed(fn, pc + 1) = HasPushed(fn, pc) /\ HasFrame(fn, pc + 1) = HasFrame(fn, pc)
  BY QuietPlace DEF Sound, Instruction
<1>2. Len(stack) \in Nat
  BY DEF Sound
<1>3. Shape(stack, Len(stack), ebp, fn, pc + 1, loaded)
  BY <1>1, <1>2, QuietShape DEF Sound
<1> QED
  BY <1>1, <1>3 DEF Sound, Goto

LEMMA CallStep ==
    ASSUME Sound, loaded' = loaded, ModuleOf[fn'] \in loaded, NEW kind \in Returns, NEW next,
           Call(kind, next), kind = "tramp" => InStolen(fn, next),
           \/ Instruction = "body" /\ next = pc
           \/ Instruction = "call" /\ next = pc + 1
    PROVE  Sound'
<1>1. PICK g \in Fns \ {Main}, a \in Nat :
        /\ stack' = stack \o <<Arg(a), Dword(kind, fn, next)>>
        /\ fn' = g /\ pc' = 1
  <2>1. \A g \in Fns : Args[g] \in SUBSET Nat
    BY CodeAssumption DEF Fns
  <2> QED
    BY <2>1 DEF Call, Goto
<1>2. vol' = "args" /\ ebp' = ebp
  BY DEF Call
<1>3. next \in 1 .. Len(Code[fn]) /\ HasPushed(fn, next) = HasPushed(fn, pc) /\ HasFrame(fn, next) = HasFrame(fn, pc)
  <2>1. CASE Instruction = "body" /\ next = pc
    BY <2>1 DEF Sound
  <2>2. CASE Instruction = "call" /\ next = pc + 1
    BY <2>2, QuietPlace DEF Sound, Instruction
  <2> QED
    BY <2>1, <2>2
<1>4. KeepsFrame(fn) => HasFrame(fn, next)
  <2>1. Instruction \in {"body", "call"} /\ next \in {pc, pc + 1}
    OBVIOUS
  <2> QED
    BY <2>1, CallPlace DEF Sound, Instruction
<1>5. next \in Nat /\ Arg(a) \in Dwords /\ Dword(kind, fn, next) \in Dwords
  <2>1. fn \in Fns
    BY DEF Sound
  <2>2. next \in Nat
    BY <1>3, <2>1, CodeIs
  <2> QED
    BY <2>1, <2>2, FrameIsDword
<1>6. /\ stack' \in Seq(Dwords) /\ Len(stack') = Len(stack) + 2 /\ Len(stack) \in Nat
      /\ \A i \in 1 .. Len(stack) : stack'[i] = stack[i]
      /\ stack'[Len(stack) + 1] = Arg(a) /\ stack'[Len(stack) + 2] = Dword(kind, fn, next)
  BY <1>1, <1>5 DEF Sound
<1>7. /\ stack'[Len(stack) + 1].kind = "arg"
      /\ stack'[Len(stack) + 2].kind = kind /\ stack'[Len(stack) + 2].of = fn /\ stack'[Len(stack) + 2].n = next
  BY <1>6, DwordIs DEF Arg
<1>8. Shape(stack', Len(stack) + 2, ebp, g, 1, loaded)
  <2>1. Shape(stack, Len(stack), ebp, fn, pc, loaded) /\ fn \in Fns /\ ModuleOf[fn] \in loaded
    BY DEF Sound
  <2> DEFINE b == Len(stack)
             s == stack
             t == stack'
  <2>2. /\ b \in Nat /\ \A i \in 1 .. b : t[i] = s[i]
        /\ t[b + 1].kind = "arg" /\ t[b + 2].kind \in Returns /\ t[b + 2].of = fn /\ t[b + 2].n = next
        /\ t[b + 2].kind = "tramp" => InStolen(fn, next)
    BY <1>6, <1>7
  <2>3. Shape(s, b, ebp, fn, pc, loaded)
    BY <2>1
  <2> HIDE DEF b, s, t
  <2>4. Shape(t, b + 2, ebp, g, 1, loaded)
    BY <1>3, <1>4, <2>1, <2>2, <2>3, CallShape
  <2> QED
    BY <2>4 DEF b, t
<1>9. 1 \in 1 .. Len(Code[g])
  BY CodeIs
<1> QED
  BY <1>1, <1>2, <1>6, <1>8, <1>9, ValuesIs DEF Sound

LEMMA RetStep ==
    ASSUME Sound, loaded' = loaded, Instruction = "ret", Ret
    PROVE  /\ Sound' /\ Len(stack) > 1 /\ Top.kind \in Returns
           /\ Top.kind = "tramp" => InStolen(fn', pc')
<1>1. fn # Main /\ ~HasPushed(fn, pc)
  BY RetPlace DEF Sound, Instruction
<1> DEFINE b == Len(stack)
           below == SubSeq(stack, 1, b - 2)
<1>2. b \in Nat
  BY DEF Sound
<1>3. b > 1 /\ ReturnAt(stack, b) /\ ReturnOK(stack, b, loaded)
  BY <1>1, <1>2, RetShape DEF Sound
<1>4. below \in Seq(Dwords) /\ Len(below) = b - 2 /\ \A i \in 1 .. b - 2 : below[i] = stack[i]
  <2>1. b - 2 \in 0 .. Len(stack)
    BY <1>2, <1>3
  <2> HIDE DEF b
  <2> QED
    BY <2>1, Prefix DEF Sound
<1>5. Shape(below, b - 2, ebp, stack[b].of, stack[b].n, loaded)
  BY <1>1, <1>2, <1>4, RetShape DEF Sound
<1>6. stack' = below /\ fn' = stack[b].of /\ pc' = stack[b].n /\ vol' = "result" /\ ebp' = ebp
  BY DEF Ret, Goto, Pop, Top
<1>7. /\ fn' \in Fns /\ pc' \in 1 .. Len(Code[fn']) /\ ModuleOf[fn'] \in loaded
      /\ stack[b].kind = "tramp" => InStolen(fn', pc')
  BY <1>3, <1>6 DEF ReturnOK
<1> QED
  BY <1>3, <1>4, <1>5, <1>6, <1>7, ValuesIs DEF Sound, ReturnAt, Top

-----------------------------------------------------------------------------
(* Every step keeps the invariant.                                         *)

LEMMA ExecuteSound ==
    ASSUME Sound, loaded' = loaded, NEW kind \in Returns, NEW global \in Values,
           Execute(kind, global), ModuleOf[fn'] \in loaded,
           kind = "tramp" => Instruction # "body" /\ InStolen(fn, pc + 1)
    PROVE  /\ Sound' /\ uin' = uin
           /\ Instruction = "ret" /\ Top.kind = "tramp" => InStolen(fn', pc')
           /\ Instruction \notin {"body", "call", "ret"} => fn' = fn /\ pc' = pc + 1
<1>1. uin' = uin
  BY DEF Execute
<1>2. CASE Instruction = "push_ebp" /\ PushEbp /\ Goto(fn, pc + 1)
  BY <1>1, <1>2, PushStep DEF Goto
<1>3. CASE Goto(fn, pc + 1) /\ ((Instruction = "mov_ebp" /\ MovEbp) \/ (Instruction = "scratch" /\ Scratch))
  <2>1. Sound'
    BY <1>3, SetStep
  <2> QED
    BY <1>1, <1>3, <2>1 DEF Goto
<1>4. CASE Goto(fn, pc + 1) /\ ((Instruction = "pop_ebp" /\ PopEbp) \/ (Instruction = "leave" /\ Leave))
  <2>1. Sound'
    BY <1>4, PopStep
  <2> QED
    BY <1>1, <1>4, <2>1 DEF Goto
<1>5. CASE /\ Goto(fn, pc + 1)
           /\ \/ Instruction = "load" /\ Load(vol)
              \/ Instruction = "global" /\ Load(global)
              \/ Instruction = "body" /\ fn # Main /\ Load("computed")
  <2>1. stack' = stack /\ ebp' = ebp /\ vol' \in Values
    BY <1>5, ValuesIs DEF Load, Sound
  <2>2. Sound'
    BY <1>5, <2>1, QuietStep
  <2> QED
    BY <1>1, <1>5, <2>2 DEF Goto
<1>6. CASE (Instruction = "body" /\ Call(kind, pc)) \/ (Instruction = "call" /\ Call(kind, pc + 1))
  <2>1. CASE Instruction = "body" /\ Call(kind, pc)
    BY <1>1, <2>1, CallStep
  <2>2. CASE Instruction = "call" /\ Call(kind, pc + 1)
    BY <1>1, <2>2, CallStep
  <2> QED
    BY <1>6, <2>1, <2>2
<1>7. CASE Instruction = "ret" /\ Ret
  BY <1>1, <1>7, RetStep
<1> QED
  BY <1>2, <1>3, <1>4, <1>5, <1>6, <1>7 DEF Execute

(* The stub removes what the client pushed, and answers as TerSafe did.    *)
LEMMA StubIs ==
    ASSUME NEW slot \in DOMAIN Pushed
    PROVE  /\ Removed(slot) = Pushed[slot] /\ Pushed[slot] \in Nat /\ Answer(slot) = Answered(slot)
           /\ Answer(slot) \in Values
           /\ \A arg, user : UserAfter(slot, arg, user) \in {arg, user}
           /\ \A arg, user : slot # 0 => UserAfter(slot, arg, user) = user
           /\ \A user : UserAfter(slot, BlankUser, user) = user
<1>1. slot \in {0, 1, 2, 3, 5} /\ Pushed[slot] = IF slot \in {0, 2, 3} THEN 1 ELSE 0
  BY DEF Pushed
<1>2. Method(slot) = CASE slot = 0 -> "Init" [] slot = 1 -> "Notify" [] slot = 2 -> "ProcessPacket"
                       [] slot = 3 -> "QueryState" [] slot = 5 -> "Release"
  BY <1>1 DEF Method
<1>3. CASE slot = 0
  BY <1>1, <1>2, <1>3 DEF Removed, Answer, Answered, UserAfter, Values
<1>4. CASE slot # 0
  BY <1>1, <1>2, <1>4 DEF Removed, Answer, Answered, UserAfter, Values
<1> QED
  BY <1>3, <1>4

LEMMA StubSound ==
    ASSUME Sound, loaded' = loaded, uin \in Uins \cup {0}, CallStub
    PROVE  /\ Sound' /\ uin' \in Uins \cup {0} /\ stack' = stack /\ ebp' = ebp /\ fn' = fn /\ pc' = pc + 1
           /\ \E slot \in DOMAIN Pushed :
                /\ vol' = Answered(slot)
                /\ (slot = 0 /\ uin' \in Uins) \/ uin' = uin
<1>1. PICK slot \in DOMAIN Pushed, arg \in Uins \cup {BlankUser} :
        /\ stack' = IF Removed(slot) > Pushed[slot] THEN Pop(Removed(slot) - Pushed[slot])
                    ELSE stack \o [i \in 1 .. Pushed[slot] - Removed(slot) |-> Arg(arg)]
        /\ vol' = Answer(slot)
        /\ uin' = UserAfter(slot, arg, uin)
  BY DEF CallStub
<1>2. ebp' = ebp /\ Goto(fn, pc + 1) /\ Instruction = "tersafe"
  BY DEF CallStub
<1>3. stack' = stack
  <2> DEFINE none == [i \in 1 .. Pushed[slot] - Removed(slot) |-> Arg(arg)]
  <2>1. stack' = stack \o none
    BY <1>1, StubIs
  <2>2. 1 .. Pushed[slot] - Removed(slot) = {}
    BY StubIs
  <2>3. none = <<>>
    BY <2>2
  <2> HIDE DEF none
  <2> QED
    BY <2>1, <2>3 DEF Sound
<1>4. vol' = Answered(slot) /\ vol' \in Values
  BY <1>1, StubIs
<1>5. (slot = 0 /\ uin' \in Uins) \/ uin' = uin
  BY <1>1, StubIs
<1>6. Sound'
  BY <1>2, <1>3, <1>4, QuietStep
<1> QED
  BY <1>2, <1>3, <1>4, <1>5, <1>6 DEF Goto

(* Outside the trampoline's own dwords the invariant is about the client.  *)
LEMMA SoundOutside ==
    ASSUME HInv, Own[where] = 0
    PROVE  Sound /\ Body = Len(stack)
<1>1. Body = Len(stack)
  BY DEF HInv, Typed, Body
<1> QED
  BY <1>1 DEF HInv, Typed, Sound

LEMMA SoundAfter ==
    ASSUME HInv', Own[where'] = 0
    PROVE  Sound'
<1>1. Body' = Len(stack')
  BY DEF HInv, Typed, Body
<1> QED
  BY <1>1 DEF HInv, Typed, Sound

LEMMA OutsideSound ==
    ASSUME Sound', where' \in {"code", "stolen"}, uin' \in Uins \cup {0},
           Loaded \subseteq loaded', BasesOK(bases', loaded'),
           where' = "stolen" => InStolen(fn', pc')
    PROVE  HInv'
<1>1. Body' = Len(stack') /\ Body' \in Nat
  BY OwnIs DEF Sound, Body
<1>2. Typed'
  BY <1>1, OwnIs DEF Typed, Sound
<1>3. InTrampoline'
  BY <1>1, OwnIs DEF InTrampoline
<1> QED
  BY <1>1, <1>2, <1>3 DEF HInv, Sound

LEMMA RunCodeStep == ASSUME HInv, RunCode PROVE HInv'
<1>1. where = "code" /\ Own[where] = 0 /\ loaded' = loaded /\ bases' = bases
  BY OwnIs DEF RunCode
<1>2. Sound /\ uin \in Uins \cup {0} /\ Loaded \subseteq loaded /\ BasesOK(bases, loaded)
  BY <1>1, SoundOutside DEF HInv, Typed
<1>3. ModuleOf[fn'] \in loaded /\ where' = IF Instruction = "ret" /\ Top.kind = "tramp" THEN "stolen" ELSE "code"
  BY DEF RunCode, Branch
<1>4. CASE Execute("ret", "variable")
  <2>1. /\ Sound' /\ uin' = uin
        /\ Instruction = "ret" /\ Top.kind = "tramp" => InStolen(fn', pc')
    BY <1>1, <1>2, <1>3, <1>4, ExecuteSound, ValuesIs DEF Returns
  <2> QED
    BY <1>1, <1>2, <1>3, <2>1, OutsideSound
<1>5. CASE CallStub
  <2>1. Sound' /\ uin' \in Uins \cup {0} /\ Instruction = "tersafe"
    BY <1>1, <1>2, <1>5, StubSound DEF CallStub
  <2> QED
    BY <1>1, <1>2, <1>3, <2>1, OutsideSound
<1> QED
  BY <1>4, <1>5 DEF RunCode

LEMMA StolenPlace ==
    ASSUME InStolen(fn, pc), ~PastStolen
    PROVE  fn \in DOMAIN Site /\ InStolen(fn, pc + 1) /\ Instruction \in Stolen(fn) /\ Instruction # "body"
<1>1. fn \in DOMAIN Site /\ pc \in Site[fn].at .. Site[fn].at + Site[fn].count
  BY DEF InStolen
<1>2. Site[fn].at \in Nat \ {0} /\ Site[fn].count \in Nat
  BY <1>1, SiteIs
<1>3. pc \in Int /\ pc # Site[fn].at + Site[fn].count
  <2> DEFINE at == Site[fn].at
             count == Site[fn].count
  <2>1. pc \in at .. at + count /\ at \in Nat /\ count \in Nat
    BY <1>1, <1>2
  <2>2. pc # at + count
    BY DEF PastStolen
  <2> HIDE DEF at, count
  <2>3. pc \in Int
    BY <2>1
  <2> QED
    BY <2>2, <2>3 DEF at, count
<1> DEFINE at == Site[fn].at
           count == Site[fn].count
<1>4. pc \in at .. at + count /\ at \in Nat /\ count \in Nat /\ pc # at + count
  BY <1>1, <1>2, <1>3
<1>5. Instruction \in Stolen(fn)
  <2> HIDE DEF at, count
  <2>1. pc - at \in 0 .. count - 1 /\ at + (pc - at) = pc
    BY <1>3, <1>4
  <2> QED
    BY <2>1 DEF Instruction, Stolen, at, count
<1>6. pc + 1 \in at .. at + count
  <2> HIDE DEF at, count
  <2> QED
    BY <1>3, <1>4
<1> QED
  BY <1>1, <1>5, <1>6, StolenAssumption DEF InStolen

LEMMA RunStolenStep == ASSUME HInv, RunStolen PROVE HInv'
<1>1. where = "stolen" /\ Own[where] = 0 /\ loaded' = loaded /\ bases' = bases
  BY OwnIs DEF RunStolen
<1>2. Sound /\ uin \in Uins \cup {0} /\ Loaded \subseteq loaded /\ BasesOK(bases, loaded)
  BY <1>1, SoundOutside DEF HInv, Typed
<1>3. InStolen(fn, pc + 1) /\ Instruction # "body"
  BY <1>1, StolenPlace DEF HInv, InTrampoline, RunStolen
<1> DEFINE global == IF ModuleOf[fn] \in Relocated THEN "stray" ELSE "variable"
<1>4. Execute("tramp", global) /\ global \in Values /\ "tramp" \in Returns
  BY ValuesIs DEF RunStolen, Returns
<1>5. CASE Instruction \in {"call", "ret"}
  <2>1. ModuleOf[fn'] \in loaded /\ where' = IF Instruction = "ret" /\ Top.kind = "tramp" THEN "stolen" ELSE "code"
    BY <1>5 DEF RunStolen, Branch
  <2> HIDE DEF global
  <2>2. /\ Sound' /\ uin' = uin
        /\ Instruction = "ret" /\ Top.kind = "tramp" => InStolen(fn', pc')
    BY <1>1, <1>2, <1>3, <1>4, <2>1, ExecuteSound
  <2> QED
    BY <1>1, <1>2, <2>1, <2>2, OutsideSound
<1>6. CASE Instruction \notin {"call", "ret"}
  <2>1. where' = "stolen"
    BY <1>1, <1>6 DEF RunStolen
  <2> HIDE DEF global
  <2>2. fn' = fn /\ pc' = pc + 1
    BY <1>3, <1>4, <1>6 DEF Execute, Goto
  <2>3. ModuleOf[fn'] \in loaded
    BY <1>2, <2>2 DEF Sound
  <2>4. Sound' /\ uin' = uin
    BY <1>1, <1>2, <1>3, <1>4, <2>3, ExecuteSound
  <2> QED
    BY <1>1, <1>2, <1>3, <2>1, <2>2, <2>4, OutsideSound
<1> QED
  BY <1>5, <1>6

(* In the trampoline: only dwords above the client's change, and the       *)
(* registers that popad restores.                                          *)
Unnoticed == UNCHANGED <<PlainStack, PlainVol, ebp, fn, pc, uin>>

LEMMA PlainVolIs ==
    /\ Own[where] = 0 => PlainVol = vol
    /\ Own[where] \in Nat \ {0} => PlainVol = stack[Body + 1].of
BY DEF PlainVol, Body

LEMMA TrampolineStep ==
    ASSUME HInv, UNCHANGED <<fn, pc, uin, loaded>>, ebp' = ebp, vol' \in Values,
           where' \in DOMAIN Own, BasesOK(bases', loaded),
           stack' \in Seq(Dwords), Len(stack') = Body + Own[where'],
           \A i \in 1 .. Body : stack'[i] = stack[i],
           InTrampoline', PlainVol' = PlainVol
    PROVE  HInv' /\ Unnoticed
<1>1. Body' = Body
  BY OwnNat DEF Body, HInv, Typed
<1>2. Typed'
  BY <1>1 DEF HInv, Typed
<1>3. Shape(stack', Body, ebp, fn, pc, loaded)
  BY AboveShape DEF HInv, Typed
<1>4. PlainStack' = PlainStack
  <2>1. \A i \in 1 .. Body : AsReturn(stack'[i]) = AsReturn(stack[i])
    OBVIOUS
  <2>2. PlainStack = [i \in 1 .. Body |-> AsReturn(stack[i])]
    BY DEF PlainStack, Body
  <2>3. PlainStack' = [i \in 1 .. Body |-> AsReturn(stack'[i])]
    BY <1>1 DEF PlainStack, Body
  <2> QED
    BY <2>1, <2>2, <2>3
<1> QED
  BY <1>1, <1>2, <1>3, <1>4 DEF HInv, Unnoticed

LEMMA JumpStep ==
    ASSUME HInv, Jump PROVE HInv' /\ Unnoticed
<1>1. /\ where = "code" /\ AtSite /\ where' = "pushad"
      /\ UNCHANGED <<stack, ebp, vol, fn, pc, uin, loaded, bases>>
  BY DEF Jump, client
<1>2. Body = Len(stack) /\ Own[where'] = 0 /\ Body \in Nat
  BY <1>1, OwnIs DEF Body, HInv, Typed
<1>3. InTrampoline'
  <2>1. Body' = Len(stack')
    BY <1>1, <1>2 DEF Body
  <2>2. Body' + 1 .. Len(stack') = {}
    BY <1>1, <1>2, <2>1
  <2> QED
    BY <1>1, <1>2, <2>2, OwnIs DEF InTrampoline, AtSite
<1>4. PlainVol' = PlainVol
  BY <1>1, OwnIs DEF PlainVol
<1>5. /\ vol \in Values /\ BasesOK(bases, loaded) /\ stack \in Seq(Dwords)
      /\ Len(stack') = Body + Own[where'] /\ where' \in DOMAIN Own
  BY <1>1, <1>2, OwnIs DEF HInv, Typed
<1> QED
  BY <1>1, <1>3, <1>5, <1>4, TrampolineStep

LEMMA JumpBackStep ==
    ASSUME HInv, JumpBack PROVE HInv' /\ Unnoticed
<1>1. /\ where = "stolen" /\ where' = "code"
      /\ UNCHANGED <<stack, ebp, vol, fn, pc, uin, loaded, bases>>
  BY DEF JumpBack, client
<1>2. Body = Len(stack) /\ Own[where'] = 0 /\ Body \in Nat
  BY <1>1, OwnIs DEF Body, HInv, Typed
<1>3. InTrampoline'
  <2>1. Body' = Len(stack')
    BY <1>1, <1>2 DEF Body
  <2>2. Body' + 1 .. Len(stack') = {}
    BY <1>1, <1>2, <2>1
  <2> QED
    BY <1>1, <1>2, <2>2, OwnIs DEF InTrampoline
<1>4. PlainVol' = PlainVol
  BY <1>1, OwnIs DEF PlainVol
<1>5. /\ vol \in Values /\ BasesOK(bases, loaded) /\ stack \in Seq(Dwords)
      /\ Len(stack') = Body + Own[where'] /\ where' \in DOMAIN Own
  BY <1>1, <1>2, OwnIs DEF HInv, Typed
<1> QED
  BY <1>1, <1>3, <1>5, <1>4, TrampolineStep

LEMMA LoadModuleStep ==
    ASSUME HInv, NEW m \in Modules, LoadModule(m) PROVE HInv' /\ Unnoticed
<1>1. loaded \subseteq loaded' /\ UNCHANGED <<stack, ebp, vol, fn, pc, uin, where, bases>>
  BY DEF LoadModule, client
<1>2. Body' = Body /\ Body \in Nat
  BY <1>1 DEF Body, HInv, Typed
<1>3. Typed'
  <2>1. BasesOK(bases', loaded')
    BY <1>1 DEF HInv, Typed, BasesOK, LoadModule
  <2> QED
    BY <1>1, <1>2, <2>1 DEF HInv, Typed
<1>4. Shape(stack, Body, ebp, fn, pc, loaded')
  BY <1>1, <1>2, LoadedShape DEF HInv
<1>5. InTrampoline'
  BY <1>1, <1>2 DEF HInv, InTrampoline, AtSite
<1>6. Unnoticed
  BY <1>1 DEF Unnoticed, PlainStack, PlainVol
<1> QED
  BY <1>1, <1>2, <1>3, <1>4, <1>5, <1>6 DEF HInv

LEMMA SavedIs ==
    \A v \in Values \cup {"ebx", "esp", "esi", "edi"} :
        Saved(v).kind = "reg" /\ Saved(v).of = v /\ Saved(v) \in Dwords
<1>1. Main \in Fns
  BY CodeAssumption DEF Fns
<1> QED
  BY <1>1 DEF Saved, Dword, Dwords

LEMMA PushadStep ==
    ASSUME HInv, Pushad PROVE HInv' /\ Unnoticed
<1>1. /\ where = "pushad" /\ where' = "lea"
      /\ UNCHANGED <<ebp, vol, fn, pc, uin, loaded, bases>>
  BY DEF Pushad
<1>2. /\ Body = Len(stack) /\ Own[where'] = 8 /\ Body \in Nat
      /\ stack \in Seq(Dwords) /\ ebp \in Dwords /\ vol \in Values /\ BasesOK(bases, loaded)
  BY <1>1, OwnIs DEF Body, HInv, Typed
<1> DEFINE regs == <<Saved(vol), Saved(vol), Saved(vol), Saved("ebx"), Saved("esp"),
                     ebp, Saved("esi"), Saved("edi")>>
<1>3. stack' = stack \o regs
  BY DEF Pushad
<1>4. PICK r \in Seq(Dwords) : stack' = stack \o r /\ Len(r) = 8 /\ r[1] = Saved(vol) /\ r[6] = ebp
                              /\ \A i \in 1 .. 8 : i # 6 => r[i].kind = "reg"
  <2>1. regs \in Seq(Dwords) /\ Len(regs) = 8 /\ regs[1] = Saved(vol) /\ regs[6] = ebp
    BY <1>2, SavedIs
  <2>2. \A i \in 1 .. 8 : i # 6 => regs[i].kind = "reg"
    BY <1>2, SavedIs
  <2> HIDE DEF regs
  <2> QED
    BY <1>3, <2>1, <2>2
<1>5. /\ stack' \in Seq(Dwords) /\ Len(stack') = Body + 8
      /\ \A i \in 1 .. Body : stack'[i] = stack[i]
      /\ stack'[Body + 1] = Saved(vol) /\ stack'[Body + 6] = ebp
      /\ \A i \in Body + 1 .. Body + 8 : i # Body + 6 => stack'[i].kind = "reg"
  <2>1. stack \in Seq(Dwords) /\ r \in Seq(Dwords) /\ stack' = stack \o r /\ Len(r) = 8
    BY <1>2, <1>4
  <2>2. /\ stack' \in Seq(Dwords) /\ Len(stack') = Len(stack) + Len(r)
        /\ \A i \in 1 .. Len(stack) + Len(r) :
             stack'[i] = IF i <= Len(stack) THEN stack[i] ELSE r[i - Len(stack)]
    BY <2>1, ConcatProperties
  <2>3. stack'[Body + 1] = r[1] /\ stack'[Body + 6] = r[6] /\ \A i \in 1 .. Body : stack'[i] = stack[i]
    BY <1>2, <2>1, <2>2
  <2>4. ASSUME NEW i \in Body + 1 .. Body + 8, i # Body + 6 PROVE stack'[i].kind = "reg"
    <3>1. i - Body \in 1 .. 8 /\ i - Body # 6 /\ stack'[i] = r[i - Body]
      BY <1>2, <2>1, <2>2, <2>4
    <3> QED
      BY <1>4, <3>1
  <2> QED
    BY <1>2, <1>4, <2>1, <2>2, <2>3, <2>4
<1>6. Body' = Body
  BY <1>2, <1>5 DEF Body
<1>7. stack'[Body + 1].kind = "reg" /\ stack'[Body + 1].of \in Values
  BY <1>2, <1>5, SavedIs
<1>8. PlainVol' = PlainVol
  <2>1. PlainVol = vol
    BY <1>1, OwnIs, PlainVolIs
  <2>2. PlainVol' = stack'[Body + 1].of
    BY <1>1, <1>2, <1>5, OwnIs DEF PlainVol
  <2> QED
    BY <1>2, <1>5, <2>1, <2>2, SavedIs
<1>9. AtSite'
  BY <1>1 DEF HInv, InTrampoline, AtSite
<1>10. InTrampoline'
  BY <1>1, <1>2, <1>5, <1>6, <1>7, <1>9 DEF InTrampoline
<1> QED
  BY <1>1, <1>2, <1>5, <1>10, <1>8, OwnIs, TrampolineStep

LEMMA PushContextStep ==
    ASSUME HInv, PushContext PROVE HInv' /\ Unnoticed
<1>1. /\ where = "lea" /\ where' = "call" /\ vol' = "junk"
      /\ stack' = Append(stack, Dword("context", Main, Len(stack)))
      /\ UNCHANGED <<ebp, fn, pc, uin, loaded, bases>>
  BY DEF PushContext
<1>2. /\ Len(stack) = Body + 8 /\ Own[where'] = 9 /\ Body \in Nat
      /\ stack \in Seq(Dwords) /\ BasesOK(bases, loaded)
      /\ stack[Body + 6] = ebp /\ stack[Body + 1].kind = "reg" /\ stack[Body + 1].of \in Values
      /\ \A i \in Body + 1 .. Len(stack) : i # Body + 6 => stack[i].kind \in {"reg", "context", "back"}
  BY <1>1, OwnIs DEF Body, HInv, Typed, InTrampoline
<1>3. Dword("context", Main, Len(stack)) \in Dwords
  <2>1. Main \in Fns
    BY CodeAssumption DEF Fns
  <2> QED
    BY <1>2, <2>1 DEF Dword, Dwords
<1>4. /\ stack' \in Seq(Dwords) /\ Len(stack') = Body + 9
      /\ \A i \in 1 .. Body + 8 : stack'[i] = stack[i]
      /\ stack'[Body + 9] = Dword("context", Main, Body + 8)
  BY <1>1, <1>2, <1>3
<1>5. Body' = Body
  BY <1>2, <1>4 DEF Body
<1>6. stack'[Body + 6] = ebp /\ stack'[Body + 1] = stack[Body + 1] /\ \A i \in 1 .. Body : stack'[i] = stack[i]
  BY <1>2, <1>4
<1>7. PlainVol' = PlainVol
  <2>1. PlainVol = stack[Body + 1].of
    BY <1>1, OwnIs, PlainVolIs
  <2>2. PlainVol' = stack'[Body + 1].of
    BY <1>1, <1>2, <1>4, OwnIs DEF PlainVol
  <2> QED
    BY <1>6, <2>1, <2>2
<1>8. AtSite'
  BY <1>1 DEF HInv, InTrampoline, AtSite
<1>9. ASSUME NEW i \in Body + 1 .. Body + 9, i # Body + 6
      PROVE  stack'[i].kind \in {"reg", "context", "back"}
  <2>1. i = Body + 9 \/ (i \in 1 .. Body + 8 /\ i \in Body + 1 .. Len(stack))
    BY <1>2
  <2> QED
    BY <1>2, <1>4, <1>9, <2>1, DwordIs
<1>10. InTrampoline'
  BY <1>1, <1>2, <1>4, <1>5, <1>6, <1>8, <1>9 DEF InTrampoline
<1> QED
  BY <1>1, <1>2, <1>4, <1>6, <1>10, <1>7, OwnIs, ValuesIs, TrampolineStep

LEMMA CallCallbackStep ==
    ASSUME HInv, CallCallback PROVE HInv' /\ Unnoticed
<1>1. /\ where = "call" /\ where' = "callback"
      /\ stack' = Append(stack, Dword("back", Main, 0))
      /\ UNCHANGED <<ebp, vol, fn, pc, uin, loaded, bases>>
  BY DEF CallCallback
<1>2. /\ Len(stack) = Body + 9 /\ Own[where'] = 10 /\ Body \in Nat
      /\ stack \in Seq(Dwords) /\ BasesOK(bases, loaded) /\ vol \in Values
      /\ stack[Body + 6] = ebp /\ stack[Body + 1].kind = "reg" /\ stack[Body + 1].of \in Values
      /\ stack[Body + 9] = Dword("context", Main, Body + 8)
      /\ \A i \in Body + 1 .. Len(stack) : i # Body + 6 => stack[i].kind \in {"reg", "context", "back"}
  BY <1>1, OwnIs DEF Body, HInv, Typed, InTrampoline
<1>3. Dword("back", Main, 0) \in Dwords
  <2>1. Main \in Fns
    BY CodeAssumption DEF Fns
  <2> QED
    BY <2>1 DEF Dword, Dwords
<1>4. /\ stack' \in Seq(Dwords) /\ Len(stack') = Body + 10
      /\ \A i \in 1 .. Body + 9 : stack'[i] = stack[i]
  BY <1>1, <1>2, <1>3
<1>5. Body' = Body
  BY <1>2, <1>4 DEF Body
<1>6. /\ stack'[Body + 6] = ebp /\ stack'[Body + 1] = stack[Body + 1] /\ stack'[Body + 9] = stack[Body + 9]
      /\ \A i \in 1 .. Body : stack'[i] = stack[i]
  <2>1. Body \in Nat /\ \A i \in 1 .. Body + 9 : stack'[i] = stack[i]
    BY <1>2, <1>4
  <2>2. Body + 6 \in 1 .. Body + 9 /\ Body + 1 \in 1 .. Body + 9 /\ Body + 9 \in 1 .. Body + 9
    BY <2>1
  <2>3. \A i \in 1 .. Body : i \in 1 .. Body + 9
    BY <2>1
  <2>4. stack[Body + 6] = ebp
    BY <1>2
  <2> QED
    BY <2>1, <2>2, <2>3, <2>4
<1>7. PlainVol' = PlainVol
  <2>1. PlainVol = stack[Body + 1].of
    BY <1>1, OwnIs, PlainVolIs
  <2>2. PlainVol' = stack'[Body + 1].of
    BY <1>1, <1>2, <1>4, OwnIs DEF PlainVol
  <2> QED
    BY <1>6, <2>1, <2>2
<1>8. AtSite'
  BY <1>1 DEF HInv, InTrampoline, AtSite
<1>9. ASSUME NEW i \in Body + 1 .. Body + 10, i # Body + 6
      PROVE  stack'[i].kind \in {"reg", "context", "back"}
  <2>1. i = Body + 10 \/ (i \in 1 .. Body + 9 /\ i \in Body + 1 .. Len(stack))
    BY <1>2
  <2>2. stack'[Body + 10] = Dword("back", Main, 0)
    BY <1>1, <1>2
  <2> QED
    BY <1>2, <1>4, <1>9, <2>1, <2>2, DwordIs
<1>10. InTrampoline'
  BY <1>1, <1>2, <1>4, <1>5, <1>6, <1>8, <1>9 DEF InTrampoline
<1> QED
  BY <1>1, <1>2, <1>4, <1>6, <1>10, <1>7, OwnIs, TrampolineStep

LEMMA CallbackStep ==
    ASSUME HInv, Callback PROVE HInv' /\ Unnoticed
<1>1. /\ where = "callback" /\ where' = "drop" /\ vol' = "junk" /\ bases' = Refresh
      /\ stack' = SubSeq(stack, 1, Len(stack) - 1)
      /\ UNCHANGED <<ebp, fn, pc, uin, loaded>>
  BY DEF Callback, Pop
<1>2. /\ Len(stack) = Body + 10 /\ Own[where'] = 9 /\ Body \in Nat
      /\ stack \in Seq(Dwords)
      /\ stack[Body + 6] = ebp /\ stack[Body + 1].kind = "reg" /\ stack[Body + 1].of \in Values
      /\ stack[Body + 9] = Dword("context", Main, Body + 8)
      /\ \A i \in Body + 1 .. Len(stack) : i # Body + 6 => stack[i].kind \in {"reg", "context", "back"}
  BY <1>1, OwnIs DEF Body, HInv, Typed, InTrampoline
<1>3. BasesOK(bases', loaded)
  BY <1>1 DEF Refresh, LookUp, BasesOK, HInv, Typed
<1>4. /\ stack' \in Seq(Dwords) /\ Len(stack') = Body + 9
      /\ \A i \in 1 .. Body + 9 : stack'[i] = stack[i]
  <2>1. Body + 9 \in 0 .. Len(stack) /\ Len(stack) - 1 = Body + 9
    BY <1>2
  <2> QED
    BY <1>1, <1>2, <2>1, Prefix
<1>5. Body' = Body
  BY <1>2, <1>4 DEF Body
<1>6. /\ stack'[Body + 6] = ebp /\ stack'[Body + 1] = stack[Body + 1] /\ stack'[Body + 9] = stack[Body + 9]
      /\ \A i \in 1 .. Body : stack'[i] = stack[i]
  BY <1>2, <1>4
<1>7. PlainVol' = PlainVol
  <2>1. PlainVol = stack[Body + 1].of
    BY <1>1, OwnIs, PlainVolIs
  <2>2. PlainVol' = stack'[Body + 1].of
    BY <1>1, <1>2, <1>4, OwnIs DEF PlainVol
  <2> QED
    BY <1>6, <2>1, <2>2
<1>8. AtSite'
  BY <1>1 DEF HInv, InTrampoline, AtSite
<1>9. InTrampoline'
  <2>1. \A i \in Body + 1 .. Body + 9 : i # Body + 6 => stack'[i].kind \in {"reg", "context", "back"}
    BY <1>2, <1>4
  <2> QED
    BY <1>1, <1>2, <1>4, <1>5, <1>6, <1>8, <2>1 DEF InTrampoline
<1> QED
  BY <1>1, <1>2, <1>3, <1>4, <1>6, <1>9, <1>7, OwnIs, ValuesIs, TrampolineStep

LEMMA DropStep ==
    ASSUME HInv, Drop PROVE HInv' /\ Unnoticed
<1>1. /\ where = "drop" /\ where' = "popad"
      /\ stack' = SubSeq(stack, 1, Len(stack) - 1)
      /\ UNCHANGED <<ebp, vol, fn, pc, uin, loaded, bases>>
  BY DEF Drop, Pop, Dropped
<1>2. /\ Len(stack) = Body + 9 /\ Own[where'] = 8 /\ Body \in Nat
      /\ stack \in Seq(Dwords) /\ BasesOK(bases, loaded) /\ vol \in Values
      /\ stack[Body + 6] = ebp /\ stack[Body + 1].kind = "reg" /\ stack[Body + 1].of \in Values
      /\ \A i \in Body + 1 .. Len(stack) : i # Body + 6 => stack[i].kind \in {"reg", "context", "back"}
  BY <1>1, OwnIs DEF Body, HInv, Typed, InTrampoline
<1>3. /\ stack' \in Seq(Dwords) /\ Len(stack') = Body + 8
      /\ \A i \in 1 .. Body + 8 : stack'[i] = stack[i]
  <2>1. Body + 8 \in 0 .. Len(stack) /\ Len(stack) - 1 = Body + 8
    BY <1>2
  <2> QED
    BY <1>1, <1>2, <2>1, Prefix
<1>4. Body' = Body
  BY <1>2, <1>3 DEF Body
<1>5. /\ stack'[Body + 6] = ebp /\ stack'[Body + 1] = stack[Body + 1]
      /\ \A i \in 1 .. Body : stack'[i] = stack[i]
  BY <1>2, <1>3
<1>6. PlainVol' = PlainVol
  <2>1. PlainVol = stack[Body + 1].of
    BY <1>1, OwnIs, PlainVolIs
  <2>2. PlainVol' = stack'[Body + 1].of
    BY <1>1, <1>2, <1>3, OwnIs DEF PlainVol
  <2> QED
    BY <1>5, <2>1, <2>2
<1>7. AtSite'
  BY <1>1 DEF HInv, InTrampoline, AtSite
<1>8. InTrampoline'
  BY <1>1, <1>2, <1>3, <1>4, <1>5, <1>7 DEF InTrampoline
<1> QED
  BY <1>1, <1>2, <1>3, <1>5, <1>8, <1>6, OwnIs, TrampolineStep

LEMMA PopadStep ==
    ASSUME HInv, Popad
    PROVE  HInv' /\ Unnoticed
<1>1. /\ where = "popad" /\ where' = "stolen"
      /\ stack' = SubSeq(stack, 1, Len(stack) - 8)
      /\ ebp' = stack[Len(stack) - 2] /\ vol' = stack[Len(stack) - 7].of
      /\ UNCHANGED <<fn, pc, uin, loaded, bases>>
  BY DEF Popad, Pop, SavedEbp
<1>2. /\ Len(stack) = Body + 8 /\ Own[where'] = 0 /\ Body \in Nat
      /\ stack \in Seq(Dwords) /\ BasesOK(bases, loaded)
      /\ stack[Body + 6] = ebp /\ stack[Body + 1].of \in Values /\ AtSite
      /\ \A i \in Body + 1 .. Len(stack) : i # Body + 6 => stack[i].kind \in {"reg", "context", "back"}
  BY <1>1, OwnIs DEF Body, HInv, Typed, InTrampoline
<1>3. Len(stack) - 2 = Body + 6 /\ Len(stack) - 7 = Body + 1 /\ Len(stack) - 8 = Body
  BY <1>2
<1>4. ebp' = ebp /\ vol' = stack[Body + 1].of /\ stack' = SubSeq(stack, 1, Body)
  BY <1>1, <1>2, <1>3
<1>5. /\ stack' \in Seq(Dwords) /\ Len(stack') = Body
      /\ \A i \in 1 .. Body : stack'[i] = stack[i]
  <2>1. Body \in 0 .. Len(stack)
    BY <1>2
  <2> QED
    BY <1>2, <1>4, <2>1, Prefix
<1>6. InStolen(fn, pc)
  BY <1>2, SiteIs DEF AtSite, InStolen
<1>7. InTrampoline'
  <2>1. Body' = Body
    BY <1>2, <1>5 DEF Body
  <2>2. Body' + 1 .. Len(stack') = {}
    BY <1>2, <1>5, <2>1
  <2> QED
    BY <1>1, <1>2, <1>6, <2>2, OwnIs DEF InTrampoline
<1>8. PlainVol' = PlainVol
  <2>1. PlainVol = stack[Body + 1].of
    BY <1>1, OwnIs, PlainVolIs
  <2>2. PlainVol' = vol'
    BY <1>1, OwnIs DEF PlainVol
  <2> QED
    BY <1>4, <2>1, <2>2
<1>9. vol' \in Values /\ Len(stack') = Body + Own[where'] /\ where' \in DOMAIN Own
  BY <1>1, <1>2, <1>4, <1>5, OwnIs
<1> QED
  BY <1>1, <1>2, <1>4, <1>5, <1>7, <1>9, <1>8, TrampolineStep

LEMMA InitHInv == HookedInit => HInv
<1> SUFFICES ASSUME HookedInit PROVE HInv
  OBVIOUS
<1>1. /\ stack = <<>> /\ ebp = NoFrame /\ vol = "start" /\ fn = Main /\ pc = 1 /\ uin = 0
      /\ where = "code" /\ loaded = Loaded
      /\ bases = [w \in Walks |-> IF w = "CmdDispatchSwitch" THEN Loaded \cap Listed(w) ELSE {}]
  BY DEF HookedInit, Init
<1>2. Body = 0 /\ Len(stack) = 0
  BY <1>1, OwnIs DEF Body
<1>3. Main \in Fns /\ 1 \in 1 .. Len(Code[Main])
  BY CodeAssumption, CodeIs DEF Fns
<1>4. Typed
  <2>1. BasesOK(bases, loaded)
    BY <1>1, ModulesAssumption DEF BasesOK
  <2>2. ModuleOf[Main] \in Loaded
    BY ModulesAssumption
  <2> QED
    BY <1>1, <1>2, <1>3, <2>1, <2>2, OwnIs, ValuesIs, FrameIsDword DEF Typed
<1>5. ~HasPushed(Main, 1) /\ ~HasFrame(Main, 1)
  BY <1>3, EntryPlace
<1>6. Parsed(stack, 0, Main, 1, Loaded)
  BY <1>5 DEF Parsed, OnTop
<1>7. Linked(stack, 0, NoFrame)
  BY DwordIs DEF Linked, LinkOK, NoFrame, SavedKinds
<1>8. Kept(stack, 0, NoFrame, Main, 1)
  BY <1>5 DEF Kept
<1>9. InTrampoline
  <2>1. Body + 1 .. Len(stack) = {}
    BY <1>2
  <2> QED
    BY <1>1, <2>1, OwnIs DEF InTrampoline
<1> QED
  BY <1>1, <1>2, <1>4, <1>6, <1>7, <1>8, <1>9 DEF HInv, Shape

LEMMA StutterStep == HInv /\ UNCHANGED vars => HInv' /\ Unnoticed
<1> SUFFICES ASSUME HInv, UNCHANGED vars PROVE HInv' /\ Unnoticed
  OBVIOUS
<1>1. UNCHANGED <<stack, ebp, vol, fn, pc, uin, where, loaded, bases>>
  BY DEF vars, client
<1> QED
  BY <1>1 DEF HInv, Typed, InTrampoline, Body, AtSite, Unnoticed, PlainStack, PlainVol

LEMMA NextHInv == HInv /\ [HookedNext]_vars => HInv'
BY RunCodeStep, JumpStep, PushadStep, PushContextStep, CallCallbackStep, CallbackStep, DropStep,
   PopadStep, RunStolenStep, JumpBackStep, LoadModuleStep, StutterStep DEF HookedNext, Trampoline

LEMMA SpecHInv == HookedSpec => []HInv
BY InitHInv, NextHInv, PTL DEF HookedSpec

(* Whatever the client's code and the modules: a frame pointer, in ebp or  *)
(* saved, refers to a saved one on the stack, in a trampoline too.         *)
THEOREM FramesTyped == HookedSpec => []TypeOK
<1>1. HInv => TypeOK
  <2> SUFFICES ASSUME HInv PROVE TypeOK
    OBVIOUS
  <2>1. /\ stack \in Seq(Dwords) /\ Body \in Nat /\ Len(stack) \in Nat /\ Own[where] \in Nat
        /\ Body = Len(stack) - Own[where]
    BY OwnNat DEF HInv, Typed, Body
  <2>2. /\ LinkOK(stack, Body, ebp)
        /\ \A i \in 1 .. Body : LinkOK(stack, i - 1, stack[i])
    BY DEF HInv, Shape, Linked
  <2>3. ASSUME NEW e \in {ebp} \cup {stack[i] : i \in DOMAIN stack}, e.kind = "frame"
        PROVE  e.n \in DOMAIN stack /\ stack[e.n].kind \in SavedKinds
    <3>1. (\E p \in 0 .. Body : LinkOK(stack, p, e)) => e.n \in 1 .. Len(stack) /\ SavedAt(stack, e.n)
      BY <2>1, <2>3 DEF LinkOK
    <3>2. CASE e = ebp
      BY <2>1, <2>2, <3>1, <3>2 DEF SavedAt, SavedKinds
    <3>3. ASSUME NEW i \in 1 .. Body, e = stack[i]
          PROVE  e.n \in DOMAIN stack /\ stack[e.n].kind \in SavedKinds
      <4>1. LinkOK(stack, i - 1, e) /\ i - 1 \in 0 .. Body
        BY <2>1, <2>2, <3>3
      <4> QED
        BY <2>1, <3>1, <4>1 DEF SavedAt, SavedKinds
    <3>4. ASSUME NEW i \in Body + 1 .. Len(stack), e = stack[i], e # ebp
          PROVE  FALSE
      <4>1. Own[where] > 0
        BY <2>1
      <4>2. i # Body + 6
        BY <3>4, <4>1 DEF HInv, InTrampoline
      <4> QED
        BY <2>3, <3>4, <4>2 DEF HInv, InTrampoline
    <3>5. e = ebp \/ (\E i \in 1 .. Body : e = stack[i]) \/ \E i \in Body + 1 .. Len(stack) : e = stack[i]
      <4>1. \A i \in DOMAIN stack : i \in 1 .. Body \/ i \in Body + 1 .. Len(stack)
        BY <2>1
      <4> QED
        BY <4>1
    <3> QED
      BY <3>2, <3>3, <3>4, <3>5
  <2>4. \A i \in DOMAIN stack : stack[i] \in Dwords
    BY <2>1
  <2>5. pc \in 1 .. Len(Code[fn]) + 1
    BY CodeIs DEF HInv, Typed
  <2> QED
    BY <2>3, <2>4, <2>5 DEF TypeOK, HInv, Typed, SavedKinds, BasesOK
<1> QED
  BY <1>1, SpecHInv, PTL

-----------------------------------------------------------------------------
(* The client does what it would do without hooks and with the original    *)
(* TerSafe.                                                                *)

LEMMA SameSeq ==
    ASSUME NEW S, NEW s \in Seq(S), NEW t \in Seq(S), Len(s) = Len(t),
           \A i \in 1 .. Len(s) : s[i] = t[i]
    PROVE  s = t
OBVIOUS

LEMMA AsReturnIs ==
    ASSUME NEW d \in Dwords
    PROVE  /\ AsReturn(d) \in Dwords /\ AsReturn(d).of = d.of /\ AsReturn(d).n = d.n
           /\ AsReturn(d).kind = IF d.kind = "tramp" THEN "ret" ELSE d.kind
           /\ d.kind # "tramp" => AsReturn(d) = d
BY DEF AsReturn, Dwords

(* The stack as the client would have it, an address to return to as ret.  *)
Seen(s) == [i \in 1 .. Len(s) |-> AsReturn(s[i])]

LEMMA SeenIs ==
    ASSUME NEW s \in Seq(Dwords)
    PROVE  /\ Seen(s) \in Seq(Dwords) /\ Len(Seen(s)) = Len(s) /\ DOMAIN Seen(s) = 1 .. Len(s)
           /\ \A i \in 1 .. Len(s) : Seen(s)[i] = AsReturn(s[i])
<1>1. \A i \in 1 .. Len(s) : AsReturn(s[i]) \in Dwords
  BY AsReturnIs
<1>2. Len(s) \in Nat
  OBVIOUS
<1>3. Seen(s) \in [1 .. Len(s) -> Dwords] /\ \A i \in 1 .. Len(s) : Seen(s)[i] = AsReturn(s[i])
  BY <1>1 DEF Seen
<1> QED
  BY <1>2, <1>3

LEMMA SeenAppend ==
    ASSUME NEW s \in Seq(Dwords), NEW d \in Dwords
    PROVE  Seen(Append(s, d)) = Append(Seen(s), AsReturn(d))
<1>1. Append(s, d) \in Seq(Dwords) /\ Len(Append(s, d)) = Len(s) + 1
  OBVIOUS
<1>2. AsReturn(d) \in Dwords
  BY AsReturnIs
<1>3. /\ Append(Seen(s), AsReturn(d)) \in Seq(Dwords)
      /\ Len(Append(Seen(s), AsReturn(d))) = Len(s) + 1
  BY <1>2, SeenIs
<1>4. ASSUME NEW i \in 1 .. Len(s) + 1
      PROVE  Seen(Append(s, d))[i] = Append(Seen(s), AsReturn(d))[i]
  <2>1. Seen(Append(s, d))[i] = AsReturn(Append(s, d)[i])
    BY <1>1, SeenIs
  <2>2. CASE i = Len(s) + 1
    BY <1>2, <2>1, <2>2, SeenIs
  <2>3. CASE i \in 1 .. Len(s)
    <3>1. Append(s, d)[i] = s[i]
      BY <2>3
    <3>2. Append(Seen(s), AsReturn(d))[i] = Seen(s)[i]
      BY <1>2, <2>3, SeenIs
    <3>3. Seen(s)[i] = AsReturn(s[i])
      BY <2>3, SeenIs
    <3> QED
      BY <2>1, <3>1, <3>2, <3>3
  <2>4. i = Len(s) + 1 \/ i \in 1 .. Len(s)
    BY <1>1
  <2> QED
    BY <2>2, <2>3, <2>4
<1>5. Seen(Append(s, d)) \in Seq(Dwords) /\ Len(Seen(Append(s, d))) = Len(s) + 1
  BY <1>1, SeenIs
<1> QED
  BY <1>3, <1>4, <1>5, SameSeq

LEMMA SeenPrefix ==
    ASSUME NEW s \in Seq(Dwords), NEW n \in 0 .. Len(s)
    PROVE  Seen(SubSeq(s, 1, n)) = SubSeq(Seen(s), 1, n)
<1>1. /\ SubSeq(s, 1, n) \in Seq(Dwords) /\ Len(SubSeq(s, 1, n)) = n
      /\ \A i \in 1 .. n : SubSeq(s, 1, n)[i] = s[i]
  BY Prefix
<1>2. /\ SubSeq(Seen(s), 1, n) \in Seq(Dwords) /\ Len(SubSeq(Seen(s), 1, n)) = n
      /\ \A i \in 1 .. n : SubSeq(Seen(s), 1, n)[i] = Seen(s)[i]
  <2>1. Seen(s) \in Seq(Dwords) /\ n \in 0 .. Len(Seen(s))
    BY SeenIs
  <2> QED
    BY <2>1, Prefix
<1>3. Seen(SubSeq(s, 1, n)) \in Seq(Dwords) /\ Len(Seen(SubSeq(s, 1, n))) = n
  BY <1>1, SeenIs
<1>4. ASSUME NEW i \in 1 .. n PROVE Seen(SubSeq(s, 1, n))[i] = SubSeq(Seen(s), 1, n)[i]
  <2>1. i \in 1 .. Len(s)
    OBVIOUS
  <2>2. Seen(SubSeq(s, 1, n))[i] = AsReturn(SubSeq(s, 1, n)[i])
    BY <1>1, SeenIs
  <2> QED
    BY <1>1, <1>2, <2>1, <2>2, SeenIs
<1> QED
  BY <1>2, <1>3, <1>4, SameSeq

LEMMA SeenCall ==
    ASSUME NEW s \in Seq(Dwords), NEW a \in Dwords, NEW r \in Dwords
    PROVE  Seen(s \o <<a, r>>) = Seen(s) \o <<AsReturn(a), AsReturn(r)>>
<1>1. s \o <<a, r>> = Append(Append(s, a), r)
  <2> DEFINE u == s \o <<a, r>>
             v == Append(Append(s, a), r)
  <2>1. u \in Seq(Dwords) /\ Len(u) = Len(s) + 2
    OBVIOUS
  <2>2. v \in Seq(Dwords) /\ Len(v) = Len(s) + 2
    OBVIOUS
  <2>3. ASSUME NEW i \in 1 .. Len(s) + 2 PROVE u[i] = v[i]
    OBVIOUS
  <2> HIDE DEF u, v
  <2>4. u = v
    BY <2>1, <2>2, <2>3, SameSeq
  <2> QED
    BY <2>4 DEF u, v
<1>2. Seen(Append(Append(s, a), r)) = Append(Append(Seen(s), AsReturn(a)), AsReturn(r))
  <2>1. Append(s, a) \in Seq(Dwords)
    OBVIOUS
  <2>2. Seen(Append(Append(s, a), r)) = Append(Seen(Append(s, a)), AsReturn(r))
    BY <2>1, SeenAppend
  <2>3. Seen(Append(s, a)) = Append(Seen(s), AsReturn(a))
    BY SeenAppend
  <2> QED
    BY <2>2, <2>3
<1>3. Seen(s) \in Seq(Dwords) /\ AsReturn(a) \in Dwords /\ AsReturn(r) \in Dwords
  BY SeenIs, AsReturnIs
<1>4. Append(Append(Seen(s), AsReturn(a)), AsReturn(r)) = Seen(s) \o <<AsReturn(a), AsReturn(r)>>
  BY <1>3
<1> QED
  BY <1>1, <1>2, <1>4

LEMMA PlainOutside ==
    Own[where] = 0 => PlainVol = vol /\ (Sound => PlainStack = Seen(stack))
<1> SUFFICES ASSUME Own[where] = 0 PROVE PlainVol = vol /\ (Sound => PlainStack = Seen(stack))
  OBVIOUS
<1>1. PlainVol = vol
  BY DEF PlainVol
<1>2. ASSUME Sound PROVE PlainStack = Seen(stack)
  <2>1. Len(stack) - Own[where] = Len(stack)
    BY <1>2 DEF Sound
  <2> QED
    BY <2>1 DEF PlainStack, Seen
<1> QED
  BY <1>1, <1>2

LEMMA CallsSame == Sound /\ Own[where] = 0 => Plain!Calls = Calls
<1> SUFFICES ASSUME Sound, Own[where] = 0 PROVE Plain!Calls = Calls
  OBVIOUS
<1>1. PlainStack = Seen(stack) /\ stack \in Seq(Dwords)
  BY PlainOutside DEF Sound
<1>2. DOMAIN PlainStack = DOMAIN stack
  BY <1>1, SeenIs
<1>3. \A i \in DOMAIN stack : PlainStack[i].kind \in Returns <=> stack[i].kind \in Returns
  <2>1. \A i \in 1 .. Len(stack) : PlainStack[i] = AsReturn(stack[i]) /\ stack[i] \in Dwords
    BY <1>1, SeenIs
  <2> QED
    BY <1>1, <2>1, AsReturnIs DEF Returns
<1>4. {i \in DOMAIN PlainStack : PlainStack[i].kind \in Returns} = {i \in DOMAIN stack : stack[i].kind \in Returns}
  BY <1>2, <1>3
<1>5. Plain!Calls = Cardinality({i \in DOMAIN PlainStack : PlainStack[i].kind \in Returns})
  BY DEF Plain!Calls, Plain!Returns, Returns, Plain!Cardinality, Cardinality
<1>6. Calls = Cardinality({i \in DOMAIN stack : stack[i].kind \in Returns})
  BY DEF Calls
<1> QED
  BY <1>4, <1>5, <1>6

LEMMA PlainAfter ==
    ASSUME Sound', Own[where'] = 0
    PROVE  PlainVol' = vol' /\ PlainStack' = Seen(stack')
<1>1. PlainVol' = vol'
  BY DEF PlainVol
<1>2. Len(stack') - Own[where'] = Len(stack')
  BY DEF Sound
<1>3. PlainStack' = Seen(stack')
  BY <1>2 DEF PlainStack, Seen
<1> QED
  BY <1>1, <1>3

LEMMA ExecutePlain ==
    ASSUME Sound, Own[where] = 0, Sound', Own[where'] = 0, loaded' = loaded,
           NEW kind \in Returns, NEW global,
           Execute(kind, global), Instruction = "global" => global = "variable"
    PROVE  Plain!Execute("ret", "variable")
<1>1. /\ PlainVol = vol /\ PlainStack = Seen(stack) /\ PlainVol' = vol' /\ PlainStack' = Seen(stack')
      /\ uin' = uin /\ Plain!Instruction = Instruction
      /\ stack \in Seq(Dwords) /\ ebp \in Dwords /\ Len(stack) \in Nat
  BY PlainOutside, PlainAfter DEF Execute, Plain!Instruction, Instruction, Sound
<1>2. CASE Instruction = "push_ebp" /\ PushEbp /\ Goto(fn, pc + 1)
  <2>1. stack' = Append(stack, ebp) /\ ebp' = ebp /\ vol' = vol
    BY <1>2 DEF PushEbp
  <2>2. AsReturn(ebp) = ebp
    BY <1>1, AsReturnIs DEF Sound, Shape, Linked, SavedKinds
  <2>3. PlainStack' = Append(PlainStack, ebp)
    BY <1>1, <2>1, <2>2, SeenAppend
  <2>4. Plain!PushEbp
    BY <1>1, <2>1, <2>3 DEF Plain!PushEbp
  <2>5. Plain!Goto(fn, pc + 1)
    BY <1>2 DEF Plain!Goto, Goto
  <2> QED
    BY <1>1, <1>2, <2>4, <2>5 DEF Plain!Execute
<1>3. CASE Instruction = "mov_ebp" /\ MovEbp /\ Goto(fn, pc + 1)
  <2>1. stack' = stack /\ ebp' = Frame(Len(stack)) /\ vol' = vol
    BY <1>3 DEF MovEbp
  <2>2. Len(PlainStack) = Len(stack)
    BY <1>1, SeenIs
  <2>3. Plain!MovEbp
    BY <1>1, <2>1, <2>2 DEF Plain!MovEbp, Plain!Frame, Frame, Plain!Dword, Dword
  <2>4. Plain!Goto(fn, pc + 1)
    BY <1>3 DEF Plain!Goto, Goto
  <2> QED
    BY <1>1, <1>3, <2>3, <2>4 DEF Plain!Execute
<1>4. CASE Instruction = "scratch" /\ Scratch /\ Goto(fn, pc + 1)
  <2>1. DOMAIN PlainStack = DOMAIN stack
    BY <1>1, SeenIs
  <2>2. Plain!Scratch
    BY <1>1, <1>4, <2>1 DEF Scratch, Plain!Scratch, Plain!NoFrame, NoFrame, Plain!Heap, Heap,
                            Plain!Local, Local, Plain!Dword, Dword
  <2>3. Plain!Goto(fn, pc + 1)
    BY <1>4 DEF Plain!Goto, Goto
  <2> QED
    BY <1>1, <1>4, <2>2, <2>3 DEF Plain!Execute
<1>5. CASE Goto(fn, pc + 1) /\ ((Instruction = "pop_ebp" /\ PopEbp) \/ (Instruction = "leave" /\ Leave))
  <2>1. SavedAt(stack, Len(stack)) /\ Len(stack) > 1
    BY <1>5, PopStep
  <2>2. /\ stack' = SubSeq(stack, 1, Len(stack) - 1) /\ ebp' = stack[Len(stack)] /\ vol' = vol
        /\ Instruction = "leave" => ebp.n = Len(stack)
    BY <1>5, LeaveIsPop DEF Leave, PopEbp, Pop, Top
  <2>3. Len(PlainStack) = Len(stack) /\ PlainStack[Len(stack)] = stack[Len(stack)]
    <3>1. stack[Len(stack)] \in Dwords /\ stack[Len(stack)].kind # "tramp"
      BY <1>1, <2>1 DEF SavedAt, SavedKinds
    <3>2. PlainStack[Len(stack)] = AsReturn(stack[Len(stack)])
      BY <1>1, <2>1, SeenIs
    <3> QED
      BY <1>1, <3>1, <3>2, AsReturnIs, SeenIs
  <2>4. PlainStack' = SubSeq(PlainStack, 1, Len(stack) - 1)
    <3>1. Len(stack) - 1 \in 0 .. Len(stack)
      BY <1>1, <2>1
    <3> QED
      BY <1>1, <2>2, <3>1, SeenPrefix
  <2>5. Plain!Goto(fn, pc + 1)
    BY <1>5 DEF Plain!Goto, Goto
  <2>6. CASE Instruction = "pop_ebp"
    <3>1. Plain!PopEbp
      BY <1>1, <2>2, <2>3, <2>4 DEF Plain!PopEbp, Plain!Pop, Plain!Top
    <3> QED
      BY <1>1, <2>5, <2>6, <3>1 DEF Plain!Execute
  <2>7. CASE Instruction = "leave"
    <3>1. Plain!Leave
      BY <1>1, <2>2, <2>3, <2>4, <2>7 DEF Plain!Leave
    <3> QED
      BY <1>1, <2>5, <2>7, <3>1 DEF Plain!Execute
  <2> QED
    BY <1>5, <2>6, <2>7
<1>6. CASE /\ Goto(fn, pc + 1)
           /\ \/ Instruction = "load" /\ Load(vol)
              \/ Instruction = "global" /\ Load(global)
              \/ Instruction = "body" /\ fn # Main /\ Load("computed")
  <2>1. Plain!Goto(fn, pc + 1)
    BY <1>6 DEF Plain!Goto, Goto
  <2>2. \/ Instruction = "load" /\ Plain!Load(PlainVol)
        \/ Instruction = "global" /\ Plain!Load("variable")
        \/ Instruction = "body" /\ fn # Main /\ Plain!Load("computed")
    BY <1>1, <1>6 DEF Load, Plain!Load
  <2> QED
    BY <1>1, <2>1, <2>2 DEF Plain!Execute
<1>7. ASSUME NEW next \in 1 .. Len(Code[fn]), Call(kind, next)
      PROVE  Plain!Call("ret", next)
  <2>1. PICK g \in Fns \ {Main} : \E a \in Args[g] :
          /\ stack' = stack \o <<Arg(a), Dword(kind, fn, next)>>
          /\ fn' = g /\ pc' = 1
    BY <1>7 DEF Call, Goto
  <2>2. PICK a \in Args[g] : stack' = stack \o <<Arg(a), Dword(kind, fn, next)>>
    BY <2>1
  <2>3. vol' = "args" /\ ebp' = ebp /\ Calls < MaxCalls
    BY <1>7 DEF Call
  <2>4. a \in Nat /\ Arg(a) \in Dwords /\ next \in Nat /\ fn \in Fns /\ Dword(kind, fn, next) \in Dwords
    <3>1. Args[g] \in SUBSET Nat
      BY CodeAssumption DEF Fns
    <3>2. next \in Nat /\ fn \in Fns
      BY <1>7, CodeIs DEF Sound
    <3> QED
      BY <2>2, <3>1, <3>2, FrameIsDword
  <2>5. AsReturn(Arg(a)) = Arg(a) /\ AsReturn(Dword(kind, fn, next)) = Dword("ret", fn, next)
    <3>1. Arg(a).kind = "arg" /\ Dword(kind, fn, next).kind = kind
      BY DwordIs DEF Arg
    <3>2. AsReturn(Arg(a)) = Arg(a)
      BY <2>4, <3>1, AsReturnIs
    <3>3. AsReturn(Dword(kind, fn, next)) = Dword("ret", fn, next)
      BY DEF AsReturn, Dword, Returns
    <3> QED
      BY <3>2, <3>3
  <2>6. PlainStack' = PlainStack \o <<Arg(a), Dword("ret", fn, next)>>
    <3>1. Seen(stack \o <<Arg(a), Dword(kind, fn, next)>>)
          = Seen(stack) \o <<AsReturn(Arg(a)), AsReturn(Dword(kind, fn, next))>>
      BY <1>1, <2>4, SeenCall
    <3> QED
      BY <1>1, <2>2, <2>5, <3>1
  <2>7. Plain!Calls < MaxCalls
    BY <2>3, CallsSame
  <2>8. /\ Plain!Arg(a) = Arg(a) /\ Plain!Dword("ret", fn, next) = Dword("ret", fn, next)
        /\ g \in Plain!Fns \ {Main} /\ Plain!Goto(g, 1)
    BY <2>1 DEF Plain!Arg, Arg, Plain!Dword, Dword, Plain!Fns, Fns, Plain!Goto
  <2> QED
    BY <1>1, <2>1, <2>2, <2>3, <2>6, <2>7, <2>8 DEF Plain!Call
<1>8. CASE Instruction = "body" /\ Call(kind, pc)
  <2>1. Plain!Call("ret", pc)
    BY <1>7, <1>8 DEF Sound
  <2> QED
    BY <1>1, <1>8, <2>1 DEF Plain!Execute
<1>9. CASE Instruction = "call" /\ Call(kind, pc + 1)
  <2>1. pc + 1 \in 1 .. Len(Code[fn])
    BY <1>9, QuietPlace DEF Sound, Instruction
  <2>2. Plain!Call("ret", pc + 1)
    BY <1>7, <1>9, <2>1
  <2> QED
    BY <1>1, <1>9, <2>2 DEF Plain!Execute
<1>10. CASE Instruction = "ret" /\ Ret
  <2>1. Len(stack) > 1
    BY <1>10, RetStep
  <2>2. /\ fn' = stack[Len(stack)].of /\ pc' = stack[Len(stack)].n
        /\ stack' = SubSeq(stack, 1, Len(stack) - 2) /\ vol' = "result" /\ ebp' = ebp
    BY <1>10 DEF Ret, Goto, Pop, Top
  <2>3. /\ Len(PlainStack) = Len(stack)
        /\ PlainStack[Len(stack)].of = stack[Len(stack)].of /\ PlainStack[Len(stack)].n = stack[Len(stack)].n
    <3>1. stack[Len(stack)] \in Dwords /\ Len(stack) \in 1 .. Len(stack)
      BY <1>1, <2>1
    <3>2. PlainStack[Len(stack)] = AsReturn(stack[Len(stack)])
      BY <1>1, <3>1, SeenIs
    <3> QED
      BY <1>1, <3>1, <3>2, AsReturnIs, SeenIs
  <2>4. PlainStack' = SubSeq(PlainStack, 1, Len(stack) - 2)
    <3>1. Len(stack) - 2 \in 0 .. Len(stack)
      BY <1>1, <2>1
    <3> QED
      BY <1>1, <2>2, <3>1, SeenPrefix
  <2>5. Plain!Ret
    BY <1>1, <2>2, <2>3, <2>4 DEF Plain!Ret, Plain!Goto, Plain!Top, Plain!Pop
  <2> QED
    BY <1>1, <1>10, <2>5 DEF Plain!Execute
<1> QED
  BY <1>2, <1>3, <1>4, <1>5, <1>6, <1>8, <1>9, <1>10 DEF Execute

LEMMA StubPlain ==
    ASSUME Sound, Own[where] = 0, Sound', Own[where'] = 0, loaded' = loaded,
           uin \in Uins \cup {0}, CallStub
    PROVE  Plain!CallTersafe
<1>1. /\ stack' = stack /\ ebp' = ebp /\ fn' = fn /\ pc' = pc + 1
      /\ \E slot \in DOMAIN Pushed :
           /\ vol' = Answered(slot)
           /\ (slot = 0 /\ uin' \in Uins) \/ uin' = uin
  BY StubSound
<1>2. /\ PlainVol' = vol' /\ PlainStack' = Seen(stack') /\ PlainStack = Seen(stack)
  BY PlainOutside, PlainAfter
<1>3. PlainStack' = PlainStack
  BY <1>1, <1>2
<1>4. Instruction = "tersafe"
  BY DEF CallStub
<1>5. Plain!Pushed = Pushed /\ \A slot : Plain!Answered(slot) = Answered(slot)
  BY DEF Plain!Pushed, Pushed, Plain!Answered, Answered
<1>6. \E slot \in DOMAIN Plain!Pushed :
        /\ PlainVol' = Plain!Answered(slot)
        /\ (slot = 0 /\ uin' \in Uins) \/ uin' = uin
  BY <1>1, <1>2, <1>5
<1>7. Plain!Instruction = "tersafe" /\ Plain!Goto(fn, pc + 1)
  BY <1>1, <1>4 DEF Plain!Instruction, Instruction, Plain!Goto
<1> QED
  BY <1>1, <1>3, <1>6, <1>7 DEF Plain!CallTersafe

LEMMA RunCodePlain ==
    ASSUME HInv, HInv', RunCode
    PROVE  Plain!Next
<1>1. where = "code" /\ Own[where] = 0 /\ loaded' = loaded
  BY OwnIs DEF RunCode
<1>2. where' \in {"code", "stolen"} /\ Own[where'] = 0
  BY OwnIs DEF RunCode, Branch
<1>3. Sound /\ uin \in Uins \cup {0}
  BY <1>1, SoundOutside DEF HInv, Typed
<1>4. Sound'
  BY <1>2, SoundAfter
<1>5. CASE Execute("ret", "variable")
  BY <1>1, <1>2, <1>3, <1>4, <1>5, ExecutePlain DEF Plain!Next, Returns
<1>6. CASE CallStub
  BY <1>1, <1>2, <1>3, <1>4, <1>6, StubPlain DEF Plain!Next
<1> QED
  BY <1>5, <1>6 DEF RunCode

(* An absolute address among the stolen bytes is right where the module    *)
(* was not relocated.                                                      *)
LEMMA RunStolenPlain ==
    ASSUME HInv, HInv', RunStolen
    PROVE  Plain!Next
<1>1. where = "stolen" /\ Own[where] = 0 /\ loaded' = loaded
  BY OwnIs DEF RunStolen
<1>2. where' \in {"code", "stolen"} /\ Own[where'] = 0
  BY <1>1, OwnIs DEF RunStolen, Branch
<1>3. Sound
  BY <1>1, SoundOutside
<1>4. Sound'
  BY <1>2, SoundAfter
<1> DEFINE global == IF ModuleOf[fn] \in Relocated THEN "stray" ELSE "variable"
<1>5. Execute("tramp", global) /\ "tramp" \in Returns
  BY DEF RunStolen, Returns
<1>6. Instruction = "global" => global = "variable"
  <2>1. fn \in DOMAIN Site /\ Instruction \in Stolen(fn)
    BY <1>1, StolenPlace DEF HInv, InTrampoline, RunStolen
  <2> QED
    BY <2>1, BytesAssumption
<1>7. Plain!Execute("ret", "variable")
  <2> HIDE DEF global
  <2> QED
    BY <1>1, <1>2, <1>3, <1>4, <1>5, <1>6, ExecutePlain
<1> QED
  BY <1>7 DEF Plain!Next

LEMMA NextPlain == HInv /\ HInv' /\ [HookedNext]_vars => [Plain!Next]_(Plain!client)
<1> SUFFICES ASSUME HInv, HInv', [HookedNext]_vars PROVE [Plain!Next]_(Plain!client)
  OBVIOUS
<1>1. Unnoticed => UNCHANGED Plain!client
  BY DEF Unnoticed, Plain!client
<1> QED
  BY <1>1, RunCodePlain, JumpStep, PushadStep, PushContextStep, CallCallbackStep, CallbackStep, DropStep,
     PopadStep, RunStolenPlain, JumpBackStep, LoadModuleStep, StutterStep DEF HookedNext, Trampoline

LEMMA InitPlain == HookedInit => Plain!Init
<1> SUFFICES ASSUME HookedInit PROVE Plain!Init
  OBVIOUS
<1>1. stack = <<>> /\ ebp = NoFrame /\ vol = "start" /\ fn = Main /\ pc = 1 /\ uin = 0 /\ Own[where] = 0
  BY OwnIs DEF HookedInit, Init
<1>2. PlainVol = vol
  BY <1>1 DEF PlainVol
<1>3. PlainStack = <<>>
  BY <1>1 DEF PlainStack
<1> QED
  BY <1>1, <1>2, <1>3 DEF Plain!Init, Plain!NoFrame, NoFrame, Plain!Dword, Dword

(* Whatever the client's code and the modules, however often a thread is   *)
(* interrupted in a trampoline, and within trampolines' calls too: stack,  *)
(* frame pointer, registers and control flow of the hooked client are      *)
(* those of the client without hooks and with the original TerSafe.dll.    *)
THEOREM HooksUnnoticed == HookedSpec => SameAsUnhooked
BY InitPlain, NextPlain, SpecHInv, PTL DEF HookedSpec, SameAsUnhooked, Plain!Spec

-----------------------------------------------------------------------------
(* Where ebp, saved or not, holds data: in a function that uses it so, or  *)
(* in what that function has called; an address of an element is then of   *)
(* one that was there before it called.                                    *)

(* The client's own dwords, and where its callers are. *)
LEMMA CallersAre ==
    ASSUME HInv
    PROVE  /\ Body \in Nat /\ Len(PlainStack) = Body /\ PlainStack \in Seq(Dwords)
           /\ \A i \in 1 .. Body : /\ PlainStack[i] = AsReturn(stack[i]) /\ stack[i] \in Dwords
                                   /\ PlainStack[i].of = stack[i].of /\ PlainStack[i].n = stack[i].n
                                   /\ PlainStack[i].kind = "ret" <=> ReturnAt(stack, i)
                                   /\ stack[i].kind # "tramp" => PlainStack[i] = stack[i]
           /\ CallersAt = {i \in 1 .. Body : ReturnAt(stack, i)}
<1>1. Body \in Nat /\ Len(stack) \in Nat /\ Body <= Len(stack)
  BY OwnIs DEF HInv, Typed, Body
<1>2. PlainStack = [i \in 1 .. Body |-> AsReturn(stack[i])]
  BY DEF PlainStack, Body
<1>3. \A i \in 1 .. Body : stack[i] \in Dwords
  BY <1>1 DEF HInv, Typed
<1>4. \A i \in 1 .. Body : AsReturn(stack[i]) \in Dwords
  BY <1>3, AsReturnIs
<1>5. DOMAIN PlainStack = 1 .. Body /\ Len(PlainStack) = Body /\ PlainStack \in Seq(Dwords)
  <2>1. PlainStack \in Seq(Dwords)
    BY <1>1, <1>2, <1>4
  <2> QED
    BY <1>1, <1>2, <2>1
<1>6. ASSUME NEW i \in 1 .. Body
      PROVE  /\ PlainStack[i] = AsReturn(stack[i])
             /\ PlainStack[i].of = stack[i].of /\ PlainStack[i].n = stack[i].n
             /\ PlainStack[i].kind = "ret" <=> ReturnAt(stack, i)
             /\ stack[i].kind # "tramp" => PlainStack[i] = stack[i]
  <2>1. PlainStack[i] = AsReturn(stack[i]) /\ stack[i] \in Dwords
    BY <1>2, <1>3
  <2> QED
    BY <2>1, AsReturnIs DEF ReturnAt, Returns
<1>7. CallersAt = {i \in 1 .. Body : ReturnAt(stack, i)}
  BY <1>5, <1>6 DEF CallersAt
<1> QED
  BY <1>1, <1>3, <1>5, <1>6, <1>7

DataKinds == {"heap", "local"}
DataFrom(s, b, d) ==
    \E c \in 1 .. b :
        /\ s[c].kind = "ret" /\ HasPushed(s[c].of, s[c].n) /\ ~KeepsFrame(s[c].of)
        /\ d.kind = "local" => d.n \in 1 .. c - 2
DataHere(s, e, f, k) ==
    /\ HasPushed(f, k) /\ ~KeepsFrame(f)
    /\ e.kind = "local" => e.n \in 1 .. Len(s)
DataSaved(s) == \A i \in 1 .. Len(s) : s[i].kind \in DataKinds => DataFrom(s, i - 1, s[i])
DInv ==
    /\ DataSaved(PlainStack)
    /\ ebp.kind \in DataKinds =>
        DataFrom(PlainStack, Len(PlainStack), ebp) \/ DataHere(PlainStack, ebp, fn, pc)

LEMMA DataBelow ==
    ASSUME NEW s, NEW t, NEW b \in Nat, NEW c \in Nat, b <= c,
           \A i \in 1 .. b : t[i] = s[i], NEW d, DataFrom(s, b, d)
    PROVE  DataFrom(t, c, d)
<1>1. PICK i \in 1 .. b :
        /\ s[i].kind = "ret" /\ HasPushed(s[i].of, s[i].n) /\ ~KeepsFrame(s[i].of)
        /\ d.kind = "local" => d.n \in 1 .. i - 2
  BY DEF DataFrom
<1>2. i \in 1 .. c /\ t[i] = s[i]
  OBVIOUS
<1> QED
  BY <1>1, <1>2 DEF DataFrom

(* A stack t that has the first b dwords of s, and on top of them what is  *)
(* no data or explained by those.                                          *)
LEMMA DataKept ==
    ASSUME NEW s \in Seq(Dwords), NEW t \in Seq(Dwords), NEW b \in 0 .. Len(s), b <= Len(t),
           \A i \in 1 .. b : t[i] = s[i],
           \A i \in b + 1 .. Len(t) : t[i].kind \in DataKinds => DataFrom(s, b, t[i]),
           DataSaved(s)
    PROVE  DataSaved(t)
<1> SUFFICES ASSUME NEW i \in 1 .. Len(t), t[i].kind \in DataKinds PROVE DataFrom(t, i - 1, t[i])
  BY DEF DataSaved
<1>1. Len(s) \in Nat /\ Len(t) \in Nat /\ b \in Nat /\ i - 1 \in Nat
  OBVIOUS
<1>2. CASE i <= b
  <2>1. t[i] = s[i] /\ i \in 1 .. Len(s)
    BY <1>1, <1>2
  <2>2. DataFrom(s, i - 1, t[i])
    BY <2>1 DEF DataSaved
  <2>3. \A j \in 1 .. i - 1 : t[j] = s[j]
    BY <1>1, <1>2
  <2> QED
    BY <1>1, <2>2, <2>3, DataBelow
<1>3. CASE i > b
  <2>1. DataFrom(s, b, t[i]) /\ b <= i - 1
    BY <1>1, <1>3
  <2> QED
    BY <1>1, <2>1, DataBelow
<1> QED
  BY <1>1, <1>2, <1>3

(* An instruction of the client, wherever it is executed. *)
LEMMA DataStep == ASSUME HInv, DInv, Plain!Next PROVE DInv'
<1> DEFINE s == PlainStack
           t == PlainStack'
           b == Len(PlainStack)
<1>1. /\ s \in Seq(Dwords) /\ b \in Nat /\ ebp \in Dwords /\ DataSaved(s)
      /\ fn \in Fns /\ pc \in 1 .. Len(Code[fn]) /\ Plain!Instruction = Code[fn][pc]
      /\ ebp.kind \in DataKinds => DataFrom(s, b, ebp) \/ DataHere(s, ebp, fn, pc)
  BY CallersAre DEF HInv, Typed, DInv, Plain!Instruction
<1>2. /\ Body = b /\ OnTop(stack, b, fn, pc)
      /\ \A i \in 1 .. b : SavedAt(stack, i) => s[i] = stack[i]
  <2>1. ASSUME NEW i \in 1 .. Body, SavedAt(stack, i) PROVE s[i] = stack[i]
    BY <2>1, CallersAre DEF SavedAt, SavedKinds
  <2> QED
    BY <2>1, CallersAre DEF HInv, Shape, Parsed
<1>3. ASSUME t = s, ebp' = ebp, fn' = fn, HasPushed(fn, pc) => HasPushed(fn, pc') PROVE DInv'
  BY <1>1, <1>3 DEF DInv, DataHere
<1>4. CASE Plain!Instruction = "push_ebp" /\ Plain!PushEbp
  <2>1. t = Append(s, ebp) /\ ebp' = ebp
    BY <1>4 DEF Plain!PushEbp
  <2>2. t \in Seq(Dwords) /\ Len(t) = b + 1 /\ t[b + 1] = ebp /\ \A i \in 1 .. b : t[i] = s[i]
    BY <1>1, <2>1
  <2>3. ebp.kind \in DataKinds => DataFrom(s, b, ebp)
    BY <1>1, <1>4, PushPlace DEF DataHere
  <2>4. DataSaved(t)
    <3>1. \A i \in b + 1 .. Len(t) : i = b + 1
      BY <1>1, <2>2
    <3>2. b \in 0 .. Len(s) /\ b <= Len(t)
      BY <1>1, <2>2
    <3> QED
      BY <1>1, <2>2, <2>3, <3>1, <3>2, DataKept
  <2>5. ASSUME ebp.kind \in DataKinds PROVE DataFrom(t, b + 1, ebp)
    <3> DEFINE c == b + 1
    <3>1. c \in Nat /\ b <= c /\ DataFrom(s, b, ebp)
      BY <1>1, <2>3, <2>5
    <3> HIDE DEF b, s, t, c
    <3>2. DataFrom(t, c, ebp)
      BY <1>1, <2>2, <3>1, DataBelow
    <3> QED
      BY <3>2 DEF c
  <2> QED
    BY <2>1, <2>2, <2>4, <2>5 DEF DInv
<1>5. CASE Plain!Instruction = "mov_ebp" /\ Plain!MovEbp
  <2>1. t = s /\ ebp'.kind = "frame"
    BY <1>5 DEF Plain!MovEbp, Plain!Frame, Plain!Dword
  <2> QED
    BY <1>1, <2>1 DEF DInv, DataKinds
<1>6. CASE Plain!Instruction = "scratch" /\ Plain!Scratch /\ Plain!Goto(fn, pc + 1)
  <2>1. /\ t = s /\ fn' = fn /\ pc' = pc + 1
        /\ ebp'.kind = "local" => ebp'.n \in DOMAIN s
    BY <1>6 DEF Plain!Scratch, Plain!NoFrame, Plain!Heap, Plain!Local, Plain!Dword, Plain!Goto
  <2>2. HasPushed(fn, pc + 1) /\ ~KeepsFrame(fn)
    BY <1>1, <1>6, ScratchPlace
  <2>3. DataHere(t, ebp', fn', pc')
    BY <1>1, <2>1, <2>2 DEF DataHere
  <2> QED
    BY <1>1, <2>1, <2>3 DEF DInv
<1>7. CASE \/ Plain!Instruction = "pop_ebp" /\ Plain!PopEbp
           \/ Plain!Instruction = "leave" /\ Plain!Leave
  <2>1. HasPushed(fn, pc) /\ (Plain!Instruction = "leave" => HasFrame(fn, pc))
    BY <1>1, <1>7, PopPlace
  <2>2. b > 0
    BY <1>2, <2>1 DEF OnTop
  <2>3. Plain!Instruction = "leave" => ebp.n = b
    <3>1. HasFrame(fn, pc) => ebp = Frame(b)
      BY <1>2 DEF HInv, Shape, Kept
    <3> QED
      BY <2>1, <3>1, DwordIs DEF Frame
  <2>4. t = SubSeq(s, 1, b - 1) /\ ebp' = s[b]
    <3>1. CASE Plain!Instruction = "pop_ebp" /\ Plain!PopEbp
      BY <3>1 DEF Plain!PopEbp, Plain!Pop, Plain!Top
    <3>2. CASE Plain!Instruction = "leave" /\ Plain!Leave
      BY <2>3, <3>2 DEF Plain!Leave
    <3> QED
      BY <1>7, <3>1, <3>2
  <2>5. t \in Seq(Dwords) /\ Len(t) = b - 1 /\ \A i \in 1 .. b - 1 : t[i] = s[i]
    <3>1. b - 1 \in 0 .. Len(s)
      BY <1>1, <2>2
    <3> QED
      BY <1>1, <2>4, <3>1, Prefix
  <2>6. DataSaved(t)
    <3> DEFINE c == b - 1
    <3>1. c \in 0 .. Len(s) /\ c <= Len(t) /\ c + 1 .. Len(t) = {}
      BY <1>1, <2>2, <2>5
    <3>2. \A i \in 1 .. c : t[i] = s[i]
      BY <2>5
    <3> HIDE DEF b, s, t, c
    <3> QED
      BY <1>1, <2>5, <3>1, <3>2, DataKept
  <2>7. ebp'.kind \in DataKinds => DataFrom(t, b - 1, ebp')
    <3>1. b \in 1 .. Len(s) /\ b - 1 \in Nat
      BY <1>1, <2>2
    <3>2. ebp'.kind \in DataKinds => DataFrom(s, b - 1, ebp')
      BY <1>1, <2>4, <3>1 DEF DataSaved
    <3> QED
      BY <2>5, <3>1, <3>2, DataBelow
  <2> QED
    BY <2>5, <2>6, <2>7 DEF DInv
<1>8. CASE /\ Plain!Goto(fn, pc + 1)
           /\ \/ Plain!Instruction = "load" /\ Plain!Load(PlainVol)
              \/ Plain!Instruction = "global" /\ Plain!Load("variable")
              \/ Plain!Instruction = "body" /\ fn # Main /\ Plain!Load("computed")
  <2>1. t = s /\ ebp' = ebp /\ fn' = fn /\ pc' = pc + 1
    BY <1>8 DEF Plain!Load, Plain!Goto
  <2>2. HasPushed(fn, pc + 1) = HasPushed(fn, pc)
    BY <1>1, <1>8, QuietPlace
  <2> QED
    BY <1>3, <2>1, <2>2
<1>9. CASE Plain!CallTersafe
  <2>1. t = s /\ ebp' = ebp /\ fn' = fn /\ pc' = pc + 1 /\ Plain!Instruction = "tersafe"
    BY <1>9 DEF Plain!CallTersafe, Plain!Goto
  <2>2. HasPushed(fn, pc + 1) = HasPushed(fn, pc)
    BY <1>1, <2>1, QuietPlace
  <2> QED
    BY <1>3, <2>1, <2>2
<1>10. ASSUME NEW next \in {pc, pc + 1}, Plain!Instruction \in {"body", "call"}, Plain!Call("ret", next)
       PROVE  DInv'
  <2>1. PICK g \in Fns, a \in Nat : t = s \o <<Arg(a), Dword("ret", fn, next)>> /\ ebp' = ebp
    <3>1. PICK g \in Fns : \E a \in Args[g] : t = s \o <<Arg(a), Dword("ret", fn, next)>>
      BY <1>10 DEF Plain!Call, Plain!Fns, Fns, Plain!Arg, Arg, Plain!Dword, Dword
    <3>2. Args[g] \in SUBSET Nat
      BY CodeAssumption DEF Fns
    <3>3. ebp' = ebp
      BY <1>10 DEF Plain!Call
    <3> QED
      BY <3>1, <3>2, <3>3
  <2>2. next \in Nat /\ Arg(a) \in Dwords /\ Dword("ret", fn, next) \in Dwords
    <3>1. next \in Nat /\ "ret" \in Returns
      BY <1>1, CodeIs DEF Returns
    <3> QED
      BY <1>1, <3>1, FrameIsDword
  <2>3. /\ t \in Seq(Dwords) /\ Len(t) = b + 2 /\ \A i \in 1 .. b : t[i] = s[i]
        /\ t[b + 1] = Arg(a) /\ t[b + 2] = Dword("ret", fn, next)
    BY <1>1, <2>1, <2>2
  <2>4. /\ t[b + 1].kind = "arg" /\ t[b + 2].kind = "ret"
        /\ t[b + 2].of = fn /\ t[b + 2].n = next
    BY <2>3, DwordIs DEF Arg
  <2>5. DataSaved(t)
    <3>1. \A i \in b + 1 .. Len(t) : i = b + 1 \/ i = b + 2
      BY <1>1, <2>3
    <3>2. \A i \in b + 1 .. Len(t) : t[i].kind \notin DataKinds
      BY <2>4, <3>1 DEF DataKinds
    <3>3. b \in 0 .. Len(s) /\ b <= Len(t)
      BY <1>1, <2>3
    <3> QED
      BY <1>1, <2>3, <3>2, <3>3, DataKept
  <2>6. ASSUME DataFrom(s, b, ebp) PROVE DataFrom(t, b + 2, ebp)
    <3> DEFINE c == b + 2
    <3>1. c \in Nat /\ b <= c
      BY <1>1
    <3> HIDE DEF b, s, t, c
    <3>2. DataFrom(t, c, ebp)
      BY <1>1, <2>3, <2>6, <3>1, DataBelow
    <3> QED
      BY <3>2 DEF c
  <2>7. ASSUME DataHere(s, ebp, fn, pc) PROVE DataFrom(t, b + 2, ebp)
    <3>1. HasPushed(fn, pc) /\ ~KeepsFrame(fn) /\ (ebp.kind = "local" => ebp.n \in 1 .. b)
      BY <2>7 DEF DataHere
    <3>2. fn # Main
      BY <1>1, <3>1, CompiledAssumption DEF HasPushed, Compiled
    <3>3. HasPushed(fn, next)
      BY <1>1, <1>10, <3>1, <3>2, QuietPlace
    <3>4. b + 2 \in 1 .. b + 2 /\ b + 2 - 2 = b
      BY <1>1
    <3> QED
      BY <2>4, <3>1, <3>3, <3>4 DEF DataFrom
  <2> QED
    BY <1>1, <2>1, <2>3, <2>5, <2>6, <2>7 DEF DInv
<1>11. CASE Plain!Instruction = "ret" /\ Plain!Ret
  <2>1. ~HasPushed(fn, pc) /\ fn # Main
    BY <1>1, <1>11, RetPlace
  <2>2. b > 1 /\ ReturnAt(stack, b) /\ stack[b - 1].kind = "arg"
    <3>1. b > 0 /\ ReturnAt(stack, b)
      BY <1>2, <2>1 DEF OnTop
    <3>2. ReturnOK(stack, b, loaded)
      BY <1>1, <1>2, <3>1 DEF HInv, Shape, Parsed
    <3> QED
      BY <3>1, <3>2 DEF ReturnOK
  <2>3. s[b - 1].kind # "ret"
    <3>1. b - 1 \in 1 .. Body /\ ~ReturnAt(stack, b - 1)
      BY <1>1, <1>2, <2>2 DEF ReturnAt, Returns
    <3> QED
      BY <3>1, CallersAre
  <2>4. t = SubSeq(s, 1, b - 2) /\ ebp' = ebp /\ fn' = s[b].of /\ pc' = s[b].n
    BY <1>11 DEF Plain!Ret, Plain!Goto, Plain!Top, Plain!Pop
  <2>5. t \in Seq(Dwords) /\ Len(t) = b - 2 /\ \A i \in 1 .. b - 2 : t[i] = s[i]
    <3>1. b - 2 \in 0 .. Len(s)
      BY <1>1, <2>2
    <3> QED
      BY <1>1, <2>4, <3>1, Prefix
  <2>6. DataSaved(t)
    <3> DEFINE c == b - 2
    <3>1. c \in 0 .. Len(s) /\ c <= Len(t) /\ c + 1 .. Len(t) = {}
      BY <1>1, <2>2, <2>5
    <3>2. \A i \in 1 .. c : t[i] = s[i]
      BY <2>5
    <3> HIDE DEF b, s, t, c
    <3> QED
      BY <1>1, <2>5, <3>1, <3>2, DataKept
  <2>7. ASSUME ebp.kind \in DataKinds PROVE DataFrom(t, b - 2, ebp) \/ DataHere(t, ebp, fn', pc')
    <3>1. PICK c \in 1 .. b :
            /\ s[c].kind = "ret" /\ HasPushed(s[c].of, s[c].n) /\ ~KeepsFrame(s[c].of)
            /\ ebp.kind = "local" => ebp.n \in 1 .. c - 2
      BY <1>1, <2>1, <2>7 DEF DataFrom, DataHere
    <3>2. CASE c = b
      BY <2>4, <2>5, <3>1, <3>2 DEF DataHere
    <3>3. CASE c # b
      <4>1. c \in 1 .. b - 2
        BY <1>1, <2>2, <2>3, <3>1, <3>3
      <4>2. t[c] = s[c]
        BY <2>5, <4>1
      <4> QED
        BY <3>1, <4>1, <4>2 DEF DataFrom
    <3> QED
      BY <3>2, <3>3
  <2> QED
    BY <2>4, <2>5, <2>6, <2>7 DEF DInv
<1> QED
  BY <1>4, <1>5, <1>6, <1>7, <1>8, <1>9, <1>10, <1>11 DEF Plain!Next, Plain!Execute

LEMMA NextDInv == HInv /\ HInv' /\ DInv /\ [HookedNext]_vars => DInv'
<1> SUFFICES ASSUME HInv, HInv', DInv, [HookedNext]_vars PROVE DInv'
  OBVIOUS
<1>1. CASE UNCHANGED Plain!client
  BY <1>1 DEF Plain!client, DInv
<1> QED
  BY <1>1, NextPlain, DataStep

LEMMA SpecDInv == HookedSpec => []DInv
<1>1. HookedInit => DInv
  <2> SUFFICES ASSUME HookedInit PROVE DInv
    OBVIOUS
  <2>1. PlainStack = <<>> /\ ebp.kind = "none"
    BY InitPlain, DwordIs DEF Plain!Init, Plain!NoFrame, Plain!Dword
  <2> QED
    BY <2>1 DEF DInv, DataSaved, DataKinds
<1> QED
  BY <1>1, NextDInv, SpecHInv, PTL DEF HookedSpec

-----------------------------------------------------------------------------
(* What the callbacks log is true.                                         *)

(* A nonempty set of naturals has a least element. *)
LEMMA LeastOf ==
    ASSUME NEW S \in SUBSET Nat, S # {}
    PROVE  \E m \in S : \A k \in S : m <= k
<1> DEFINE less == {ss \in Nat \X Nat : ss[1] < ss[2]}
<1>1. IsWellFoundedOn(less, Nat)
  BY NatLessThanWellFounded DEF OpToRel
<1>2. PICK m \in S : \A k \in S : <<k, m>> \notin less
  BY <1>1, WFMin
<1>3. ASSUME NEW k \in S PROVE m <= k
  <2>1. m \in Nat /\ k \in Nat
    OBVIOUS
  <2>2. ~(k < m)
    BY <1>2, <2>1
  <2> QED
    BY <2>1, <2>2
<1> QED
  BY <1>3

(* What holds of 1, and of each number behind one of which it holds. *)
LEMMA UpTo ==
    ASSUME NEW m \in Nat, NEW S, m > 0 => 1 \in S, \A n \in 1 .. m - 1 : n \in S => n + 1 \in S
    PROVE  \A n \in 1 .. m : n \in S
<1> SUFFICES ASSUME NEW n \in 1 .. m, n \notin S PROVE FALSE
  OBVIOUS
<1> DEFINE T == {i \in 1 .. m : i \notin S}
<1>1. T \in SUBSET Nat /\ T # {}
  OBVIOUS
<1>2. PICK i \in T : \A k \in T : i <= k
  BY <1>1, LeastOf
<1>3. i \in 1 .. m /\ i \notin S /\ i # 1
  OBVIOUS
<1>4. i - 1 \in 1 .. m - 1 /\ i - 1 \notin T
  BY <1>2, <1>3
<1>5. i - 1 \in S
  BY <1>4
<1> QED
  BY <1>3, <1>4, <1>5

(* A set that has, with each number, the one before it. *)
LEMMA Initial ==
    ASSUME NEW m \in Nat, NEW V \in SUBSET (1 .. m), \A i \in V : i > 1 => i - 1 \in V
    PROVE  Cardinality(V) \in 0 .. m /\ V = 1 .. Cardinality(V)
<1>1. V \subseteq Nat /\ \A j \in V : j \in Nat /\ j >= 1
  OBVIOUS
<1> DEFINE T == (1 .. m + 1) \ V
<1>2. T \in SUBSET Nat /\ m + 1 \in T
  OBVIOUS
<1>3. PICK f \in T : \A k \in T : f <= k
  BY <1>2, LeastOf
<1>4. f \in 1 .. m + 1 /\ f \notin V
  OBVIOUS
<1>5. ASSUME NEW j \in 1 .. f - 1 PROVE j \in V
  BY <1>3, <1>4
<1>6. ASSUME NEW j \in V PROVE j < f
  <2> DEFINE S == {i \in V : i >= f}
  <2>1. ASSUME S # {} PROVE FALSE
    <3>1. S \in SUBSET Nat
      BY <1>1
    <3>2. PICK i \in S : \A k \in S : i <= k
      BY <2>1, <3>1, LeastOf
    <3>3. i \in V /\ i >= f /\ i # f /\ i \in Nat /\ f \in Nat /\ f >= 1
      BY <1>4
    <3>4. i > 1 /\ i - 1 \in V
      BY <3>3
    <3>5. i - 1 >= f
      BY <3>3
    <3>6. i - 1 \in S
      BY <3>4, <3>5
    <3> QED
      BY <3>2, <3>3, <3>6
  <2>2. j \notin S /\ j \in Nat
    BY <2>1
  <2> QED
    BY <1>4, <2>2
<1>7. V = 1 .. f - 1
  <2>1. f \in Nat
    BY <1>4
  <2>2. \A j \in V : j \in 1 .. f - 1
    <3> SUFFICES ASSUME NEW j \in V PROVE j \in 1 .. f - 1
      OBVIOUS
    <3>1. j \in Nat /\ j >= 1 /\ j < f
      BY <1>1, <1>6
    <3> QED
      BY <2>1, <3>1
  <2> QED
    BY <1>5, <2>2
<1>8. Cardinality(1 .. f - 1) = f - 1
  BY <1>4, FS_Interval
<1> QED
  BY <1>4, <1>7, <1>8

(* The frames of a walk: the first is given, and each of the others is the *)
(* next one of the one before it.                                          *)
FramesFrom(g, start, likely, n) ==
    g = [i \in 1 .. n |-> Visit(IF i = 1 THEN start ELSE NextFrame(g[i - 1]), i, likely)]

LEMMA FramesExist ==
    \A start, likely, n : n \in 1 .. MaxFrames => \E g : FramesFrom(g, start, likely, n)
<1> SUFFICES ASSUME NEW start, NEW likely
             PROVE  \A n \in 1 .. MaxFrames : \E g : FramesFrom(g, start, likely, n)
  OBVIOUS
<1> DEFINE S == {n \in 1 .. MaxFrames : \E g : FramesFrom(g, start, likely, n)}
           V(x, i) == Visit(x, i, likely)
<1>1. MaxFrames \in Nat /\ MaxFrames > 0
  BY ModulesAssumption
<1>2. 1 \in S
  <2> DEFINE h == [i \in 1 .. 1 |-> V(start, i)]
  <2>1. h = [i \in 1 .. 1 |-> V(IF i = 1 THEN start ELSE NextFrame(h[i - 1]), i)]
    OBVIOUS
  <2> HIDE DEF h
  <2>2. FramesFrom(h, start, likely, 1)
    BY <2>1 DEF FramesFrom
  <2> QED
    BY <1>1, <2>2
<1>3. ASSUME NEW n \in 1 .. MaxFrames - 1, n \in S PROVE n + 1 \in S
  <2>1. PICK g : FramesFrom(g, start, likely, n)
    BY <1>3
  <2>2. n \in Nat /\ n >= 1 /\ n + 1 \in 1 .. MaxFrames
    BY <1>1
  <2> DEFINE h == [i \in 1 .. n + 1 |-> V(IF i = 1 THEN start ELSE NextFrame(g[i - 1]), i)]
  <2>3. \A i \in 1 .. n : h[i] = g[i]
    <3> SUFFICES ASSUME NEW i \in 1 .. n PROVE h[i] = g[i]
      OBVIOUS
    <3>1. g[i] = V(IF i = 1 THEN start ELSE NextFrame(g[i - 1]), i)
      BY <2>1 DEF FramesFrom
    <3>2. i \in 1 .. n + 1
      BY <2>2
    <3> QED
      BY <3>1, <3>2
  <2>4. ASSUME NEW i \in 1 .. n + 1, i # 1 PROVE h[i - 1] = g[i - 1]
    <3>1. i - 1 \in 1 .. n
      BY <2>2, <2>4
    <3> QED
      BY <2>3, <3>1
  <2>5. h = [i \in 1 .. n + 1 |-> V(IF i = 1 THEN start ELSE NextFrame(h[i - 1]), i)]
    <3> HIDE DEF h
    <3>1. h = [i \in 1 .. n + 1 |-> V(IF i = 1 THEN start ELSE NextFrame(g[i - 1]), i)]
      BY DEF h
    <3> HIDE DEF V
    <3> QED
      BY <2>4, <3>1
  <2> HIDE DEF h
  <2>6. FramesFrom(h, start, likely, n + 1)
    BY <2>5 DEF FramesFrom
  <2> QED
    BY <2>2, <2>6
<1> HIDE DEF S
<1>4. \A n \in 1 .. MaxFrames : n \in S
  BY <1>1, <1>2, <1>3, UpTo
<1> QED
  BY <1>4 DEF S

LEMMA FramesFollow ==
    ASSUME NEW start, NEW likely, NEW g, FramesFrom(g, start, likely, MaxFrames)
    PROVE  /\ g[1] = Visit(start, 1, likely)
           /\ \A i \in 1 .. MaxFrames - 1 : g[i + 1] = Visit(NextFrame(g[i]), i + 1, likely)
<1> DEFINE V(x, i) == Visit(x, i, likely)
<1>1. MaxFrames \in Nat /\ 1 \in 1 .. MaxFrames
  BY ModulesAssumption
<1>2. \A i \in 1 .. MaxFrames : g[i] = V(IF i = 1 THEN start ELSE NextFrame(g[i - 1]), i)
  BY DEF FramesFrom
<1> HIDE DEF V
<1>3. ASSUME NEW i \in 1 .. MaxFrames - 1 PROVE g[i + 1] = V(NextFrame(g[i]), i + 1)
  <2>1. i + 1 \in 1 .. MaxFrames /\ i + 1 # 1 /\ i + 1 - 1 = i
    BY <1>1
  <2>2. g[i + 1] = V(NextFrame(g[i + 1 - 1]), i + 1)
    BY <1>2, <2>1
  <2> QED
    BY <2>1, <2>2
<1> QED
  BY <1>1, <1>2, <1>3 DEF V

LEMMA FramesAre ==
    ASSUME NEW start, NEW likely
    PROVE  /\ Frames(start, likely)[1] = Visit(start, 1, likely)
           /\ \A i \in 1 .. MaxFrames - 1 :
                Frames(start, likely)[i + 1] = Visit(NextFrame(Frames(start, likely)[i]), i + 1, likely)
<1> DEFINE V(x, i) == Visit(x, i, likely)
           frame[i \in 1 .. MaxFrames] == V(IF i = 1 THEN start ELSE NextFrame(frame[i - 1]), i)
<1>1. Frames(start, likely) = frame
  BY DEF Frames
<1>2. frame = CHOOSE g : g = [i \in 1 .. MaxFrames |-> V(IF i = 1 THEN start ELSE NextFrame(g[i - 1]), i)]
  OBVIOUS
<1>3. MaxFrames \in Nat /\ 1 \in 1 .. MaxFrames /\ MaxFrames \in 1 .. MaxFrames
  BY ModulesAssumption
<1>4. \E g : g = [i \in 1 .. MaxFrames |-> V(IF i = 1 THEN start ELSE NextFrame(g[i - 1]), i)]
  <2> HIDE DEF frame
  <2>1. PICK g : FramesFrom(g, start, likely, MaxFrames)
    BY <1>3, FramesExist
  <2> QED
    BY <2>1 DEF FramesFrom
<1> HIDE DEF frame
<1>5. frame = [i \in 1 .. MaxFrames |-> V(IF i = 1 THEN start ELSE NextFrame(frame[i - 1]), i)]
  BY <1>2, <1>4
<1>6. FramesFrom(frame, start, likely, MaxFrames)
  BY <1>5 DEF FramesFrom
<1> QED
  BY <1>1, <1>6, FramesFollow

(* A walk visits a frame, whatever likely says: what is above it is an     *)
(* address to return to.                                                   *)
LEMMA VisitIs ==
    ASSUME HInv, NEW e, NEW i, NEW likely
    PROVE  /\ Visit(e, i, likely) \in {e, NoFrame}
           /\ e.kind = "none" => Visit(e, i, likely) = NoFrame
           /\ e.kind = "frame" /\ LinkOK(stack, Body, e) => Visit(e, i, likely) = e
<1>1. Visit(e, i, likely) \in {e, NoFrame} /\ (e.kind = "none" => Visit(e, i, likely) = NoFrame)
  BY DEF Visit
<1>2. ASSUME e.kind = "frame", LinkOK(stack, Body, e) PROVE Visit(e, i, likely) = e
  <2>1. e.n \in 1 .. Body /\ SavedAt(stack, e.n)
    BY <1>2 DEF LinkOK
  <2>2. e.n > 1 /\ ReturnAt(stack, e.n - 1)
    BY <2>1 DEF HInv, Shape, Parsed
  <2>3. ReturnAbove(e).kind \in Returns
    BY <1>2, <2>2 DEF ReturnAbove, InStack, ReturnAt
  <2> QED
    BY <1>2, <2>3 DEF Visit, Returns
<1> QED
  BY <1>1, <1>2

(* The next frame of a frame: the saved one, which is further down, unless *)
(* data was saved.                                                         *)
LEMMA NextIs ==
    ASSUME HInv, NEW e, e.kind = "frame", LinkOK(stack, Body, e)
    PROVE  /\ LinkOK(stack, Body, stack[e.n])
           /\ stack[e.n].kind = "frame" => stack[e.n].n < e.n /\ NextFrame(e) = stack[e.n]
           /\ NextFrame(e).kind = "frame" => NextFrame(e) = stack[e.n]
           /\ NextFrame(e).kind \notin {"none", "frame"} => stack[e.n].kind \in DataKinds
<1>1. NoFrame.kind = "none" /\ Heap.kind = "heap"
  BY DwordIs DEF NoFrame, Heap
<1>2. e.n \in 1 .. Body /\ SavedAt(stack, e.n) /\ Body \in Nat
  BY DEF LinkOK, HInv, Typed
<1>3. SavedEbpAt(e) = stack[e.n]
  BY DEF SavedEbpAt, InStack
<1>4. CASE stack[e.n].kind = "frame"
  <2>1. LinkOK(stack, e.n - 1, stack[e.n])
    BY <1>2 DEF HInv, Shape, Linked
  <2>2. stack[e.n].n \in 1 .. e.n - 1 /\ SavedAt(stack, stack[e.n].n)
    BY <1>4, <2>1 DEF LinkOK
  <2>3. stack[e.n].n < e.n /\ stack[e.n].n \in 1 .. Body
    BY <1>2, <2>2
  <2>4. NextFrame(e) = stack[e.n]
    BY <1>3, <1>4, <2>3 DEF NextFrame, InStack
  <2> QED
    BY <1>4, <2>2, <2>3, <2>4 DEF LinkOK
<1>5. CASE stack[e.n].kind # "frame"
  <2>1. stack[e.n].kind \in {"none", "heap", "local"}
    BY <1>2, <1>5 DEF SavedAt, SavedKinds
  <2>2. NextFrame(e) = NoFrame \/ stack[e.n].kind \in DataKinds
    BY <1>3, <2>1 DEF NextFrame, DataKinds
  <2>3. NextFrame(e) \in {NoFrame, Heap, stack[e.n]}
    BY <1>3 DEF NextFrame
  <2> QED
    BY <1>1, <1>5, <2>2, <2>3 DEF LinkOK
<1> QED
  BY <1>4, <1>5

(* While it visits frames, a walk descends; what it visits next is the     *)
(* frame pointer that it finds there, or none, or that was data.           *)
Straight(likely, i) == \A j \in 1 .. i : Frames(ebp, likely)[j].kind = "frame"
Found(likely, i) == IF i = 1 THEN ebp ELSE stack[Frames(ebp, likely)[i - 1].n]
Descends(likely, i) ==
    LET F == Frames(ebp, likely) IN
    /\ LinkOK(stack, Body, Found(likely, i))
    /\ Found(likely, i).kind = "frame" => F[i] = Found(likely, i)
    /\ F[i].kind = "frame" => F[i] = Found(likely, i)
    /\ F[i].kind \notin {"none", "frame"} => Found(likely, i).kind \in DataKinds
    /\ \A j \in 1 .. i - 1 : F[i].kind = "frame" => F[j].n \in Nat /\ F[i].n < F[j].n

LEMMA WalkDescends ==
    ASSUME HInv, NEW likely
    PROVE  \A i \in 1 .. MaxFrames : Straight(likely, i - 1) => Descends(likely, i)
<1> DEFINE F == Frames(ebp, likely)
           S == {i \in 1 .. MaxFrames : Straight(likely, i - 1) => Descends(likely, i)}
<1>1. MaxFrames \in Nat /\ MaxFrames > 0 /\ Body \in Nat
  BY ModulesAssumption DEF HInv, Typed
<1>2. /\ F[1] = Visit(ebp, 1, likely)
      /\ \A i \in 1 .. MaxFrames - 1 : F[i + 1] = Visit(NextFrame(F[i]), i + 1, likely)
  BY FramesAre
<1>3. NoFrame.kind = "none"
  BY DwordIs DEF NoFrame
<1> HIDE DEF F
<1>4. 1 \in S
  <2>1. Found(likely, 1) = ebp /\ ebp.kind \in SavedKinds /\ LinkOK(stack, Body, ebp)
    BY DEF Found, HInv, Shape, Linked
  <2>2. F[1] \in {ebp, NoFrame} /\ (ebp.kind = "frame" => F[1] = ebp)
    BY <1>2, <2>1, VisitIs
  <2>3. ebp.kind \notin {"none", "frame"} => ebp.kind \in DataKinds
    BY <2>1 DEF SavedKinds, DataKinds
  <2>4. 1 .. 1 - 1 = {}
    OBVIOUS
  <2> QED
    BY <1>1, <1>3, <2>1, <2>2, <2>3, <2>4 DEF Descends, F
<1>5. ASSUME NEW i \in 1 .. MaxFrames - 1, i \in S PROVE i + 1 \in S
  <2>1. i \in 1 .. MaxFrames /\ i + 1 \in 1 .. MaxFrames /\ i \in Nat /\ i + 1 # 1 /\ i + 1 - 1 = i
    BY <1>1
  <2> SUFFICES ASSUME Straight(likely, i) PROVE Descends(likely, i + 1)
    BY <2>1
  <2>2. F[i].kind = "frame" /\ Straight(likely, i - 1)
    BY <2>1 DEF Straight, F
  <2>3. Descends(likely, i)
    BY <1>5, <2>2
  <2>4. F[i] = Found(likely, i) /\ LinkOK(stack, Body, F[i])
    BY <2>2, <2>3 DEF Descends, F
  <2> DEFINE found == stack[F[i].n]
  <2>5. Found(likely, i + 1) = found
    BY <2>1 DEF Found, F
  <2>6. /\ LinkOK(stack, Body, found)
        /\ found.kind = "frame" => found.n < F[i].n /\ NextFrame(F[i]) = found
        /\ NextFrame(F[i]).kind = "frame" => NextFrame(F[i]) = found
        /\ NextFrame(F[i]).kind \notin {"none", "frame"} => found.kind \in DataKinds
    BY <2>2, <2>4, NextIs
  <2> HIDE DEF found
  <2>7. F[i + 1] = Visit(NextFrame(F[i]), i + 1, likely)
    BY <1>2
  <2>8. /\ F[i + 1] \in {NextFrame(F[i]), NoFrame}
        /\ NextFrame(F[i]).kind = "frame" => F[i + 1] = NextFrame(F[i])
    BY <2>6, <2>7, VisitIs
  <2>9. /\ found.kind = "frame" => F[i + 1] = found
        /\ F[i + 1].kind = "frame" => F[i + 1] = found /\ found.n < F[i].n
        /\ F[i + 1].kind \notin {"none", "frame"} => found.kind \in DataKinds
    BY <1>3, <2>6, <2>8
  <2>10. ASSUME NEW j \in 1 .. i, F[i + 1].kind = "frame"
         PROVE  F[j].n \in Nat /\ F[i + 1].n < F[j].n
    <3>1. F[i + 1].n < F[i].n /\ F[i + 1].kind = "frame" /\ LinkOK(stack, Body, F[i + 1])
      BY <2>6, <2>9, <2>10
    <3>2. F[i].n \in Nat /\ F[i + 1].n \in Nat
      BY <1>1, <2>2, <2>4, <3>1 DEF LinkOK
    <3>3. CASE j = i
      BY <3>1, <3>2, <3>3
    <3>4. CASE j # i
      <4>1. j \in 1 .. i - 1
        BY <2>1, <3>4
      <4>2. F[j].n \in Nat /\ F[i].n < F[j].n
        BY <2>2, <2>3, <4>1 DEF Descends, F
      <4> QED
        BY <3>1, <3>2, <4>2
    <3> QED
      BY <3>3, <3>4
  <2> QED
    BY <2>1, <2>5, <2>6, <2>9, <2>10 DEF Descends, F
<1> HIDE DEF S
<1>6. \A i \in 1 .. MaxFrames : i \in S
  BY <1>1, <1>4, <1>5, UpTo
<1> QED
  BY <1>6 DEF S

(* Data too refers to the client's own dwords, and so does what a walk     *)
(* visits.                                                                 *)
InBody(e) == InStack(e) => e.n \in 1 .. Body

LEMMA DataInBody ==
    ASSUME HInv, DInv
    PROVE  InBody(ebp) /\ \A i \in 1 .. Body : InBody(stack[i])
<1>1. Body \in Nat /\ Len(PlainStack) = Body /\ \A i \in 1 .. Body : stack[i].kind # "tramp" => PlainStack[i] = stack[i]
  BY CallersAre
<1>2. ASSUME NEW d, NEW b \in 0 .. Body, DataFrom(PlainStack, b, d), d.kind = "local" PROVE InBody(d)
  <2>1. PICK c \in 1 .. b : d.n \in 1 .. c - 2
    BY <1>2 DEF DataFrom
  <2> QED
    BY <1>1, <2>1 DEF InBody
<1>3. InBody(ebp)
  <2>1. CASE ebp.kind = "frame"
    BY <2>1 DEF HInv, Shape, Linked, LinkOK, InBody
  <2>2. CASE ebp.kind = "local"
    <3>1. DataFrom(PlainStack, Body, ebp) \/ DataHere(PlainStack, ebp, fn, pc)
      BY <1>1, <2>2 DEF DInv, DataKinds
    <3>2. DataHere(PlainStack, ebp, fn, pc) => InBody(ebp)
      BY <1>1, <2>2 DEF DataHere, InBody
    <3>3. Body \in 0 .. Body
      BY <1>1
    <3> QED
      BY <1>2, <2>2, <3>1, <3>2, <3>3
  <2> QED
    BY <2>1, <2>2 DEF InBody, InStack
<1>4. ASSUME NEW i \in 1 .. Body PROVE InBody(stack[i])
  <2>1. CASE stack[i].kind = "frame"
    <3>1. LinkOK(stack, i - 1, stack[i])
      BY DEF HInv, Shape, Linked
    <3> QED
      BY <1>1, <2>1, <3>1 DEF LinkOK, InBody
  <2>2. CASE stack[i].kind = "local"
    <3>1. PlainStack[i] = stack[i]
      BY <1>1, <2>2
    <3>2. DataFrom(PlainStack, i - 1, stack[i])
      BY <1>1, <2>2, <3>1 DEF DInv, DataSaved, DataKinds
    <3>3. i - 1 \in 0 .. Body
      BY <1>1
    <3> QED
      BY <1>2, <2>2, <3>2, <3>3
  <2> QED
    BY <2>1, <2>2 DEF InBody, InStack
<1> QED
  BY <1>3, <1>4

LEMMA VisitedInBody ==
    ASSUME HInv, DInv, NEW likely
    PROVE  \A i \in 1 .. MaxFrames : InBody(Frames(ebp, likely)[i])
<1> DEFINE F == Frames(ebp, likely)
           S == {i \in 1 .. MaxFrames : InBody(F[i])}
<1>1. MaxFrames \in Nat /\ MaxFrames > 0 /\ NoFrame.kind = "none" /\ Heap.kind = "heap"
  BY ModulesAssumption, DwordIs DEF NoFrame, Heap
<1>2. /\ F[1] = Visit(ebp, 1, likely)
      /\ \A i \in 1 .. MaxFrames - 1 : F[i + 1] = Visit(NextFrame(F[i]), i + 1, likely)
  BY FramesAre
<1> HIDE DEF F
<1>3. InBody(NoFrame) /\ InBody(Heap)
  BY <1>1 DEF InBody, InStack
<1>4. 1 \in S
  BY <1>1, <1>2, <1>3, VisitIs, DataInBody
<1>5. ASSUME NEW i \in 1 .. MaxFrames - 1, i \in S PROVE i + 1 \in S
  <2>1. InBody(F[i]) /\ i + 1 \in 1 .. MaxFrames
    BY <1>1, <1>5
  <2>2. NextFrame(F[i]) \in {NoFrame, Heap} \/ (InStack(F[i]) /\ NextFrame(F[i]) = stack[F[i].n])
    BY <1>1 DEF NextFrame, SavedEbpAt, InStack
  <2>3. InBody(NextFrame(F[i]))
    BY <1>3, <2>1, <2>2, DataInBody DEF InBody
  <2>4. F[i + 1] \in {NextFrame(F[i]), NoFrame}
    BY <1>2, VisitIs
  <2> QED
    BY <1>3, <2>1, <2>3, <2>4
<1> HIDE DEF S
<1>6. \A i \in 1 .. MaxFrames : i \in S
  BY <1>1, <1>4, <1>5, UpTo
<1> QED
  BY <1>6 DEF S, F

(* The sites whose callback logs the address to return to. *)
LEMMA SitesAre ==
    /\ Walks = {"CmdDispatchSwitch", "mho_480450"}
    /\ LogsReturn \subseteq DOMAIN Site /\ Main \notin LogsReturn
    /\ \A f \in Walks : Site[f].at = 1
    /\ \A f \in LogsReturn \ Walks : Site[f].at \in {2, 3}
    /\ Site["monster_ai_skill"].at = 3
<1>1. Walks = {"CmdDispatchSwitch", "mho_480450"}
  BY DEF Walks, Wins
<1>2. /\ \A f \in LogsReturn : f \in DOMAIN Site
      /\ Site["CmdDispatchSwitch"].at = 1 /\ Site["mho_480450"].at = 1
      /\ Site["register_handler"].at = 2 /\ Site["path_c1_vt5"].at = 3 /\ Site["monster_ai_skill"].at = 3
  BY <1>1 DEF LogsReturn, Site, CryGameSites, HandlerSites, ClientSites
<1>3. Main \notin DOMAIN Site
  BY ModulesAssumption
<1> QED
  BY <1>1, <1>2, <1>3 DEF LogsReturn

(* What a callback finds: at the first instruction of a function, the      *)
(* address to return to, and behind push ebp, what was pushed.             *)
LEMMA CallbackFinds ==
    ASSUME HInv, where = "callback"
    PROVE  /\ AtSite /\ ContextEbp = ebp /\ Body \in Nat
           /\ \A k \in Int : HookStack(k) = stack[Body - k]
           /\ fn \in Walks => Body > 1 /\ ReturnAt(stack, Body)
           /\ fn \in LogsReturn \ Walks => Body > 1 /\ SavedAt(stack, Body) /\ ReturnAt(stack, Body - 1)
           /\ fn = "monster_ai_skill" => ebp = Frame(Body)
<1>1. AtSite
  BY DEF HInv, InTrampoline
<1>2. Body \in Nat /\ Len(stack) = Body + 10 /\ stack[Body + 9] = Dword("context", Main, Body + 8)
      /\ stack[Body + 6] = ebp
  BY OwnIs DEF Body, HInv, Typed, InTrampoline
<1>3. Context = Body + 8
  <2>1. Len(stack) - 1 = Body + 9
    BY <1>2
  <2> QED
    BY <1>2, <2>1, DwordIs DEF Context
<1>4. ContextEbp = ebp
  <2>1. Body + 8 - 2 = Body + 6
    BY <1>2
  <2> QED
    BY <1>2, <1>3, <2>1 DEF ContextEbp
<1>5. ASSUME NEW k \in Int PROVE HookStack(k) = stack[Body - k]
  <2>1. Context - 8 - k = Body - k
    BY <1>2, <1>3
  <2> QED
    BY <2>1 DEF HookStack
<1>6. /\ OnTop(stack, Body, fn, pc)
      /\ \A i \in 1 .. Body : ReturnAt(stack, i) => i > 1
      /\ \A i \in 1 .. Body : SavedAt(stack, i) => i > 1 /\ ReturnAt(stack, i - 1)
      /\ HasFrame(fn, pc) => ebp = Frame(Body)
  BY DEF HInv, Shape, Parsed, ReturnOK, Kept
<1>7. fn \in Fns \ {Main} /\ pc = Site[fn].at /\ fn \in DOMAIN Site
  BY <1>1, ModulesAssumption DEF AtSite
<1>8. ASSUME fn \in Walks PROVE Body > 1 /\ ReturnAt(stack, Body)
  <2>1. pc = 1
    BY <1>7, <1>8, SitesAre
  <2>2. Body > 0 /\ ReturnAt(stack, Body)
    BY <1>6, <1>7, <2>1, EntryPlace DEF OnTop
  <2> QED
    BY <1>2, <1>6, <2>2
<1>9. ASSUME pc \in {2, 3} PROVE HasPushed(fn, pc) /\ (pc = 3 => HasFrame(fn, pc))
  <2>1. pc \in 1 .. Len(Code[fn]) /\ Len(Code[fn]) \in Nat /\ KeepsFrame(fn)
    BY <1>7, CodeIs, StolenAssumption DEF HInv, Typed
  <2>2. PushesEbp(fn) /\ Code[fn][2] = "mov_ebp"
    BY <2>1 DEF KeepsFrame
  <2>3. Code[fn][Len(Code[fn]) - 1] \in {"pop_ebp", "leave"} /\ Len(Code[fn]) > 2
    BY <1>7, <2>2, CompiledAssumption DEF Compiled
  <2>4. Len(Code[fn]) - 1 # 2
    BY <2>2, <2>3
  <2>5. pc < Len(Code[fn])
    <3> DEFINE last == Len(Code[fn])
    <3>1. last \in Nat /\ last > 2 /\ last - 1 # 2
      BY <2>1, <2>3, <2>4
    <3> HIDE DEF last
    <3>2. pc < last
      BY <1>9, <3>1
    <3> QED
      BY <3>2 DEF last
  <2> QED
    BY <1>9, <2>1, <2>2, <2>5 DEF HasPushed, HasFrame
<1>10. ASSUME fn \in LogsReturn \ Walks PROVE Body > 1 /\ SavedAt(stack, Body) /\ ReturnAt(stack, Body - 1)
  <2>1. HasPushed(fn, pc)
    BY <1>7, <1>9, <1>10, SitesAre
  <2>2. Body > 0 /\ SavedAt(stack, Body)
    BY <1>6, <2>1 DEF OnTop
  <2> QED
    BY <1>2, <1>6, <2>2
<1>11. fn = "monster_ai_skill" => ebp = Frame(Body)
  BY <1>6, <1>7, <1>9, SitesAre
<1> QED
  BY <1>1, <1>2, <1>4, <1>5, <1>8, <1>10, <1>11

LEMMA MaxIs ==
    ASSUME NEW S \in SUBSET Nat, NEW t \in S, \A k \in S : k <= t
    PROVE  Max(S) = t
<1>1. \E x \in S : \A y \in S : x >= y
  OBVIOUS
<1>2. Max(S) \in S /\ \A y \in S : Max(S) >= y
  BY <1>1 DEF Max
<1>3. Max(S) >= t /\ Max(S) <= t /\ Max(S) \in Nat /\ t \in Nat
  BY <1>2
<1> QED
  BY <1>3

(* What a walk logs: the address to return to, and what is above what it   *)
(* visits.                                                                 *)
ChainOK(chain, k, likely) ==
    LET F == Frames(ebp, likely) IN
    /\ DOMAIN chain = 1 .. k + 1 /\ Len(chain) = k + 1
    /\ chain[1] = stack[Body]
    /\ \A i \in 1 .. k : chain[i + 1] = ReturnAbove(F[i])
    /\ \A i \in 1 .. MaxFrames : F[i].kind # "none" <=> i <= k

LEMMA ChainIs ==
    ASSUME HInv, DInv, where = "callback", fn \in Walks, NEW likely
    PROVE  \E k \in 0 .. MaxFrames : ChainOK(Walk(likely), k, likely)
<1> DEFINE F == Frames(ebp, likely)
           visited == {i \in 1 .. MaxFrames : F[i].kind # "none"}
           k == Cardinality(visited)
           above(i) == ReturnAbove(F[i])
<1>1. ContextEbp = ebp /\ HookStack(0) = stack[Body] /\ Body \in Nat /\ Body > 1
  <2>1. Body \in Nat /\ HookStack(0) = stack[Body - 0]
    BY CallbackFinds
  <2> QED
    BY <2>1, CallbackFinds
<1>2. MaxFrames \in Nat /\ stack \in Seq(Dwords) /\ Body <= Len(stack)
  BY ModulesAssumption, OwnIs DEF HInv, Typed, Body
<1>3. Walked(ContextEbp, likely) = [i \in 1 .. k |-> above(i)]
  BY <1>1 DEF Walked
<1>4. \A i \in 1 .. MaxFrames - 1 : F[i + 1] = Visit(NextFrame(F[i]), i + 1, likely)
  BY FramesAre
<1> HIDE DEF F
<1>5. k \in 0 .. MaxFrames /\ visited = 1 .. k
  <2>1. ASSUME NEW i \in visited, i > 1 PROVE i - 1 \in visited
    <3>1. i \in 1 .. MaxFrames /\ F[i].kind # "none" /\ i - 1 \in 1 .. MaxFrames - 1 /\ i - 1 + 1 = i
      BY <1>2, <2>1
    <3>2. F[i] = Visit(NextFrame(F[i - 1]), i, likely)
      BY <1>4, <3>1
    <3>3. ASSUME F[i - 1].kind = "none" PROVE FALSE
      <4>1. NoFrame.kind = "none"
        BY DwordIs DEF NoFrame
      <4>2. NextFrame(F[i - 1]) = NoFrame
        BY <3>3 DEF NextFrame
      <4>3. F[i] = NoFrame
        BY <3>2, <4>1, <4>2, VisitIs
      <4> QED
        BY <3>1, <4>1, <4>3
    <3>4. i - 1 \in 1 .. MaxFrames
      BY <1>2, <3>1
    <3> QED
      BY <3>3, <3>4
  <2>2. visited \in SUBSET (1 .. MaxFrames)
    OBVIOUS
  <2> HIDE DEF visited
  <2> QED
    BY <1>2, <2>1, <2>2, Initial
<1>6. \A i \in 1 .. MaxFrames : F[i].kind # "none" <=> i <= k
  <2>1. \A i \in 1 .. MaxFrames : F[i].kind # "none" <=> i \in visited
    OBVIOUS
  <2> HIDE DEF visited
  <2> QED
    BY <1>2, <1>5, <2>1
<1> HIDE DEF k
<1>7. ASSUME NEW i \in 1 .. k PROVE above(i) \in Dwords
  <2>1. CASE InStack(F[i]) /\ F[i].n > 1
    <3>1. i \in 1 .. MaxFrames
      BY <1>2, <1>5
    <3>2. F[i].n \in 1 .. Body
      BY <2>1, <3>1, VisitedInBody DEF InBody, F
    <3>3. F[i].n - 1 \in 1 .. Len(stack)
      BY <1>1, <1>2, <2>1, <3>2
    <3> QED
      BY <1>2, <2>1, <3>3 DEF ReturnAbove
  <2>2. CASE ~(InStack(F[i]) /\ F[i].n > 1)
    BY <2>2, FrameIsDword DEF ReturnAbove
  <2> QED
    BY <2>1, <2>2
<1> DEFINE w == [i \in 1 .. k |-> above(i)]
<1>8. w \in Seq(Dwords) /\ Len(w) = k /\ k \in Nat /\ \A i \in 1 .. k : w[i] = above(i)
  BY <1>5, <1>7
<1> HIDE DEF w
<1>9. stack[Body] \in Dwords
  BY <1>1, <1>2
<1>10. Walk(likely) = <<stack[Body]>> \o w
  BY <1>1, <1>3 DEF Walk, w
<1>11. /\ DOMAIN Walk(likely) = 1 .. k + 1 /\ Len(Walk(likely)) = k + 1 /\ Walk(likely)[1] = stack[Body]
       /\ \A i \in 1 .. k : Walk(likely)[i + 1] = w[i]
  BY <1>8, <1>9, <1>10
<1>12. ChainOK(Walk(likely), k, likely)
  BY <1>6, <1>8, <1>11 DEF ChainOK, F
<1> QED
  BY <1>5, <1>12

(* Above a frame on the way there is a caller, further down than those     *)
(* above the frames before it.                                             *)
LEMMA CallerAboveFrame ==
    ASSUME HInv, NEW likely, NEW i \in 1 .. MaxFrames, Straight(likely, i)
    PROVE  LET F == Frames(ebp, likely) IN
           /\ F[i].n \in 2 .. Body /\ SavedAt(stack, F[i].n)
           /\ F[i].n - 1 \in CallersAt /\ ReturnAbove(F[i]) = stack[F[i].n - 1]
           /\ \A j \in 1 .. i - 1 : F[j].n \in Nat /\ F[i].n < F[j].n
<1> DEFINE F == Frames(ebp, likely)
<1>1. MaxFrames \in Nat /\ i \in 1 .. i /\ \A j \in 1 .. i - 1 : j \in 1 .. i
  BY ModulesAssumption
<1>2. F[i].kind = "frame" /\ Straight(likely, i - 1)
  BY <1>1 DEF Straight
<1>3. Descends(likely, i)
  BY <1>2, WalkDescends
<1>4. LinkOK(stack, Body, F[i]) /\ \A j \in 1 .. i - 1 : F[j].n \in Nat /\ F[i].n < F[j].n
  BY <1>2, <1>3 DEF Descends
<1>5. Body \in Nat /\ F[i].n \in 1 .. Body /\ SavedAt(stack, F[i].n)
  BY <1>2, <1>4, CallersAre DEF LinkOK
<1>6. F[i].n > 1 /\ ReturnAt(stack, F[i].n - 1)
  BY <1>5 DEF HInv, Shape, Parsed
<1>7. F[i].n - 1 \in 1 .. Body /\ F[i].n \in 2 .. Body
  BY <1>5, <1>6
<1>8. F[i].n - 1 \in CallersAt
  BY <1>6, <1>7, CallersAre
<1>9. ReturnAbove(F[i]) = stack[F[i].n - 1]
  BY <1>2, <1>6 DEF ReturnAbove, InStack
<1> QED
  BY <1>4, <1>5, <1>7, <1>8, <1>9

(* When a caller keeps its frame, the frame pointer that its callee finds  *)
(* leads to the next caller, past nothing else.                            *)
LEMMA NextCaller ==
    ASSUME HInv, NEW r \in CallersAt, NEW v,
           \/ r = Body /\ v = ebp
           \/ r < Body /\ SavedAt(stack, r + 1) /\ v = stack[r + 1],
           stack[r].of = Main \/ KeepsFrame(stack[r].of),
           NEW c \in CallersAt, c < r
    PROVE  v.kind = "frame" /\ c <= v.n - 1
<1>1. /\ Body \in Nat /\ r \in 1 .. Body /\ c \in 1 .. Body
      /\ ReturnAt(stack, r) /\ ReturnAt(stack, c)
  BY CallersAre
<1>2. ReturnOK(stack, r, loaded) /\ ReturnOK(stack, c, loaded)
  BY <1>1 DEF HInv, Shape, Parsed
<1>3. /\ c > 1 /\ r > 1 /\ stack[r - 1].kind = "arg" /\ stack[r].of \in Fns
      /\ OnTop(stack, r - 2, stack[r].of, stack[r].n)
      /\ KeepsFrame(stack[r].of) => HasFrame(stack[r].of, stack[r].n)
  BY <1>2 DEF ReturnOK
<1>4. stack[r].of # Main
  <2> SUFFICES ASSUME stack[r].of = Main PROVE FALSE
    OBVIOUS
  <2>1. ~HasPushed(stack[r].of, stack[r].n)
    BY <1>3, CompiledAssumption DEF Compiled, HasPushed
  <2>2. r - 2 = 0
    BY <1>3, <2>1 DEF OnTop
  <2> QED
    BY <1>1, <1>3, <2>2
<1>5. HasFrame(stack[r].of, stack[r].n)
  BY <1>3, <1>4
<1>6. r - 2 > 0 /\ SavedAt(stack, r - 2)
  <2>1. HasPushed(stack[r].of, stack[r].n)
    <3> DEFINE last == Len(Code[stack[r].of])
               at == stack[r].n
    <3>1. last \in Nat
      BY <1>3, CodeIs
    <3>2. at \in 3 .. last - 1 /\ PushesEbp(stack[r].of)
      BY <1>5 DEF HasFrame, KeepsFrame
    <3> HIDE DEF last, at
    <3>3. at \in 2 .. last - 1
      BY <3>1, <3>2
    <3> QED
      BY <3>2, <3>3 DEF HasPushed, last, at
  <2> QED
    BY <1>3, <2>1 DEF OnTop
<1>7. v = Frame(r - 2)
  <2>1. KeptFrom(stack, Body, ebp, r)
    BY <1>1, <1>5 DEF HInv, Shape, Kept
  <2>2. NoneSaved(stack, r + 1, r)
    BY <1>1 DEF NoneSaved
  <2>3. CASE r = Body /\ v = ebp
    BY <2>1, <2>2, <2>3 DEF KeptFrom
  <2>4. CASE r < Body /\ SavedAt(stack, r + 1) /\ v = stack[r + 1]
    <3>1. r + 1 \in r + 1 .. Body /\ r + 1 - 1 = r
      BY <1>1, <2>4
    <3>2. ASSUME NEW k \in r + 1 .. Body, k = r + 1, SavedAt(stack, k)
          PROVE  stack[k] = Frame(r - 2)
      <4>1. NoneSaved(stack, r + 1, k - 1)
        BY <1>1, <3>2 DEF NoneSaved
      <4> QED
        BY <2>1, <3>2, <4>1 DEF KeptFrom
    <3>3. stack[r + 1] = Frame(r - 2)
      BY <2>4, <3>1, <3>2
    <3> QED
      BY <2>4, <3>3
  <2> QED
    BY <2>3, <2>4
<1>8. v.kind = "frame" /\ v.n = r - 2
  BY <1>7, DwordIs DEF Frame
<1>9. c # r - 1 /\ c # r - 2
  BY <1>1, <1>3, <1>6 DEF ReturnAt, SavedAt, Returns, SavedKinds
<1> QED
  BY <1>1, <1>8, <1>9

(* A caller that is not told is further down than all that are. *)
LEMMA BeyondTheWalk ==
    ASSUME HInv, Body \in CallersAt, NEW likely,
           \A r \in CallersAt : stack[r].of = Main \/ KeepsFrame(stack[r].of),
           NEW c \in CallersAt, c # Body,
           \A i \in 1 .. MaxFrames : Straight(likely, i) => c # Frames(ebp, likely)[i].n - 1
    PROVE  \A i \in 1 .. MaxFrames : Straight(likely, i) /\ c < Frames(ebp, likely)[i].n - 1
<1> DEFINE F == Frames(ebp, likely)
           S == {i \in 1 .. MaxFrames : Straight(likely, i) /\ c < F[i].n - 1}
<1>1. MaxFrames \in Nat /\ MaxFrames > 0 /\ Body \in Nat /\ c \in 1 .. Body /\ c < Body
  BY CallersAre, ModulesAssumption
<1>2. ASSUME NEW i \in 1 .. MaxFrames, Straight(likely, i - 1),
             Found(likely, i).kind = "frame", c <= Found(likely, i).n - 1
      PROVE  i \in S
  <2>1. Descends(likely, i)
    BY <1>2, WalkDescends
  <2>2. F[i] = Found(likely, i)
    BY <1>2, <2>1 DEF Descends
  <2>3. Straight(likely, i)
    <3>1. \A j \in 1 .. i : j \in 1 .. i - 1 \/ j = i
      BY <1>1
    <3>2. F[i].kind = "frame"
      BY <1>2, <2>2
    <3> QED
      BY <1>2, <3>1, <3>2 DEF Straight
  <2>4. F[i].n \in 2 .. Body /\ c # F[i].n - 1
    BY <2>3, CallerAboveFrame
  <2> QED
    BY <1>1, <1>2, <2>2, <2>3, <2>4
<1>3. 1 \in S
  <2>1. ebp.kind = "frame" /\ c <= ebp.n - 1
    BY <1>1, NextCaller
  <2>2. Found(likely, 1) = ebp /\ 1 \in 1 .. MaxFrames /\ Straight(likely, 1 - 1)
    BY <1>1 DEF Found, Straight
  <2> QED
    BY <1>2, <2>1, <2>2
<1>4. ASSUME NEW i \in 1 .. MaxFrames - 1, i \in S PROVE i + 1 \in S
  <2>1. /\ i \in 1 .. MaxFrames /\ i + 1 \in 1 .. MaxFrames /\ i + 1 - 1 = i /\ i + 1 # 1
        /\ Straight(likely, i) /\ c < F[i].n - 1
    BY <1>1, <1>4
  <2>2. F[i].n \in 2 .. Body /\ SavedAt(stack, F[i].n) /\ F[i].n - 1 \in CallersAt
    BY <2>1, CallerAboveFrame
  <2> DEFINE r == F[i].n - 1
             v == stack[F[i].n]
  <2>3. r + 1 = F[i].n /\ r < Body /\ r \in CallersAt /\ c < r
    BY <1>1, <2>1, <2>2
  <2>4. v.kind = "frame" /\ c <= v.n - 1
    <3>1. SavedAt(stack, r + 1) /\ v = stack[r + 1]
      BY <2>2, <2>3
    <3> HIDE DEF r, v
    <3> QED
      BY <2>3, <3>1, NextCaller
  <2>5. Found(likely, i + 1) = v
    BY <2>1 DEF Found
  <2> HIDE DEF v, S
  <2> QED
    BY <1>2, <2>1, <2>4, <2>5
<1> HIDE DEF S
<1>5. \A i \in 1 .. MaxFrames : i \in S
  BY <1>1, <1>3, <1>4, UpTo
<1> QED
  BY <1>5 DEF S

(* What CallersReported says of a walk. *)
Tells(chain) == \E k \in DOMAIN chain : \E at \in [1 .. k -> CallersAt] : TrueUpTo(chain, k, at)

(* The address to return to is the last caller. *)
LEMMA LastCaller ==
    ASSUME HInv, NEW r \in CallersAt, \A i \in r + 1 .. Body : ~ReturnAt(stack, i)
    PROVE  Max(CallersAt) = r
<1>1. CallersAt \in SUBSET Nat /\ r \in Nat /\ Body \in Nat
  BY CallersAre
<1>2. ASSUME NEW c \in CallersAt PROVE c <= r
  <2>1. c \in 1 .. Body /\ ReturnAt(stack, c)
    BY CallersAre
  <2>2. c \notin r + 1 .. Body
    BY <2>1
  <2> QED
    BY <1>1, <2>1, <2>2
<1> QED
  BY <1>1, <1>2, MaxIs

(* It is true as far as it is straight: k callers. *)
LEMMA WalkTells ==
    ASSUME HInv, DInv, fn \in DOMAIN Site, Body \in CallersAt,
           NEW likely, NEW chain, NEW m \in 0 .. MaxFrames, ChainOK(chain, m, likely)
    PROVE  Tells(chain)
<1> DEFINE F == Frames(ebp, likely)
           T == {i \in 1 .. MaxFrames : Straight(likely, i)}
           k == Cardinality(T) + 1
           at == [i \in 1 .. k |-> IF i = 1 THEN Body ELSE F[i - 1].n - 1]
<1>1. MaxFrames \in Nat /\ MaxFrames > 0 /\ Body \in Nat /\ m \in Nat /\ m <= MaxFrames
  BY CallersAre, ModulesAssumption
<1>2. CallersAt = {i \in 1 .. Body : ReturnAt(stack, i)}
  BY CallersAre
<1>3. /\ DOMAIN chain = 1 .. m + 1 /\ Len(chain) = m + 1 /\ chain[1] = stack[Body]
      /\ \A i \in 1 .. m : chain[i + 1] = ReturnAbove(F[i])
      /\ \A i \in 1 .. MaxFrames : F[i].kind # "none" <=> i <= m
  BY DEF ChainOK
<1>4. k \in 1 .. MaxFrames + 1 /\ T = 1 .. k - 1
  <2>1. ASSUME NEW i \in T, i > 1 PROVE i - 1 \in T
    BY <1>1, <2>1 DEF Straight
  <2>2. T \in SUBSET (1 .. MaxFrames)
    OBVIOUS
  <2> HIDE DEF T
  <2>3. Cardinality(T) \in 0 .. MaxFrames /\ T = 1 .. Cardinality(T)
    BY <1>1, <2>1, <2>2, Initial
  <2> QED
    BY <1>1, <2>3
<1>5. ASSUME NEW i \in 1 .. MaxFrames PROVE Straight(likely, i) <=> i <= k - 1
  <2>1. Straight(likely, i) <=> i \in T
    OBVIOUS
  <2> HIDE DEF T
  <2> QED
    BY <1>1, <1>4, <2>1
<1> HIDE DEF F, T, k
<1>6. k <= m + 1
  <2>1. CASE k = 1
    BY <1>1, <2>1
  <2>2. CASE k # 1
    <3>1. k - 1 \in 1 .. MaxFrames /\ k - 1 \in 1 .. k - 1
      BY <1>1, <1>4, <2>2
    <3>2. F[k - 1].kind = "frame"
      BY <1>5, <3>1 DEF Straight, F
    <3> QED
      BY <1>1, <1>3, <1>4, <3>1, <3>2
  <2> QED
    BY <2>1, <2>2
<1>7. ASSUME NEW i \in 2 .. k
      PROVE  /\ i - 1 \in 1 .. MaxFrames /\ F[i - 1].n \in 2 .. Body /\ SavedAt(stack, F[i - 1].n)
             /\ F[i - 1].n - 1 \in CallersAt /\ chain[i] = stack[F[i - 1].n - 1]
             /\ \A j \in 1 .. i - 2 : F[j].n \in Nat /\ F[i - 1].n < F[j].n
  <2>1. i - 1 \in 1 .. MaxFrames /\ i - 1 <= k - 1 /\ i - 1 \in 1 .. m /\ i - 1 + 1 = i /\ i - 1 - 1 = i - 2
    BY <1>1, <1>4, <1>6
  <2>2. Straight(likely, i - 1)
    BY <1>5, <2>1
  <2>3. chain[i] = ReturnAbove(F[i - 1])
    BY <1>3, <2>1
  <2> QED
    BY <2>1, <2>2, <2>3, CallerAboveFrame DEF F
<1>8. ASSUME NEW i \in 1 .. k
      PROVE  /\ at[i] \in CallersAt /\ chain[i] = stack[at[i]]
             /\ at[i] = IF i = 1 THEN Body ELSE F[i - 1].n - 1
  <2>1. at[i] = IF i = 1 THEN Body ELSE F[i - 1].n - 1
    OBVIOUS
  <2> HIDE DEF at
  <2>2. CASE i = 1
    BY <1>3, <2>1, <2>2
  <2>3. CASE i # 1
    <3>1. i \in 2 .. k
      BY <1>4, <2>3
    <3> QED
      BY <1>7, <2>1, <2>3, <3>1
  <2> QED
    BY <2>2, <2>3, <2>1
<1>9. at \in [1 .. k -> CallersAt]
  <2>1. at = [i \in 1 .. k |-> at[i]]
    OBVIOUS
  <2> HIDE DEF at
  <2> QED
    BY <1>8, <2>1
<1> HIDE DEF at
<1>10. ASSUME NEW i \in 1 .. k PROVE AsReturn(chain[i]) = PlainStack[at[i]]
  BY <1>2, <1>8, CallersAre
<1>11. ASSUME NEW i \in 1 .. k, NEW j \in 1 .. k, i < j PROVE at[j] < at[i]
  <2>1. j \in 2 .. k
    BY <1>4, <1>11
  <2>2. /\ F[j - 1].n \in 2 .. Body /\ at[j] = F[j - 1].n - 1
        /\ \A l \in 1 .. j - 2 : F[l].n \in Nat /\ F[j - 1].n < F[l].n
    BY <1>7, <1>8, <2>1
  <2>3. CASE i = 1
    BY <1>1, <1>8, <2>2, <2>3
  <2>4. CASE i # 1
    <3>1. i - 1 \in 1 .. j - 2 /\ at[i] = F[i - 1].n - 1
      BY <1>4, <1>8, <1>11, <2>1, <2>4
    <3> QED
      BY <1>1, <2>2, <3>1
  <2> QED
    BY <2>3, <2>4
<1>12. 1 \in 1 .. k /\ at[1] = Max(CallersAt)
  <2>1. Body + 1 .. Body = {} /\ 1 \in 1 .. k
    BY <1>1, <1>4
  <2>2. Max(CallersAt) = Body
    BY <2>1, LastCaller
  <2> QED
    BY <1>8, <2>1, <2>2
<1>13. ASSUME k < Len(chain) PROVE \E c \in CallersAt : c <= at[k] /\ UsesEbpForData(PlainStack[c].of)
  <2>1. k \in 1 .. MaxFrames /\ k <= m /\ ~(k <= k - 1)
    BY <1>1, <1>3, <1>4, <1>13
  <2>2. Straight(likely, k - 1) /\ ~Straight(likely, k)
    <3>1. ~Straight(likely, k)
      BY <1>5, <2>1
    <3>2. Straight(likely, k - 1)
      <4>1. CASE k = 1
        BY <4>1 DEF Straight
      <4>2. CASE k # 1
        <5>1. k - 1 \in 1 .. MaxFrames
          BY <1>1, <2>1, <4>2
        <5> QED
          BY <1>5, <5>1
      <4> QED
        BY <4>1, <4>2
    <3> QED
      BY <3>1, <3>2
  <2>3. F[k].kind \notin {"none", "frame"}
    <3>1. \A j \in 1 .. k : j \in 1 .. k - 1 \/ j = k
      BY <2>1
    <3> QED
      BY <1>3, <2>1, <2>2, <3>1 DEF Straight, F
  <2>4. Found(likely, k).kind \in DataKinds
    <3>1. Descends(likely, k)
      BY <2>1, <2>2, WalkDescends
    <3> QED
      BY <2>3, <3>1 DEF Descends, F
  <2>5. at[k] \in Nat /\ DataFrom(PlainStack, at[k], Found(likely, k))
    <3>1. CASE k = 1
      <4>1. Found(likely, k) = ebp /\ at[k] = Body
        BY <1>8, <2>1, <3>1 DEF Found
      <4>2. ~DataHere(PlainStack, ebp, fn, pc)
        BY StolenAssumption DEF DataHere
      <4> QED
        BY <1>1, <2>4, <4>1, <4>2, CallersAre DEF DInv
    <3>2. CASE k # 1
      <4>1. k \in 2 .. k /\ k \in 1 .. k
        BY <2>1, <3>2
      <4>2. /\ F[k - 1].n \in 2 .. Body /\ SavedAt(stack, F[k - 1].n)
            /\ at[k] = F[k - 1].n - 1 /\ Found(likely, k) = stack[F[k - 1].n]
        BY <1>7, <1>8, <3>2, <4>1 DEF Found, F
      <4>3. F[k - 1].n \in 1 .. Body /\ at[k] \in Nat
        BY <1>1, <4>2
      <4>4. PlainStack[F[k - 1].n] = stack[F[k - 1].n]
        BY <4>2, <4>3, CallersAre DEF SavedAt, SavedKinds
      <4> QED
        BY <2>4, <4>2, <4>3, <4>4, CallersAre DEF DInv, DataSaved
    <3> QED
      BY <3>1, <3>2
  <2>6. PICK c \in 1 .. at[k] :
          PlainStack[c].kind = "ret" /\ HasPushed(PlainStack[c].of, PlainStack[c].n) /\ ~KeepsFrame(PlainStack[c].of)
    BY <2>5 DEF DataFrom
  <2>7. at[k] \in 1 .. Body
    BY <1>2, <1>8, <2>1
  <2>8. c \in 1 .. Body /\ c <= at[k]
    BY <1>1, <2>7
  <2>9. c \in CallersAt
    BY <2>6, <2>8, CallersAre
  <2> QED
    BY <2>6, <2>8, <2>9 DEF HasPushed, UsesEbpForData
<1>14. ASSUME AllKeepFrames, NEW c \in CallersAt, \A i \in 1 .. k : c # at[i]
       PROVE  k = MaxFrames + 1 /\ \A i \in 1 .. k : c < at[i]
  <2>1. \A r \in CallersAt : stack[r].of = Main \/ KeepsFrame(stack[r].of)
    <3> SUFFICES ASSUME NEW r \in CallersAt PROVE stack[r].of = Main \/ KeepsFrame(stack[r].of)
      OBVIOUS
    <3>1. PlainStack[r].of = stack[r].of
      BY CallersAre
    <3> QED
      BY <1>14, <3>1 DEF AllKeepFrames
  <2>2. c # Body
    BY <1>8, <1>12, <1>14
  <2>3. ASSUME NEW i \in 1 .. MaxFrames, Straight(likely, i) PROVE c # F[i].n - 1
    <3>1. i + 1 \in 1 .. k /\ i + 1 # 1 /\ i + 1 - 1 = i
      BY <1>1, <1>4, <1>5, <2>3
    <3>2. at[i + 1] = F[i].n - 1
      BY <1>8, <3>1
    <3> QED
      BY <1>14, <3>1, <3>2
  <2>4. \A i \in 1 .. MaxFrames : Straight(likely, i) /\ c < F[i].n - 1
    BY <2>1, <2>2, <2>3, BeyondTheWalk DEF F
  <2>5. k = MaxFrames + 1
    <3>1. MaxFrames \in 1 .. MaxFrames
      BY <1>1
    <3>2. MaxFrames <= k - 1
      BY <1>5, <2>4, <3>1
    <3> QED
      BY <1>1, <1>4, <3>2
  <2>6. ASSUME NEW i \in 1 .. k PROVE c < at[i]
    <3>1. CASE i = 1
      <4>1. c \in 1 .. Body
        BY <1>2
      <4> QED
        BY <1>1, <1>8, <2>2, <3>1, <4>1
    <3>2. CASE i # 1
      <4>1. i \in 2 .. k
        BY <1>4, <3>2
      <4>2. i - 1 \in 1 .. MaxFrames
        BY <1>7, <4>1
      <4> QED
        BY <1>8, <2>4, <3>2, <4>2
    <3> QED
      BY <3>1, <3>2
  <2> QED
    BY <2>5, <2>6
<1>15. TrueUpTo(chain, k, at)
  BY <1>10, <1>11, <1>12, <1>13, <1>14 DEF TrueUpTo
<1>16. k \in DOMAIN chain
  BY <1>1, <1>3, <1>4, <1>6
<1> QED
  BY <1>9, <1>15, <1>16 DEF Tells

(* The tables: each command is resolved to its own list, each event named. *)
LEMMA ResolveIs == \A cmd \in 0 .. 1300 : Resolve(cmd, {641, 648, 651}) = OwnList(cmd)
<1> SUFFICES ASSUME NEW cmd \in 0 .. 1300 PROVE Resolve(cmd, {641, 648, 651}) = OwnList(cmd)
  OBVIOUS
<1>1. Cases \subseteq (1 .. 270) \cup (514 .. 1033)
  BY ObserversAssumption
<1>2. CASE cmd \in 1 .. 270
  <2>1. Table(cmd) = 1 /\ InSelector(cmd) /\ cmd # 0
    BY <1>2 DEF Table, InSelector
  <2>2. Selector(1, cmd) = OwnList(cmd)
    BY <1>2 DEF Selector, Selectors, OwnList
  <2> QED
    BY <2>1, <2>2 DEF Resolve, IsThunk, StubChecks, Unknown
<1>3. CASE cmd \in 514 .. 1033
  <2>1. Table(cmd) = 2 /\ InSelector(cmd) /\ cmd # 0
    BY <1>3 DEF Table, InSelector
  <2>2. Selector(2, cmd) = OwnList(cmd)
    BY <1>3 DEF Selector, Selectors, OwnList
  <2> QED
    BY <2>1, <2>2 DEF Resolve, IsThunk, StubChecks, Unknown
<1>4. CASE cmd \notin (1 .. 270) \cup (514 .. 1033)
  <2>1. ~InSelector(cmd)
    BY <1>4 DEF Table, InSelector
  <2>2. OwnList(cmd) = Unknown
    BY <1>1, <1>4 DEF OwnList
  <2> QED
    BY <2>1, <2>2 DEF Resolve
<1> QED
  BY <1>2, <1>3, <1>4

LEMMA TablesDo == TablesAgree
<1>1. ASSUME NEW id \in GameEvents PROVE ObserveNotification("game", id).name = id
  <2>1. id \in 1 .. 133 /\ id \in GameCases1 \cup GameCases2
    BY DEF GameEvents, GameCases1, GameCases2
  <2>2. \A e \in FloatCases : e[2] # id
    BY <2>1 DEF FloatCases
  <2> QED
    BY <2>1, <2>2 DEF ObserveNotification, GameEventName
<1>2. ASSUME NEW e \in FloatEvents PROVE ObserveNotification("game", e[2]).name = e[1]
  <2>1. \E d \in FloatCases : d[2] = e[2]
    BY DEF FloatEvents, FloatCases
  <2>2. \A d \in FloatCases : d[2] = e[2] => d[1] = e[1]
    BY DEF FloatEvents, FloatCases
  <2>3. GameEventName(e[2]) = e[1]
    BY <2>1, <2>2 DEF GameEventName
  <2> QED
    BY <2>3 DEF ObserveNotification
<1>3. ASSUME NEW id \in LogicEvents PROVE ObserveNotification("logic", id).name = id
  <2>1. LogicEventName(id) = id
    <3>1. CASE id \in LogicEvents1 \cup LogicEvents2
      BY <3>1 DEF LogicEventName, LogicEvents1, LogicEvents2, LogicCases1, LogicCases2, LogicCases3, LogicCases4
    <3>2. CASE id \in LogicEvents3 \cup LogicEvents4 \cup LogicEvents5
      BY <3>2 DEF LogicEventName, LogicEvents3, LogicEvents4, LogicEvents5, LogicCases5, LogicCases6,
                  LogicCases7, LogicCases8, LogicCases9, LogicCases10
    <3> QED
      BY <3>1, <3>2 DEF LogicEvents
  <2> QED
    BY <2>1 DEF ObserveNotification
<1> QED
  BY <1>1, <1>2, <1>3, ResolveIs DEF TablesAgree

LEMMA SpawnIs == \A cmd \in SpawnCmds : cmd \in 0 .. 1300 /\ CmdName(cmd) = cmd
BY DEF SpawnCmds, CmdName, CmdIds, Cmds2, Cmds3

-----------------------------------------------------------------------------
(* Whose module an address to return to is named for.                      *)

(* It was pushed by a call, of a function in a module that was loaded. *)
LEMMA ChainReturns ==
    ASSUME HInv, DInv, Body \in CallersAt, NEW likely, NEW chain, NEW m \in 0 .. MaxFrames,
           ChainOK(chain, m, likely), NEW i \in DOMAIN chain, chain[i].kind \in Returns
    PROVE  /\ chain[i].of \in Fns /\ ModuleOf[chain[i].of] \in loaded
           /\ chain[i].kind = "tramp" => chain[i].of \in DOMAIN Site
<1> DEFINE F == Frames(ebp, likely)
<1>1. Body \in Nat /\ \E r \in 1 .. Body : chain[i] = stack[r]
  <2>1. CASE i = 1
    BY <2>1, CallersAre DEF ChainOK
  <2>2. CASE i # 1
    <3>1. i - 1 \in 1 .. m /\ i - 1 + 1 = i /\ i - 1 \in 1 .. MaxFrames
      BY <2>2, ModulesAssumption DEF ChainOK
    <3>2. chain[i] = ReturnAbove(F[i - 1])
      BY <3>1 DEF ChainOK
    <3>3. Heap.kind = "heap"
      BY DwordIs DEF Heap
    <3>4. InStack(F[i - 1]) /\ F[i - 1].n > 1 /\ chain[i] = stack[F[i - 1].n - 1]
      BY <3>2, <3>3 DEF ReturnAbove, Returns
    <3>5. F[i - 1].n \in 1 .. Body /\ Body \in Nat
      BY <3>1, <3>4, VisitedInBody, CallersAre DEF InBody
    <3>6. F[i - 1].n - 1 \in 1 .. Body
      BY <3>4, <3>5
    <3> QED
      BY <3>4, <3>5, <3>6
  <2> QED
    BY <2>1, <2>2
<1>2. PICK r \in 1 .. Body : chain[i] = stack[r]
  BY <1>1
<1>3. ReturnOK(stack, r, loaded)
  BY <1>2 DEF HInv, Shape, Parsed, ReturnAt
<1> QED
  BY <1>2, <1>3 DEF ReturnOK, InStolen

LEMMA MinIs ==
    ASSUME NEW S \in SUBSET Nat, S # {}
    PROVE  Min(S) \in S /\ \A k \in S : Min(S) <= k
<1>1. \E x \in S : \A y \in S : x <= y
  BY LeastOf
<1> QED
  BY <1>1 DEF Min

LEMMA WinsAre == \A w \in Walks : DOMAIN Wins[w] \subseteq Nat
<1> DEFINE names == {"mho", "cry", "cact", "csys", "tp", "ph", "msvcr", "ntdll", "k32"}
           W == [name : names, span : Nat]
<1>1. \A m \in names, s \in Nat : Win(m, s) \in W
  BY DEF Win
<1> HIDE DEF W
<1>2. CryGameWins \in Seq(W) /\ HandlerWins \in Seq(W)
  <2>1. SmallWins \in Seq(W)
    BY <1>1 DEF SmallWins
  <2>2. <<Win("cry", 512), Win("mho", 512)>> \in Seq(W)
    BY <1>1
  <2>3. <<Win("mho", 512), Win("cry", 576), Win("cact", 400), Win("csys", 128)>> \in Seq(W)
    BY <1>1
  <2> QED
    BY <2>1, <2>2, <2>3 DEF CryGameWins, HandlerWins
<1>3. \A s \in Seq(W) : DOMAIN s \subseteq Nat
  OBVIOUS
<1>4. Wins["CmdDispatchSwitch"] = CryGameWins /\ Wins["mho_480450"] = HandlerWins
  BY DEF Wins
<1> QED
  BY <1>2, <1>3, <1>4, SitesAre

(* What NamesTheModule says of a name. *)
NamedWell(ret, name, wins) ==
    LET own == OwnWins(ret, wins) IN
    \/ name = "?" /\ own = {}
    \/ name = ModuleOf[ret.of] /\ own # {}
    \/ \E j \in DOMAIN wins :
        /\ name = wins[j].name /\ \A k \in own : j < k
        /\ Holds(wins[j], AddressOf(ret)) /\ ~Within(name, AddressOf(ret))

LEMMA FormatIs ==
    ASSUME HInv, fn \in Walks, NEW ret, ret.kind \in Returns, ret.of \in Fns,
           ModuleOf[ret.of] \in loaded, ret.kind = "tramp" => ret.of \in DOMAIN Site
    PROVE  NamedWell(ret, Format(ret), Wins[fn])
<1> DEFINE wins == Wins[fn]
           own == OwnWins(ret, wins)
           a == AddressOf(ret)
           known == Refresh[fn]
           holding == {i \in DOMAIN wins : wins[i].name \in known /\ Holds(wins[i], a)}
<1>1. known \subseteq Modules /\ loaded \cap Listed(fn) \subseteq known
  <2>1. BasesOK(bases, loaded)
    BY DEF HInv, Typed
  <2>2. known = bases[fn] \cup (loaded \cap Listed(fn))
    BY <2>1 DEF Refresh, LookUp, BasesOK
  <2> QED
    BY <2>1, <2>2 DEF BasesOK
<1>2. ASSUME NEW k \in own PROVE k \in holding
  <2>1. k \in DOMAIN wins /\ wins[k].name = ModuleOf[ret.of] /\ Holds(wins[k], a)
    BY DEF OwnWins
  <2>2. wins[k].name \in Listed(fn)
    BY <2>1 DEF Listed
  <2> QED
    BY <1>1, <2>1, <2>2
<1>3. Format(ret) = IF holding = {} THEN "?" ELSE wins[Min(holding)].name
  BY DEF Format
<1>4. holding \in SUBSET Nat
  BY WinsAre
<1>5. CASE holding = {}
  BY <1>2, <1>3, <1>5 DEF NamedWell
<1>6. CASE holding # {}
  <2> DEFINE j == Min(holding)
  <2>1. j \in holding /\ \A k \in holding : j <= k
    BY <1>4, <1>6, MinIs
  <2>2. /\ j \in DOMAIN wins /\ wins[j].name \in known /\ Holds(wins[j], a)
        /\ Format(ret) = wins[j].name
    BY <1>3, <1>6, <2>1
  <2> HIDE DEF j, holding
  <2>3. CASE ret.kind = "ret" /\ wins[j].name = ModuleOf[ret.of]
    <3>1. j \in own
      BY <2>2, <2>3 DEF OwnWins
    <3> QED
      BY <2>2, <2>3, <3>1 DEF NamedWell
  <2>4. CASE ~(ret.kind = "ret" /\ wins[j].name = ModuleOf[ret.of])
    <3>1. \A k \in own : j < k
      <4> SUFFICES ASSUME NEW k \in own PROVE j < k
        OBVIOUS
      <4>1. j <= k /\ j \in Nat /\ k \in Nat
        BY <1>2, <1>4, <2>1
      <4>2. j # k
        BY <2>4 DEF OwnWins
      <4> QED
        BY <4>1, <4>2
    <3>2. ~Within(wins[j].name, a)
      <4>1. wins[j].name \in Modules
        BY <1>1, <2>2
      <4>2. CASE ret.kind = "tramp"
        BY <4>1, <4>2, AddressAssumption DEF AddressOf
      <4>3. CASE ret.kind = "ret"
        <5>1. a = Address[ret.of] /\ ModuleOf[ret.of] # wins[j].name
          BY <2>4, <4>3 DEF AddressOf
        <5>2. Within(ModuleOf[ret.of], a) /\ a \in Nat /\ ModuleOf[ret.of] \in Modules
          BY <5>1, AddressAssumption, ModulesAssumption DEF Modules
        <5> DEFINE n == wins[j].name
                   o == ModuleOf[ret.of]
        <5>3. /\ Base[n] \in Nat /\ Image[n] \in Nat /\ Base[o] \in Nat /\ Image[o] \in Nat
              /\ Base[n] + Image[n] <= Base[o] \/ Base[o] + Image[o] <= Base[n]
          BY <4>1, <5>1, <5>2, AddressAssumption
        <5> HIDE DEF n, o, a
        <5>4. Within(o, a) => ~Within(n, a)
          BY <5>2, <5>3 DEF Within
        <5> QED
          BY <5>2, <5>4 DEF n, o
      <4> QED
        BY <4>2, <4>3 DEF Returns
    <3> QED
      BY <2>2, <3>1, <3>2 DEF NamedWell
  <2> QED
    BY <2>3, <2>4
<1> QED
  BY <1>5, <1>6

-----------------------------------------------------------------------------
(* The report of a callback is there until the next step of its thread.    *)

SeenTruly ==
    report.seen # Nothing /\ report.site = "CmdDispatchSwitch" =>
        LET packet == PlainStack[Len(PlainStack) - 1].n IN
        report.seen = [name |-> packet, list |-> OwnList(packet)]

ReportTrue == CallersReported /\ NamesTheModule /\ SeenTruly
RInv == ReportTrue /\ (where # "drop" => report = NoReport)

LEMMA NoReportIsTrue == report = NoReport => ReportTrue
<1> SUFFICES ASSUME report = NoReport PROVE ReportTrue
  OBVIOUS
<1>1. report.site = Main /\ report.chain = <<>> /\ DOMAIN report.names = {} /\ report.seen = Nothing
  BY DEF NoReport
<1> QED
  BY <1>1, SitesAre DEF ReportTrue, CallersReported, NamesTheModule, SeenTruly

(* What a walk tells does not depend on what is on top of the client's own *)
(* dwords.                                                                 *)
LEMMA TellsAfter ==
    ASSUME UNCHANGED PlainStack, NEW chain, chain = report'.chain, Tells(chain)
    PROVE  Tells(report.chain)'
<1>1. PICK k \in DOMAIN chain : \E at \in [1 .. k -> CallersAt] : TrueUpTo(chain, k, at)
  BY DEF Tells
<1>2. PICK at \in [1 .. k -> CallersAt] : TrueUpTo(chain, k, at)
  BY <1>1
<1>3. CallersAt' = CallersAt
  BY DEF CallersAt
<1>4. AllKeepFrames' = AllKeepFrames
  BY <1>3 DEF AllKeepFrames
<1>5. k \in DOMAIN report'.chain /\ at \in [1 .. k -> CallersAt']
  BY <1>3
<1>6. /\ \A i \in 1 .. k : AsReturn(report'.chain[i]) = PlainStack'[at[i]]
      /\ \A i, j \in 1 .. k : i < j => at[j] < at[i]
      /\ at[1] = Max(CallersAt')
      /\ k < Len(report'.chain) => \E c \in CallersAt' : c <= at[k] /\ UsesEbpForData(PlainStack'[c].of)
      /\ AllKeepFrames' => \A c \in CallersAt' :
            (\E i \in 1 .. k : c = at[i]) \/ (k = MaxFrames + 1 /\ \A i \in 1 .. k : c < at[i])
  BY <1>2, <1>3, <1>4 DEF TrueUpTo
<1> QED
  BY <1>5, <1>6 DEF Tells, TrueUpTo

(* A report stays true as long as the client's own dwords stay.            *)
LEMMA StaysTrue ==
    ASSUME ReportTrue, UNCHANGED report, UNCHANGED PlainStack
    PROVE  ReportTrue'
<1>1. CallersAt' = CallersAt
  BY DEF CallersAt
<1>2. ASSUME report.chain # <<>> PROVE Tells(report.chain)'
  <2>1. Tells(report.chain)
    BY <1>2 DEF ReportTrue, CallersReported, Tells
  <2> QED
    BY <2>1, TellsAfter
<1>3. CallersReported'
  <2>1. report'.chain # <<>> => Tells(report.chain)'
    BY <1>2
  <2> QED
    BY <1>1, <2>1 DEF ReportTrue, CallersReported, Tells
<1>4. NamesTheModule'
  BY DEF ReportTrue, NamesTheModule
<1>5. SeenTruly'
  BY DEF ReportTrue, SeenTruly
<1> QED
  BY <1>3, <1>4, <1>5 DEF ReportTrue

(* The address to return to that a callback logs by itself: the caller's,  *)
(* or, where ebp was pushed, what was pushed.                              *)
LEMMA LoggedIs ==
    ASSUME HInv, where = "callback", fn \in LogsReturn
    PROVE  AsReturn(LoggedReturn) = PlainStack[Max(CallersAt)] <=> fn \in Walks \cup {"monster_ai_skill"}
<1>1. /\ Body \in Nat /\ CallersAt = {i \in 1 .. Body : ReturnAt(stack, i)}
      /\ \A i \in 1 .. Body : PlainStack[i] = AsReturn(stack[i]) /\ stack[i] \in Dwords
      /\ \A i \in 1 .. Body : PlainStack[i].kind = "ret" <=> ReturnAt(stack, i)
  BY CallersAre
<1>2. ContextEbp = ebp /\ HookStack(0) = stack[Body]
  <2>1. HookStack(0) = stack[Body - 0]
    BY CallbackFinds
  <2> QED
    BY <1>1, <2>1, CallbackFinds
<1>3. "monster_ai_skill" \notin Walks
  BY SitesAre
<1>4. CASE fn \in Walks
  <2>1. Body \in CallersAt /\ Body + 1 .. Body = {} /\ Body \in 1 .. Body
    BY <1>1, <1>4, CallbackFinds
  <2>2. Max(CallersAt) = Body
    BY <2>1, LastCaller
  <2>3. LoggedReturn = stack[Body]
    BY <1>2, <1>3, <1>4 DEF LoggedReturn, LogsReturn
  <2> QED
    BY <1>1, <1>4, <2>1, <2>2, <2>3
<1>5. CASE fn \notin Walks
  <2>1. Body > 1 /\ SavedAt(stack, Body) /\ ReturnAt(stack, Body - 1)
    BY <1>5, CallbackFinds
  <2>2. Body - 1 \in CallersAt /\ Body \in 1 .. Body /\ Body - 1 \in 1 .. Body
    BY <1>1, <2>1
  <2>3. ~ReturnAt(stack, Body) /\ Body - 1 + 1 .. Body = {Body}
    BY <1>1, <2>1, KindsDiffer
  <2>4. Max(CallersAt) = Body - 1
    BY <2>2, <2>3, LastCaller
  <2>5. CASE fn = "monster_ai_skill"
    <3>1. ebp.n = Body
      BY <2>5, CallbackFinds, DwordIs DEF Frame
    <3>2. LoggedReturn = stack[Body - 1]
      BY <1>2, <2>5, <3>1 DEF LoggedReturn
    <3> QED
      BY <1>1, <2>2, <2>4, <2>5, <3>2
  <2>6. CASE fn # "monster_ai_skill"
    <3>1. LoggedReturn = stack[Body]
      BY <1>2, <2>6 DEF LoggedReturn
    <3>2. AsReturn(stack[Body]).kind # "ret"
      BY <1>1, <2>2, <2>3
    <3>3. PlainStack[Max(CallersAt)].kind = "ret"
      BY <1>1, <2>1, <2>2, <2>4
    <3> QED
      BY <1>5, <2>6, <3>1, <3>2, <3>3
  <2> QED
    BY <2>5, <2>6
<1> QED
  BY <1>4, <1>5

LEMMA CallbackIsTrue ==
    ASSUME HInv, DInv, Callback
    PROVE  ReportTrue'
<1>1. where = "callback" /\ UNCHANGED PlainStack
  BY CallbackStep DEF Callback, Unnoticed
<1>2. PICK likely \in SUBSET (1 .. MaxFrames), readable \in BOOLEAN :
        report' = [site |-> fn, ret |-> LoggedReturn, chain |-> Walk(likely),
                   names |-> Named(Walk(likely)), seen |-> Observed(readable)]
  BY DEF Callback
<1>3. /\ report'.site = fn /\ report'.ret = LoggedReturn /\ report'.chain = Walk(likely)
      /\ report'.names = Named(Walk(likely)) /\ report'.seen = Observed(readable)
  BY <1>2
<1>4. CallersAt' = CallersAt
  BY <1>1 DEF CallersAt
<1>5. /\ Body \in Nat /\ Len(PlainStack) = Body
      /\ \A i \in 1 .. Body : PlainStack[i].n = stack[i].n
      /\ CallersAt = {i \in 1 .. Body : ReturnAt(stack, i)}
  BY CallersAre
<1>6. HookStack(1) = stack[Body - 1] /\ (fn \in Walks => Body > 1 /\ Body \in CallersAt)
  BY <1>1, <1>5, CallbackFinds
<1>7. ASSUME Walk(likely) # <<>>
      PROVE  fn \in Walks /\ fn \in DOMAIN Site /\ \E m \in 0 .. MaxFrames : ChainOK(Walk(likely), m, likely)
  <2>1. fn \in Walks
    BY <1>7 DEF Walk
  <2>2. fn \in DOMAIN Site
    BY <1>1, CallbackFinds DEF AtSite
  <2> QED
    BY <1>1, <2>1, <2>2, ChainIs
<1>8. CallersReported'
  <2>1. ASSUME Walk(likely) # <<>> PROVE Tells(report.chain)'
    <3>1. PICK m \in 0 .. MaxFrames : ChainOK(Walk(likely), m, likely)
      BY <1>7, <2>1
    <3>2. Tells(Walk(likely))
      BY <1>6, <1>7, <2>1, <3>1, WalkTells
    <3> QED
      BY <1>1, <1>3, <3>2, TellsAfter
  <2>2. fn \in LogsReturn =>
          (AsReturn(report'.ret) = PlainStack'[Max(CallersAt')] <=> fn \in Walks \cup {"monster_ai_skill"})
    BY <1>1, <1>3, <1>4, LoggedIs
  <2> QED
    BY <1>3, <2>1, <2>2 DEF CallersReported, Tells
<1>9. NamesTheModule'
  <2>1. ASSUME NEW i \in DOMAIN report'.names
        PROVE  NamedWell(report'.chain[i], report'.names[i], Wins[report'.site])
    <3>1. i \in DOMAIN Walk(likely) /\ Walk(likely)[i].kind \in Returns /\ report'.names[i] = Format(Walk(likely)[i])
      BY <1>3 DEF Named
    <3>2. Walk(likely) # <<>>
      BY <3>1
    <3>3. PICK m \in 0 .. MaxFrames : ChainOK(Walk(likely), m, likely)
      BY <1>7, <3>2
    <3> DEFINE ret == Walk(likely)[i]
    <3>4. /\ fn \in Walks /\ ret.of \in Fns /\ ModuleOf[ret.of] \in loaded
          /\ ret.kind = "tramp" => ret.of \in DOMAIN Site
      BY <1>6, <1>7, <3>1, <3>2, <3>3, ChainReturns
    <3>5. NamedWell(ret, Format(ret), Wins[fn])
      BY <3>1, <3>4, FormatIs
    <3> QED
      BY <1>3, <3>1, <3>5
  <2> QED
    BY <2>1 DEF NamesTheModule, NamedWell
<1>10. SeenTruly'
  <2>1. ASSUME fn = "CmdDispatchSwitch", Observed(readable) # Nothing
        PROVE  Observed(readable) = [name |-> stack[Body - 1].n, list |-> OwnList(stack[Body - 1].n)]
    <3> DEFINE cmd == stack[Body - 1].n
    <3>1. Observed(readable) = ObservePacket(cmd, readable, {641, 648, 651})
      BY <1>6, <2>1 DEF Observed
    <3> HIDE DEF cmd
    <3>2. cmd \in SpawnCmds /\ Observed(readable) = [name |-> CmdName(cmd), list |-> Resolve(cmd, {641, 648, 651})]
      BY <2>1, <3>1 DEF ObservePacket
    <3>3. cmd \in 0 .. 1300 /\ CmdName(cmd) = cmd
      BY <3>2, SpawnIs
    <3>4. Resolve(cmd, {641, 648, 651}) = OwnList(cmd)
      BY <3>3, ResolveIs
    <3>5. Observed(readable) = [name |-> cmd, list |-> OwnList(cmd)]
      BY <3>2, <3>3, <3>4
    <3> QED
      BY <3>5 DEF cmd
  <2>2. ASSUME fn = "CmdDispatchSwitch"
        PROVE  PlainStack[Len(PlainStack) - 1].n = stack[Body - 1].n
    <3>1. Body - 1 \in 1 .. Body
      BY <1>5, <1>6, <2>2, SitesAre
    <3> QED
      BY <1>5, <3>1
  <2>3. ASSUME report'.seen # Nothing, report'.site = "CmdDispatchSwitch"
        PROVE  report'.seen = [name |-> PlainStack'[Len(PlainStack') - 1].n,
                               list |-> OwnList(PlainStack'[Len(PlainStack') - 1].n)]
    BY <1>1, <1>3, <2>1, <2>2, <2>3
  <2> QED
    BY <2>3 DEF SeenTruly
<1> QED
  BY <1>8, <1>9, <1>10 DEF ReportTrue

LEMMA InitRInv == HookedInit => RInv
BY NoReportIsTrue DEF HookedInit, RInv

(* Drop takes the report away; no other step does anything about it. *)
LEMMA NextRInv == HInv /\ DInv /\ RInv /\ [HookedNext]_vars => RInv'
<1> SUFFICES ASSUME HInv, DInv, RInv, [HookedNext]_vars PROVE RInv'
  OBVIOUS
<1>1. ASSUME report' = NoReport PROVE RInv'
  <2>1. ReportTrue'
    <3>1. report'.site = Main /\ report'.chain = <<>> /\ DOMAIN report'.names = {} /\ report'.seen = Nothing
      BY <1>1 DEF NoReport
    <3> QED
      BY <3>1, SitesAre DEF ReportTrue, CallersReported, NamesTheModule, SeenTruly
  <2> QED
    BY <1>1, <2>1 DEF RInv
<1>2. CASE Callback
  BY <1>2, CallbackIsTrue DEF RInv, Callback
<1>3. CASE Drop
  BY <1>1, <1>3 DEF Drop
<1>4. CASE UNCHANGED <<where, report>> /\ UNCHANGED PlainStack
  BY <1>4, StaysTrue DEF RInv
<1>5. ASSUME NEW m \in Modules, LoadModule(m) PROVE RInv'
  <2>1. UNCHANGED PlainStack
    BY <1>5, LoadModuleStep DEF Unnoticed
  <2> QED
    BY <1>4, <1>5, <2>1 DEF LoadModule
<1>6. CASE UNCHANGED vars
  <2>1. UNCHANGED PlainStack
    BY <1>6, StutterStep DEF Unnoticed
  <2> QED
    BY <1>4, <1>6, <2>1 DEF vars
<1>7. CASE RunCode \/ Jump \/ Pushad \/ PushContext \/ CallCallback \/ Popad \/ RunStolen \/ JumpBack
  <2>1. where # "drop" /\ UNCHANGED report
    BY <1>7 DEF RunCode, Jump, Pushad, PushContext, CallCallback, Popad, RunStolen, JumpBack
  <2> QED
    BY <1>1, <2>1 DEF RInv
<1> QED
  BY <1>2, <1>3, <1>5, <1>6, <1>7 DEF HookedNext, Trampoline

LEMMA SpecRInv == HookedSpec => []RInv
BY SpecHInv, SpecDInv, InitRInv, NextRInv, PTL DEF HookedSpec

(* Whatever code the client runs, and whatever it uses ebp for: a walk     *)
(* starts with the true caller and names true callers in order until it    *)
(* has passed a function that uses ebp for data, and leaves none out if    *)
(* all keep a frame; and of what a callback logs by itself as the address  *)
(* to return to, which is one and which is the saved ebp.                  *)
THEOREM WalksNameCallers == HookedSpec => []CallersReported
<1>1. RInv => CallersReported
  BY DEF RInv, ReportTrue
<1> QED
  BY <1>1, SpecRInv, PTL

(* Wherever the modules lie, and whenever they are loaded: an address in a *)
(* walk is named for the first window that holds it, which is its own      *)
(* module's, or none when its own module has none, or that of a module     *)
(* whose image ends before it.                                             *)
THEOREM ModulesAreNamed == HookedSpec => []NamesTheModule
<1>1. RInv => NamesTheModule
  BY DEF RInv, ReportTrue
<1> QED
  BY <1>1, SpecRInv, PTL

(* Whichever commands have a case and wherever the bytes behind a table    *)
(* lead, a spawn packet is reported with its own name and list.            *)
THEOREM ObserversAreRight == HookedSpec => []ObservesTruly
<1>1. RInv => ObservesTruly
  BY TablesDo DEF RInv, ReportTrue, SeenTruly, ObservesTruly
<1> QED
  BY <1>1, SpecRInv, PTL

=============================================================================
