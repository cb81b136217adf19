----------------------------- MODULE PathBDiff -----------------------------
(***************************************************************************)
(* hooks_crygame.cpp, path B: CmdDispatchSwitch of the client sends a      *)
(* command to its dispatch stub, which calls the subscribers on a circular *)
(* list.  The hook of the switch, and hooks of three stubs, walk the list  *)
(* and log the difference to what the cache remembers for the command.     *)
(*                                                                         *)
(* The lists belong to the client, which changes them at any time but      *)
(* between the two hooks of one dispatch; it is taken to dispatch on one   *)
(* thread, as nothing in these hooks is locked.                            *)
(***************************************************************************)
EXTENDS Integers, FiniteSets, FiniteSetsExt, Sequences, Functions

CONSTANTS
    Cmds,           \* commands of the client
    Nodes,          \* addresses of list nodes
    SpawnCmds,      \* is_spawn_cmd: the commands the switch hook looks at
    Resolved,       \* commands path_b_resolve finds a list for
    Stubs,          \* commands whose stub is hooked too: 641, 648, 651
    NoCmd,          \* cmd_id 0, an empty slot of the cache
    Slots,          \* PATH_B_DIFF_CMDS
    Window,         \* PATH_B_DIFF_NODES
    Unreadable,     \* nodes safe_read_value cannot read, and commands whose list head it cannot
    MaxSubs         \* bound: nodes on the list of each command

ASSUME CmdsAssumption ==
    /\ SpawnCmds \subseteq Cmds /\ Resolved \subseteq Cmds
    /\ Stubs \subseteq SpawnCmds
    /\ NoCmd \notin Cmds
ASSUME SizesAssumption == Slots \in Nat \ {0} /\ Window \in Nat \ {0} /\ MaxSubs \in [Cmds -> Nat]

VARIABLES
    list,       \* the nodes on each command's list, in order
    cache,      \* path_b_diff_state
    dispatched, \* the command between its switch and its stub, or NoCmd
    told,       \* nodes announced and not announced as removed
    event       \* what the last step logged

vars == <<list, cache, dispatched, told, event>>

Slot == 1 .. Slots
Silence == [cmd |-> NoCmd, new |-> {}, gone |-> {}]

Init ==
    /\ list = [c \in Cmds |-> <<>>]
    /\ cache = [i \in Slot |-> [cmd |-> NoCmd, nodes |-> <<>>]]
    /\ dispatched = NoCmd
    /\ told = [c \in Cmds |-> {}]
    /\ event = Silence

-----------------------------------------------------------------------------
(* The client's lists: at which end it inserts is not known.               *)

Subscribe(c, n) ==
    /\ dispatched = NoCmd
    /\ n \notin Range(list[c])
    /\ Len(list[c]) < MaxSubs[c]
    /\ list' \in {[list EXCEPT ![c] = <<n>> \o @], [list EXCEPT ![c] = Append(@, n)]}
    /\ event' = Silence
    /\ UNCHANGED <<cache, dispatched, told>>

Unsubscribe(c, n) ==
    /\ dispatched = NoCmd
    /\ \E i \in DOMAIN list[c] :
        /\ list[c][i] = n
        /\ list' = [list EXCEPT ![c] = SubSeq(@, 1, i - 1) \o SubSeq(@, i + 1, Len(@))]
    /\ event' = Silence
    /\ UNCHANGED <<cache, dispatched, told>>

-----------------------------------------------------------------------------
(* path_b_walk_and_diff                                                    *)

(* The walk stores at most Window nodes; a node whose link cannot be read  *)
(* is the last one.  Mutation: one node too many.                          *)
WalkOneMore(c) ==
    SubSeq(list[c], 1, Min({Len(list[c]), Window + 1} \cup {k \in DOMAIN list[c] : list[c][k] \in Unreadable}))
Walk(c) ==
    SubSeq(list[c], 1, Min({Len(list[c]), Window} \cup {k \in DOMAIN list[c] : list[c][k] \in Unreadable}))

Holding(c) == {i \in Slot : cache[i].cmd = c}
Empty == {i \in Slot : cache[i].cmd = NoCmd}

(* path_b_diff_slot.  Mutation: it takes a free slot before it looks for   *)
(* the command's own.                                                      *)
FreeFirst(c) == IF Empty # {} THEN Min(Empty) ELSE Min(Holding(c))
DiffSlot(c) == IF Holding(c) # {} THEN Min(Holding(c)) ELSE Min(Empty)

(* The nodes the slot remembers: a slot just claimed has none.             *)
Remembered(c) == IF Holding(c) # {} THEN Range(cache[DiffSlot(c)].nodes) ELSE {}

(* What the cache keeps of a walk.  Mutation: the last node is dropped.    *)
KeepsLess(nodes) == SubSeq(nodes, 1, Len(nodes) - 1)
Kept(nodes) == nodes

(* The walk cannot start, or path_b_diff_slot returns null: nothing is     *)
(* diffed.  Mutation: nor is it when the list is empty.                    *)
UndiffedEmpty(c) == c \in Unreadable \/ (Holding(c) = {} /\ Empty = {}) \/ list[c] = <<>>
Undiffed(c) == c \in Unreadable \/ (Holding(c) = {} /\ Empty = {})

Skip(c) ==
    /\ Undiffed(c)
    /\ event' = Silence
    /\ UNCHANGED <<cache, told>>

(* path_b_diff_update: log the difference, remember the walk. *)
Update(c) ==
    /\ ~Undiffed(c)
    /\ event' = [cmd |-> c,
                 new |-> Range(Walk(c)) \ Remembered(c),
                 gone |-> Remembered(c) \ Range(Walk(c))]
    /\ told' = [told EXCEPT ![c] = (@ \cup event'.new) \ event'.gone]
    /\ cache' = [cache EXCEPT ![DiffSlot(c)] = [cmd |-> c, nodes |-> Kept(Walk(c))]]

WalkAndDiff(c) == Skip(c) \/ Update(c)

(* on_cmd_dispatch_switch, then the switch itself. *)
Switch(c) ==
    /\ dispatched = NoCmd
    /\ \/ /\ c \in SpawnCmds \cap Resolved
          /\ WalkAndDiff(c)
       \/ /\ c \notin SpawnCmds \cap Resolved
          /\ event' = Silence
          /\ UNCHANGED <<cache, told>>
    /\ dispatched' = IF c \in Stubs THEN c ELSE NoCmd
    /\ UNCHANGED list

(* on_dispatch_cmd_641, _648 and _651. *)
Stub(c) ==
    /\ dispatched = c
    /\ WalkAndDiff(c)
    /\ dispatched' = NoCmd
    /\ UNCHANGED list

Next ==
    \E c \in Cmds :
        \/ \E n \in Nodes : Subscribe(c, n) \/ Unsubscribe(c, n)
        \/ Switch(c)
        \/ Stub(c)

Spec == Init /\ [][Next]_vars

-----------------------------------------------------------------------------

TypeOK ==
    /\ \A c \in Cmds : list[c] \in Seq(Nodes) /\ Len(list[c]) <= MaxSubs[c]
    /\ \A i \in Slot :
        /\ cache[i].cmd \in Cmds \cup {NoCmd}
        /\ cache[i].nodes \in Seq(Nodes)
        /\ Len(cache[i].nodes) <= Window
    /\ dispatched \in Stubs \cup {NoCmd}
    /\ told \in [Cmds -> SUBSET Nodes]
    /\ event \in [cmd : Cmds \cup {NoCmd}, new : SUBSET Nodes, gone : SUBSET Nodes]

(* A command has one slot of the cache, and what the log has announced for *)
(* it is what the slot remembers: a second slot, or a slot that remembers  *)
(* another walk than the one announced, would repeat or forget events.     *)
ToldIsCached ==
    \A c \in Cmds :
        /\ Cardinality(Holding(c)) <= 1
        /\ told[c] = Remembered(c)

(* No node is announced twice without its removal in between, nor removed  *)
(* without having been announced, whatever the lists do and however many   *)
(* hooks of one dispatch share the cache.                                  *)
NeverTwice ==
    [][event'.cmd # NoCmd =>
          /\ event'.new \cap told[event'.cmd] = {}
          /\ event'.gone \subseteq told[event'.cmd]]_vars

(* The log tells the truth of what fits: a list no longer than the window, *)
(* readable to its end, of a command with a slot.  After such a dispatch   *)
(* the nodes announced and not announced as removed are those on the list, *)
(* whatever earlier dispatches, cut short or not, have left in the cache.  *)
Fits(c) ==
    /\ c \notin Unreadable /\ Range(list[c]) \cap Unreadable = {}
    /\ Len(list[c]) <= Window
    /\ Holding(c) # {} \/ Empty # {}

Dispatch(c) == Stub(c) \/ (c \in SpawnCmds \cap Resolved /\ Switch(c))

ExactWhenItFits ==
    [][\A c \in Cmds : Dispatch(c) /\ Fits(c) => told'[c] = Range(list[c])]_vars

(* "[PathB.unreg] ... REMOVED since last dispatch": a node announced as    *)
(* removed is no longer on the list.                                       *)
RemovedIsGone == event.cmd # NoCmd => event.gone \cap Range(list[event.cmd]) = {}

=============================================================================
