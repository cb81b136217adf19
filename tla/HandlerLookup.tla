--------------------------- MODULE HandlerLookup ---------------------------
(***************************************************************************)
(* hooks_crygame.cpp, protocol_dispatch_find_handler: the hook of the      *)
(* protocol dispatcher looks a packet id up in the client's map of         *)
(* handlers, a binary search tree read node by node through                *)
(* ReadProcessMemory, any read of which may fail.                          *)
(*                                                                         *)
(* The client's registrations add leaves, at any time; it is taken not to  *)
(* rebalance the tree while a hook walks it.  Every shape of a tree arises *)
(* from some order of registrations.                                       *)
(***************************************************************************)
EXTENDS Integers, FiniteSets

CONSTANT Ids    \* packet ids

ASSUME IdsAssumption == Ids \subseteq Nat \ {0}

(* A node is named by its key, and so is the handler definition it holds.  *)
Null == 0
Tree == Ids \cup {Null}

VARIABLES
    unreadable,         \* nodes of which a key or link cannot be read
    torn,               \* nodes of which the handler, behind the key, cannot be read
    top, left, right,   \* the client's tree
    registered,         \* the ids in it
    walk,               \* where the lookup is
    packet_id,          \* the id looked up
    root,               \* the node to visit next
    candidate,          \* the last node not below packet_id; Null stands for tree_end
    result,             \* the handler definition returned; Null when none
    known               \* was packet_id registered when the lookup began?

memory == <<unreadable, torn>>
tree == <<top, left, right, registered>>
lookup == <<walk, packet_id, root, candidate, result, known>>
lookupVars == <<memory, tree, lookup>>

LookupInit ==
    /\ unreadable \in SUBSET Ids
    /\ torn \in SUBSET Ids
    /\ top = Null
    /\ left = [k \in Ids |-> Null]
    /\ right = [k \in Ids |-> Null]
    /\ registered = {}
    /\ walk = "idle"
    /\ packet_id = Null
    /\ root = Null
    /\ candidate = Null
    /\ result = Null
    /\ known = FALSE

-----------------------------------------------------------------------------
(* The client registers a handler: a new leaf next to its neighbour in     *)
(* the order of the keys.                                                  *)

Neighbours(p, k) == \A q \in registered \ {p} : ~(p < q /\ q < k) /\ ~(k < q /\ q < p)

Insert(k) ==
    /\ k \notin registered
    /\ registered' = registered \cup {k}
    /\ \/ registered = {} /\ top' = k /\ UNCHANGED <<left, right>>
       \/ \E p \in registered :
            /\ Neighbours(p, k)
            /\ \/ p < k /\ right[p] = Null /\ right' = [right EXCEPT ![p] = k] /\ UNCHANGED left
               \/ k < p /\ left[p] = Null /\ left' = [left EXCEPT ![p] = k] /\ UNCHANGED right
            /\ UNCHANGED top
    /\ UNCHANGED <<memory, lookup>>

-----------------------------------------------------------------------------
(* protocol_dispatch_find_handler                                          *)

Begin(p) ==
    /\ walk = "idle"
    /\ packet_id' = p
    /\ known' = (p \in registered)
    /\ root' = top
    /\ candidate' = Null
    /\ result' = Null
    /\ walk' = "visit"
    /\ UNCHANGED <<memory, tree>>

(* A node to pass on the right.  Mutation: also the one that is sought.    *)
PassedOrFound(key) == key <= packet_id
Passed(key) == key < packet_id

(* A read of the visited node fails: break. *)
Break ==
    /\ walk = "visit" /\ root # Null
    /\ root \in unreadable
    /\ walk' = "check"
    /\ UNCHANGED <<memory, tree, packet_id, root, candidate, result, known>>

(* Mutation: the walk does not leave a node on the right.                  *)
GoRightStays ==
    /\ walk = "visit" /\ root # Null
    /\ root \notin unreadable
    /\ Passed(root)
    /\ root' = root
    /\ UNCHANGED <<memory, tree, walk, packet_id, candidate, result, known>>

GoRight ==
    /\ walk = "visit" /\ root # Null
    /\ root \notin unreadable
    /\ Passed(root)
    /\ root' = right[root]
    /\ UNCHANGED <<memory, tree, walk, packet_id, candidate, result, known>>

(* Mutation: the link is read at a wrong offset.                           *)
GoLeftMisread ==
    /\ walk = "visit" /\ root # Null
    /\ root \notin unreadable
    /\ ~Passed(root)
    /\ root' \in Ids
    /\ candidate' = root
    /\ UNCHANGED <<memory, tree, walk, packet_id, result, known>>

GoLeft ==
    /\ walk = "visit" /\ root # Null
    /\ root \notin unreadable
    /\ ~Passed(root)
    /\ root' = left[root]
    /\ candidate' = root
    /\ UNCHANGED <<memory, tree, walk, packet_id, result, known>>

Leaf ==
    /\ walk = "visit" /\ root = Null
    /\ walk' = "check"
    /\ UNCHANGED <<memory, tree, packet_id, root, candidate, result, known>>

(* The candidate holds packet_id.  Mutation: it is not compared.           *)
AnyCandidate == candidate # Null
Holds == candidate # Null /\ ~(packet_id < candidate)

Check ==
    /\ walk = "check"
    /\ result' = IF Holds /\ candidate \notin torn THEN candidate ELSE Null
    /\ walk' = "done"
    /\ UNCHANGED <<memory, tree, packet_id, root, candidate, known>>

(* The hook has logged the result. *)
Logged ==
    /\ walk = "done"
    /\ walk' = "idle"
    /\ UNCHANGED <<memory, tree, packet_id, root, candidate, result, known>>

Step == Break \/ GoRight \/ GoLeft \/ Leaf \/ Check

LookupNext ==
    \/ \E k \in Ids : Insert(k)
    \/ \E p \in Ids : Begin(p)
    \/ Step
    \/ Logged

LookupSpec == LookupInit /\ [][LookupNext]_lookupVars /\ WF_lookupVars(Step)

-----------------------------------------------------------------------------

LookupTypeOK ==
    /\ unreadable \subseteq Ids /\ torn \subseteq Ids
    /\ top \in Tree
    /\ left \in [Ids -> Tree] /\ right \in [Ids -> Tree]
    /\ registered \subseteq Ids
    /\ walk \in {"idle", "visit", "check", "done"}
    /\ packet_id \in Tree
    /\ root \in Tree /\ candidate \in Tree /\ result \in Tree
    /\ known \in BOOLEAN
    /\ root # Null => root \in registered

(* A handler that is reported is the one registered for the packet, in     *)
(* spite of failed reads and of registrations during the walk.             *)
NeverWrong == result # Null => result = packet_id /\ result \in registered

(* found=0 in the log means that the packet had no handler when the lookup *)
(* began, unless a read failed on the way: the walk then ended at the node *)
(* it could not read, or at a node whose handler it could not.             *)
FindsRegistered ==
    walk = "done" /\ known /\ result = Null =>
        root \in unreadable \/ packet_id \in torn

(* The walk ends, although the tree grows under it.                        *)
WalkEnds == walk = "visit" ~> walk = "done"

=============================================================================
