--------------------------- MODULE CryGameProofs ---------------------------
(***************************************************************************)
(* Two of the observers of hooks_crygame.cpp: the lookup of a packet's     *)
(* handler, and the log of a command's list.                               *)
(***************************************************************************)
EXTENDS HandlerLookup, PathBDiff, FiniteSetTheorems, SequenceTheorems, WellFoundedInduction, TLAPS

-----------------------------------------------------------------------------
(***************************************************************************)
(* For any set of packet ids, any tree and any unreadable nodes: the       *)
(* lookup stays on nodes of the client's tree, no packet is reported with  *)
(* the handler of another one, and none without a handler it has.          *)
(*                                                                         *)
(* The walk keeps as its candidate a node whose id is not below the        *)
(* packet's; the last comparison excludes that it is above.  Registrations *)
(* only add nodes, so what the walk holds stays in the tree.  A node that  *)
(* the walk has passed by is not below where it is: some assignment of the *)
(* nodes below each node makes the tree a search tree (SearchTree), and a  *)
(* registration extends it.                                                *)
(***************************************************************************)

Node == registered \cup {Null}

Types ==
    /\ unreadable \subseteq Ids /\ torn \subseteq Ids
    /\ registered \subseteq Ids
    /\ walk \in {"idle", "visit", "check", "done"}
    /\ packet_id \in Tree
    /\ known \in BOOLEAN

(* The links of the tree lead to registered nodes.                         *)
Linked ==
    /\ top \in Node
    /\ left \in [Ids -> Node] /\ right \in [Ids -> Node]

(* What the walk holds is in the tree, and the candidate not too small.    *)
Held ==
    /\ root \in Node
    /\ candidate \in Node
    /\ candidate # Null => packet_id <= candidate
    /\ result # Null => result = packet_id /\ result \in registered

LookupInv == Types /\ Linked /\ Held

LEMMA InitLookupInv == LookupInit => LookupInv
BY DEF LookupInit, LookupInv, Types, Linked, Held, Node, Tree, Null

LEMMA IdsArePositive == Ids \subseteq Nat /\ Null \notin Ids /\ Tree \subseteq Nat
BY IdsAssumption DEF Null, Tree

(* Steps of the walk that leave the tree, the packet and the result.       *)
LEMMA WalkStep ==
    ASSUME LookupInv, UNCHANGED <<memory, tree, packet_id, known, result>>,
           walk' \in {"idle", "visit", "check", "done"},
           root' \in Node, candidate' \in Node, candidate' # Null => packet_id <= candidate'
    PROVE  LookupInv'
BY DEF LookupInv, Types, Linked, Held, Node, memory, tree

LEMMA NextLookupInv == LookupInv /\ [LookupNext]_lookupVars => LookupInv'
<1> SUFFICES ASSUME LookupInv, [LookupNext]_lookupVars PROVE LookupInv'
  OBVIOUS
<1>0. Types /\ Linked /\ Held
  BY DEF LookupInv
<1>1. ASSUME NEW k \in Ids, Insert(k)
      PROVE  LookupInv'
  <2>1. registered' = registered \cup {k} /\ UNCHANGED <<memory, lookup>>
    BY <1>1 DEF Insert
  <2>2. Types'
    BY <1>0, <2>1 DEF Types, memory, lookup
  <2>3. Linked'
    <3>1. CASE top' = k /\ UNCHANGED <<left, right>>
      BY <1>0, <2>1, <3>1 DEF Linked, Node
    <3>2. CASE UNCHANGED <<top, left>> /\ \E p \in registered : right' = [right EXCEPT ![p] = k]
      BY <1>0, <2>1, <3>2 DEF Linked, Node
    <3>3. CASE UNCHANGED <<top, right>> /\ \E p \in registered : left' = [left EXCEPT ![p] = k]
      BY <1>0, <2>1, <3>3 DEF Linked, Node
    <3>4. QED
      BY <1>1, <3>1, <3>2, <3>3 DEF Insert
  <2>4. Held'
    BY <1>0, <2>1 DEF Held, Node, lookup
  <2>5. QED
    BY <2>2, <2>3, <2>4 DEF LookupInv
<1>2. ASSUME NEW p \in Ids, Begin(p)
      PROVE  LookupInv'
  BY <1>0, <1>2 DEF Begin, LookupInv, Types, Linked, Held, Node, Tree, memory, tree
<1>3. CASE Break \/ Leaf \/ Logged
  <2>1. /\ UNCHANGED <<memory, tree, packet_id, known, result, root, candidate>>
        /\ walk' \in {"check", "idle"}
    BY <1>3 DEF Break, Leaf, Logged
  <2>2. QED
    BY <1>0, <2>1, WalkStep DEF Held
<1>4. CASE GoRight
  <2>1. /\ UNCHANGED <<memory, tree, walk, packet_id, candidate, result, known>>
        /\ root # Null /\ root' = right[root]
    BY <1>4 DEF GoRight
  <2>2. root' \in Node
    BY <1>0, <2>1 DEF Held, Linked, Node, Types
  <2>3. QED
    BY <1>0, <2>1, <2>2, WalkStep DEF Held, Types
<1>5. CASE GoLeft
  <2>1. /\ UNCHANGED <<memory, tree, walk, packet_id, result, known>>
        /\ root # Null /\ root' = left[root] /\ candidate' = root /\ ~(root < packet_id)
    BY <1>5 DEF GoLeft, Passed
  <2>2. root' \in Node /\ root \in Node
    BY <1>0, <2>1 DEF Held, Linked, Node, Types
  <2>3. packet_id <= candidate'
    BY <1>0, <2>1, <2>2, IdsArePositive DEF Node, Types
  <2>4. QED
    BY <1>0, <2>1, <2>2, <2>3, WalkStep DEF Types
<1>6. CASE Check
  <2>1. /\ UNCHANGED <<memory, tree, packet_id, root, candidate, known>> /\ walk' = "done"
        /\ result' = IF Holds /\ candidate \notin torn THEN candidate ELSE Null
    BY <1>6 DEF Check
  <2>2. ASSUME result' # Null PROVE result' = packet_id /\ result' \in registered
    <3>1. result' = candidate /\ candidate # Null /\ ~(packet_id < candidate)
      BY <2>1, <2>2 DEF Holds
    <3>2. packet_id <= candidate /\ candidate \in registered
      BY <1>0, <3>1 DEF Held, Node
    <3>3. packet_id \in Nat /\ candidate \in Nat
      BY <1>0, <3>2, IdsArePositive DEF Types
    <3>4. packet_id = candidate
      BY <3>1, <3>2, <3>3
    <3>5. QED
      BY <3>1, <3>2, <3>4
  <2>3. QED
    BY <1>0, <2>1, <2>2 DEF LookupInv, Types, Linked, Held, Node, memory, tree
<1>7. CASE UNCHANGED lookupVars
  BY <1>0, <1>7 DEF lookupVars, memory, tree, lookup, LookupInv, Types, Linked, Held, Node
<1>8. QED
  BY <1>1, <1>2, <1>3, <1>4, <1>5, <1>6, <1>7 DEF LookupNext, Step

LEMMA SpecLookupInv == LookupSpec => []LookupInv
BY InitLookupInv, NextLookupInv, PTL DEF LookupSpec

(* Whatever the tree and whoever registers meanwhile, the walk visits only *)
(* nodes that are in the tree.                                             *)
THEOREM WalkStaysInTree == LookupSpec => []LookupTypeOK
<1>1. LookupInv => LookupTypeOK
  <2> SUFFICES ASSUME LookupInv PROVE LookupTypeOK
    OBVIOUS
  <2>1. Types /\ Linked /\ Held
    BY DEF LookupInv
  <2>2. Node \subseteq Tree
    BY <2>1 DEF Node, Tree, Types
  <2>3. left \in [Ids -> Tree] /\ right \in [Ids -> Tree] /\ top \in Tree
    BY <2>1, <2>2 DEF Linked
  <2>4. root \in Tree /\ candidate \in Tree /\ result \in Tree /\ (root # Null => root \in registered)
    BY <2>1, <2>2 DEF Held, Node, Types, Tree
  <2>5. QED
    BY <2>1, <2>3, <2>4 DEF LookupTypeOK, Types
<1>2. QED
  BY <1>1, SpecLookupInv, PTL

(* Whatever the tree, whichever reads fail and whoever registers during    *)
(* the walk, the handler that is logged for a packet is the packet's.      *)
THEOREM ReportedHandlerIsRight == LookupSpec => []NeverWrong
<1>1. LookupInv => NeverWrong
  BY DEF LookupInv, Held, NeverWrong
<1>2. QED
  BY <1>1, SpecLookupInv, PTL

-----------------------------------------------------------------------------
(* The packet is found.  That there is a function from nodes to what is    *)
(* below them makes the tree a search tree: no proof computes it.  The     *)
(* walk keeps the packet below the node it visits next, or has it as its   *)
(* candidate and nothing but smaller ids left to visit.                    *)

(* What is below each node, itself included.                               *)
SearchTree(below) ==
    /\ below[Null] = {}
    /\ below[top] = registered
    /\ \A n \in registered :
        /\ below[n] = {n} \cup below[left[n]] \cup below[right[n]]
        /\ \A k \in below[left[n]] : k < n
        /\ \A k \in below[right[n]] : n < k

OnTheWay(below) ==
    /\ walk = "visit" /\ known => packet_id \in below[root] \/ candidate = packet_id
    /\ walk = "visit" /\ candidate # Null => \A k \in below[root] : k < candidate

Sought == \E below \in [Tree -> SUBSET registered] : SearchTree(below) /\ OnTheWay(below)

(* When the walk is over. *)
Decided ==
    /\ known => packet_id \in registered
    /\ walk = "check" /\ known => root \in unreadable \/ candidate = packet_id
    /\ FindsRegistered

(* What is not in the tree has no links.                                   *)
Fresh == \A n \in Ids \ registered : left[n] = Null /\ right[n] = Null

FInv == LookupInv /\ Fresh /\ Sought /\ Decided

LEMMA InitFInv == LookupInit => FInv
<1> SUFFICES ASSUME LookupInit PROVE FInv
  OBVIOUS
<1> DEFINE below == [n \in Tree |-> {}]
<1>1. below \in [Tree -> SUBSET registered]
  OBVIOUS
<1>2. Null \in Tree
  BY DEF Tree
<1>3. SearchTree(below) /\ OnTheWay(below)
  BY <1>2 DEF LookupInit, SearchTree, OnTheWay
<1>4. Decided
  BY DEF LookupInit, Decided, FindsRegistered
<1>5. Fresh
  BY DEF LookupInit, Fresh
<1>6. QED
  BY <1>1, <1>3, <1>4, <1>5, InitLookupInv DEF FInv, Sought

(* A new leaf is below what its parent is below.  By its neighbours, it is *)
(* on the same side of every other node as its parent.                     *)
LEMMA InsertSought ==
    ASSUME FInv, NEW k \in Ids, Insert(k)
    PROVE  Sought'
<1>0. Types /\ Linked /\ Held /\ LookupInv
  BY DEF FInv, LookupInv
<1>1. PICK below \in [Tree -> SUBSET registered] : SearchTree(below) /\ OnTheWay(below)
  BY DEF FInv, Sought
<1>2. /\ k \notin registered /\ registered' = registered \cup {k}
      /\ UNCHANGED <<walk, packet_id, root, candidate, known>>
  BY DEF Insert, lookup
<1>3. registered \subseteq Nat /\ k \in Nat /\ k # Null /\ Null \notin registered /\ k \in Tree
  BY <1>0, IdsArePositive DEF Types, Tree
<1>4. Node \subseteq Tree /\ Null \in Tree
  BY <1>0 DEF Types, Node, Tree
<1>5. CASE registered = {} /\ top' = k /\ UNCHANGED <<left, right>>
  <2> DEFINE after == [n \in Tree |-> IF n = k THEN {k} ELSE {}]
  <2>1. after \in [Tree -> SUBSET registered']
    BY <1>2
  <2>2. left[k] = Null /\ right[k] = Null
    BY <1>0, <1>5 DEF Linked, Node
  <2>3. /\ after[k] = {k} /\ after[Null] = {}
    BY <1>3, <1>4
  <2> HIDE DEF after
  <2>4. SearchTree(after)'
    BY <1>2, <1>5, <2>2, <2>3 DEF SearchTree
  <2>5. root = Null /\ candidate = Null
    BY <1>0, <1>5 DEF Held, Node
  <2>6. OnTheWay(after)'
    <3>1. below[root] = after[root]
      BY <1>1, <2>3, <2>5 DEF SearchTree
    <3>2. QED
      BY <1>1, <1>2, <3>1 DEF OnTheWay
  <2>7. QED
    BY <2>1, <2>4, <2>6 DEF Sought
<1>6. ASSUME NEW p \in registered, Neighbours(p, k), UNCHANGED top,
             \/ p < k /\ right[p] = Null /\ right' = [right EXCEPT ![p] = k] /\ UNCHANGED left
             \/ k < p /\ left[p] = Null /\ left' = [left EXCEPT ![p] = k] /\ UNCHANGED right
      PROVE  Sought'
  <2> DEFINE after == [n \in Tree |->
                 IF n = k THEN {k} ELSE IF p \in below[n] THEN below[n] \cup {k} ELSE below[n]]
  <2>1. after \in [Tree -> SUBSET registered']
    BY <1>1, <1>2
  <2>2. /\ after[k] = {k} /\ after[Null] = {}
        /\ \A n \in registered : after[n] = IF p \in below[n] THEN below[n] \cup {k} ELSE below[n]
        /\ \A n \in Node : after[n] = IF p \in below[n] THEN below[n] \cup {k} ELSE below[n]
    BY <1>1, <1>2, <1>3, <1>4 DEF SearchTree, Node
  <2> HIDE DEF after
  <2>3. \A q \in registered : (p < q => k < q) \/ q = p
    BY <1>2, <1>3, <1>6 DEF Neighbours
  <2>4. \A q \in registered : (q < p => q < k) \/ q = p
    BY <1>2, <1>3, <1>6 DEF Neighbours
  <2>5. p \in Tree /\ p # Null /\ p # k /\ p \in Nat
    BY <1>0, <1>2, <1>3 DEF Types, Tree
  <2>6. ASSUME NEW n \in registered, n # p
        PROVE  /\ after[n] = {n} \cup after[left'[n]] \cup after[right'[n]]
               /\ \A a \in after[left'[n]] : a < n
               /\ \A a \in after[right'[n]] : n < a
    <3>1. left'[n] = left[n] /\ right'[n] = right[n] /\ left[n] \in Node /\ right[n] \in Node
      BY <1>0, <1>6, <2>6 DEF Linked, Types
    <3>2. /\ below[n] = {n} \cup below[left[n]] \cup below[right[n]]
          /\ \A a \in below[left[n]] : a < n
          /\ \A a \in below[right[n]] : n < a
      BY <1>1 DEF SearchTree
    <3>3. /\ after[left[n]] = IF p \in below[left[n]] THEN below[left[n]] \cup {k} ELSE below[left[n]]
          /\ after[right[n]] = IF p \in below[right[n]] THEN below[right[n]] \cup {k} ELSE below[right[n]]
          /\ after[n] = IF p \in below[n] THEN below[n] \cup {k} ELSE below[n]
      BY <2>2, <3>1
    <3>4. after[n] = {n} \cup after[left[n]] \cup after[right[n]]
      BY <2>6, <3>2, <3>3
    <3>5. p \in below[left[n]] => k < n
      BY <2>3, <2>6, <3>2
    <3>6. p \in below[right[n]] => n < k
      BY <2>4, <2>6, <3>2
    <3>7. QED
      BY <3>1, <3>2, <3>3, <3>4, <3>5, <3>6
  <2>7. /\ after[p] = {p} \cup after[left'[p]] \cup after[right'[p]]
        /\ \A a \in after[left'[p]] : a < p
        /\ \A a \in after[right'[p]] : p < a
    <3>1. /\ below[p] = {p} \cup below[left[p]] \cup below[right[p]]
          /\ \A a \in below[left[p]] : a < p
          /\ \A a \in below[right[p]] : p < a
          /\ below[Null] = {}
      BY <1>1 DEF SearchTree
    <3>2. left[p] \in Node /\ right[p] \in Node /\ p \in Ids
      BY <1>0 DEF Linked, Types
    <3>3. p \notin below[left[p]] /\ p \notin below[right[p]]
      BY <2>5, <3>1
    <3>4. after[left[p]] = below[left[p]] /\ after[right[p]] = below[right[p]]
      BY <2>2, <3>2, <3>3
    <3>5. after[p] = below[p] \cup {k}
      BY <2>2, <3>1
    <3>6. CASE p < k /\ right[p] = Null /\ right' = [right EXCEPT ![p] = k] /\ UNCHANGED left
      <4>1. right'[p] = k /\ left'[p] = left[p]
        BY <1>0, <3>2, <3>6 DEF Linked
      <4>2. QED
        BY <2>2, <3>1, <3>4, <3>5, <3>6, <4>1
    <3>7. CASE k < p /\ left[p] = Null /\ left' = [left EXCEPT ![p] = k] /\ UNCHANGED right
      <4>1. left'[p] = k /\ right'[p] = right[p]
        BY <1>0, <3>2, <3>7 DEF Linked
      <4>2. QED
        BY <2>2, <3>1, <3>4, <3>5, <3>7, <4>1
    <3>8. QED
      BY <1>6, <3>6, <3>7
  <2>8. left'[k] = Null /\ right'[k] = Null
    <3>1. left[k] = Null /\ right[k] = Null /\ k \in DOMAIN left /\ k \in DOMAIN right
      BY <1>0, <1>2 DEF FInv, Fresh, Linked
    <3>2. QED
      BY <1>6, <2>5, <3>1
  <2>9. SearchTree(after)'
    <3>1. after[top'] = registered'
      <4>1. below[top] = registered /\ top \in Node
        BY <1>0, <1>1 DEF SearchTree, Linked
      <4>2. QED
        BY <1>2, <1>6, <2>2, <4>1
    <3>2. /\ after[k] = {k} \cup after[left'[k]] \cup after[right'[k]]
          /\ \A a \in after[left'[k]] : a < k
          /\ \A a \in after[right'[k]] : k < a
      BY <2>2, <2>8
    <3>3. QED
      BY <1>2, <2>2, <2>6, <2>7, <3>1, <3>2 DEF SearchTree
  <2>10. OnTheWay(after)'
    <3>1. root \in Node /\ candidate \in Node
      BY <1>0 DEF Held
    <3>2. after[root] = IF p \in below[root] THEN below[root] \cup {k} ELSE below[root]
      BY <2>2, <3>1
    <3>3. ASSUME walk = "visit", candidate # Null, NEW a \in after[root]
          PROVE  a < candidate
      <4>1. \A q \in below[root] : q < candidate
        BY <1>1, <3>3 DEF OnTheWay
      <4>2. candidate \in registered
        BY <3>1, <3>3 DEF Node
      <4>3. CASE a \in below[root]
        BY <4>1, <4>3
      <4>4. CASE a = k /\ p \in below[root]
        BY <2>3, <2>5, <4>1, <4>2, <4>4
      <4>5. QED
        BY <3>2, <4>3, <4>4
    <3>4. walk = "visit" /\ known => packet_id \in after[root] \/ candidate = packet_id
      BY <1>1, <3>2 DEF OnTheWay
    <3>5. QED
      BY <1>2, <3>3, <3>4 DEF OnTheWay
  <2>11. QED
    BY <2>1, <2>9, <2>10 DEF Sought
<1>7. QED
  BY <1>5, <1>6 DEF Insert

(* Steps other than registrations leave the tree alone.                    *)
LEMMA WalkFinds ==
    ASSUME FInv, UNCHANGED tree, NEW below \in [Tree -> SUBSET registered],
           SearchTree(below), OnTheWay(below)',
           LookupInv', Decided'
    PROVE  FInv'
<1>1. UNCHANGED <<top, left, right, registered>>
  BY DEF tree
<1>2. SearchTree(below)' /\ Fresh'
  BY <1>1 DEF FInv, SearchTree, Fresh
<1>3. QED
  BY <1>1, <1>2 DEF FInv, Sought

LEMMA NextFInv == FInv /\ [LookupNext]_lookupVars => FInv'
<1> SUFFICES ASSUME FInv, [LookupNext]_lookupVars PROVE FInv'
  OBVIOUS
<1>0. Types /\ Linked /\ Held /\ LookupInv /\ LookupInv' /\ Fresh /\ Decided
  BY NextLookupInv DEF FInv, LookupInv
<1>1. ASSUME NEW k \in Ids, Insert(k)
      PROVE  FInv'
  <2>1. Fresh'
    <3>1. registered' = registered \cup {k}
      BY <1>1 DEF Insert
    <3>2. ASSUME NEW n \in Ids \ registered'
          PROVE  left'[n] = left[n] /\ right'[n] = right[n]
      BY <1>0, <1>1, <3>1, <3>2 DEF Insert, Linked
    <3>3. QED
      BY <1>0, <3>1, <3>2 DEF Fresh
  <2>2. Decided'
    BY <1>0, <1>1 DEF Insert, memory, lookup, Decided, FindsRegistered
  <2>3. QED
    BY <1>0, <1>1, <2>1, <2>2, InsertSought DEF FInv
<1> PICK below \in [Tree -> SUBSET registered] : SearchTree(below) /\ OnTheWay(below)
  BY DEF FInv, Sought
<1>2. ASSUME NEW p \in Ids, Begin(p)
      PROVE  FInv'
  <2>1. OnTheWay(below)'
    BY <1>2 DEF Begin, tree, SearchTree, OnTheWay
  <2>2. Decided'
    BY <1>2 DEF Begin, tree, Decided, FindsRegistered
  <2>3. UNCHANGED tree
    BY <1>2 DEF Begin
  <2>4. QED
    BY <1>0, <2>1, <2>2, <2>3, WalkFinds
<1>3. CASE Break
  <2>1. OnTheWay(below)' /\ Decided'
    BY <1>0, <1>3 DEF Break, memory, tree, OnTheWay, Decided, FindsRegistered
  <2>2. UNCHANGED tree
    BY <1>3 DEF Break
  <2>3. QED
    BY <1>0, <2>1, <2>2, WalkFinds
<1>4. CASE GoRight
  <2>1. /\ UNCHANGED <<memory, tree, walk, packet_id, candidate, result, known>>
        /\ walk = "visit" /\ root # Null /\ root < packet_id /\ root' = right[root]
    BY <1>4 DEF GoRight, Passed
  <2>2. root \in registered /\ root \in Nat /\ packet_id \in Nat
    BY <1>0, <2>1, IdsArePositive DEF Held, Node, Types
  <2>3. /\ below[root] = {root} \cup below[left[root]] \cup below[right[root]]
        /\ \A k \in below[left[root]] : k < root
    BY <2>2 DEF SearchTree
  <2>4. packet_id \in below[root] => packet_id \in below[right[root]]
    BY <2>1, <2>2, <2>3
  <2>5. OnTheWay(below)'
    BY <2>1, <2>3, <2>4 DEF OnTheWay
  <2>6. Decided'
    BY <1>0, <2>1 DEF tree, Decided, FindsRegistered
  <2>7. QED
    BY <1>0, <2>1, <2>5, <2>6, WalkFinds
<1>5. CASE GoLeft
  <2>1. /\ UNCHANGED <<memory, tree, walk, packet_id, result, known>>
        /\ walk = "visit" /\ root # Null /\ ~(root < packet_id)
        /\ root' = left[root] /\ candidate' = root
    BY <1>5 DEF GoLeft, Passed
  <2>2. root \in registered /\ root \in Nat /\ packet_id \in Nat
    BY <1>0, <2>1, IdsArePositive DEF Held, Node, Types
  <2>3. /\ below[root] = {root} \cup below[left[root]] \cup below[right[root]]
        /\ \A k \in below[left[root]] : k < root
        /\ \A k \in below[right[root]] : root < k
    BY <2>2 DEF SearchTree
  <2>4. packet_id \in below[root] => packet_id \in below[left[root]] \/ packet_id = root
    BY <2>1, <2>2, <2>3
  <2>5. candidate # packet_id \/ ~known
    <3> SUFFICES ASSUME candidate = packet_id, known PROVE FALSE
      OBVIOUS
    <3>1. root < candidate
      <4>1. candidate # Null
        BY <1>0, IdsArePositive DEF Decided, Types
      <4>2. QED
        BY <2>1, <2>3, <4>1 DEF OnTheWay
    <3>2. QED
      BY <2>1, <2>2, <3>1
  <2>6. OnTheWay(below)'
    BY <2>1, <2>3, <2>4, <2>5 DEF OnTheWay
  <2>7. Decided'
    BY <1>0, <2>1 DEF tree, Decided, FindsRegistered
  <2>8. QED
    BY <1>0, <2>1, <2>6, <2>7, WalkFinds
<1>6. CASE Leaf
  <2>1. OnTheWay(below)' /\ Decided'
    BY <1>0, <1>6 DEF Leaf, tree, OnTheWay, SearchTree, Decided, FindsRegistered
  <2>2. UNCHANGED tree
    BY <1>6 DEF Leaf
  <2>3. QED
    BY <1>0, <2>1, <2>2, WalkFinds
<1>7. CASE Check
  <2>1. /\ UNCHANGED <<memory, tree, packet_id, root, candidate, known>>
        /\ walk = "check" /\ walk' = "done"
        /\ result' = IF Holds /\ candidate \notin torn THEN candidate ELSE Null
    BY <1>7 DEF Check
  <2>2. ASSUME known, result' = Null PROVE root \in unreadable \/ packet_id \in torn
    <3>1. root \in unreadable \/ (candidate = packet_id /\ packet_id \in registered)
      BY <1>0, <2>1, <2>2 DEF Decided
    <3>2. CASE candidate = packet_id /\ packet_id \in registered
      <4>1. candidate # Null /\ packet_id \in Nat
        BY <1>0, <3>2, IdsArePositive DEF Types
      <4>2. Holds
        BY <3>2, <4>1 DEF Holds
      <4>3. QED
        BY <2>1, <2>2, <3>2, <4>1, <4>2
    <3>3. QED
      BY <3>1, <3>2
  <2>3. OnTheWay(below)' /\ Decided'
    <3>1. known' => packet_id' \in registered'
      BY <1>0, <2>1 DEF Decided, tree
    <3>2. QED
      BY <2>1, <2>2, <3>1 DEF OnTheWay, Decided, FindsRegistered, memory
  <2>4. QED
    BY <1>0, <2>1, <2>3, WalkFinds
<1>8. CASE Logged
  <2>1. OnTheWay(below)' /\ Decided'
    BY <1>0, <1>8 DEF Logged, tree, OnTheWay, Decided, FindsRegistered
  <2>2. UNCHANGED tree
    BY <1>8 DEF Logged
  <2>3. QED
    BY <1>0, <2>1, <2>2, WalkFinds
<1>9. CASE UNCHANGED lookupVars
  <2>1. OnTheWay(below)' /\ Decided'
    BY <1>0, <1>9 DEF lookupVars, memory, tree, lookup, OnTheWay, Decided, FindsRegistered
  <2>2. UNCHANGED tree
    BY <1>9 DEF lookupVars
  <2>3. QED
    BY <1>0, <2>1, <2>2, WalkFinds
<1>10. QED
  BY <1>1, <1>2, <1>3, <1>4, <1>5, <1>6, <1>7, <1>8, <1>9 DEF LookupNext, Step

(* A packet that had a handler when its lookup began is not logged as one  *)
(* without, unless a read failed: whatever the tree, and whatever is       *)
(* registered while the lookup walks down.                                 *)
THEOREM RegisteredIsFound == LookupSpec => []FindsRegistered
<1>1. FInv => FindsRegistered
  BY DEF FInv, Decided
<1>2. QED
  BY <1>1, InitFInv, NextFInv, PTL DEF LookupSpec

-----------------------------------------------------------------------------
(***************************************************************************)
(* For any commands, lists, window and cache: what the path B log has      *)
(* announced of a command is what its cache slot remembers, so nothing is  *)
(* announced twice.                                                        *)
(*                                                                         *)
(* It rests on a command never having two slots: path_b_diff_slot claims a *)
(* free one only when it finds none of the command's own.  What the client *)
(* does to its lists plays no part, nor how far a walk gets.  For the log  *)
(* to be exact the walk must also reach the end of the list.               *)
(***************************************************************************)

(* A nonempty set of naturals has its minimum. *)
LEMMA MinOf ==
    ASSUME NEW S \in SUBSET Nat, S # {}
    PROVE  Min(S) \in S /\ \A k \in S : Min(S) <= k
<1> DEFINE less == {ss \in Nat \X Nat : ss[1] < ss[2]}
<1>1. IsWellFoundedOn(less, Nat)
  BY NatLessThanWellFounded DEF OpToRel
<1>2. PICK m \in S : \A k \in S : <<k, m>> \notin less
  BY <1>1, WFMin
<1>3. ASSUME NEW k \in S PROVE m <= k
  <2>1. m \in Nat /\ k \in Nat
    OBVIOUS
  <2>2. ~(k < m)
    BY <1>2, <2>1
  <2>3. QED
    BY <2>1, <2>2
<1>4. \E m2 \in S : \A k \in S : m2 <= k
  BY <1>2, <1>3
<1>5. QED
  BY <1>4 DEF Min

-----------------------------------------------------------------------------
(* The cache is a row of slots, and told has an entry for every command.   *)
Shapes ==
    /\ cache = [i \in Slot |-> cache[i]]
    /\ told = [c \in Cmds |-> told[c]]

(* No two slots are one command's. *)
OneSlot == \A i, j \in Slot : cache[i].cmd = cache[j].cmd /\ cache[i].cmd # NoCmd => i = j

(* ToldIsCached, slot by slot. *)
Agrees ==
    \A c \in Cmds :
        /\ \A i \in Slot : cache[i].cmd = c => told[c] = Range(cache[i].nodes)
        /\ (\A i \in Slot : cache[i].cmd # c) => told[c] = {}

IInv == Shapes /\ OneSlot /\ Agrees

LEMMA InitIInv == Init => IInv
<1> SUFFICES ASSUME Init PROVE IInv
  OBVIOUS
<1>1. cache = [i \in Slot |-> [cmd |-> NoCmd, nodes |-> <<>>]] /\ told = [c \in Cmds |-> {}]
  BY DEF Init
<1>2. Shapes
  BY <1>1 DEF Shapes
<1>3. OneSlot /\ Agrees
  BY <1>1, CmdsAssumption DEF OneSlot, Agrees
<1>4. QED
  BY <1>2, <1>3 DEF IInv

(* path_b_diff_slot: a slot is found, and it is the command's own or, when *)
(* it has none, a free one.                                                *)
LEMMA SlotFound ==
    ASSUME NEW c \in Cmds, ~Undiffed(c)
    PROVE  /\ DiffSlot(c) \in Slot
           /\ cache[DiffSlot(c)].cmd \in {c, NoCmd}
           /\ Holding(c) # {} => cache[DiffSlot(c)].cmd = c
<1>1. Slot \subseteq Nat
  BY DEF Slot
<1>2. Holding(c) \in SUBSET Nat /\ Empty \in SUBSET Nat
  BY <1>1 DEF Holding, Empty
<1>3. CASE Holding(c) # {}
  <2>1. DiffSlot(c) \in Holding(c)
    BY <1>2, <1>3, MinOf DEF DiffSlot
  <2>2. QED
    BY <2>1 DEF Holding
<1>4. CASE Holding(c) = {}
  <2>1. Empty # {}
    BY <1>4 DEF Undiffed
  <2>2. DiffSlot(c) \in Empty
    BY <1>2, <1>4, <2>1, MinOf DEF DiffSlot
  <2>3. QED
    BY <1>4, <2>2 DEF Empty
<1>5. QED
  BY <1>3, <1>4

(* With one slot for each command, what is remembered is what was told.    *)
LEMMA ToldRemembered ==
    ASSUME OneSlot, Agrees, NEW c \in Cmds
    PROVE  told[c] = Remembered(c)
<1>1. CASE Holding(c) # {}
  <2>1. Holding(c) \in SUBSET Nat
    BY DEF Holding, Slot
  <2>2. DiffSlot(c) \in Holding(c)
    BY <1>1, <2>1, MinOf DEF DiffSlot
  <2>3. DiffSlot(c) \in Slot /\ cache[DiffSlot(c)].cmd = c
    BY <2>2 DEF Holding
  <2>4. QED
    BY <1>1, <2>3 DEF Agrees, Remembered
<1>2. CASE Holding(c) = {}
  BY <1>2 DEF Holding, Agrees, Remembered
<1>3. QED
  BY <1>1, <1>2

(* After an update the log and the slot both hold the walk.                *)
LEMMA UpdateStep ==
    ASSUME IInv, NEW c \in Cmds, Update(c)
    PROVE  IInv'
<1> DEFINE s == DiffSlot(c)
           w == Walk(c)
<1>0. Shapes /\ OneSlot /\ Agrees
  BY DEF IInv
<1>1. s \in Slot /\ cache[s].cmd \in {c, NoCmd} /\ (Holding(c) # {} => cache[s].cmd = c)
  BY SlotFound DEF Update
<1>2. cache' = [cache EXCEPT ![s] = [cmd |-> c, nodes |-> w]]
  BY DEF Update, Kept
<1>3. told' = [told EXCEPT ![c] = (@ \cup (Range(w) \ Remembered(c))) \ (Remembered(c) \ Range(w))]
  BY DEF Update
<1>4. \A i \in Slot \ {s} : cache[i].cmd # c
  BY <1>0, <1>1, CmdsAssumption DEF OneSlot, Holding
<1>5. told[c] = Remembered(c)
  BY <1>0, ToldRemembered
<1> HIDE DEF s, w
<1>6. told'[c] = Range(w) /\ \A d \in Cmds \ {c} : told'[d] = told[d]
  BY <1>0, <1>3, <1>5 DEF Shapes
<1>7. /\ cache'[s] = [cmd |-> c, nodes |-> w]
      /\ \A i \in Slot \ {s} : cache'[i] = cache[i]
  BY <1>0, <1>1, <1>2 DEF Shapes
<1>8. cache' = [i \in Slot |-> cache'[i]]
  BY <1>0, <1>2 DEF Shapes
<1>9. told' = [d \in Cmds |-> told'[d]]
  BY <1>0, <1>3 DEF Shapes
<1>10. cache'[s].cmd = c /\ cache'[s].nodes = w
  BY <1>7
<1>11. OneSlot'
  BY <1>0, <1>4, <1>7, <1>10 DEF OneSlot
<1>12. Agrees'
  <2> SUFFICES ASSUME NEW d \in Cmds
               PROVE  /\ \A i \in Slot : cache'[i].cmd = d => told'[d] = Range(cache'[i].nodes)
                      /\ (\A i \in Slot : cache'[i].cmd # d) => told'[d] = {}
    BY DEF Agrees
  <2>1. CASE d = c
    BY <1>1, <1>4, <1>6, <1>7, <1>10, <2>1
  <2>2. CASE d # c
    <3>1. cache[s].cmd # d /\ told'[d] = told[d]
      BY <1>1, <1>6, <2>2, CmdsAssumption
    <3>2. QED
      BY <1>0, <1>1, <1>7, <1>10, <2>2, <3>1 DEF Agrees
  <2>3. QED
    BY <2>1, <2>2
<1>13. QED
  BY <1>8, <1>9, <1>11, <1>12 DEF IInv, Shapes

(* Steps that leave the cache and the log alone.                           *)
LEMMA QuietStep ==
    ASSUME IInv, UNCHANGED <<cache, told>>
    PROVE  IInv'
BY DEF IInv, Shapes, OneSlot, Agrees

LEMMA NextIInv == IInv /\ [Next]_vars => IInv'
<1> SUFFICES ASSUME IInv, [Next]_vars PROVE IInv'
  OBVIOUS
<1>1. ASSUME NEW c \in Cmds, NEW n \in Nodes, Subscribe(c, n) \/ Unsubscribe(c, n)
      PROVE  IInv'
  BY <1>1, QuietStep DEF Subscribe, Unsubscribe
<1>2. ASSUME NEW c \in Cmds, Switch(c) \/ Stub(c)
      PROVE  IInv'
  <2>1. UNCHANGED <<cache, told>> \/ Update(c)
    BY <1>2 DEF Switch, Stub, WalkAndDiff, Skip
  <2>2. QED
    BY <2>1, QuietStep, UpdateStep
<1>3. CASE UNCHANGED vars
  BY <1>3, QuietStep DEF vars
<1>4. QED
  BY <1>1, <1>2, <1>3 DEF Next

LEMMA SpecIInv == Spec => []IInv
BY InitIInv, NextIInv, PTL DEF Spec

-----------------------------------------------------------------------------
(* However many commands share the cache, a command has at most one slot,  *)
(* and the slot remembers exactly what the log has announced.              *)
THEOREM ToldStaysCached == Spec => []ToldIsCached
<1>1. IInv => ToldIsCached
  <2> SUFFICES ASSUME IInv, NEW c \in Cmds
               PROVE  Cardinality(Holding(c)) <= 1 /\ told[c] = Remembered(c)
    BY DEF ToldIsCached
  <2>1. OneSlot /\ Agrees
    BY DEF IInv
  <2>2. Holding(c) = {} \/ \E i : Holding(c) = {i}
    BY <2>1, CmdsAssumption DEF OneSlot, Holding
  <2>3. Cardinality(Holding(c)) \in {0, 1}
    BY <2>2, FS_EmptySet, FS_Singleton
  <2>4. QED
    BY <2>1, <2>3, ToldRemembered
<1>2. QED
  BY <1>1, SpecIInv, PTL

(* Whatever the lists, the window and the cache: no node is announced      *)
(* twice without its removal in between, or removed without having been    *)
(* announced.                                                              *)
THEOREM NeverAnnouncedTwice == Spec => NeverTwice
<1> DEFINE Once == event'.cmd # NoCmd =>
              /\ event'.new \cap told[event'.cmd] = {}
              /\ event'.gone \subseteq told[event'.cmd]
<1>1. IInv /\ [Next]_vars => [Once]_vars
  <2> SUFFICES ASSUME IInv, Next PROVE Once
    OBVIOUS
  <2>1. CASE event' = Silence
    BY <2>1 DEF Silence
  <2>2. ASSUME NEW c \in Cmds, Update(c) PROVE Once
    <3>1. told[c] = Remembered(c)
      BY ToldRemembered DEF IInv
    <3>2. /\ event'.cmd = c
          /\ event'.new = Range(Walk(c)) \ Remembered(c)
          /\ event'.gone = Remembered(c) \ Range(Walk(c))
      BY <2>2 DEF Update
    <3>3. QED
      BY <3>1, <3>2
  <2>3. QED
    BY <2>1, <2>2 DEF Next, Subscribe, Unsubscribe, Switch, Stub, WalkAndDiff, Skip
<1>2. QED
  BY <1>1, SpecIInv, PTL DEF Spec, NeverTwice

-----------------------------------------------------------------------------
(* What the lists and the cache hold.                                      *)
ListTypes ==
    /\ list = [c \in Cmds |-> list[c]]
    /\ \A c \in Cmds : list[c] \in Seq(Nodes) /\ Len(list[c]) <= MaxSubs[c]

CacheTypes ==
    \A i \in Slot :
        /\ cache[i].cmd \in Cmds \cup {NoCmd}
        /\ cache[i].nodes \in Seq(Nodes)
        /\ Len(cache[i].nodes) <= Window

LogTypes ==
    /\ dispatched \in Stubs \cup {NoCmd}
    /\ told \in [Cmds -> SUBSET Nodes]
    /\ event \in [cmd : Cmds \cup {NoCmd}, new : SUBSET Nodes, gone : SUBSET Nodes]

TInv == IInv /\ ListTypes /\ CacheTypes /\ LogTypes

LEMMA InitTInv == Init => TInv
<1> SUFFICES ASSUME Init PROVE TInv
  OBVIOUS
<1>1. <<>> \in Seq(Nodes) /\ Len(<<>>) = 0
  OBVIOUS
<1>2. ListTypes
  BY <1>1, SizesAssumption DEF Init, ListTypes
<1>3. CacheTypes
  <2>1. \A i \in Slot : cache[i].cmd = NoCmd /\ cache[i].nodes = <<>>
    BY DEF Init
  <2>2. 0 <= Window
    BY SizesAssumption
  <2>3. ASSUME NEW i \in Slot
        PROVE  /\ cache[i].cmd \in Cmds \cup {NoCmd}
               /\ cache[i].nodes \in Seq(Nodes)
               /\ Len(cache[i].nodes) <= Window
    <3>1. cache[i].nodes = <<>>
      BY <2>1
    <3>2. Len(cache[i].nodes) = 0 /\ cache[i].nodes \in Seq(Nodes)
      BY <3>1
    <3>3. QED
      BY <2>1, <2>2, <3>2
  <2>4. QED
    BY <2>3 DEF CacheTypes
<1>4. LogTypes
  BY DEF Init, LogTypes, Silence
<1>5. QED
  BY <1>2, <1>3, <1>4, InitIInv DEF TInv

LEMMA RangeOfNodes == ASSUME NEW s \in Seq(Nodes) PROVE Range(s) \subseteq Nodes
BY DEF Range

(* A walk is the front of the list, within the window; all of it, when it  *)
(* fits and can be read.                                                   *)
LEMMA WalkOfList ==
    ASSUME NEW c \in Cmds, list[c] \in Seq(Nodes)
    PROVE  /\ Walk(c) \in Seq(Nodes)
           /\ Len(Walk(c)) <= Window
           /\ Fits(c) => Walk(c) = list[c]
<1> DEFINE ends == {Len(list[c]), Window} \cup {k \in DOMAIN list[c] : list[c][k] \in Unreadable}
           m == Min(ends)
<1>1. Len(list[c]) \in Nat /\ DOMAIN list[c] = 1 .. Len(list[c]) /\ Window \in Nat \ {0}
  BY SizesAssumption
<1>2. ends \in SUBSET Nat /\ ends # {}
  BY <1>1
<1>3. m \in ends /\ \A k \in ends : m <= k
  BY <1>2, MinOf
<1>4. m \in Nat /\ m <= Len(list[c]) /\ m <= Window
  BY <1>1, <1>2, <1>3
<1>5. Walk(c) = SubSeq(list[c], 1, m)
  BY DEF Walk
<1>6. ASSUME Fits(c) PROVE m = Len(list[c])
  <2>1. \A k \in DOMAIN list[c] : list[c][k] \notin Unreadable
    BY <1>6 DEF Fits, Range
  <2>2. ends = {Len(list[c]), Window} /\ Len(list[c]) <= Window
    BY <1>6, <2>1 DEF Fits
  <2>3. m \in {Len(list[c]), Window}
    BY <1>3, <2>2
  <2> HIDE DEF m
  <2>4. QED
    BY <1>1, <1>4, <2>2, <2>3
<1> HIDE DEF m
<1>7. Walk(c) \in Seq(Nodes) /\ Len(Walk(c)) = m
  BY <1>1, <1>4, <1>5, SubSeqProperties
<1>8. ASSUME Fits(c) PROVE Walk(c) = list[c]
  BY <1>1, <1>5, <1>6, <1>8, SubSeqProperties, SeqEqual
<1>9. QED
  BY <1>4, <1>7, <1>8

(* Both ends of a list take a node, and one is taken out of it.            *)
LEMMA SubscribeTypes ==
    ASSUME ListTypes, NEW c \in Cmds, NEW n \in Nodes, Subscribe(c, n)
    PROVE  ListTypes'
<1>1. list[c] \in Seq(Nodes) /\ Len(list[c]) < MaxSubs[c] /\ MaxSubs[c] \in Nat
  BY SizesAssumption DEF ListTypes, Subscribe
<1>2. PICK longer \in {<<n>> \o list[c], Append(list[c], n)} : list' = [list EXCEPT ![c] = longer]
  BY DEF Subscribe
<1>3. longer \in Seq(Nodes) /\ Len(longer) = Len(list[c]) + 1
  <2>1. CASE longer = <<n>> \o list[c]
    <3>1. <<n>> \in Seq(Nodes) /\ Len(<<n>>) = 1
      OBVIOUS
    <3>2. Len(list[c]) \in Nat
      BY <1>1
    <3>3. QED
      BY <1>1, <2>1, <3>1, <3>2, ConcatProperties
  <2>2. CASE longer = Append(list[c], n)
    BY <1>1, <2>2, AppendProperties
  <2>3. QED
    BY <2>1, <2>2
<1>4. Len(longer) <= MaxSubs[c]
  BY <1>1, <1>3
<1>5. list'[c] = longer /\ \A d \in Cmds \ {c} : list'[d] = list[d]
  BY <1>2 DEF ListTypes
<1>6. list' = [d \in Cmds |-> list'[d]]
  BY <1>2 DEF ListTypes
<1>7. QED
  BY <1>3, <1>4, <1>5, <1>6 DEF ListTypes

LEMMA UnsubscribeTypes ==
    ASSUME ListTypes, NEW c \in Cmds, NEW n \in Nodes, Unsubscribe(c, n)
    PROVE  ListTypes'
<1>1. list[c] \in Seq(Nodes) /\ Len(list[c]) <= MaxSubs[c] /\ MaxSubs[c] \in Nat /\ Len(list[c]) \in Nat
  BY SizesAssumption DEF ListTypes
<1>2. PICK i \in DOMAIN list[c] :
         list' = [list EXCEPT ![c] = SubSeq(list[c], 1, i - 1) \o SubSeq(list[c], i + 1, Len(list[c]))]
  BY DEF Unsubscribe
<1>i. i \in 1 .. Len(list[c])
  BY <1>1
<1> DEFINE front == SubSeq(list[c], 1, i - 1)
           back == SubSeq(list[c], i + 1, Len(list[c]))
<1>3. front \in Seq(Nodes) /\ Len(front) = i - 1
  <2>1. i - 1 <= Len(list[c]) /\ i - 1 \in Int /\ 1 <= i
    BY <1>1, <1>i
  <2>2. QED
    BY <1>1, <1>i, <2>1, SubSeqProperties
<1>4. back \in Seq(Nodes) /\ Len(back) = Len(list[c]) - i
  <2>1. i + 1 \in Int /\ i + 1 >= 1
    BY <1>1, <1>i
  <2>2. QED
    BY <1>1, <1>i, <2>1, SubSeqProperties
<1>5. list' = [list EXCEPT ![c] = front \o back]
  BY <1>2
<1> HIDE DEF front, back
<1>6. front \o back \in Seq(Nodes) /\ Len(front \o back) = Len(list[c]) - 1
  <2>1. front \o back \in Seq(Nodes) /\ Len(front \o back) = Len(front) + Len(back)
    BY <1>3, <1>4, ConcatProperties
  <2>2. QED
    BY <1>1, <1>3, <1>4, <1>i, <2>1
<1>7. list'[c] = front \o back /\ \A d \in Cmds \ {c} : list'[d] = list[d]
  BY <1>5 DEF ListTypes
<1>8. list' = [d \in Cmds |-> list'[d]]
  BY <1>5 DEF ListTypes
<1>9. Len(front \o back) <= MaxSubs[c]
  BY <1>1, <1>6
<1>10. QED
  BY <1>6, <1>7, <1>8, <1>9 DEF ListTypes

LEMMA UpdateTypes ==
    ASSUME TInv, NEW c \in Cmds, Update(c)
    PROVE  /\ CacheTypes'
           /\ told' \in [Cmds -> SUBSET Nodes]
           /\ event' \in [cmd : Cmds \cup {NoCmd}, new : SUBSET Nodes, gone : SUBSET Nodes]
           /\ Fits(c) => told'[c] = Range(list[c])
<1>0. IInv /\ Shapes /\ OneSlot /\ Agrees /\ ListTypes /\ CacheTypes /\ LogTypes
  BY DEF TInv, IInv
<1>1. Walk(c) \in Seq(Nodes) /\ Len(Walk(c)) <= Window /\ (Fits(c) => Walk(c) = list[c])
  BY <1>0, WalkOfList DEF ListTypes
<1>2. Range(Walk(c)) \subseteq Nodes
  BY <1>1, RangeOfNodes
<1>3. told[c] = Remembered(c) /\ told[c] \subseteq Nodes
  BY <1>0, ToldRemembered DEF LogTypes
<1>4. /\ event' = [cmd |-> c, new |-> Range(Walk(c)) \ told[c], gone |-> told[c] \ Range(Walk(c))]
      /\ told' = [told EXCEPT ![c] =
                    (@ \cup (Range(Walk(c)) \ told[c])) \ (told[c] \ Range(Walk(c)))]
      /\ cache' = [cache EXCEPT ![DiffSlot(c)] = [cmd |-> c, nodes |-> Walk(c)]]
  BY <1>3 DEF Update, Kept
<1>5. DiffSlot(c) \in Slot
  BY SlotFound DEF Update
<1>6. CacheTypes'
  <2>1. /\ cache'[DiffSlot(c)] = [cmd |-> c, nodes |-> Walk(c)]
        /\ \A i \in Slot \ {DiffSlot(c)} : cache'[i] = cache[i]
    BY <1>0, <1>4, <1>5 DEF Shapes
  <2>2. cache'[DiffSlot(c)].cmd = c /\ cache'[DiffSlot(c)].nodes = Walk(c)
    BY <2>1
  <2>3. QED
    BY <1>0, <1>1, <2>1, <2>2 DEF CacheTypes
<1>7. told'[c] = Range(Walk(c)) /\ told' \in [Cmds -> SUBSET Nodes]
  BY <1>0, <1>2, <1>3, <1>4 DEF LogTypes
<1>8. event' \in [cmd : Cmds \cup {NoCmd}, new : SUBSET Nodes, gone : SUBSET Nodes]
  BY <1>2, <1>3, <1>4
<1>9. QED
  BY <1>1, <1>6, <1>7, <1>8

LEMMA NextTInv == TInv /\ [Next]_vars => TInv'
<1> SUFFICES ASSUME TInv, [Next]_vars PROVE TInv'
  OBVIOUS
<1>0. IInv /\ ListTypes /\ CacheTypes /\ LogTypes /\ IInv'
  BY NextIInv DEF TInv
<1>s. Silence \in [cmd : Cmds \cup {NoCmd}, new : SUBSET Nodes, gone : SUBSET Nodes]
  BY DEF Silence
<1>1. ASSUME NEW c \in Cmds, NEW n \in Nodes, Subscribe(c, n) \/ Unsubscribe(c, n)
      PROVE  TInv'
  <2>1. ListTypes'
    BY <1>0, <1>1, SubscribeTypes, UnsubscribeTypes
  <2>2. UNCHANGED <<cache, dispatched, told>> /\ event' = Silence
    BY <1>1 DEF Subscribe, Unsubscribe
  <2>3. CacheTypes' /\ LogTypes'
    BY <1>0, <1>s, <2>2 DEF CacheTypes, LogTypes
  <2>4. QED
    BY <1>0, <2>1, <2>3 DEF TInv
<1>2. ASSUME NEW c \in Cmds, Switch(c) \/ Stub(c)
      PROVE  TInv'
  <2>1. UNCHANGED list /\ dispatched' \in Stubs \cup {NoCmd}
    BY <1>2 DEF Switch, Stub
  <2>2. ListTypes'
    BY <1>0, <2>1 DEF ListTypes
  <2>3. CASE event' = Silence /\ UNCHANGED <<cache, told>>
    BY <1>0, <1>s, <2>1, <2>2, <2>3 DEF TInv, CacheTypes, LogTypes
  <2>4. CASE Update(c)
    BY <1>0, <2>1, <2>2, <2>4, UpdateTypes DEF TInv, LogTypes
  <2>5. QED
    BY <1>2, <2>3, <2>4 DEF Switch, Stub, WalkAndDiff, Skip
<1>3. CASE UNCHANGED vars
  BY <1>0, <1>3 DEF vars, TInv, ListTypes, CacheTypes, LogTypes
<1>4. QED
  BY <1>1, <1>2, <1>3 DEF Next

LEMMA SpecTInv == Spec => []TInv
BY InitTInv, NextTInv, PTL DEF Spec

(* No slot of the cache holds more than a window of nodes, and only nodes  *)
(* of lists are cached, announced or removed.                              *)
THEOREM DiffTyped == Spec => []TypeOK
<1>1. TInv => TypeOK
  BY DEF TInv, ListTypes, CacheTypes, LogTypes, TypeOK
<1>2. QED
  BY <1>1, SpecTInv, PTL

(* Whatever the cache remembers from before: after the dispatch of a       *)
(* command with a slot, whose list fits the window and can be read, the    *)
(* nodes announced and not removed are those on its list.                  *)
THEOREM ExactForListsThatFit == Spec => ExactWhenItFits
<1> DEFINE Exact == \A c \in Cmds : Dispatch(c) /\ Fits(c) => told'[c] = Range(list[c])
<1>1. TInv /\ [Next]_vars => [Exact]_vars
  <2> SUFFICES ASSUME TInv, NEW c \in Cmds, Dispatch(c), Fits(c)
               PROVE  told'[c] = Range(list[c])
    OBVIOUS
  <2>1. ~Undiffed(c)
    BY DEF Fits, Undiffed
  <2>2. Update(c)
    BY <2>1 DEF Dispatch, Stub, Switch, WalkAndDiff, Skip
  <2>3. QED
    BY <2>2, UpdateTypes
<1>2. QED
  BY <1>1, SpecTInv, PTL DEF Spec, ExactWhenItFits

=============================================================================
