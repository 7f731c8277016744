------------------------------- MODULE BPTree -------------------------------
(***************************************************************************)
(* BPTree (server/index/bptree.cpp), the primary-key index: a B+ tree with *)
(* linked leaves, into which keys are inserted and from which none is      *)
(* removed.  insert is split at the calls of split_leaf, split_internal    *)
(* and insert_into_parent, between which the tree is not whole; the tree   *)
(* is searched when no insert is in progress.                              *)
(*                                                                         *)
(* A node is a record; a leaf has one row id per key, an internal node one *)
(* child more than it has keys.  Positions count from 1, as sequences do,  *)
(* and 0 is the null pointer.                                              *)
(***************************************************************************)
EXTENDS Naturals, Sequences, SequencesExt, FiniteSets, FiniteSetsExt

CONSTANTS
  Orders,     \* the values of ORDER to consider
  Keys,       \* the primary keys
  RowIds      \* the row ids inserted under them

ASSUME BPTreeAssumption ==
  /\ Orders \subseteq Nat \ {0, 1, 2}
  /\ Keys \subseteq Nat \ {0} /\ IsFiniteSet(Keys)
  /\ RowIds \subseteq Nat \ {0}

VARIABLES
  ORDER,      \* a node that reaches this many keys is split; never changes
  node,       \* node_pool_
  root,       \* root_
  size,       \* size_
  height,     \* height_
  pc,         \* the call in progress
  at,         \* its node: the one to split, or left of insert_into_parent
  up,         \* key of insert_into_parent
  new,        \* right of insert_into_parent
  map         \* history: the row id last inserted under each key, or 0

vars == <<ORDER, node, root, size, height, pc, at, up, new, map>>

MIN_KEYS == (ORDER - 1) \div 2

Leaf(keys, ids, prev, next, parent) ==
  [leaf |-> TRUE, keys |-> keys, ids |-> ids, kids |-> <<>>,
   prev |-> prev, next |-> next, parent |-> parent]
Internal(keys, kids, parent) ==
  [leaf |-> FALSE, keys |-> keys, ids |-> <<>>, kids |-> kids,
   prev |-> 0, next |-> 0, parent |-> parent]

(* The constructor allocates one empty leaf, which stays the leftmost.     *)
leftmost_leaf == 1
Init ==
  /\ ORDER \in Orders
  /\ node = <<Leaf(<<>>, <<>>, 0, 0, 0)>>
  /\ root = 1 /\ size = 0 /\ height = 1
  /\ pc = "idle" /\ at = 0 /\ up = 0 /\ new = 0
  /\ map = [k \in Keys |-> 0]

-----------------------------------------------------------------------------
(* Searching                                                               *)

(* The binary search for the first key that is not less than k.            *)
lower_bound(n, k) ==
  LET keys == node[n].keys
      search[lo \in 1..Len(keys) + 1, hi \in 1..Len(keys) + 1] ==
        IF lo >= hi THEN lo
        ELSE LET mid == (lo + hi) \div 2
             IN  IF keys[mid] < k THEN search[mid + 1, hi] ELSE search[lo, mid]
  IN  search[1, Len(keys) + 1]

Holds(n, i, k) == i <= Len(node[n].keys) /\ node[n].keys[i] = k

(* Mutant: an equal key leads to the left.                                 *)
ChildLeftOfEqual(n, k) == node[n].kids[lower_bound(n, k)]

(* The child to descend to; an equal key leads to the right of it.         *)
Child(n, k) ==
  LET i == lower_bound(n, k)
  IN  node[n].kids[IF Holds(n, i, k) THEN i + 1 ELSE i]

find_leaf(k) ==
  LET descend[n \in 1..Len(node)] ==
        IF node[n].leaf THEN n ELSE descend[Child(n, k)]
  IN  descend[root]

find(k) ==
  LET leaf == find_leaf(k)
      i == lower_bound(leaf, k)
  IN  IF Holds(leaf, i, k) THEN node[leaf].ids[i] ELSE 0

(* The leaves from n on, along next.                                       *)
LeavesFrom(n) ==
  LET walk[m \in 0..Len(node)] ==
        IF m = 0 THEN <<>> ELSE <<m>> \o walk[node[m].next]
  IN  walk[n]

(* The keys and row ids that a loop over those leaves meets, in order.     *)
Entries(leaves) ==
  FlattenSeq([j \in 1..Len(leaves) |->
    [i \in 1..Len(node[leaves[j]].keys) |->
       <<node[leaves[j]].keys[i], node[leaves[j]].ids[i]>>]])

scan_all == Entries(LeavesFrom(leftmost_leaf))

(* The loop skips the keys of the first leaf before the lower bound.       *)
EntriesFrom(k) ==
  LET leaf == find_leaf(k)
      all == Entries(LeavesFrom(leaf))
  IN  SubSeq(all, lower_bound(leaf, k), Len(all))

(* The loops that stop at the first key of beyond.                         *)
EntriesUntil(beyond) ==
  LET stop == SelectInSeq(scan_all, LAMBDA e : e[1] \in beyond)
  IN  IF stop = 0 THEN scan_all ELSE SubSeq(scan_all, 1, stop - 1)

range_eq(k) == IF find(k) = 0 THEN <<>> ELSE << <<k, find(k)>> >>
range_gt(k) == SelectSeq(EntriesFrom(k), LAMBDA e : e[1] > k)
range_ge(k) == EntriesFrom(k)
range_lt(k) == EntriesUntil({j \in Keys : j >= k})
range_le(k) == EntriesUntil({j \in Keys : j > k})
range_ne(k) == SelectSeq(scan_all, LAMBDA e : e[1] # k)

-----------------------------------------------------------------------------
(* Inserting                                                               *)

(* Mutant: a node is split one key late.                                   *)
OverflowsLate(n) == Len(node[n].keys) + 1 > ORDER

(* One more key fills the node.                                            *)
Overflows(n) == Len(node[n].keys) + 1 >= ORDER

Insert(k, id) ==
  LET leaf == find_leaf(k)
      i == lower_bound(leaf, k)
  IN  /\ pc = "idle"
      /\ map' = [map EXCEPT ![k] = id]
      /\ IF Holds(leaf, i, k)
           THEN /\ node' = [node EXCEPT ![leaf].ids[i] = id]
                /\ UNCHANGED <<size, pc, at>>
           ELSE /\ node' = [node EXCEPT ![leaf].keys = InsertAt(@, i, k),
                                        ![leaf].ids = InsertAt(@, i, id)]
                /\ size' = size + 1
                /\ IF Overflows(leaf)
                     THEN pc' = "split_leaf" /\ at' = leaf
                     ELSE UNCHANGED <<pc, at>>
      /\ UNCHANGED <<ORDER, root, height, up, new>>

(* Mutant: the new leaf ends the list of leaves.                           *)
UpperLeafLast(l) ==
  LET leaf == node[l]
      mid == Len(leaf.keys) \div 2
  IN  Leaf(SubSeq(leaf.keys, mid + 1, Len(leaf.keys)),
           SubSeq(leaf.ids, mid + 1, Len(leaf.ids)), l, 0, 0)

(* The new leaf, with the upper half of leaf l.                            *)
UpperLeaf(l) ==
  LET leaf == node[l]
      mid == Len(leaf.keys) \div 2
  IN  Leaf(SubSeq(leaf.keys, mid + 1, Len(leaf.keys)),
           SubSeq(leaf.ids, mid + 1, Len(leaf.ids)), l, leaf.next, 0)

SplitLeaf ==
  LET leaf == node[at]
      mid == Len(leaf.keys) \div 2
      n == Len(node) + 1
      upper == UpperLeaf(at)
      lower == [leaf EXCEPT !.keys = SubSeq(@, 1, mid),
                            !.ids = SubSeq(@, 1, mid), !.next = n]
      relinked == [m \in 1..Len(node) |->
                     IF m = at THEN lower
                     ELSE IF m = leaf.next THEN [node[m] EXCEPT !.prev = n]
                     ELSE node[m]]
  IN  /\ pc = "split_leaf"
      /\ node' = Append(relinked, upper)
      /\ pc' = "insert_into_parent" /\ up' = upper.keys[1] /\ new' = n
      /\ UNCHANGED <<ORDER, root, size, height, at, map>>

(* Mutant: the moved children keep their old parent.                       *)
NotAdopted(m, kids, n) == node[m]

(* Node m, whose parent becomes n if it is one of kids.                    *)
Adopted(m, kids, n) ==
  IF m \in ToSet(kids) THEN [node[m] EXCEPT !.parent = n] ELSE node[m]

SplitInternal ==
  LET full == node[at]
      mid == Len(full.keys) \div 2 + 1
      n == Len(node) + 1
      upper == Internal(SubSeq(full.keys, mid + 1, Len(full.keys)),
                        SubSeq(full.kids, mid + 1, Len(full.kids)), 0)
      lower == [full EXCEPT !.keys = SubSeq(@, 1, mid - 1),
                            !.kids = SubSeq(@, 1, mid)]
      adopted == [m \in 1..Len(node) |->
                    IF m = at THEN lower ELSE Adopted(m, upper.kids, n)]
  IN  /\ pc = "split_internal"
      /\ node' = Append(adopted, upper)
      /\ pc' = "insert_into_parent" /\ up' = full.keys[mid] /\ new' = n
      /\ UNCHANGED <<ORDER, root, size, height, at, map>>

NewRoot ==
  LET n == Len(node) + 1
  IN  /\ pc = "insert_into_parent" /\ at = root
      /\ node' = Append([node EXCEPT ![at].parent = n, ![new].parent = n],
                        Internal(<<up>>, <<at, new>>, 0))
      /\ root' = n
      /\ height' = height + 1
      /\ pc' = "idle" /\ at' = 0 /\ up' = 0 /\ new' = 0
      /\ UNCHANGED <<ORDER, size, map>>

InsertIntoParent ==
  LET parent == node[at].parent
      i == SelectInSeq(node[parent].kids, LAMBDA m : m = at)
      full == Overflows(parent)
  IN  /\ pc = "insert_into_parent" /\ at # root
      /\ node' = [node EXCEPT ![new].parent = parent,
                              ![parent].keys = InsertAt(@, i, up),
                              ![parent].kids = InsertAt(@, i + 1, new)]
      /\ pc' = IF full THEN "split_internal" ELSE "idle"
      /\ at' = IF full THEN parent ELSE 0
      /\ up' = 0 /\ new' = 0
      /\ UNCHANGED <<ORDER, root, size, height, map>>

Next ==
  \/ \E k \in Keys, id \in RowIds : Insert(k, id)
  \/ SplitLeaf
  \/ SplitInternal
  \/ NewRoot
  \/ InsertIntoParent

Spec == Init /\ [][Next]_vars

-----------------------------------------------------------------------------
Whole == pc = "idle"
Present == {k \in Keys : map[k] # 0}
Sorted(S) == SelectSeq([i \in 1..Max(Keys) |-> i], LAMBDA k : k \in S)
Reference(S) == LET ks == Sorted(S)
                IN  [i \in 1..Len(ks) |-> <<ks[i], map[ks[i]]>>]

(* Nodes have the shape the code gives them and never more keys than the   *)
(* arrays of Node have room for, not even while an insert is in progress.  *)
TypeOK ==
  /\ root \in 1..Len(node)
  /\ pc \in {"idle", "split_leaf", "split_internal", "insert_into_parent"}
  /\ \A n \in 1..Len(node) :
       /\ Len(node[n].keys) <= ORDER
       /\ IF node[n].leaf THEN Len(node[n].ids) = Len(node[n].keys)
                          ELSE Len(node[n].kids) = Len(node[n].keys) + 1

(* find returns the row id last inserted under the key, or nothing: no     *)
(* separator key leads a search into the wrong leaf, in any order of       *)
(* insertions (find_leaf, split_leaf, split_internal).                     *)
SearchFinds == Whole => \A k \in Keys : find(k) = map[k]

(* Every range scan returns exactly the keys in its range, each once, in   *)
(* ascending order (range_eq to range_ne, scan_all).                       *)
RangesExact ==
  Whole => /\ scan_all = Reference(Present)
           /\ \A k \in Keys :
                /\ range_eq(k) = Reference({j \in Present : j = k})
                /\ range_gt(k) = Reference({j \in Present : j > k})
                /\ range_ge(k) = Reference({j \in Present : j >= k})
                /\ range_lt(k) = Reference({j \in Present : j < k})
                /\ range_le(k) = Reference({j \in Present : j <= k})
                /\ range_ne(k) = Reference({j \in Present : j # k})

(* The tree is balanced: each leaf is height_ levels below the root, each  *)
(* node but the root has MIN_KEYS keys or more (bptree.h, MIN_KEYS), a     *)
(* child's parent is its parent, prev is the inverse of next, and size_ is *)
(* the number of keys.                                                     *)
Depth(n) ==
  LET climb[m \in 1..Len(node)] == IF m = root THEN 1 ELSE 1 + climb[node[m].parent]
  IN  climb[n]
Balanced ==
  Whole => /\ size = Cardinality(Present)
           /\ \A n \in 1..Len(node) :
                /\ n # root => Len(node[n].keys) >= MIN_KEYS
                /\ node[n].leaf => Depth(n) = height
                /\ \A i \in 1..Len(node[n].kids) : node[node[n].kids[i]].parent = n
                /\ node[n].next # 0 => node[node[n].next].prev = n
=============================================================================
