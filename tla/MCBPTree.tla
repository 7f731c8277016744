------------------------------ MODULE MCBPTree ------------------------------
(* Instances of BPTree for the model checker.                              *)
EXTENDS BPTree

CONSTANTS
  MaxSecond,     \* keys that may hold the larger row id at a time
  MaxKey(_)      \* the largest key inserted into a tree of this order

(* Enough keys for internal nodes to be split.                             *)
MCMaxKey(order) == IF order = 3 THEN 7 ELSE 10

BoundedNext ==
  /\ Next
  /\ Cardinality({k \in Keys : map'[k] = Max(RowIds)}) <= MaxSecond
  /\ \A k \in Keys : map'[k] # 0 => k <= MaxKey(ORDER)
BoundedSpec == Init /\ [][BoundedNext]_vars
=============================================================================
