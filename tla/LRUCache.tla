------------------------------ MODULE LRUCache ------------------------------
(***************************************************************************)
(* LRUCache (server/cache/lru_cache.cpp): SELECT results by normalized     *)
(* query text.  list is lru_list_, most recently used first, and at the    *)
(* same time cache_map_, which holds an iterator for each of its keys;     *)
(* entries is table_entries_, one pair of a table name and a key for each  *)
(* time the key was put.  Every operation runs under mutex_ from start to  *)
(* end and is therefore one function of the cache.                         *)
(***************************************************************************)
EXTENDS Filter

CONSTANTS
  Capacity,     \* capacity_
  Upper(_)      \* toupper on a literal

ASSUME CacheAssumption == Capacity \in Nat \ {0}

(* A query of one table, or of two when join names the second.  on is the  *)
(* comparison of the join; lit is the literal compared with the column     *)
(* where ("none": no WHERE; "unknown": one on a column that there is not,  *)
(* or whose literal has not its type); selfrom says that the last selected *)
(* column has a name that ends in FROM; resolves, that all columns but the *)
(* one of WHERE exist.                                                     *)
NoTable == "-"

(* normalize: white space and the case of every letter are forgotten, the  *)
(* letters of the literal included.                                        *)
normalize(q) == [q EXCEPT !.lit = Upper(@)]

(* put looks for the first "FROM " in the text and takes the word after it *)
(* for the table; after a column that ends in FROM that word is "FROM".    *)
TrackedTable(key) == IF key.selfrom THEN "FROM" ELSE key.from

EmptyCache == [list |-> <<>>, entries |-> <<>>]

Cached(c) == {c.list[i].key : i \in 1..Len(c.list)}
Position(c, key) == CHOOSE i \in 1..Len(c.list) : c.list[i].key = key
Lookup(c, key) == c.list[Position(c, key)].rows

Without(list, Keys) == Kept(list, {i \in 1..Len(list) : list[i].key \notin Keys})

(* get on a hit: the entry moves to the front.                             *)
Get(c, key) ==
  [c EXCEPT !.list = <<c.list[Position(c, key)]>> \o Without(@, {key})]

(* The entry at the back leaves the list and the map, not entries.         *)
Evict(list) ==
  IF Len(list) >= Capacity THEN SubSeq(list, 1, Len(list) - 1) ELSE list

(* Mutant: a put that evicts is not tracked.                                *)
PutUntrackedWhenFull(c, key, rows) ==
  LET entry == [key |-> key, rows |-> rows]
  IN  IF key \in Cached(c)
        THEN [c EXCEPT !.list = <<entry>> \o Without(@, {key})]
        ELSE IF Len(c.list) >= Capacity
        THEN [c EXCEPT !.list = <<entry>> \o Evict(@)]
        ELSE [c EXCEPT !.list = <<entry>> \o @,
                       !.entries = Append(@, <<TrackedTable(key), key>>)]

Put(c, key, rows) ==
  LET entry == [key |-> key, rows |-> rows]
  IN  IF key \in Cached(c)
        THEN [c EXCEPT !.list = <<entry>> \o Without(@, {key})]
        ELSE [c EXCEPT !.list = <<entry>> \o Evict(@),
                       !.entries = Append(@, <<TrackedTable(key), key>>)]

TrackedKeys(c, t) ==
  {c.entries[i][2] : i \in {j \in 1..Len(c.entries) : c.entries[j][1] = t}}

InvalidateTable(c, t) ==
  [list |-> Without(c.list, TrackedKeys(c, t)),
   entries |-> Kept(c.entries, {i \in 1..Len(c.entries) : c.entries[i][1] # t})]
=============================================================================
