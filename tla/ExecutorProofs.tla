--------------------------- MODULE ExecutorProofs ---------------------------
(***************************************************************************)
(* The query cache and the executor, for every number of workers, tables,  *)
(* queries and every capacity: invalidate_table finds every cached result, *)
(* and a statement that runs alone has the effect that recovery replays.   *)
(***************************************************************************)
EXTENDS Executor, FilterProofs

(* Most leaves are first-order, and Zenon is the quicker on those.         *)
USE ZenonT(5), SMTT(20)

(* The cache                                                               *)

Entry(KS, RS) == [key : KS, rows : RS]
Tracks(KS) == {TrackedTable(key) : key \in KS} \X KS

(* A cache of results RS by keys KS holds a key once, within its capacity, *)
(* and each key of its list is tracked under its table.                    *)
CacheOk(c, KS, RS) ==
  /\ c \in [list : Seq(Entry(KS, RS)), entries : Seq(Tracks(KS))]
  /\ Len(c.list) <= Capacity
  /\ \A i, j \in 1..Len(c.list) : c.list[i].key = c.list[j].key => i = j
  /\ \A i \in 1..Len(c.list) : \E j \in 1..Len(c.entries) :
       c.entries[j] = <<TrackedTable(c.list[i].key), c.list[i].key>>

(* Without leaves the entries of the other keys, each once; the list gets  *)
(* shorter when one of the keys was there.                                 *)
LEMMA WithoutOk ==
  ASSUME NEW KS, NEW RS, NEW list \in Seq(Entry(KS, RS)), NEW K,
         \A i, j \in 1..Len(list) : list[i].key = list[j].key => i = j
  PROVE  /\ Without(list, K) \in Seq(Entry(KS, RS))
         /\ Len(Without(list, K)) <= Len(list)
         /\ (\E i \in 1..Len(list) : list[i].key \in K) => Len(Without(list, K)) < Len(list)
         /\ \A j \in 1..Len(Without(list, K)) :
              Without(list, K)[j].key \notin K /\ \E i \in 1..Len(list) : Without(list, K)[j] = list[i]
         /\ \A i, j \in 1..Len(Without(list, K)) :
              Without(list, K)[i].key = Without(list, K)[j].key => i = j
<1> DEFINE I == {i \in 1..Len(list) : list[i].key \notin K}
           W == Kept(list, I)
<1>1. I \in SUBSET (1..Len(list)) /\ Without(list, K) = W
  BY DEF Without
<1>2. W \in Seq(Entry(KS, RS))
  BY <1>1, KeptPositions
<1>3. Len(W) <= Len(list) /\ (I # 1..Len(list) => Len(W) < Len(list))
  BY <1>1, KeptLength
<1>4. (\E i \in 1..Len(list) : list[i].key \in K) => I # 1..Len(list)
  OBVIOUS
<1>5. PICK pos \in [1..Len(W) -> I] :
         /\ \A j \in 1..Len(W) : W[j] = list[pos[j]]
         /\ \A j, k \in 1..Len(W) : j < k => pos[j] < pos[k]
  BY <1>1, KeptPositions
<1> HIDE DEF W
<1>6. \A j \in 1..Len(W) : pos[j] \in 1..Len(list) /\ list[pos[j]].key \notin K
  BY <1>5
<1>7. ASSUME NEW i \in 1..Len(W), NEW j \in 1..Len(W), W[i].key = W[j].key PROVE i = j
  <2>1. pos[i] = pos[j]
    <3>1. list[pos[i]].key = list[pos[j]].key
      BY <1>5, <1>7
    <3>2. pos[i] \in 1..Len(list) /\ pos[j] \in 1..Len(list)
      BY <1>6
    <3> QED BY <3>1, <3>2
  <2>2. i \in Nat /\ j \in Nat /\ pos[i] \in Nat /\ pos[j] \in Nat
    BY <1>2, <1>6
  <2>3. ~(i < j) /\ ~(j < i)
    BY <1>5, <2>1, <2>2
  <2> QED BY <2>2, <2>3
<1> HIDE DEF I
<1>8. \A j \in 1..Len(W) : W[j].key \notin K /\ \E i \in 1..Len(list) : W[j] = list[i]
  BY <1>5, <1>6
<1> QED BY <1>1, <1>2, <1>3, <1>4, <1>7, <1>8

(* An entry put in front of a list that has no entry of its key.           *)
LEMMA FrontOk ==
  ASSUME NEW KS, NEW RS, NEW list \in Seq(Entry(KS, RS)), NEW e \in Entry(KS, RS),
         \A i, j \in 1..Len(list) : list[i].key = list[j].key => i = j,
         \A i \in 1..Len(list) : list[i].key # e.key
  PROVE  /\ <<e>> \o list \in Seq(Entry(KS, RS)) /\ Len(<<e>> \o list) = Len(list) + 1
         /\ \A i \in 1..Len(<<e>> \o list) :
              \/ (<<e>> \o list)[i] = e
              \/ \E j \in 1..Len(list) : (<<e>> \o list)[i] = list[j]
         /\ \A i, j \in 1..Len(<<e>> \o list) :
              (<<e>> \o list)[i].key = (<<e>> \o list)[j].key => i = j
<1> DEFINE f == <<e>> \o list
<1>1. f \in Seq(Entry(KS, RS)) /\ Len(f) = Len(list) + 1 /\ Len(list) \in Nat
  OBVIOUS
<1>2. f[1] = e /\ \A i \in 2..Len(f) : f[i] = list[i - 1] /\ i - 1 \in 1..Len(list)
  OBVIOUS
<1> HIDE DEF f
<1>3. \A i \in 1..Len(f) : i = 1 \/ i \in 2..Len(f)
  BY <1>1
<1>4. \A i \in 1..Len(f) : f[i] = e \/ \E j \in 1..Len(list) : f[i] = list[j]
  BY <1>2, <1>3
<1>5. ASSUME NEW i \in 1..Len(f), NEW j \in 1..Len(f), f[i].key = f[j].key PROVE i = j
  <2>1. CASE i = 1 /\ j = 1
    BY <2>1
  <2>2. CASE i = 1 /\ j \in 2..Len(f)
    BY <1>2, <1>5, <2>2
  <2>3. CASE i \in 2..Len(f) /\ j = 1
    BY <1>2, <1>5, <2>3
  <2>4. CASE i \in 2..Len(f) /\ j \in 2..Len(f)
    <3> DEFINE x == i - 1
               y == j - 1
    <3>1. f[i] = list[x] /\ f[j] = list[y] /\ x \in 1..Len(list) /\ y \in 1..Len(list)
      BY <1>2, <2>4
    <3>2. x = y
      <4> HIDE DEF x, y
      <4> QED BY <1>5, <3>1
    <3>3. i \in Nat /\ j \in Nat
      BY <1>1
    <3> QED BY <3>2, <3>3
  <2> QED BY <1>3, <2>1, <2>2, <2>3, <2>4
<1> QED BY <1>1, <1>4, <1>5 DEF f

(* A key that is cached is the key of exactly the entry Position finds.    *)
LEMMA PositionOk ==
  ASSUME NEW KS, NEW RS, NEW c, CacheOk(c, KS, RS), NEW key \in Cached(c)
  PROVE  /\ Position(c, key) \in 1..Len(c.list) /\ c.list[Position(c, key)].key = key
         /\ c.list[Position(c, key)] \in Entry(KS, RS)
<1>1. \E i \in 1..Len(c.list) : c.list[i].key = key
  BY DEF Cached
<1>2. Position(c, key) \in 1..Len(c.list) /\ c.list[Position(c, key)].key = key
  BY <1>1 DEF Position
<1>3. c.list \in Seq(Entry(KS, RS))
  BY DEF CacheOk
<1> QED BY <1>2, <1>3

(* get keeps the cache in order and changes only the order of its list.    *)
LEMMA GetOk ==
  ASSUME NEW KS, NEW RS, NEW c, CacheOk(c, KS, RS), NEW key \in Cached(c)
  PROVE  /\ CacheOk(Get(c, key), KS, RS)
         /\ \A i \in 1..Len(Get(c, key).list) :
              \E j \in 1..Len(c.list) : Get(c, key).list[i] = c.list[j]
<1> DEFINE p == Position(c, key)
           e == c.list[p]
           W == Without(c.list, {key})
           f == <<e>> \o W
           g == Get(c, key)
<1>1. p \in 1..Len(c.list) /\ e.key = key /\ e \in Entry(KS, RS)
  BY PositionOk
<1>2. /\ c \in [list : Seq(Entry(KS, RS)), entries : Seq(Tracks(KS))]
      /\ c.list \in Seq(Entry(KS, RS)) /\ Len(c.list) <= Capacity
      /\ \A i, j \in 1..Len(c.list) : c.list[i].key = c.list[j].key => i = j
      /\ \A i \in 1..Len(c.list) : \E j \in 1..Len(c.entries) :
           c.entries[j] = <<TrackedTable(c.list[i].key), c.list[i].key>>
  BY DEF CacheOk
<1>3. g = [c EXCEPT !.list = f]
  BY DEF Get
<1>4. /\ W \in Seq(Entry(KS, RS)) /\ Len(W) < Len(c.list)
      /\ \A j \in 1..Len(W) : W[j].key \notin {key} /\ \E i \in 1..Len(c.list) : W[j] = c.list[i]
      /\ \A i, j \in 1..Len(W) : W[i].key = W[j].key => i = j
  <2> HIDE DEF p, e
  <2>1. \E i \in 1..Len(c.list) : c.list[i].key \in {key}
    BY <1>1 DEF e
  <2> QED BY <1>2, <2>1, WithoutOk, ZenonT(30)
<1> HIDE DEF W, g
<1>5. /\ f \in Seq(Entry(KS, RS)) /\ Len(f) = Len(W) + 1
      /\ \A i \in 1..Len(f) : f[i] = e \/ \E j \in 1..Len(W) : f[i] = W[j]
      /\ \A i, j \in 1..Len(f) : f[i].key = f[j].key => i = j
  <2>1. \A i \in 1..Len(W) : W[i].key # e.key
    BY <1>1, <1>4
  <2>2. e \in Entry(KS, RS)
    BY <1>1
  <2> HIDE DEF e
  <2> QED BY <1>4, <2>1, <2>2, FrontOk
<1> HIDE DEF f
<1>6. ASSUME NEW i \in 1..Len(f) PROVE \E j \in 1..Len(c.list) : f[i] = c.list[j]
  <2>1. CASE f[i] = e
    BY <1>1, <2>1
  <2>2. CASE \E j \in 1..Len(W) : f[i] = W[j]
    BY <1>4, <2>2
  <2> QED BY <1>5, <2>1, <2>2
<1> HIDE DEF e, p
<1>7. g.list = f /\ g.entries = c.entries /\ g \in [list : Seq(Entry(KS, RS)), entries : Seq(Tracks(KS))]
  BY <1>2, <1>3, <1>5
<1>8. Len(f) <= Capacity
  <2>1. Len(W) \in Nat /\ Len(c.list) \in Nat /\ Capacity \in Nat
    BY <1>2, <1>4, CacheAssumption
  <2> QED BY <1>2, <1>4, <1>5, <2>1
<1>9. \A i \in 1..Len(f) : \E j \in 1..Len(c.entries) :
        c.entries[j] = <<TrackedTable(f[i].key), f[i].key>>
  <2> SUFFICES ASSUME NEW i \in 1..Len(f)
               PROVE  \E j \in 1..Len(c.entries) :
                        c.entries[j] = <<TrackedTable(f[i].key), f[i].key>>
    OBVIOUS
  <2>1. PICK j \in 1..Len(c.list) : f[i] = c.list[j]
    BY <1>6
  <2> QED BY <1>2, <2>1
<1>10. CacheOk(g, KS, RS)
  <2>1. Len(g.list) <= Capacity
    BY <1>7, <1>8
  <2>2. \A i, j \in 1..Len(g.list) : g.list[i].key = g.list[j].key => i = j
    BY <1>5, <1>7
  <2>3. \A i \in 1..Len(g.list) : \E j \in 1..Len(g.entries) :
          g.entries[j] = <<TrackedTable(g.list[i].key), g.list[i].key>>
    BY <1>7, <1>9
  <2> QED BY <1>7, <2>1, <2>2, <2>3 DEF CacheOk
<1> QED BY <1>6, <1>7, <1>10 DEF g

(* The list put leaves behind its new front: without the key, or without   *)
(* its last entry when it is full.                                         *)
Rest(c, key) == IF key \in Cached(c) THEN Without(c.list, {key}) ELSE Evict(c.list)

(* What put keeps of the list has no entry with the key and leaves room.   *)
LEMMA RestOk ==
  ASSUME NEW KS, NEW RS, NEW c, CacheOk(c, KS, RS), NEW key
  PROVE  /\ Rest(c, key) \in Seq(Entry(KS, RS)) /\ Len(Rest(c, key)) + 1 <= Capacity
         /\ \A i, j \in 1..Len(Rest(c, key)) : Rest(c, key)[i].key = Rest(c, key)[j].key => i = j
         /\ \A i \in 1..Len(Rest(c, key)) :
              Rest(c, key)[i].key # key /\ \E j \in 1..Len(c.list) : Rest(c, key)[i] = c.list[j]
<1> DEFINE R == Rest(c, key)
           n == Len(c.list)
<1>1. /\ c.list \in Seq(Entry(KS, RS)) /\ n <= Capacity
      /\ \A i, j \in 1..n : c.list[i].key = c.list[j].key => i = j
  BY DEF CacheOk
<1>2. n \in Nat /\ Capacity \in Nat /\ Capacity > 0
  BY <1>1, CacheAssumption
<1>3. CASE key \in Cached(c)
  <2>1. R = Without(c.list, {key})
    BY <1>3 DEF Rest
  <2>2. \E i \in 1..n : c.list[i].key \in {key}
    BY <1>3 DEF Cached
  <2> DEFINE W == Without(c.list, {key})
  <2>3. /\ W \in Seq(Entry(KS, RS)) /\ Len(W) < n
        /\ \A j \in 1..Len(W) : W[j].key \notin {key} /\ \E i \in 1..n : W[j] = c.list[i]
        /\ \A i, j \in 1..Len(W) : W[i].key = W[j].key => i = j
    BY <1>1, <2>2, WithoutOk
  <2> HIDE DEF W
  <2>4. Len(W) \in Nat
    BY <2>3
  <2>5. Len(W) + 1 <= Capacity
    BY <1>1, <1>2, <2>3, <2>4
  <2> QED BY <2>1, <2>3, <2>5 DEF W
<1>4. CASE key \notin Cached(c)
  <2>1. R = Evict(c.list)
    BY <1>4 DEF Rest
  <2>2. \A i \in 1..n : c.list[i].key # key
    BY <1>4 DEF Cached
  <2> HIDE DEF R
  <2>3. CASE n >= Capacity
    <3>1. R = SubSeq(c.list, 1, n - 1)
      BY <2>1, <2>3 DEF Evict
    <3>2. R \in Seq(Entry(KS, RS)) /\ Len(R) = n - 1 /\ \A i \in 1..(n - 1) : R[i] = c.list[i]
      BY <1>1, <1>2, <2>3, <3>1
    <3>3. \A i \in 1..Len(R) : i \in 1..n /\ R[i] = c.list[i]
      BY <1>2, <3>2
    <3>4. Len(R) + 1 <= Capacity
      BY <1>1, <1>2, <3>2
    <3>5. \A i, j \in 1..Len(R) : R[i].key = R[j].key => i = j
      BY <1>1, <3>3
    <3>6. \A i \in 1..Len(R) : R[i].key # key /\ \E j \in 1..n : R[i] = c.list[j]
      BY <2>2, <3>3
    <3> QED BY <3>2, <3>4, <3>5, <3>6 DEF R
  <2>4. CASE ~(n >= Capacity)
    <3>1. R = c.list
      BY <2>1, <2>4 DEF Evict
    <3>2. Len(R) + 1 <= Capacity
      BY <1>2, <2>4, <3>1
    <3> QED BY <1>1, <2>2, <3>1, <3>2 DEF R
  <2> QED BY <2>3, <2>4
<1> QED BY <1>3, <1>4

(* put keeps the cache in order and adds at most the new result, the only  *)
(* one with its key.                                                       *)
LEMMA PutOk ==
  ASSUME NEW KS, NEW RS, NEW c, CacheOk(c, KS, RS), NEW key \in KS, NEW rows \in RS
  PROVE  /\ CacheOk(Put(c, key, rows), KS, RS)
         /\ \A i \in 1..Len(Put(c, key, rows).list) :
              \/ Put(c, key, rows).list[i] = [key |-> key, rows |-> rows]
              \/ /\ Put(c, key, rows).list[i].key # key
                 /\ \E j \in 1..Len(c.list) : Put(c, key, rows).list[i] = c.list[j]
<1> DEFINE e == [key |-> key, rows |-> rows]
           R == Rest(c, key)
           f == <<e>> \o R
           g == Put(c, key, rows)
           track == <<TrackedTable(key), key>>
<1>1. e \in Entry(KS, RS) /\ e.key = key
  BY DEF Entry
<1>2. /\ c \in [list : Seq(Entry(KS, RS)), entries : Seq(Tracks(KS))]
      /\ c.entries \in Seq(Tracks(KS))
      /\ \A i \in 1..Len(c.list) : \E j \in 1..Len(c.entries) :
           c.entries[j] = <<TrackedTable(c.list[i].key), c.list[i].key>>
  BY DEF CacheOk
<1>3. /\ R \in Seq(Entry(KS, RS)) /\ Len(R) + 1 <= Capacity
      /\ \A i, j \in 1..Len(R) : R[i].key = R[j].key => i = j
      /\ \A i \in 1..Len(R) : R[i].key # key /\ \E j \in 1..Len(c.list) : R[i] = c.list[j]
  BY RestOk
<1>4. track \in Tracks(KS)
  BY DEF Tracks
<1>5. g = IF key \in Cached(c) THEN [c EXCEPT !.list = f]
          ELSE [c EXCEPT !.list = f, !.entries = Append(@, track)]
  BY DEF Put, Rest
<1> HIDE DEF R, g, track
<1>6. /\ f \in Seq(Entry(KS, RS)) /\ Len(f) = Len(R) + 1
      /\ \A i \in 1..Len(f) : f[i] = e \/ \E j \in 1..Len(R) : f[i] = R[j]
      /\ \A i, j \in 1..Len(f) : f[i].key = f[j].key => i = j
  <2>1. \A i \in 1..Len(R) : R[i].key # e.key
    BY <1>1, <1>3
  <2> HIDE DEF e
  <2> QED BY <1>1, <1>3, <2>1, FrontOk
<1> HIDE DEF f, e
<1>7. ASSUME NEW i \in 1..Len(f)
      PROVE  f[i] = e \/ (f[i].key # key /\ \E j \in 1..Len(c.list) : f[i] = c.list[j])
  <2>1. CASE \E j \in 1..Len(R) : f[i] = R[j]
    BY <1>3, <2>1
  <2> QED BY <1>6, <2>1
<1>8. /\ g.list = f /\ g \in [list : Seq(Entry(KS, RS)), entries : Seq(Tracks(KS))]
      /\ g.entries \in Seq(Tracks(KS))
      /\ g.entries = IF key \in Cached(c) THEN c.entries ELSE Append(c.entries, track)
  <2>1. CASE key \in Cached(c)
    BY <1>2, <1>5, <1>6, <2>1
  <2>2. CASE key \notin Cached(c)
    <3>1. Append(c.entries, track) \in Seq(Tracks(KS))
      BY <1>2, <1>4
    <3> QED BY <1>2, <1>5, <1>6, <2>2, <3>1
  <2> QED BY <2>1, <2>2
<1>9. \A j \in 1..Len(c.entries) : j \in 1..Len(g.entries) /\ g.entries[j] = c.entries[j]
  <2>1. CASE key \in Cached(c)
    BY <1>8, <2>1
  <2>2. CASE key \notin Cached(c)
    BY <1>2, <1>4, <1>8, <2>2
  <2> QED BY <2>1, <2>2
<1>10. \E j \in 1..Len(g.entries) : g.entries[j] = track
  <2>1. CASE key \in Cached(c)
    <3>1. PICK i \in 1..Len(c.list) : c.list[i].key = key
      BY <2>1 DEF Cached
    <3>2. \E j \in 1..Len(c.entries) : c.entries[j] = track
      BY <1>2, <3>1 DEF track
    <3> QED BY <1>9, <3>2
  <2>2. CASE key \notin Cached(c)
    <3>1. Len(g.entries) \in 1..Len(g.entries) /\ g.entries[Len(g.entries)] = track
      BY <1>2, <1>4, <1>8, <2>2
    <3> QED BY <3>1
  <2> QED BY <2>1, <2>2
<1>11. ASSUME NEW i \in 1..Len(f)
       PROVE  \E j \in 1..Len(g.entries) :
                g.entries[j] = <<TrackedTable(f[i].key), f[i].key>>
  <2>1. CASE f[i] = e
    BY <1>1, <1>10, <2>1 DEF track
  <2>2. CASE \E j \in 1..Len(c.list) : f[i] = c.list[j]
    <3>1. PICK j \in 1..Len(c.list) : f[i] = c.list[j]
      BY <2>2
    <3>2. PICK k \in 1..Len(c.entries) : c.entries[k] = <<TrackedTable(f[i].key), f[i].key>>
      BY <1>2, <3>1
    <3> QED BY <1>9, <3>2
  <2> QED BY <1>7, <2>1, <2>2
<1>12. CacheOk(g, KS, RS)
  <2>1. Len(g.list) <= Capacity
    BY <1>3, <1>6, <1>8
  <2>2. \A i, j \in 1..Len(g.list) : g.list[i].key = g.list[j].key => i = j
    BY <1>6, <1>8
  <2>3. \A i \in 1..Len(g.list) : \E j \in 1..Len(g.entries) :
          g.entries[j] = <<TrackedTable(g.list[i].key), g.list[i].key>>
    BY <1>8, <1>11
  <2> QED BY <1>8, <2>1, <2>2, <2>3 DEF CacheOk
<1> QED BY <1>7, <1>8, <1>12 DEF g, e

(* invalidate_table keeps the cache in order and leaves no result that is  *)
(* tracked under the table.                                                *)
LEMMA InvalidateOk ==
  ASSUME NEW KS, NEW RS, NEW c, CacheOk(c, KS, RS), NEW t
  PROVE  /\ CacheOk(InvalidateTable(c, t), KS, RS)
         /\ \A i \in 1..Len(InvalidateTable(c, t).list) :
              /\ TrackedTable(InvalidateTable(c, t).list[i].key) # t
              /\ \E j \in 1..Len(c.list) : InvalidateTable(c, t).list[i] = c.list[j]
<1> DEFINE W == Without(c.list, TrackedKeys(c, t))
           J == {i \in 1..Len(c.entries) : c.entries[i][1] # t}
           E == Kept(c.entries, J)
           g == InvalidateTable(c, t)
<1>1. /\ c \in [list : Seq(Entry(KS, RS)), entries : Seq(Tracks(KS))]
      /\ c.list \in Seq(Entry(KS, RS)) /\ c.entries \in Seq(Tracks(KS)) /\ Len(c.list) <= Capacity
      /\ \A i, j \in 1..Len(c.list) : c.list[i].key = c.list[j].key => i = j
      /\ \A i \in 1..Len(c.list) : \E j \in 1..Len(c.entries) :
           c.entries[j] = <<TrackedTable(c.list[i].key), c.list[i].key>>
  BY DEF CacheOk
<1>2. /\ W \in Seq(Entry(KS, RS)) /\ Len(W) <= Len(c.list)
      /\ \A j \in 1..Len(W) : /\ W[j].key \notin TrackedKeys(c, t)
                              /\ \E i \in 1..Len(c.list) : W[j] = c.list[i]
      /\ \A i, j \in 1..Len(W) : W[i].key = W[j].key => i = j
  <2> DEFINE K == TrackedKeys(c, t)
             list == c.list
  <2>1. list \in Seq(Entry(KS, RS)) /\ \A i, j \in 1..Len(list) : list[i].key = list[j].key => i = j
    BY <1>1
  <2> HIDE DEF K, list
  <2> DEFINE V == Without(list, K)
  <2>2. /\ V \in Seq(Entry(KS, RS)) /\ Len(V) <= Len(list)
        /\ \A j \in 1..Len(V) : V[j].key \notin K /\ \E i \in 1..Len(list) : V[j] = list[i]
        /\ \A i, j \in 1..Len(V) : V[i].key = V[j].key => i = j
    BY <2>1, WithoutOk
  <2> QED BY <2>2 DEF K, list
<1>3. g.list = W /\ g.entries = E /\ g = [list |-> W, entries |-> E]
  BY DEF InvalidateTable
<1>4. /\ E \in Seq(Tracks(KS))
      /\ \A i \in J : \E j \in 1..Len(E) : E[j] = c.entries[i]
  <2>1. J \in SUBSET (1..Len(c.entries))
    OBVIOUS
  <2> HIDE DEF J
  <2> QED BY <1>1, <2>1, KeptElements
<1> HIDE DEF W, E, g
<1>5. ASSUME NEW i \in 1..Len(W)
      PROVE  /\ TrackedTable(W[i].key) # t
             /\ \E j \in 1..Len(E) : E[j] = <<TrackedTable(W[i].key), W[i].key>>
  <2> DEFINE key == W[i].key
  <2>1. PICK k \in 1..Len(c.list) : W[i] = c.list[k]
    BY <1>2
  <2>2. PICK j \in 1..Len(c.entries) : c.entries[j] = <<TrackedTable(key), key>>
    BY <1>1, <2>1
  <2> HIDE DEF key
  <2>3. c.entries[j][1] = TrackedTable(key) /\ c.entries[j][2] = key
    BY <2>2
  <2>4. TrackedTable(key) # t
    <3> SUFFICES ASSUME TrackedTable(key) = t PROVE FALSE
      OBVIOUS
    <3>1. key \in TrackedKeys(c, t)
      BY <2>3 DEF TrackedKeys
    <3> QED BY <1>2, <3>1 DEF key
  <2>5. j \in J
    BY <2>3, <2>4
  <2> QED BY <1>4, <2>2, <2>4, <2>5 DEF key
<1>6. CacheOk(g, KS, RS)
  <2>1. Len(W) <= Capacity
    <3>1. Len(W) \in Nat /\ Len(c.list) \in Nat /\ Capacity \in Nat
      BY <1>1, <1>2, CacheAssumption
    <3> QED BY <1>1, <1>2, <3>1
  <2>2. g \in [list : Seq(Entry(KS, RS)), entries : Seq(Tracks(KS))]
    BY <1>2, <1>3, <1>4
  <2>3. \A i, j \in 1..Len(g.list) : g.list[i].key = g.list[j].key => i = j
    BY <1>2, <1>3
  <2>4. \A i \in 1..Len(g.list) : \E j \in 1..Len(g.entries) :
          g.entries[j] = <<TrackedTable(g.list[i].key), g.list[i].key>>
    BY <1>3, <1>5
  <2> QED BY <1>3, <2>1, <2>2, <2>3, <2>4 DEF CacheOk
<1> QED BY <1>2, <1>3, <1>5, <1>6 DEF g

(* Every key of the list is tracked, and the list has as many keys as      *)
(* entries.                                                                *)
LEMMA CacheOkTracked ==
  ASSUME NEW KS, NEW RS, NEW c, CacheOk(c, KS, RS)
  PROVE  /\ \A i \in 1..Len(c.list) :
              c.list[i].key \in TrackedKeys(c, TrackedTable(c.list[i].key))
         /\ Len(c.list) <= Capacity /\ Cardinality(Cached(c)) = Len(c.list)
<1> DEFINE list == c.list
           n == Len(list)
           C == Cached(c)
           f == [i \in 1..n |-> list[i].key]
<1>1. /\ list \in Seq(Entry(KS, RS)) /\ n <= Capacity
      /\ \A i, j \in 1..n : list[i].key = list[j].key => i = j
      /\ \A i \in 1..n : \E j \in 1..Len(c.entries) :
           c.entries[j] = <<TrackedTable(list[i].key), list[i].key>>
  BY DEF CacheOk
<1>2. ASSUME NEW i \in 1..n
      PROVE  list[i].key \in TrackedKeys(c, TrackedTable(list[i].key))
  <2> DEFINE key == list[i].key
  <2>1. PICK j \in 1..Len(c.entries) : c.entries[j] = <<TrackedTable(key), key>>
    BY <1>1
  <2> HIDE DEF key
  <2>2. c.entries[j][1] = TrackedTable(key) /\ c.entries[j][2] = key
    BY <2>1
  <2>3. key \in TrackedKeys(c, TrackedTable(key))
    BY <2>2 DEF TrackedKeys
  <2> QED BY <2>3 DEF key
<1>3. C = {list[i].key : i \in 1..n}
  BY DEF Cached
<1> HIDE DEF C, list
<1>4. f \in Surjection(1..n, C) /\ f \in Injection(1..n, C)
  <2>1. f \in [1..n -> C] /\ \A x \in C : \E i \in 1..n : f[i] = x
    BY <1>3
  <2>2. \A i, j \in 1..n : f[i] = f[j] => i = j
    BY <1>1
  <2> HIDE DEF f, n
  <2> QED BY <2>1, <2>2 DEF Surjection, Injection, IsInjective
<1>5. n \in Nat
  BY <1>1
<1> HIDE DEF f, n
<1>6. IsFiniteSet(1..n) /\ Cardinality(1..n) = n
  <2>1. /\ 1 \in Int /\ n \in Int
        /\ n - 1 + 1 = n /\ (1 > n => n = 0)
    BY <1>5
  <2>2. IsFiniteSet(1..n) /\ Cardinality(1..n) = IF 1 > n THEN 0 ELSE n - 1 + 1
    BY <2>1, FS_Interval
  <2> QED BY <2>1, <2>2
<1>7. Cardinality(C) = n
  BY <1>4, <1>6, FS_Surjection
<1> QED BY <1>1, <1>2, <1>7 DEF C, list, n

-----------------------------------------------------------------------------
(* The executor                                                            *)

Results == {Answer(q, l, r) : q \in Queries, l \in Seq(Rows), r \in Seq(Rows)}
CacheInv(c) == CacheOk(c, Keys, Results)

Selecting == {"lookup", "scan", "scanRight", "indexing", "put"}
Inserting == {"open", "insert", "write", "invalidate"}
Labels == {"idle", "create", "reply"} \union Selecting \union Inserting

(* The values of the variables, and the statement a worker has where it    *)
(* is.                                                                     *)
Shape ==
  /\ tables \in Tables
  /\ \A t \in TableNames : ~tables[t].exists => tables[t].rows = <<>>
  /\ pc \in [Workers -> Labels]
  /\ stmt \in [Workers -> Requests \union {NoStmt}]
  /\ done \in [Workers -> Nat]
  /\ left \in [Workers -> Seq(Rows)] /\ right \in [Workers -> Seq(Rows)]
  /\ answer \in [Workers -> [ok : BOOLEAN, rows : Results \union {<<>>}]]
  /\ called \in [Workers -> Tables]
  /\ alone \in [Workers -> BOOLEAN]

Place(w) ==
  /\ pc[w] = "idle" => done[w] = 0 /\ right[w] = <<>>
  /\ pc[w] = "create" => stmt[w] \in CreateStmt /\ right[w] = <<>>
  /\ pc[w] \in Selecting =>
       /\ \E q \in Queries : stmt[w] = Select(q)
       /\ pc[w] # "put" => right[w] = <<>>
       /\ pc[w] = "scanRight" => Query(w).join # NoTable
  /\ pc[w] \in Inserting => stmt[w] \in InsertStmt
  /\ pc[w] = "open" => done[w] = 0
  /\ pc[w] \in {"insert", "write"} => done[w] < Len(stmt[w].batch)
  /\ pc[w] \in {"insert", "write", "invalidate"} => tables[stmt[w].table].exists
  /\ pc[w] = "write" => stmt[w].batch[done[w] + 1] # BadRow
  /\ pc[w] = "reply" => stmt[w] \in Requests
  /\ pc[w] = "reply" /\ stmt[w].op # "select" => answer[w].rows = <<>>

(* The tables after n rows of the batch of an INSERT.                      *)
After(d, s, n) == [d EXCEPT ![s.table].rows = @ \o SubSeq(s.batch, 1, n)]

(* A statement that runs alone: the rows it has inserted so far are those  *)
(* it was given, and nothing else changed.                                 *)
Effect(w) ==
  alone[w] =>
    /\ \A v \in Workers \ {w} : pc[v] = "idle"
    /\ pc[w] # "idle"
    /\ pc[w] \in Selecting \union {"create", "open"} => tables = called[w]
    /\ pc[w] \in {"insert", "write", "invalidate"} =>
         /\ called[w][stmt[w].table].exists
         /\ tables = After(called[w], stmt[w], done[w])
         /\ \A i \in 1..done[w] : stmt[w].batch[i] # BadRow
    /\ pc[w] = "invalidate" => done[w] = Len(stmt[w].batch)
    /\ pc[w] = "reply" => tables = ExecSql(called[w], stmt[w])

Inv == Shape /\ CacheInv(cache) /\ \A w \in Workers : Place(w) /\ Effect(w)

-----------------------------------------------------------------------------
(* The steps.                                                              *)

(* The row WriteRow inserts is one that passed validation.                 *)
LEMMA WrittenRow ==
  ASSUME Shape, NEW w \in Workers, Place(w), pc[w] = "write"
  PROVE  /\ stmt[w] \in InsertStmt /\ stmt[w].table \in TableNames
         /\ stmt[w].batch \in Seq(Rows \union {BadRow})
         /\ done[w] \in Nat /\ done[w] + 1 \in 1..Len(stmt[w].batch)
         /\ stmt[w].batch[done[w] + 1] \in Rows
<1>1. stmt[w] \in InsertStmt /\ done[w] < Len(stmt[w].batch)
  BY DEF Place, Inserting
<1>2. stmt[w].table \in TableNames /\ stmt[w].batch \in Seq(Rows \union {BadRow})
  BY <1>1, StatementAssumption DEF InsertStmt
<1>3. done[w] \in Nat
  BY DEF Shape
<1>4. done[w] + 1 \in 1..Len(stmt[w].batch)
  <2>1. Len(stmt[w].batch) \in Nat
    BY <1>2
  <2> QED BY <1>1, <1>3, <2>1
<1>5. stmt[w].batch[done[w] + 1] # BadRow
  BY DEF Place
<1>6. stmt[w].batch[done[w] + 1] \in Rows \union {BadRow}
  BY <1>2, <1>4
<1> QED BY <1>1, <1>2, <1>3, <1>4, <1>5, <1>6

(* A table that exists stays, and either keeps its rows or gets one more.  *)
Grown(t) ==
  /\ tables[t].exists => tables'[t].exists
  /\ \/ tables'[t].rows = tables[t].rows
     \/ \E e \in Rows : tables'[t].rows = Append(tables[t].rows, e)

TablesOk(d) ==
  /\ d \in Tables
  /\ \A t \in TableNames : ~d[t].exists => d[t].rows = <<>>

(* CREATE adds an empty table or nothing.                                  *)
LEMMA CreateTables ==
  ASSUME Shape, NEW w \in Workers, Place(w), Create(w)
  PROVE  /\ TablesOk(tables')
         /\ \A t \in TableNames : tables'[t].rows = tables[t].rows /\ Grown(t)
<1>1. stmt[w].table \in TableNames
  BY DEF Create, Place, CreateStmt
<1>2. TablesOk(tables)
  BY DEF Shape, TablesOk
<1>3. CASE tables[stmt[w].table].exists \/ ~stmt[w].typed
  BY <1>2, <1>3 DEF Create, ExecCreate, Grown
<1>4. CASE ~(tables[stmt[w].table].exists \/ ~stmt[w].typed)
  <2> DEFINE new == [exists |-> TRUE, rows |-> <<>>]
  <2>1. tables' = [tables EXCEPT ![stmt[w].table] = new]
    BY <1>4 DEF Create, ExecCreate
  <2>2. new \in [exists : BOOLEAN, rows : Seq(Rows)] /\ new.exists /\ new.rows = <<>>
    OBVIOUS
  <2>3. tables[stmt[w].table].rows = new.rows
    BY <1>1, <1>2, <1>4 DEF TablesOk
  <2> HIDE DEF new
  <2>4. tables \in [TableNames -> [exists : BOOLEAN, rows : Seq(Rows)]]
    BY <1>2 DEF TablesOk, Tables
  <2>5. tables' \in Tables
    BY <1>1, <2>1, <2>2, <2>4 DEF Tables
  <2>6. ASSUME NEW t \in TableNames
        PROVE  tables'[t].rows = tables[t].rows /\ (tables'[t].exists \/ tables'[t] = tables[t])
    <3>1. CASE t = stmt[w].table
      BY <2>1, <2>2, <2>3, <2>4, <3>1
    <3>2. CASE t # stmt[w].table
      BY <2>1, <2>4, <3>2
    <3> QED BY <3>1, <3>2
  <2>7. \A t \in TableNames : ~tables'[t].exists => tables'[t].rows = <<>>
    BY <1>2, <2>6 DEF TablesOk
  <2>8. \A t \in TableNames : Grown(t)
    BY <2>6 DEF Grown
  <2> QED BY <2>5, <2>6, <2>7, <2>8 DEF TablesOk
<1> QED BY <1>3, <1>4

(* WriteRow appends one row to one table.                                  *)
LEMMA WriteTables ==
  ASSUME Shape, NEW w \in Workers, Place(w), WriteRow(w)
  PROVE  TablesOk(tables') /\ \A t \in TableNames : Grown(t)
<1> DEFINE u == stmt[w].table
           e == stmt[w].batch[done[w] + 1]
<1>1. u \in TableNames /\ e \in Rows
  BY WrittenRow DEF WriteRow
<1>2. tables \in [TableNames -> [exists : BOOLEAN, rows : Seq(Rows)]]
  BY DEF Shape, Tables
<1>3. tables' = [tables EXCEPT ![u].rows = Append(@, e)]
  BY DEF WriteRow
<1>4. tables[u].exists
  BY DEF WriteRow, Place
<1> HIDE DEF u, e
<1>5. tables' \in [TableNames -> [exists : BOOLEAN, rows : Seq(Rows)]]
  <2> DEFINE new == [tables[u] EXCEPT !.rows = Append(@, e)]
  <2>1. tables[u] \in [exists : BOOLEAN, rows : Seq(Rows)]
    BY <1>1, <1>2
  <2>2. Append(tables[u].rows, e) \in Seq(Rows)
    BY <1>1, <2>1
  <2>3. new \in [exists : BOOLEAN, rows : Seq(Rows)]
    BY <2>1, <2>2
  <2>4. tables' = [tables EXCEPT ![u] = new]
    BY <1>3
  <2> HIDE DEF new
  <2> QED BY <1>2, <2>3, <2>4
<1>6. tables'[u].rows = Append(tables[u].rows, e) /\ tables'[u].exists
  BY <1>1, <1>2, <1>3, <1>4
<1>7. \A t \in TableNames \ {u} : tables'[t] = tables[t]
  BY <1>1, <1>2, <1>3
<1>8. \A t \in TableNames : ~tables'[t].exists => tables'[t].rows = <<>>
  BY <1>6, <1>7 DEF Shape
<1>9. ASSUME NEW t \in TableNames PROVE Grown(t)
  <2>1. CASE t = u
    BY <1>1, <1>6, <2>1 DEF Grown
  <2>2. CASE t # u
    BY <1>7, <2>2 DEF Grown
  <2> QED BY <2>1, <2>2
<1> QED BY <1>5, <1>8, <1>9 DEF TablesOk, Tables

(* What every step but the two above does to the tables.                   *)
LEMMA SameTables ==
  ASSUME Shape, UNCHANGED tables
  PROVE  TablesOk(tables') /\ \A t \in TableNames : Grown(t)
BY DEF Shape, TablesOk, Grown

(* Every step leaves the tables in order and takes nothing away.           *)
LEMMA TablesStep ==
  ASSUME Shape, \A w \in Workers : Place(w), [Next]_vars
  PROVE  TablesOk(tables') /\ \A t \in TableNames : Grown(t)
<1>1. CASE UNCHANGED tables
  BY <1>1, SameTables
<1>2. ASSUME NEW w \in Workers, Create(w)
      PROVE  TablesOk(tables') /\ \A t \in TableNames : Grown(t)
  BY <1>2, CreateTables
<1>3. ASSUME NEW w \in Workers, WriteRow(w)
      PROVE  TablesOk(tables') /\ \A t \in TableNames : Grown(t)
  BY <1>3, WriteTables
<1>4. \/ UNCHANGED tables
      \/ \E w \in Workers : Create(w) \/ WriteRow(w)
  <2>1. CASE UNCHANGED vars
    BY <2>1 DEF vars
  <2>2. ASSUME NEW w \in Workers, Step(w), ~Create(w), ~WriteRow(w) PROVE UNCHANGED tables
    BY <2>2 DEF Step, OpenTable, RejectRow, LockRow, Invalidate, LookUp, ResolveFails, ScanLeft,
                ScanRight, EnterIndex, LeaveIndex, PutResult, Return
  <2>3. ASSUME NEW w \in Workers, NEW s \in Requests, Arrive(w, s) PROVE UNCHANGED tables
    BY <2>3 DEF Arrive
  <2> QED BY <2>1, <2>2, <2>3 DEF Next
<1> QED BY <1>1, <1>2, <1>3, <1>4

(* A result the cache holds, or that is computed from two sequences of     *)
(* rows.                                                                   *)
LEMMA LookedUp ==
  ASSUME CacheInv(cache), NEW key \in Cached(cache)
  PROVE  Lookup(cache, key) \in Results
BY PositionOk DEF Lookup, Entry, CacheInv

(* What a SELECT computes, and its key.                                    *)
LEMMA Computed ==
  ASSUME NEW q \in Queries, NEW l \in Seq(Rows), NEW r \in Seq(Rows)
  PROVE  Answer(q, l, r) \in Results /\ normalize(q) \in Keys
BY DEF Results, Keys

(* The query of a worker that runs a SELECT.                               *)
LEMMA QueryOf ==
  ASSUME NEW w \in Workers, Place(w), pc[w] \in Selecting
  PROVE  /\ Query(w) \in Queries /\ stmt[w] = Select(Query(w)) /\ stmt[w].op = "select"
         /\ Query(w).from \in TableNames /\ Query(w).join \in TableNames \union {NoTable}
<1>1. PICK q \in Queries : stmt[w] = Select(q)
  BY DEF Place
<1>2. Query(w) = q /\ stmt[w].op = "select"
  <2>1. Select(q).query = q /\ Select(q).op = "select"
    BY DEF Select
  <2> QED BY <1>1, <2>1 DEF Query
<1>3. q.from \in TableNames /\ q.join \in TableNames \union {NoTable}
  BY ExecutorAssumption
<1> QED BY <1>1, <1>2, <1>3

Replies == [ok : BOOLEAN, rows : Results \union {<<>>}]

(* The replies the executor makes.                                         *)
LEMMA ReplyTypes ==
  /\ Error \in Replies /\ Success(<<>>) \in Replies
  /\ \A rows \in Results : Success(rows) \in Replies
BY DEF Error, Success, Replies

(* Whatever a read of the index finds, it is rows.                         *)
LEMMA IndexReadsRows ==
  ASSUME NEW w \in Workers, tables[Query(w).from].rows \in Seq(Rows)
  PROVE  IndexReads(w) \subseteq Seq(Rows)
<1> DEFINE rows == tables[Query(w).from].rows
<1>1. \A I \in SUBSET (1..Len(rows)) : Kept(rows, I) \in Seq(Rows)
  BY KeptPositions
<1>2. IndexReads(w) \subseteq {Kept(rows, I) : I \in SUBSET (1..Len(rows))} \union {rows}
  BY DEF IndexReads
<1> QED BY <1>1, <1>2

(* The types hold after every step.                                        *)
LEMMA ShapeStep ==
  ASSUME Shape, CacheInv(cache), \A w \in Workers : Place(w), [Next]_vars
  PROVE  Shape'
<1>1. TablesOk(tables')
  BY TablesStep
<1>2. SUFFICES /\ pc' \in [Workers -> Labels] /\ stmt' \in [Workers -> Requests \union {NoStmt}]
               /\ done' \in [Workers -> Nat]
               /\ left' \in [Workers -> Seq(Rows)] /\ right' \in [Workers -> Seq(Rows)]
               /\ answer' \in [Workers -> Replies]
               /\ called' \in [Workers -> Tables] /\ alone' \in [Workers -> BOOLEAN]
  BY <1>1 DEF Shape, TablesOk, Replies
<1>3. /\ pc \in [Workers -> Labels] /\ stmt \in [Workers -> Requests \union {NoStmt}]
      /\ done \in [Workers -> Nat]
      /\ left \in [Workers -> Seq(Rows)] /\ right \in [Workers -> Seq(Rows)]
      /\ answer \in [Workers -> Replies]
      /\ called \in [Workers -> Tables] /\ alone \in [Workers -> BOOLEAN]
      /\ tables \in Tables
  BY DEF Shape, Replies
<1>4. CASE UNCHANGED vars
  BY <1>3, <1>4 DEF vars
<1>5. ASSUME NEW w \in Workers, NEW s \in Requests, Arrive(w, s)
      PROVE  /\ pc' \in [Workers -> Labels] /\ stmt' \in [Workers -> Requests \union {NoStmt}]
             /\ called' \in [Workers -> Tables] /\ alone' \in [Workers -> BOOLEAN]
             /\ answer' \in [Workers -> Replies] /\ UNCHANGED <<done, left, right>>
  <2>1. FirstStep(s) \in Labels
    BY DEF FirstStep, Labels, Selecting, Inserting
  <2>2. pc' \in [Workers -> Labels]
    BY <1>3, <1>5, <2>1 DEF Arrive, Goto
  <2>3. stmt' \in [Workers -> Requests \union {NoStmt}]
    BY <1>3, <1>5 DEF Arrive
  <2>4. called' \in [Workers -> Tables]
    BY <1>3, <1>5 DEF Arrive
  <2>5. alone' \in [Workers -> BOOLEAN]
    BY <1>5 DEF Arrive
  <2>6. answer' \in [Workers -> Replies]
    BY <1>3, <1>5, ReplyTypes DEF Arrive
  <2> QED BY <1>5, <2>2, <2>3, <2>4, <2>5, <2>6 DEF Arrive
<1>6. ASSUME NEW w \in Workers, NEW r \in Replies, Reply(w, r)
      PROVE  pc' \in [Workers -> Labels] /\ answer' \in [Workers -> Replies]
  BY <1>3, <1>6 DEF Reply, Goto, Labels
<1>7. ASSUME NEW w \in Workers, NEW l \in Labels, Goto(w, l) PROVE pc' \in [Workers -> Labels]
  BY <1>3, <1>7 DEF Goto
<1>8. ASSUME NEW w \in Workers, Create(w) \/ RejectRow(w) \/ Invalidate(w) \/ ResolveFails(w)
      PROVE  /\ pc' \in [Workers -> Labels] /\ answer' \in [Workers -> Replies]
             /\ UNCHANGED <<stmt, done, left, right, called, alone>>
  <2>1. Reply(w, Error) \/ Reply(w, Success(<<>>))
    BY <1>8 DEF Create, RejectRow, Invalidate, ResolveFails
  <2>2. pc' \in [Workers -> Labels] /\ answer' \in [Workers -> Replies]
    BY <1>6, <2>1, ReplyTypes
  <2> QED BY <1>8, <2>2 DEF Create, RejectRow, Invalidate, ResolveFails
<1>9. ASSUME NEW w \in Workers, OpenTable(w) \/ LockRow(w) \/ EnterIndex(w)
      PROVE  /\ pc' \in [Workers -> Labels] /\ answer' \in [Workers -> Replies]
             /\ UNCHANGED <<stmt, done, left, right, called, alone>>
  <2>1. \/ Reply(w, Error)
        \/ (Goto(w, "insert") \/ Goto(w, "write") \/ Goto(w, "indexing")) /\ UNCHANGED answer
    BY <1>9 DEF OpenTable, LockRow, EnterIndex
  <2>2. "insert" \in Labels /\ "write" \in Labels /\ "indexing" \in Labels
    BY DEF Labels, Selecting, Inserting
  <2>3. pc' \in [Workers -> Labels] /\ answer' \in [Workers -> Replies]
    BY <1>3, <1>6, <1>7, <2>1, <2>2, ReplyTypes
  <2> QED BY <1>9, <2>3 DEF OpenTable, LockRow, EnterIndex
<1>10. ASSUME NEW w \in Workers, WriteRow(w)
       PROVE  /\ pc' \in [Workers -> Labels] /\ done' \in [Workers -> Nat]
              /\ UNCHANGED <<stmt, left, right, answer, called, alone>>
  <2>1. "insert" \in Labels /\ "invalidate" \in Labels
    BY DEF Labels, Inserting
  <2>2. pc' \in [Workers -> Labels]
    BY <1>3, <1>10, <2>1 DEF WriteRow, Goto
  <2>3. done' \in [Workers -> Nat]
    BY <1>3, <1>10 DEF WriteRow
  <2> QED BY <1>10, <2>2, <2>3 DEF WriteRow
<1>11. ASSUME NEW w \in Workers, LookUp(w)
       PROVE  /\ pc' \in [Workers -> Labels] /\ answer' \in [Workers -> Replies]
              /\ UNCHANGED <<stmt, done, left, right, called, alone>>
  <2> DEFINE key == normalize(Query(w))
  <2>1. \/ key \in Cached(cache) /\ Reply(w, Success(Lookup(cache, key)))
        \/ Goto(w, "scan") /\ UNCHANGED answer
    BY <1>11 DEF LookUp
  <2> HIDE DEF key
  <2>2. key \in Cached(cache) => Success(Lookup(cache, key)) \in Replies
    BY LookedUp, ReplyTypes
  <2>3. "scan" \in Labels
    BY DEF Labels, Selecting
  <2>4. pc' \in [Workers -> Labels] /\ answer' \in [Workers -> Replies]
    BY <1>3, <1>6, <1>7, <2>1, <2>2, <2>3
  <2> QED BY <1>11, <2>4 DEF LookUp
<1>12. ASSUME NEW w \in Workers, ScanLeft(w) \/ ScanRight(w) \/ LeaveIndex(w)
       PROVE  /\ pc' \in [Workers -> Labels] /\ left' \in [Workers -> Seq(Rows)]
              /\ right' \in [Workers -> Seq(Rows)]
              /\ UNCHANGED <<stmt, done, answer, called, alone>>
  <2>1. pc[w] \in Selecting
    BY <1>12 DEF ScanLeft, ScanRight, LeaveIndex, Selecting
  <2>2. Query(w).from \in TableNames /\ Query(w).join \in TableNames \union {NoTable}
    BY <2>1, QueryOf
  <2>3. "put" \in Labels /\ "scanRight" \in Labels
    BY DEF Labels, Selecting
  <2>4. \A t \in TableNames : tables[t].rows \in Seq(Rows)
    BY <1>3 DEF Tables
  <2>5. Goto(w, "put") \/ Goto(w, "scanRight")
    BY <1>12 DEF ScanLeft, ScanRight, LeaveIndex
  <2>6. pc' \in [Workers -> Labels]
    BY <1>7, <2>3, <2>5
  <2>7. left' \in [Workers -> Seq(Rows)]
    <3>1. CASE LeaveIndex(w)
      <4>1. PICK rows \in IndexReads(w) : left' = [left EXCEPT ![w] = rows]
        BY <3>1 DEF LeaveIndex
      <4>2. IndexReads(w) \subseteq Seq(Rows)
        BY <2>2, <2>4, IndexReadsRows
      <4>3. rows \in Seq(Rows)
        BY <4>1, <4>2
      <4> QED BY <1>3, <4>1, <4>3
    <3>2. CASE ScanLeft(w) \/ ScanRight(w)
      BY <1>3, <2>2, <2>4, <3>2 DEF ScanLeft, ScanRight
    <3> QED BY <1>12, <3>1, <3>2
  <2>8. ScanRight(w) => Query(w).join # NoTable
    BY DEF ScanRight, Place, Selecting
  <2>9. right' \in [Workers -> Seq(Rows)]
    BY <1>3, <1>12, <2>2, <2>4, <2>8 DEF ScanLeft, ScanRight, LeaveIndex
  <2> QED BY <1>12, <2>6, <2>7, <2>9 DEF ScanLeft, ScanRight, LeaveIndex
<1>13. ASSUME NEW w \in Workers, PutResult(w)
       PROVE  /\ pc' \in [Workers -> Labels] /\ answer' \in [Workers -> Replies]
              /\ UNCHANGED <<stmt, done, left, right, called, alone>>
  <2> DEFINE rows == Answer(Query(w), left[w], right[w])
  <2>1. Query(w) \in Queries
    BY <1>13, QueryOf DEF PutResult, Selecting
  <2>2. rows \in Results
    BY <1>3, <2>1, Computed
  <2>3. Reply(w, Success(rows))
    BY <1>13 DEF PutResult
  <2> HIDE DEF rows
  <2>4. pc' \in [Workers -> Labels] /\ answer' \in [Workers -> Replies]
    BY <1>6, <2>2, <2>3, ReplyTypes
  <2> QED BY <1>13, <2>4 DEF PutResult
<1>14. ASSUME NEW w \in Workers, Return(w)
       PROVE  /\ pc' \in [Workers -> Labels] /\ stmt' \in [Workers -> Requests \union {NoStmt}]
              /\ done' \in [Workers -> Nat]
              /\ left' \in [Workers -> Seq(Rows)] /\ right' \in [Workers -> Seq(Rows)]
              /\ answer' \in [Workers -> Replies]
              /\ called' \in [Workers -> Tables] /\ alone' \in [Workers -> BOOLEAN]
  <2>1. pc' \in [Workers -> Labels]
    BY <1>3, <1>14 DEF Return, Goto, Labels
  <2>2. stmt' \in [Workers -> Requests \union {NoStmt}] /\ done' \in [Workers -> Nat]
    BY <1>3, <1>14 DEF Return
  <2>3. left' \in [Workers -> Seq(Rows)] /\ right' \in [Workers -> Seq(Rows)]
    BY <1>3, <1>14 DEF Return
  <2>4. answer' \in [Workers -> Replies]
    BY <1>3, <1>14, ReplyTypes DEF Return
  <2>5. called' \in [Workers -> Tables]
    <3>1. NoTables \in Tables
      BY DEF NoTables, Tables
    <3> QED BY <1>3, <1>14, <3>1 DEF Return
  <2>6. alone' \in [Workers -> BOOLEAN]
    BY <1>3, <1>14 DEF Return
  <2> QED BY <2>1, <2>2, <2>3, <2>4, <2>5, <2>6
<1> DEFINE Ok == /\ pc' \in [Workers -> Labels] /\ stmt' \in [Workers -> Requests \union {NoStmt}]
                 /\ done' \in [Workers -> Nat]
                 /\ left' \in [Workers -> Seq(Rows)] /\ right' \in [Workers -> Seq(Rows)]
                 /\ answer' \in [Workers -> Replies]
                 /\ called' \in [Workers -> Tables] /\ alone' \in [Workers -> BOOLEAN]
<1>15. ASSUME NEW w \in Workers, Step(w) PROVE Ok
  <2>1. CASE Create(w) \/ RejectRow(w) \/ Invalidate(w) \/ ResolveFails(w)
    BY <1>3, <1>8, <2>1
  <2>2. CASE OpenTable(w) \/ LockRow(w) \/ EnterIndex(w)
    BY <1>3, <1>9, <2>2
  <2>3. CASE WriteRow(w)
    BY <1>3, <1>10, <2>3
  <2>4. CASE LookUp(w)
    BY <1>3, <1>11, <2>4
  <2>5. CASE ScanLeft(w) \/ ScanRight(w) \/ LeaveIndex(w)
    BY <1>3, <1>12, <2>5
  <2>6. CASE PutResult(w)
    BY <1>3, <1>13, <2>6
  <2>7. CASE Return(w)
    BY <1>14, <2>7
  <2> HIDE DEF Ok
  <2> QED BY <1>15, <2>1, <2>2, <2>3, <2>4, <2>5, <2>6, <2>7 DEF Step
<1>16. ASSUME NEW w \in Workers, NEW s \in Requests, Arrive(w, s) PROVE Ok
  BY <1>3, <1>5, <1>16
<1>17. UNCHANGED vars => Ok
  BY <1>4
<1>18. Ok
  <2> HIDE DEF Ok
  <2> QED BY <1>15, <1>16, <1>17 DEF Next
<1> QED BY <1>18

(* The steps that change the cache.                                        *)
LEMMA CacheMoves ==
  ASSUME [Next]_vars
  PROVE  \/ UNCHANGED cache
         \/ \E w \in Workers : Invalidate(w) \/ LookUp(w) \/ PutResult(w)
<1>1. CASE UNCHANGED vars
  BY <1>1 DEF vars
<1>2. ASSUME NEW w \in Workers, Step(w), ~Invalidate(w), ~LookUp(w), ~PutResult(w)
      PROVE  UNCHANGED cache
  BY <1>2 DEF Step, Create, OpenTable, RejectRow, LockRow, WriteRow, ResolveFails, ScanLeft,
              ScanRight, EnterIndex, LeaveIndex, Return
<1>3. ASSUME NEW w \in Workers, NEW s \in Requests, Arrive(w, s) PROVE UNCHANGED cache
  BY <1>3 DEF Arrive
<1> QED BY <1>1, <1>2, <1>3 DEF Next

(* The cache stays in order.                                               *)
LEMMA CacheStep ==
  ASSUME Shape, CacheInv(cache), \A w \in Workers : Place(w), [Next]_vars
  PROVE  CacheInv(cache)'
<1>1. ASSUME NEW w \in Workers, Invalidate(w) PROVE CacheInv(cache')
  BY <1>1, InvalidateOk DEF Invalidate, CacheInv
<1>2. ASSUME NEW w \in Workers, LookUp(w) PROVE CacheInv(cache')
  <2> DEFINE key == normalize(Query(w))
  <2>1. \/ key \in Cached(cache) /\ cache' = Get(cache, key)
        \/ cache' = cache
    BY <1>2 DEF LookUp
  <2> HIDE DEF key
  <2> QED BY <2>1, GetOk DEF CacheInv
<1>3. ASSUME NEW w \in Workers, PutResult(w) PROVE CacheInv(cache')
  <2> DEFINE key == normalize(Query(w))
             rows == Answer(Query(w), left[w], right[w])
  <2>1. Query(w) \in Queries
    BY <1>3, QueryOf DEF PutResult, Selecting
  <2>2. left[w] \in Seq(Rows) /\ right[w] \in Seq(Rows)
    BY DEF Shape
  <2>3. key \in Keys /\ rows \in Results
    BY <2>1, <2>2, Computed
  <2>4. cache' = Put(cache, key, rows)
    BY <1>3 DEF PutResult
  <2> HIDE DEF key, rows
  <2> QED BY <2>3, <2>4, PutOk DEF CacheInv
<1>4. \/ UNCHANGED cache
      \/ \E w \in Workers : Invalidate(w) \/ LookUp(w) \/ PutResult(w)
  BY CacheMoves
<1>5. CacheInv(cache')
  BY <1>1, <1>2, <1>3, <1>4
<1> QED BY <1>5 DEF CacheInv, CacheOk

(* What a step of another worker leaves alone.                             *)
Same(v) ==
  /\ pc'[v] = pc[v] /\ stmt'[v] = stmt[v] /\ done'[v] = done[v]
  /\ left'[v] = left[v] /\ right'[v] = right[v]
  /\ answer'[v] = answer[v] /\ called'[v] = called[v]
  /\ (alone'[v] => alone[v])

(* A step of w.                                                            *)
Move(w) == Step(w) \/ \E s \in Requests : Arrive(w, s)

(* A step of one worker leaves the state of the others alone.              *)
LEMMA OnlyOwn ==
  ASSUME Shape, NEW w \in Workers, Move(w), NEW v \in Workers, v # w
  PROVE  Same(v)
<1>1. /\ pc \in [Workers -> Labels] /\ stmt \in [Workers -> Requests \union {NoStmt}]
      /\ done \in [Workers -> Nat]
      /\ left \in [Workers -> Seq(Rows)] /\ right \in [Workers -> Seq(Rows)]
      /\ answer \in [Workers -> [ok : BOOLEAN, rows : Results \union {<<>>}]]
      /\ called \in [Workers -> Tables] /\ alone \in [Workers -> BOOLEAN]
  BY DEF Shape
<1>2. ASSUME NEW s \in Requests, Arrive(w, s) PROVE Same(v)
  BY <1>1, <1>2 DEF Arrive, Goto, Same
<1>3. CASE Create(w) \/ RejectRow(w) \/ Invalidate(w) \/ ResolveFails(w)
  BY <1>1, <1>3 DEF Create, RejectRow, Invalidate, ResolveFails, Reply, Goto, Same
<1>4. CASE OpenTable(w) \/ LockRow(w) \/ EnterIndex(w)
  BY <1>1, <1>4 DEF OpenTable, LockRow, EnterIndex, Reply, Goto, Same
<1>5. CASE WriteRow(w)
  BY <1>1, <1>5 DEF WriteRow, Goto, Same
<1>6. CASE LookUp(w)
  BY <1>1, <1>6 DEF LookUp, Reply, Goto, Same
<1>7. CASE ScanLeft(w) \/ ScanRight(w) \/ LeaveIndex(w)
  BY <1>1, <1>7 DEF ScanLeft, ScanRight, LeaveIndex, Goto, Same
<1>8. CASE PutResult(w)
  BY <1>1, <1>8 DEF PutResult, Reply, Goto, Same
<1>9. CASE Return(w)
  BY <1>1, <1>9 DEF Return, Goto, Same
<1> QED BY <1>2, <1>3, <1>4, <1>5, <1>6, <1>7, <1>8, <1>9 DEF Move, Step

(* Place holds of the other workers: a table that exists stays.            *)
LEMMA PlaceOther ==
  ASSUME Shape, NEW v \in Workers, Place(v), Same(v), \A t \in TableNames : Grown(t)
  PROVE  Place(v)'
<1>1. /\ pc'[v] = pc[v] /\ stmt'[v] = stmt[v] /\ done'[v] = done[v]
      /\ right'[v] = right[v] /\ answer'[v] = answer[v] /\ Query(v)' = Query(v)
  BY DEF Same, Query
<1>2. pc[v] \in {"insert", "write", "invalidate"} => tables'[stmt[v].table].exists
  <2>1. ASSUME pc[v] \in {"insert", "write", "invalidate"} PROVE stmt[v].table \in TableNames
    BY <2>1 DEF Place, Inserting, InsertStmt
  <2> QED BY <2>1 DEF Place, Grown
<1> QED BY <1>1, <1>2 DEF Place

(* The kinds of statements a worker may get.                               *)
LEMMA Kinds ==
  ASSUME NEW s \in Requests
  PROVE  \/ s \in CreateStmt /\ s.op = "create"
         \/ s \in InsertStmt /\ s.op = "insert" /\ s.table \in TableNames /\ s.batch \in Batches
         \/ s = Malformed /\ s.op = "malformed"
         \/ \E q \in Queries : s = Select(q) /\ s.op = "select"
<1>1. CASE s \in CreateStmt
  BY <1>1 DEF CreateStmt
<1>2. CASE s \in InsertStmt
  BY <1>2 DEF InsertStmt
<1>3. CASE s = Malformed
  BY <1>3 DEF Malformed
<1>4. CASE \E q \in Queries : s = Select(q)
  BY <1>4 DEF Select
<1> QED BY <1>1, <1>2, <1>3, <1>4 DEF Requests

(* Place holds of a worker that takes a statement.                         *)
LEMMA PlaceArrive ==
  ASSUME Shape, NEW w \in Workers, Place(w), NEW s \in Requests, Arrive(w, s)
  PROVE  Place(w)'
<1>1. /\ pc'[w] = FirstStep(s) /\ stmt'[w] = s /\ done'[w] = 0 /\ right'[w] = <<>>
      /\ answer'[w] = Error
  BY DEF Shape, Arrive, Goto, Place
<1>2. Error.rows = <<>>
  BY DEF Error
<1>3. CASE s \in CreateStmt /\ s.op = "create"
  BY <1>1, <1>3 DEF FirstStep, Place, Selecting, Inserting
<1>4. CASE s \in InsertStmt /\ s.op = "insert"
  BY <1>1, <1>4 DEF FirstStep, Place, Selecting, Inserting
<1>5. CASE s = Malformed /\ s.op = "malformed"
  BY <1>1, <1>2, <1>5 DEF FirstStep, Place, Selecting, Inserting
<1>6. CASE \E q \in Queries : s = Select(q) /\ s.op = "select"
  BY <1>1, <1>6 DEF FirstStep, Place, Selecting, Inserting
<1> QED BY <1>3, <1>4, <1>5, <1>6, Kinds

(* A worker that replies to a statement.                                   *)
LEMMA PlaceReply ==
  ASSUME Shape, NEW w \in Workers, Place(w), NEW r, Reply(w, r), UNCHANGED stmt,
         \/ pc[w] = "create" \/ pc[w] \in Selecting \/ pc[w] \in Inserting,
         pc[w] \in Selecting \/ r.rows = <<>>
  PROVE  Place(w)'
<1>1. pc'[w] = "reply" /\ stmt'[w] = stmt[w] /\ answer'[w] = r
  BY DEF Shape, Reply, Goto
<1>2. stmt[w] \in Requests
  BY DEF Place, Requests
<1>3. pc[w] \in Selecting => stmt[w].op = "select"
  BY QueryOf
<1> QED BY <1>1, <1>2, <1>3 DEF Place, Selecting, Inserting

(* Place holds of the worker that takes a step.                            *)
LEMMA PlaceOwn ==
  ASSUME Shape, NEW w \in Workers, Place(w), Step(w), \A t \in TableNames : Grown(t)
  PROVE  Place(w)'
<1>1. Error.rows = <<>> /\ Success(<<>>).rows = <<>>
  BY DEF Error, Success
<1>2. CASE Create(w) \/ RejectRow(w) \/ Invalidate(w) \/ ResolveFails(w)
  <2>1. Reply(w, Error) \/ Reply(w, Success(<<>>))
    BY <1>2 DEF Create, RejectRow, Invalidate, ResolveFails
  <2>2. UNCHANGED stmt /\ (pc[w] = "create" \/ pc[w] \in Selecting \/ pc[w] \in Inserting)
    BY <1>2 DEF Create, RejectRow, Invalidate, ResolveFails, Selecting, Inserting
  <2> QED BY <1>1, <2>1, <2>2, PlaceReply
<1>3. CASE OpenTable(w)
  <2>1. /\ pc[w] = "open" /\ stmt'[w] = stmt[w] /\ done'[w] = 0 /\ stmt[w] \in InsertStmt
        /\ UNCHANGED <<tables, stmt>>
    BY <1>3 DEF OpenTable, Place, Inserting
  <2>2. stmt[w].batch \in Batches /\ Len(stmt[w].batch) > 0
    <3>1. stmt[w].batch \in Batches
      BY <2>1 DEF InsertStmt
    <3>2. stmt[w].batch \in Seq(Rows \union {BadRow}) /\ stmt[w].batch # <<>>
      BY <3>1, StatementAssumption, ExecutorAssumption
    <3> QED BY <3>1, <3>2
  <2>3. CASE tables[stmt[w].table].exists
    <3>1. pc'[w] = "insert"
      BY <1>3, <2>3 DEF OpenTable, Goto, Shape
    <3> QED BY <2>1, <2>2, <2>3, <3>1 DEF Place, Selecting, Inserting
  <2>4. CASE ~tables[stmt[w].table].exists
    <3>1. Reply(w, Error)
      BY <1>3, <2>4 DEF OpenTable
    <3> QED BY <1>1, <2>1, <3>1, PlaceReply DEF Inserting
  <2> QED BY <2>3, <2>4
<1>4. CASE LockRow(w)
  <2>1. /\ pc[w] = "insert" /\ pc'[w] = "write" /\ UNCHANGED <<tables, stmt, done>>
        /\ stmt[w].batch[done[w] + 1] # BadRow
    BY <1>4 DEF LockRow, Goto, Shape
  <2> QED BY <2>1 DEF Place, Selecting, Inserting
<1>5. CASE WriteRow(w)
  <2>1. /\ pc[w] = "write" /\ UNCHANGED stmt /\ done'[w] = done[w] + 1
        /\ pc'[w] = IF done[w] + 1 = Len(stmt[w].batch) THEN "invalidate" ELSE "insert"
    BY <1>5 DEF WriteRow, Goto, Shape
  <2>2. /\ stmt[w] \in InsertStmt /\ stmt[w].table \in TableNames
        /\ stmt[w].batch \in Seq(Rows \union {BadRow})
        /\ done[w] \in Nat /\ done[w] + 1 \in 1..Len(stmt[w].batch)
    BY <2>1, WrittenRow
  <2>3. tables'[stmt[w].table].exists
    BY <2>1, <2>2 DEF Place, Grown
  <2>4. pc'[w] = "insert" => done'[w] < Len(stmt[w].batch)
    <3>1. Len(stmt[w].batch) \in Nat
      BY <2>2
    <3> QED BY <2>1, <2>2, <3>1
  <2> QED BY <2>1, <2>2, <2>3, <2>4 DEF Place, Selecting, Inserting
<1>6. CASE LookUp(w)
  <2> DEFINE rows == Lookup(cache, normalize(Query(w)))
  <2>1. /\ pc[w] = "lookup" /\ UNCHANGED <<stmt, right, done>>
        /\ Reply(w, Success(rows)) \/ Goto(w, "scan")
    BY <1>6 DEF LookUp
  <2> HIDE DEF rows
  <2>2. CASE Reply(w, Success(rows))
    BY <2>1, <2>2, PlaceReply DEF Selecting
  <2>3. CASE Goto(w, "scan")
    <3>1. pc'[w] = "scan"
      BY <2>3 DEF Goto, Shape
    <3> QED BY <2>1, <3>1 DEF Place, Selecting, Inserting
  <2> QED BY <2>1, <2>2, <2>3
<1>7. CASE ScanLeft(w) \/ EnterIndex(w)
  <2>1. /\ pc[w] = "scan" /\ UNCHANGED <<stmt, right, done>>
        /\ \/ pc'[w] = "put" \/ pc'[w] = "indexing"
           \/ pc'[w] = "scanRight" /\ Query(w).join # NoTable
    BY <1>7 DEF ScanLeft, EnterIndex, Goto, Shape
  <2>2. Query(w)' = Query(w)
    BY <2>1 DEF Query
  <2> QED BY <2>1, <2>2 DEF Place, Selecting, Inserting
<1>8. CASE ScanRight(w) \/ LeaveIndex(w)
  <2>1. pc[w] \in Selecting /\ UNCHANGED <<stmt, done>> /\ pc'[w] = "put"
    BY <1>8 DEF ScanRight, LeaveIndex, Goto, Shape, Selecting
  <2> QED BY <2>1 DEF Place, Selecting, Inserting
<1>9. CASE PutResult(w)
  <2> DEFINE rows == Answer(Query(w), left[w], right[w])
  <2>1. pc[w] = "put" /\ UNCHANGED stmt /\ Reply(w, Success(rows))
    BY <1>9 DEF PutResult
  <2> HIDE DEF rows
  <2> QED BY <2>1, PlaceReply DEF Selecting
<1>10. CASE Return(w)
  <2>1. pc'[w] = "idle" /\ done'[w] = 0 /\ right'[w] = <<>>
    BY <1>10 DEF Return, Goto, Shape
  <2> QED BY <2>1 DEF Place, Selecting, Inserting
<1> QED BY <1>2, <1>3, <1>4, <1>5, <1>6, <1>7, <1>8, <1>9, <1>10 DEF Step

(* Place holds after every step.                                           *)
LEMMA PlaceStep ==
  ASSUME Shape, \A w \in Workers : Place(w), [Next]_vars
  PROVE  \A w \in Workers : Place(w)'
<1>1. \A t \in TableNames : Grown(t)
  BY TablesStep
<1>2. CASE UNCHANGED vars
  BY <1>2 DEF vars, Place, Query
<1>3. ASSUME NEW w \in Workers, Move(w), NEW v \in Workers PROVE Place(v)'
  <2>1. CASE v # w
    BY <1>1, <1>3, <2>1, OnlyOwn, PlaceOther
  <2>2. CASE v = w
    BY <1>1, <1>3, <2>2, PlaceArrive, PlaceOwn DEF Move
  <2> QED BY <2>1, <2>2
<1> QED BY <1>2, <1>3 DEF Next, Move

-----------------------------------------------------------------------------
(* The effect of a statement that runs alone.                              *)

(* The rows inserted before the first rejected one are the accepted ones.  *)
LEMMA AcceptedIs ==
  ASSUME NEW S, NEW b \in Seq(S), NEW n \in 0..Len(b),
         \A i \in 1..n : b[i] # BadRow, n < Len(b) => b[n + 1] = BadRow
  PROVE  Accepted(b) = n
<1> DEFINE P(k) == /\ \A i \in 1..k : b[i] # BadRow
                   /\ k < Len(b) => b[k + 1] = BadRow
           m == Accepted(b)
<1>1. Len(b) \in Nat
  OBVIOUS
<1>2. m \in 0..Len(b) /\ P(m)
  <2>1. P(n)
    OBVIOUS
  <2>2. \E k \in 0..Len(b) : P(k)
    BY <2>1
  <2> QED BY <2>2 DEF Accepted
<1> HIDE DEF m
<1>3. ~(m < n)
  <2> SUFFICES ASSUME m < n PROVE FALSE
    OBVIOUS
  <2>1. m + 1 \in 1..n /\ m < Len(b)
    BY <1>1, <1>2
  <2> QED BY <1>2, <2>1
<1>4. ~(n < m)
  <2> SUFFICES ASSUME n < m PROVE FALSE
    OBVIOUS
  <2>1. n + 1 \in 1..m /\ n < Len(b)
    BY <1>1, <1>2
  <2> QED BY <1>2, <2>1
<1>5. m = n
  BY <1>1, <1>2, <1>3, <1>4
<1> QED BY <1>5 DEF m

(* The tables with one row more.                                           *)
OneRowMore(d, t, e) == [d EXCEPT ![t].rows = Append(@, e)]

(* After 0 rows, and after one row more.                                   *)
LEMMA AfterRows ==
  ASSUME NEW d \in Tables, NEW s \in InsertStmt
  PROVE  /\ After(d, s, 0) = d
         /\ \A n \in Nat : n < Len(s.batch) =>
              OneRowMore(After(d, s, n), s.table, s.batch[n + 1]) = After(d, s, n + 1)
<1> DEFINE t == s.table
           b == s.batch
           rows == d[t].rows
<1>1. t \in TableNames /\ b \in Seq(Rows \union {BadRow})
  BY StatementAssumption DEF InsertStmt
<1>2. d \in [TableNames -> [exists : BOOLEAN, rows : Seq(Rows)]]
  BY DEF Tables
<1>3. rows \in Seq(Rows \union {BadRow})
  <2>1. rows \in Seq(Rows)
    BY <1>1, <1>2
  <2> QED BY <2>1
<1>4. \A n : After(d, s, n) = [d EXCEPT ![t].rows = rows \o SubSeq(b, 1, n)]
  BY DEF After
<1>5. rows \o SubSeq(b, 1, 0) = rows
  <2>1. SubSeq(b, 1, 0) = <<>>
    BY <1>1
  <2>2. rows \o <<>> = rows
    BY <1>3
  <2> QED BY <2>1, <2>2
<1> HIDE DEF t, b
<1>6. [d EXCEPT ![t].rows = rows] = d
  BY <1>1, <1>2
<1> HIDE DEF rows
<1>7. ASSUME NEW n \in Nat, n < Len(b)
      PROVE  OneRowMore(After(d, s, n), t, b[n + 1]) = After(d, s, n + 1)
  <2> DEFINE x == rows \o SubSeq(b, 1, n)
             y == rows \o SubSeq(b, 1, n + 1)
             e == b[n + 1]
  <2>1. Append(x, e) = y
    BY <1>1, <1>3, <1>7, OneMore
  <2>2. After(d, s, n) = [d EXCEPT ![t].rows = x] /\ After(d, s, n + 1) = [d EXCEPT ![t].rows = y]
    BY <1>4
  <2> HIDE DEF x, y, e
  <2>3. [[d EXCEPT ![t].rows = x] EXCEPT ![t].rows = Append(@, e)]
          = [d EXCEPT ![t].rows = Append(x, e)]
    BY <1>1, <1>2
  <2> QED BY <2>1, <2>2, <2>3 DEF e, OneRowMore
<1> QED BY <1>4, <1>5, <1>6, <1>7 DEF t, b

(* The effect of an INSERT that has come to its end.                       *)
LEMMA AfterIsExec ==
  ASSUME NEW d \in Tables, NEW s \in InsertStmt, NEW n \in 0..Len(s.batch), d[s.table].exists,
         \A i \in 1..n : s.batch[i] # BadRow, n < Len(s.batch) => s.batch[n + 1] = BadRow
  PROVE  After(d, s, n) = ExecSql(d, s)
<1>1. s.op = "insert" /\ s.batch \in Seq(Rows \union {BadRow})
  BY StatementAssumption DEF InsertStmt
<1>2. Accepted(s.batch) = n
  BY <1>1, AcceptedIs
<1> QED BY <1>1, <1>2 DEF After, ExecSql, ExecInsert

(* As it is when every row of the batch was inserted.                      *)
LEMMA AfterAll ==
  ASSUME NEW d \in Tables, NEW s \in InsertStmt, NEW n \in Nat, n = Len(s.batch), d[s.table].exists,
         \A i \in 1..n : s.batch[i] # BadRow
  PROVE  After(d, s, n) = ExecSql(d, s)
<1>1. \A m \in Nat : m \in 0..m /\ ~(m < m)
  OBVIOUS
<1>2. n \in 0..Len(s.batch) /\ ~(n < Len(s.batch))
  BY <1>1
<1> QED BY <1>2, AfterIsExec

(* Effect holds of a worker that takes a statement.                        *)
LEMMA EffectArrive ==
  ASSUME Shape, NEW w \in Workers, NEW s \in Requests, Arrive(w, s),
         \A v \in Workers \ {w} : Same(v)
  PROVE  Effect(w)'
<1> SUFFICES ASSUME alone'[w]
             PROVE  /\ \A v \in Workers \ {w} : pc'[v] = "idle"
                    /\ tables' = called'[w] /\ pc'[w] = FirstStep(s) /\ stmt'[w] = s
  <2>1. FirstStep(s) \in {"lookup", "open", "create", "reply"}
    BY DEF FirstStep
  <2>2. FirstStep(s) = "reply" => \A d : ExecSql(d, s) = d
    BY DEF FirstStep, ExecSql
  <2> QED BY <2>1, <2>2 DEF Effect, Selecting
<1>1. \A u \in Workers \ {w} : pc[u] = "idle"
  BY DEF Arrive, Shape
<1>2. \A v \in Workers \ {w} : pc'[v] = "idle"
  BY <1>1 DEF Same
<1>3. tables' = called'[w] /\ pc'[w] = FirstStep(s) /\ stmt'[w] = s
  BY DEF Arrive, Shape, Goto
<1> QED BY <1>2, <1>3

(* A SELECT changes no table.                                              *)
LEMMA EffectSelect ==
  ASSUME Shape, NEW w \in Workers, Place(w), Effect(w), pc[w] \in Selecting, Step(w),
         \A v \in Workers \ {w} : Same(v)
  PROVE  Effect(w)'
<1>1. stmt[w].op = "select"
  BY QueryOf
<1>2. \A d : ExecSql(d, stmt[w]) = d
  BY <1>1 DEF ExecSql
<1>3. LookUp(w) \/ ResolveFails(w) \/ ScanLeft(w) \/ ScanRight(w)
        \/ EnterIndex(w) \/ LeaveIndex(w) \/ PutResult(w)
  BY DEF Step, Selecting, Create, OpenTable, RejectRow, LockRow, WriteRow, Invalidate, Return
<1>4. UNCHANGED <<tables, stmt, called, alone>>
  BY <1>3 DEF LookUp, ResolveFails, ScanLeft, ScanRight, EnterIndex, LeaveIndex, PutResult
<1>5. pc'[w] \in {"reply", "scan", "put", "scanRight", "indexing"}
  <2>1. pc'[w] = "reply" \/ pc'[w] = "scan" \/ pc'[w] = "put" \/ pc'[w] = "scanRight"
          \/ pc'[w] = "indexing"
    BY <1>3 DEF LookUp, ResolveFails, ScanLeft, ScanRight, EnterIndex, LeaveIndex, PutResult,
                Reply, Goto, Shape
  <2> QED BY <2>1
<1>6. alone[w] => tables = called[w] /\ \A v \in Workers \ {w} : pc'[v] = "idle"
  BY DEF Effect, Same
<1> QED BY <1>2, <1>4, <1>5, <1>6 DEF Effect, Selecting

(* Effect holds of the worker that takes a step of no SELECT.              *)
LEMMA EffectOwn ==
  ASSUME Shape, NEW w \in Workers, Place(w), Effect(w), pc[w] \notin Selecting, Step(w),
         \A v \in Workers \ {w} : Same(v)
  PROVE  Effect(w)'
<1>1. CASE Return(w)
  <2>1. ~alone'[w]
    BY <1>1 DEF Return, Shape
  <2> QED BY <2>1 DEF Effect
<1>2. CASE ~Return(w)
  <2>1. Create(w) \/ OpenTable(w) \/ RejectRow(w) \/ LockRow(w) \/ WriteRow(w) \/ Invalidate(w)
    BY <1>2 DEF Step, Selecting, LookUp, ResolveFails, ScanLeft, ScanRight, EnterIndex, LeaveIndex,
                PutResult
  <2>2. UNCHANGED <<stmt, called, alone>>
    BY <2>1 DEF Create, OpenTable, RejectRow, LockRow, WriteRow, Invalidate
  <2> SUFFICES ASSUME alone[w] PROVE Effect(w)'
    BY <2>2 DEF Effect
  <2>3. \A v \in Workers \ {w} : pc'[v] = "idle"
    BY DEF Effect, Same
  <2>4. called[w] \in Tables /\ done[w] \in Nat
    BY DEF Shape
  <2>5. CASE Create(w)
    <3>1. pc[w] = "create" /\ stmt[w] \in CreateStmt /\ tables = called[w]
      BY <2>5 DEF Create, Place, Effect
    <3>2. tables' = ExecCreate(called[w], stmt[w]) /\ pc'[w] = "reply"
      BY <2>5, <3>1 DEF Create, Reply, Goto, Shape
    <3>3. stmt[w].op = "create"
      BY <3>1 DEF CreateStmt
    <3>4. tables' = ExecSql(called[w], stmt[w])
      BY <3>2, <3>3 DEF ExecSql
    <3> QED BY <2>2, <2>3, <3>2, <3>4 DEF Effect, Selecting
  <2>6. CASE OpenTable(w)
    <3>1. /\ pc[w] = "open" /\ stmt[w] \in InsertStmt /\ tables = called[w] /\ done[w] = 0
          /\ UNCHANGED <<tables, done>>
      BY <2>6 DEF OpenTable, Place, Inserting, Effect
    <3>2. CASE tables[stmt[w].table].exists
      <4>1. pc'[w] = "insert"
        BY <2>6, <3>2 DEF OpenTable, Goto, Shape
      <4>2. tables = After(called[w], stmt[w], 0)
        BY <2>4, <3>1, AfterRows
      <4>3. \A i \in 1..0 : stmt[w].batch[i] # BadRow
        OBVIOUS
      <4>4. /\ pc'[w] \in {"insert", "write", "invalidate"} /\ called[w][stmt[w].table].exists
            /\ tables' = After(called[w], stmt[w], done'[w])
            /\ \A i \in 1..done'[w] : stmt[w].batch[i] # BadRow
        BY <3>1, <3>2, <4>1, <4>2, <4>3
      <4> QED BY <2>2, <2>3, <4>1, <4>4 DEF Effect, Selecting
    <3>3. CASE ~tables[stmt[w].table].exists
      <4>1. pc'[w] = "reply"
        BY <2>6, <3>3 DEF OpenTable, Reply, Goto, Shape
      <4>2. ExecSql(called[w], stmt[w]) = called[w]
        <5>1. stmt[w].op = "insert" /\ ~called[w][stmt[w].table].exists
          BY <3>1, <3>3 DEF InsertStmt
        <5> QED BY <5>1 DEF ExecSql, ExecInsert
      <4> QED BY <2>2, <2>3, <3>1, <4>1, <4>2 DEF Effect, Selecting
    <3> QED BY <3>2, <3>3
  <2>7. ASSUME pc[w] \in {"insert", "write", "invalidate"}
        PROVE  /\ stmt[w] \in InsertStmt /\ called[w][stmt[w].table].exists
               /\ tables = After(called[w], stmt[w], done[w])
               /\ \A i \in 1..done[w] : stmt[w].batch[i] # BadRow
               /\ Len(stmt[w].batch) \in Nat
               /\ pc[w] # "invalidate" => done[w] < Len(stmt[w].batch)
               /\ pc[w] = "invalidate" => done[w] = Len(stmt[w].batch)
    <3>1. stmt[w] \in InsertStmt
      BY <2>7 DEF Place, Inserting
    <3>2. stmt[w].batch \in Seq(Rows \union {BadRow})
      BY <3>1, StatementAssumption DEF InsertStmt
    <3>3. Len(stmt[w].batch) \in Nat
      <4> DEFINE b == stmt[w].batch
      <4>1. b \in Seq(Rows \union {BadRow})
        BY <3>2
      <4> HIDE DEF b
      <4>2. Len(b) \in Nat
        BY <4>1
      <4> QED BY <4>2 DEF b
    <3> QED BY <2>7, <3>1, <3>3 DEF Place, Effect
  <2>8. CASE RejectRow(w)
    <3>1. /\ pc[w] = "insert" /\ pc'[w] = "reply" /\ UNCHANGED tables
          /\ stmt[w].batch[done[w] + 1] = BadRow
      BY <2>8 DEF RejectRow, Reply, Goto, Shape
    <3>2. done[w] \in 0..Len(stmt[w].batch)
      <4> DEFINE n == Len(stmt[w].batch)
                 m == done[w]
      <4>1. n \in Nat /\ m \in Nat /\ m < n
        BY <2>4, <2>7, <3>1
      <4> HIDE DEF n, m
      <4>2. m \in 0..n
        BY <4>1
      <4> QED BY <4>2 DEF n, m
    <3>3. tables = ExecSql(called[w], stmt[w])
      BY <2>4, <2>7, <3>1, <3>2, AfterIsExec
    <3> QED BY <2>2, <2>3, <3>1, <3>3 DEF Effect, Selecting
  <2>9. CASE LockRow(w)
    <3>1. pc[w] = "insert" /\ pc'[w] = "write" /\ UNCHANGED <<tables, done>>
      BY <2>9 DEF LockRow, Goto, Shape
    <3> QED BY <2>2, <2>3, <2>7, <3>1 DEF Effect, Selecting
  <2>10. CASE WriteRow(w)
    <3> DEFINE n == done[w]
               b == stmt[w].batch
    <3>1. /\ pc[w] = "write" /\ done'[w] = n + 1
          /\ pc'[w] = IF n + 1 = Len(b) THEN "invalidate" ELSE "insert"
          /\ tables' = [tables EXCEPT ![stmt[w].table].rows = Append(@, b[n + 1])]
      BY <2>10 DEF WriteRow, Goto, Shape
    <3>2. tables' = After(called[w], stmt[w], n + 1)
      <4>1. n < Len(stmt[w].batch) /\ stmt[w] \in InsertStmt
        BY <2>7, <3>1
      <4>2. [After(called[w], stmt[w], n) EXCEPT ![stmt[w].table].rows = Append(@, b[n + 1])]
              = After(called[w], stmt[w], n + 1)
        <5> DEFINE d == called[w]
                   s == stmt[w]
                   m == done[w]
        <5>1. d \in Tables /\ s \in InsertStmt /\ m \in Nat /\ m < Len(s.batch)
          BY <2>4, <4>1
        <5> HIDE DEF d, s, m
        <5>2. OneRowMore(After(d, s, m), s.table, s.batch[m + 1]) = After(d, s, m + 1)
          BY <5>1, AfterRows
        <5> QED BY <5>2 DEF d, s, m, OneRowMore
      <4>3. tables = After(called[w], stmt[w], n)
        BY <2>7, <3>1
      <4> QED BY <3>1, <4>2, <4>3
    <3>3. \A i \in 1..(n + 1) : b[i] # BadRow
      <4>1. \A i \in 1..n : b[i] # BadRow
        BY <2>7, <3>1
      <4>2. b[n + 1] # BadRow
        BY <3>1 DEF Place
      <4>3. \A i \in 1..(n + 1) : i \in 1..n \/ i = n + 1
        BY <2>4
      <4> HIDE DEF n, b
      <4> QED BY <4>1, <4>2, <4>3
    <3>4. called[w][stmt[w].table].exists
      BY <2>7, <3>1
    <3> QED BY <2>2, <2>3, <3>1, <3>2, <3>3, <3>4 DEF Effect, Selecting
  <2>11. CASE Invalidate(w)
    <3>1. pc[w] = "invalidate" /\ pc'[w] = "reply" /\ UNCHANGED tables
      BY <2>11 DEF Invalidate, Reply, Goto, Shape
    <3>2. done[w] = Len(stmt[w].batch)
      BY <2>7, <3>1
    <3>3. tables = ExecSql(called[w], stmt[w])
      BY <2>4, <2>7, <3>1, <3>2, AfterAll
    <3> QED BY <2>2, <2>3, <3>1, <3>3 DEF Effect, Selecting
  <2> QED BY <2>1, <2>5, <2>6, <2>8, <2>9, <2>10, <2>11
<1> QED BY <1>1, <1>2

(* Effect holds after every step.                                          *)
LEMMA EffectStep ==
  ASSUME Shape, \A w \in Workers : Place(w) /\ Effect(w), [Next]_vars
  PROVE  \A w \in Workers : Effect(w)'
<1>1. CASE UNCHANGED vars
  BY <1>1 DEF vars, Effect
<1>2. ASSUME NEW w \in Workers, Move(w) PROVE Effect(w)'
  <2>1. \A v \in Workers \ {w} : Same(v)
    BY <1>2, OnlyOwn
  <2>2. CASE \E s \in Requests : Arrive(w, s)
    BY <2>1, <2>2, EffectArrive
  <2>3. CASE Step(w)
    BY <2>1, <2>3, EffectSelect, EffectOwn
  <2> QED BY <1>2, <2>2, <2>3 DEF Move
<1>3. ASSUME NEW w \in Workers, Move(w), NEW v \in Workers, v # w PROVE Effect(v)'
  <2>1. CASE \E s \in Requests : Arrive(w, s)
    <3>1. ~alone'[v]
      BY <1>3, <2>1 DEF Arrive
    <3> QED BY <3>1 DEF Effect
  <2>2. CASE Step(w)
    <3>1. pc[w] # "idle"
      BY <2>2 DEF Step, Create, OpenTable, RejectRow, LockRow, WriteRow, Invalidate, LookUp,
                  ResolveFails, ScanLeft, ScanRight, EnterIndex, LeaveIndex, PutResult, Return
    <3>2. ~alone[v]
      BY <1>3, <3>1 DEF Effect
    <3>3. ~alone'[v]
      BY <1>3, <3>2, OnlyOwn DEF Same
    <3> QED BY <3>3 DEF Effect
  <2> QED BY <1>3, <2>1, <2>2 DEF Move
<1> QED BY <1>1, <1>2, <1>3 DEF Next, Move

-----------------------------------------------------------------------------
(* Inv holds when serving begins.                                          *)
LEMMA InvInit == Init => Inv
<1> SUFFICES ASSUME Init PROVE Inv
  OBVIOUS
<1>1. Shape
  <2>1. tables \in Tables /\ \A t \in TableNames : ~tables[t].exists => tables[t].rows = <<>>
    BY ExecutorAssumption DEF Init
  <2>2. NoTables \in Tables /\ Error \in [ok : BOOLEAN, rows : Results \union {<<>>}]
    BY DEF NoTables, Tables, Error
  <2>3. pc \in [Workers -> Labels]
    BY DEF Init, Labels
  <2> QED BY <2>1, <2>2, <2>3 DEF Init, Shape
<1>2. CacheInv(cache)
  <2>1. cache.list = <<>> /\ cache.entries = <<>> /\ cache = [list |-> <<>>, entries |-> <<>>]
    BY DEF Init, EmptyCache
  <2>2. cache \in [list : Seq(Entry(Keys, Results)), entries : Seq(Tracks(Keys))]
    BY <2>1
  <2> QED BY <2>1, <2>2, CacheAssumption DEF CacheInv, CacheOk
<1>3. ASSUME NEW w \in Workers PROVE Place(w) /\ Effect(w)
  BY DEF Init, Place, Effect, Selecting, Inserting
<1> QED BY <1>1, <1>2, <1>3 DEF Inv

(* Inv is inductive.                                                       *)
LEMMA InvStep == Inv /\ [Next]_vars => Inv'
<1> SUFFICES ASSUME Inv, [Next]_vars PROVE Inv'
  OBVIOUS
<1>1. Shape /\ CacheInv(cache) /\ \A w \in Workers : Place(w) /\ Effect(w)
  BY DEF Inv
<1>2. Shape' /\ CacheInv(cache)'
  BY <1>1, ShapeStep, CacheStep
<1>3. \A w \in Workers : Place(w)' /\ Effect(w)'
  BY <1>1, PlaceStep, EffectStep
<1> QED BY <1>2, <1>3 DEF Inv

(* The inductive invariant of the executor.                                *)
THEOREM InvAlways == Spec => []Inv
<1>1. Init => Inv
  BY InvInit
<1>2. Inv /\ [Next]_vars => Inv'
  BY InvStep
<1> QED BY <1>1, <1>2, PTL DEF Spec

(* invalidate_table finds every cached result, whatever the workers put,   *)
(* look up, evict and invalidate, and in whatever order: lru_list_ holds a *)
(* key once, within the capacity, and table_entries_ tracks it.            *)
THEOREM ExecutorCacheTracked == Spec => []CacheTracked
<1>1. Inv => CacheTracked
  BY CacheOkTracked DEF Inv, CacheInv, CacheTracked
<1> QED BY <1>1, InvAlways, PTL

(* A statement that no other overlaps leaves the tables that its replay    *)
(* from the log would: of a batch that fails half-way, the rows before the *)
(* rejected one.                                                           *)
THEOREM ExecutorEffectIsExecSql == Spec => []EffectIsExecSql
<1>1. Inv => EffectIsExecSql
  BY DEF Inv, Effect, EffectIsExecSql
<1> QED BY <1>1, InvAlways, PTL
=============================================================================
