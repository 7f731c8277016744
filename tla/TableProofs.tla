----------------------------- MODULE TableProofs -----------------------------
(***************************************************************************)
(* The arena and the table on it.  For every chunk size, every schema and  *)
(* every sequence of inserts and sweeps: blocks are disjoint and inside    *)
(* their chunks, rows read back as they were inserted, are shown until     *)
(* their expiry, and the index agrees with the scan.                       *)
(***************************************************************************)
EXTENDS Table, FilterProofs

-----------------------------------------------------------------------------
(* Arena                                                                   *)

(* Inductive, for every chunk size and every set of request sizes.         *)
ArenaInv == ArenaTypeOK /\ BlocksDisjoint /\ BlocksInside /\ BelowOffset

(* Rounding up to the alignment never goes below the offset, and gives a   *)
(* multiple of the alignment.                                              *)
LEMMA AlignedUp ==
  ASSUME NEW o \in Nat
  PROVE  Aligned(o) \in Nat /\ Aligned(o) >= o /\ Aligned(o) % Alignment = 0
BY DEF Aligned, Alignment

(* The constructor establishes the invariant: one chunk, no block yet.      *)
LEMMA ArenaInvInit == ArenaInit => ArenaInv
BY ArenaAssumption DEF ArenaInit, ArenaInv, ArenaTypeOK, BlocksDisjoint, BlocksInside, BelowOffset

(* A block carved from the current chunk lies above every block already    *)
(* there.                                                                  *)
LEMMA ArenaInvHere ==
  ASSUME ArenaInv, NEW size \in Nat, AllocateHere(size)
  PROVE  ArenaInv'
<1> DEFINE a == Aligned(offset)
           new == [chunk |-> Len(chunks), start |-> a, size |-> size]
<1>1. size \in Nat \ {0} /\ offset \in Nat /\ Len(chunks) \in Nat \ {0}
  BY ArenaAssumption DEF AllocateHere, ArenaInv, ArenaTypeOK
<1>2. a \in Nat /\ a >= offset /\ a % Alignment = 0
  BY <1>1, AlignedUp
<1>3. /\ blocks' = blocks \cup {new} /\ chunks' = chunks /\ offset' = a + size
      /\ a + size <= chunks[Len(chunks)] /\ total' = total + size
  BY DEF AllocateHere, Fits
<1> HIDE DEF a
<1>4. ArenaTypeOK'
  BY <1>1, <1>2, <1>3 DEF ArenaInv, ArenaTypeOK
<1>5. \A b \in blocks : /\ b.chunk \in Nat /\ b.start \in Nat /\ b.size \in Nat
                        /\ b.chunk = Len(chunks) => End(b) <= a
  BY <1>1, <1>2 DEF ArenaInv, ArenaTypeOK, BelowOffset, End
<1>6. BlocksDisjoint'
  BY <1>3, <1>5 DEF ArenaInv, BlocksDisjoint, End
<1>7. BlocksInside'
  BY <1>1, <1>2, <1>3 DEF ArenaInv, BlocksInside, End
<1>8. BelowOffset'
  BY <1>1, <1>2, <1>3, <1>5 DEF BelowOffset, End
<1> QED BY <1>4, <1>6, <1>7, <1>8 DEF ArenaInv

(* A block at the start of a new chunk fits it and shares it with no other.*)
LEMMA ArenaInvNewChunk ==
  ASSUME ArenaInv, NEW size \in Nat, AllocateInNewChunk(size)
  PROVE  ArenaInv'
<1> DEFINE n == Len(chunks) + 1
           cap == NewCapacity(size)
           new == [chunk |-> n, start |-> 0, size |-> size]
<1>1. size \in Nat \ {0} /\ chunks \in Seq(Nat) /\ Len(chunks) \in Nat \ {0}
  BY ArenaAssumption DEF AllocateInNewChunk, ArenaInv, ArenaTypeOK
<1>2. cap \in Nat /\ cap >= size
  BY <1>1, ArenaAssumption DEF NewCapacity, Larger, Alignment
<1>3. /\ blocks' = blocks \cup {new} /\ chunks' = Append(chunks, cap)
      /\ offset' = size /\ total' = total + size
  BY DEF AllocateInNewChunk
<1> HIDE DEF cap
<1>4. /\ chunks' \in Seq(Nat) /\ Len(chunks') = n /\ chunks'[n] = cap
      /\ \A i \in 1..Len(chunks) : chunks'[i] = chunks[i]
  BY <1>1, <1>2, <1>3
<1>5. \A b \in blocks : /\ b.chunk \in 1..Len(chunks) /\ b.chunk # n
                        /\ b.start \in Nat /\ b.size \in Nat \ {0}
  BY <1>1 DEF ArenaInv, ArenaTypeOK
<1>6. ArenaTypeOK'
  <2>1. chunks' # <<>> /\ offset' \in 0..chunks'[Len(chunks')] /\ total' \in Nat
    BY <1>1, <1>2, <1>3, <1>4 DEF ArenaInv, ArenaTypeOK
  <2>2. blocks' \subseteq [chunk : 1..Len(chunks'), start : Nat, size : Nat \ {0}]
    BY <1>1, <1>3, <1>4 DEF ArenaInv, ArenaTypeOK
  <2> QED BY <1>4, <2>1, <2>2 DEF ArenaTypeOK
<1>7. BlocksDisjoint'
  BY <1>3, <1>5 DEF ArenaInv, BlocksDisjoint, End
<1>8. BlocksInside'
  BY <1>1, <1>2, <1>3, <1>4, <1>5 DEF ArenaInv, BlocksInside, End, Alignment
<1>9. BelowOffset'
  BY <1>1, <1>3, <1>4, <1>5 DEF BelowOffset, End
<1> QED BY <1>6, <1>7, <1>8, <1>9 DEF ArenaInv

(* Every step of the allocator preserves the invariant.                    *)
LEMMA ArenaInvNext == ArenaInv /\ [ArenaNext]_arenaVars => ArenaInv'
<1> SUFFICES ASSUME ArenaInv, [ArenaNext]_arenaVars PROVE ArenaInv'
  OBVIOUS
<1>1. CASE Reset
  BY <1>1 DEF Reset, ArenaInv, ArenaTypeOK, BlocksDisjoint, BlocksInside, BelowOffset
<1>2. CASE UNCHANGED arenaVars
  BY <1>2 DEF arenaVars, ArenaInv, ArenaTypeOK, BlocksDisjoint, BlocksInside, BelowOffset, End
<1>3. ASSUME NEW size \in Sizes, AllocateNothing(size) PROVE ArenaInv'
  BY <1>2, <1>3 DEF AllocateNothing
<1>4. \A size \in Sizes : size \in Nat
  BY ArenaAssumption
<1> QED BY <1>1, <1>2, <1>3, <1>4, ArenaInvHere, ArenaInvNewChunk DEF ArenaNext

(* No two blocks that allocate returned share a byte, for every chunk size *)
(* and every sequence of requests and resets.                              *)
THEOREM ArenaBlocksDisjoint == ArenaSpec => []BlocksDisjoint
<1>1. ArenaInv => BlocksDisjoint
  BY DEF ArenaInv
<1> QED BY <1>1, ArenaInvInit, ArenaInvNext, PTL DEF ArenaSpec

(* Every block lies inside its chunk and is aligned, also when it is larger*)
(* than a chunk.                                                           *)
THEOREM ArenaBlocksInside == ArenaSpec => []BlocksInside
<1>1. ArenaInv => BlocksInside
  BY DEF ArenaInv
<1> QED BY <1>1, ArenaInvInit, ArenaInvNext, PTL DEF ArenaSpec

-----------------------------------------------------------------------------
(* Schema                                                                  *)

(* The size of a column in a row.                                          *)
LEMMA StorageSize ==
  ASSUME NEW col \in ColumnDef
  PROVE  storage_size(col) \in Nat
<1>1. col.max_len \in Nat /\ col.type \in Types
  BY DEF ColumnDef, Uint16
<1>2. CASE col.type = "INT"
  <2>1. storage_size(col) = 4
    BY <1>2 DEF storage_size
  <2> QED BY <2>1
<1>3. CASE col.type = "VARCHAR"
  BY <1>1, <1>3 DEF storage_size
<1>4. CASE col.type \in {"DECIMAL", "DATETIME"}
  BY <1>4 DEF storage_size
<1> QED BY <1>1, <1>2, <1>3, <1>4 DEF Types

(* The columns of a schema lie one behind the other (add_column).          *)
LEMMA EndsRun ==
  ASSUME NEW s \in Seq(ColumnDef)
  PROVE  /\ Ends(s) \in [0..Len(s) -> Nat] /\ Ends(s)[0] = 0
         /\ \A i \in 1..Len(s) : Ends(s)[i] = Ends(s)[i - 1] + storage_size(s[i])
<1> DEFINE N == Len(s)
           size(i) == storage_size(s[i])
           step == [n \in 1..N |-> [v \in Nat |-> v + size(n)]]
           Body(f) == [i \in 0..N |-> IF i = 0 THEN 0 ELSE f[i - 1] + size(i)]
<1>1. N \in Nat /\ N \in 0..N /\ \A i \in 1..N : size(i) \in Nat
  BY StorageSize
<1> HIDE DEF size
<1>2. step \in [1..N -> [Nat -> Nat]]
  BY <1>1
<1>3. PICK f : IsRun(f, N, Nat, 0, step)
  <2> HIDE DEF step, N
  <2> QED BY <1>1, <1>2, Recursion, Zenon
<1>4. /\ f \in [0..N -> Nat] /\ f[0] = 0
      /\ \A n \in 1..N : f[n] = f[n - 1] + size(n)
  <2>1. f \in [0..N -> Nat] /\ f[0] = 0 /\ \A n \in 1..N : f[n] = step[n][f[n - 1]]
    BY <1>3 DEF IsRun
  <2>2. \A n \in 1..N : n - 1 \in 0..N
    BY <1>1
  <2> QED BY <2>1, <2>2, Zenon
<1>5. f = Body(f)
  BY <1>1, <1>4
<1> DEFINE g == CHOOSE h : h = Body(h)
<1>6. g = Body(g)
  <2> HIDE DEF Body
  <2> QED BY <1>5
<1>7. Ends(s) = g
  BY DEF Ends, size
<1> HIDE DEF g
<1>8. g[0] = 0 /\ \A n \in 1..N : g[n] = g[n - 1] + size(n)
  BY <1>1, <1>6
<1>9. \A n \in 0..N : g[n] \in Nat
  <2> DEFINE S == {n \in 0..N : g[n] \in Nat}
  <2>1. 0 \in S
    BY <1>1, <1>8
  <2>2. \A n \in 1..N : n - 1 \in S => n \in S
    BY <1>1, <1>8
  <2> HIDE DEF S
  <2>3. 0..N \subseteq S
    BY <1>1, <2>1, <2>2, UpTo, Zenon
  <2> QED BY <2>3 DEF S
<1>10. g \in [0..N -> Nat]
  BY <1>6, <1>9
<1> QED BY <1>7, <1>8, <1>10 DEF size

(* A column ends before every later one begins.                            *)
LEMMA EndsUp ==
  ASSUME NEW s \in Seq(ColumnDef), NEW i \in 0..Len(s), NEW j \in i..Len(s)
  PROVE  Ends(s)[i] <= Ends(s)[j]
<1> DEFINE N == Len(s)
           e == Ends(s)
           S == {n \in 0..N : i <= n => e[i] <= e[n]}
<1>1. N \in Nat /\ \A k \in 1..N : storage_size(s[k]) \in Nat
  BY StorageSize
<1>2. e \in [0..N -> Nat] /\ \A k \in 1..N : e[k] = e[k - 1] + storage_size(s[k])
  BY EndsRun
<1> HIDE DEF e
<1>3. 0 \in S
  BY <1>1, <1>2
<1>4. ASSUME NEW n \in 1..N, n - 1 \in S PROVE n \in S
  <2>1. e[n - 1] <= e[n] /\ e[n - 1] \in Nat /\ e[n] \in Nat /\ e[i] \in Nat
    <3>1. n - 1 \in 0..N /\ n \in 0..N /\ storage_size(s[n]) \in Nat
      BY <1>1
    <3>2. e[n] = e[n - 1] + storage_size(s[n]) /\ e[n - 1] \in Nat /\ e[n] \in Nat /\ e[i] \in Nat
      BY <1>2, <3>1, Zenon
    <3> QED BY <3>1, <3>2
  <2>2. CASE i <= n - 1
    BY <1>1, <1>4, <2>1, <2>2
  <2>3. CASE ~(i <= n - 1)
    <3>1. i <= n => i = n
      BY <1>1, <2>3
    <3> QED BY <1>1, <2>1, <3>1
  <2> QED BY <2>2, <2>3
<1>5. 0..N \subseteq S
  <2> HIDE DEF S
  <2> QED BY <1>1, <1>3, <1>4, UpTo, Zenon
<1>6. j \in 0..N /\ i <= j
  BY <1>1
<1> QED BY <1>5, <1>6 DEF e
-----------------------------------------------------------------------------
(* Bytes                                                                   *)

Memories == UNION {[D -> Byte] : D \in SUBSET (Nat \X Nat)}
Place == [chunk : Nat, start : Nat, size : Nat]

(* The memory holds these bytes at an offset of a block.                   *)
Has(mem, p, from, bytes) ==
  \A k \in 1..Len(bytes) :
    At(p, from + k - 1) \in DOMAIN mem /\ mem[At(p, from + k - 1)] = bytes[k]

(* The n bytes at the offset `from` of p and the m bytes at `to` of q.      *)
Apart(p, from, n, q, to, m) ==
  \/ p.chunk # q.chunk
  \/ p.start + from + n <= q.start + to
  \/ q.start + to + m <= p.start + from

(* memcpy: what is copied is there.                                        *)
LEMMA CopyHas ==
  ASSUME NEW mem \in Memories, NEW p \in Place, NEW from \in Nat, NEW bytes \in Seq(Byte)
  PROVE  /\ Copied(mem, p, from, bytes) \in Memories
         /\ Has(Copied(mem, p, from, bytes), p, from, bytes)
<1> DEFINE c == Copied(mem, p, from, bytes)
           dest == {At(p, from + k - 1) : k \in 1..Len(bytes)}
<1>1. PICK D \in SUBSET (Nat \X Nat) : mem \in [D -> Byte]
  BY DEF Memories
<1>2. p.chunk \in Nat /\ p.start \in Nat /\ Len(bytes) \in Nat
  BY DEF Place
<1>3. ASSUME NEW k \in 1..Len(bytes)
      PROVE  /\ At(p, from + k - 1) \in Nat \X Nat
             /\ At(p, from + k - 1)[2] - p.start - from + 1 = k
  <2>1. p.start + (from + k - 1) \in Nat
    BY <1>2
  <2>2. p.start + (from + k - 1) - p.start - from + 1 = k
    BY <1>2
  <2>3. At(p, from + k - 1)[2] = p.start + (from + k - 1)
    BY DEF At
  <2>4. At(p, from + k - 1) \in Nat \X Nat
    BY <1>2, <2>1 DEF At
  <2>5. At(p, from + k - 1)[2] - p.start - from + 1 = k
    <3> DEFINE x == At(p, from + k - 1)[2]
               start == p.start
    <3>1. x = start + (from + k - 1) /\ start \in Nat
      BY <1>2, <2>3
    <3> HIDE DEF x, start
    <3>2. x - start - from + 1 = k
      BY <3>1
    <3> QED BY <3>2 DEF x, start
  <2> QED BY <2>4, <2>5
<1>4. DOMAIN c = D \cup dest /\ D \cup dest \in SUBSET (Nat \X Nat)
  BY <1>1, <1>3 DEF Copied
<1>5. ASSUME NEW k \in 1..Len(bytes)
      PROVE  c[At(p, from + k - 1)] = bytes[k]
  BY <1>1, <1>3 DEF Copied
<1>6. ASSUME NEW a \in D \cup dest PROVE c[a] \in Byte
  <2>1. CASE a \in dest
    <3>1. PICK k \in 1..Len(bytes) : a = At(p, from + k - 1)
      BY <2>1
    <3> QED BY <1>5, <3>1
  <2>2. CASE a \notin dest
    BY <1>1, <2>2 DEF Copied
  <2> QED BY <2>1, <2>2
<1>7. c = [a \in D \cup dest |-> c[a]]
  BY <1>1 DEF Copied
<1>8. c \in [D \cup dest -> Byte]
  <2> HIDE DEF c, dest
  <2> QED BY <1>6, <1>7, Zenon
<1>9. c \in Memories
  <2> HIDE DEF c, dest
  <2> QED BY <1>4, <1>8, Zenon DEF Memories
<1>10. Has(c, p, from, bytes)
  <2> HIDE DEF c
  <2>1. \A k \in 1..Len(bytes) : At(p, from + k - 1) \in DOMAIN c
    BY <1>4
  <2> QED BY <1>5, <2>1 DEF Has
<1> QED BY <1>9, <1>10

(* memcpy: what lies apart from the copy stays.                            *)
LEMMA CopyKeeps ==
  ASSUME NEW mem \in Memories, NEW p \in Place, NEW from \in Nat, NEW bytes \in Seq(Byte),
         NEW q \in Place, NEW to \in Nat, NEW old \in Seq(Byte), Has(mem, q, to, old),
         Apart(p, from, Len(bytes), q, to, Len(old))
  PROVE  Has(Copied(mem, p, from, bytes), q, to, old)
<1> DEFINE c == Copied(mem, p, from, bytes)
           dest == {At(p, from + k - 1) : k \in 1..Len(bytes)}
<1>1. /\ p.chunk \in Nat /\ p.start \in Nat /\ q.chunk \in Nat /\ q.start \in Nat
      /\ Len(bytes) \in Nat /\ Len(old) \in Nat
  BY DEF Place
<1>2. ASSUME NEW k \in 1..Len(old) PROVE At(q, to + k - 1) \notin dest
  <2> SUFFICES ASSUME NEW j \in 1..Len(bytes), At(q, to + k - 1) = At(p, from + j - 1)
               PROVE  FALSE
    OBVIOUS
  <2> DEFINE P == p.start
             Q == q.start
             n == Len(bytes)
             m == Len(old)
  <2>1. q.chunk = p.chunk /\ Q + (to + k - 1) = P + (from + j - 1)
    BY DEF At
  <2>2. P \in Nat /\ Q \in Nat /\ n \in Nat /\ m \in Nat /\ k \in 1..m /\ j \in 1..n
    BY <1>1
  <2>3. P + from + n <= Q + to \/ Q + to + m <= P + from
    BY <2>1 DEF Apart
  <2> HIDE DEF P, Q, n, m
  <2> QED BY <2>1, <2>2, <2>3
<1>3. ASSUME NEW k \in 1..Len(old)
      PROVE  At(q, to + k - 1) \in DOMAIN c /\ c[At(q, to + k - 1)] = old[k]
  <2>1. At(q, to + k - 1) \in DOMAIN mem /\ mem[At(q, to + k - 1)] = old[k]
    BY DEF Has
  <2> QED BY <1>2, <2>1 DEF Copied
<1> QED BY <1>3 DEF Has

(* A number of 16 bits is written and read back.                           *)
LEMMA EncodeDecode ==
  ASSUME NEW x \in Uint16, NEW n \in Nat, n >= 2
  PROVE  /\ Encode(x, n) \in Seq(Byte) /\ Len(Encode(x, n)) = n
         /\ Decode(Encode(x, n)) = x
<1> DEFINE e == Encode(x, n)
<1>1. x \in Nat /\ x % 256 \in Byte /\ x \div 256 \in Byte /\ 0 \in Byte
      /\ (x % 256) + 256 * (x \div 256) = x
  BY DEF Uint16, Byte
<1>2. /\ e \in [1..n -> Byte] /\ e[1] = x % 256 /\ e[2] = x \div 256
      /\ \A k \in 3..n : e[k] = 0
  BY <1>1 DEF Encode
<1> HIDE DEF e
<1>3. e \in Seq(Byte) /\ Len(e) = n
  BY <1>2
<1>4. Decode(e) = e[1] + 256 * e[2]
  BY <1>2, <1>3 DEF Decode
<1> QED BY <1>1, <1>2, <1>3, <1>4 DEF e

(* What validate_row accepts fits the place of its column.                 *)
LEMMA StoredFits ==
  ASSUME NEW col \in ColumnDef, NEW v \in Values, v.type = col.type,
         col.type = "VARCHAR" => Len(v.bytes) <= col.max_len
  PROVE  Stored(v) \in Seq(Byte) /\ Len(Stored(v)) \in Nat /\ Len(Stored(v)) <= storage_size(col)
<1>1. v.bytes \in Seq(Byte) /\ Len(v.bytes) \in Nat /\ v.type \in Types
  BY DEF Values
<1>2. CASE v.type = "VARCHAR"
  <2>0. col.max_len \in Nat /\ col.max_len < 65536 /\ Len(v.bytes) <= col.max_len
    BY <1>2 DEF ColumnDef, Uint16
  <2>1. Len(v.bytes) \in Uint16 /\ col.max_len \in Nat
    BY <1>1, <2>0 DEF Uint16
  <2> DEFINE h == Encode(Len(v.bytes), 2)
  <2>2. h \in Seq(Byte) /\ Len(h) = 2
    <3> DEFINE x == Len(v.bytes)
    <3>1. x \in Uint16 /\ 2 \in Nat /\ 2 >= 2
      BY <2>1
    <3> HIDE DEF x
    <3>2. Encode(x, 2) \in Seq(Byte) /\ Len(Encode(x, 2)) = 2
      BY <3>1, EncodeDecode
    <3> QED BY <3>2 DEF x
  <2> HIDE DEF h
  <2>3. h \o v.bytes \in Seq(Byte) /\ Len(h \o v.bytes) = 2 + Len(v.bytes)
    <3> DEFINE b == v.bytes
    <3>1. b \in Seq(Byte)
      BY <1>1
    <3> HIDE DEF b
    <3>2. h \o b \in Seq(Byte) /\ Len(h \o b) = Len(h) + Len(b)
      BY <2>2, <3>1, Joined, Zenon
    <3>3. Len(h \o b) = 2 + Len(b)
      BY <2>2, <3>2
    <3> QED BY <3>2, <3>3 DEF b
  <2>4. Stored(v) = h \o v.bytes
    BY <1>2 DEF Stored, h
  <2>5. storage_size(col) = 2 + col.max_len
    BY <1>2 DEF storage_size
  <2>6. Len(v.bytes) <= col.max_len
    BY <1>2
  <2> QED BY <1>1, <2>1, <2>3, <2>4, <2>5, <2>6
<1>3. CASE v.type = "INT"
  <2>1. storage_size(col) = 4 /\ Stored(v) = v.bytes /\ Len(v.bytes) = 4
    BY <1>3 DEF storage_size, Stored, Values
  <2> QED BY <1>1, <2>1
<1>4. CASE v.type \in {"DECIMAL", "DATETIME"}
  <2>1. storage_size(col) = 8 /\ Stored(v) = v.bytes /\ Len(v.bytes) = 8
    BY <1>4 DEF storage_size, Stored, Values
  <2> QED BY <1>1, <2>1
<1> QED BY <1>1, <1>2, <1>3, <1>4 DEF Types

(* What lies outside the n bytes at the start of p is the same in mem and  *)
(* in c.                                                                   *)
Keeps(mem, c, p, n) ==
  \A q \in Place, to \in Nat, old \in Seq(Byte) :
    Has(mem, q, to, old) /\ Apart(p, 0, n, q, to, Len(old)) => Has(c, q, to, old)

(* A copy within the first n bytes of p, after others within the first     *)
(* `from`.                                                                 *)
LEMMA CopyAfter ==
  ASSUME NEW mem \in Memories, NEW c \in Memories, NEW p \in Place,
         NEW from \in Nat, NEW bytes \in Seq(Byte), NEW n \in Nat,
         from + Len(bytes) <= n, Keeps(mem, c, p, from)
  PROVE  /\ Copied(c, p, from, bytes) \in Memories
         /\ Has(Copied(c, p, from, bytes), p, from, bytes)
         /\ Keeps(mem, Copied(c, p, from, bytes), p, n)
         /\ \A to \in Nat, old \in Seq(Byte) :
              Has(c, p, to, old) /\ to + Len(old) <= from
                => Has(Copied(c, p, from, bytes), p, to, old)
<1>1. p.start \in Nat /\ Len(bytes) \in Nat
  BY DEF Place
<1>2. ASSUME NEW q \in Place, NEW to \in Nat, NEW old \in Seq(Byte),
             Has(mem, q, to, old), Apart(p, 0, n, q, to, Len(old))
      PROVE  Has(Copied(c, p, from, bytes), q, to, old)
  <2> DEFINE P == p.start
             Q == q.start
             l == Len(bytes)
             m == Len(old)
  <2>1. P \in Nat /\ Q \in Nat /\ l \in Nat /\ m \in Nat /\ from + l <= n
    BY <1>1 DEF Place
  <2>2. p.chunk # q.chunk \/ P + 0 + n <= Q + to \/ Q + to + m <= P + 0
    BY <1>2 DEF Apart
  <2>3. /\ p.chunk # q.chunk \/ P + 0 + from <= Q + to \/ Q + to + m <= P + 0
        /\ p.chunk # q.chunk \/ P + from + l <= Q + to \/ Q + to + m <= P + from
    <3> HIDE DEF P, Q, l, m
    <3> QED BY <2>1, <2>2
  <2>4. Apart(p, 0, from, q, to, Len(old)) /\ Apart(p, from, Len(bytes), q, to, Len(old))
    BY <2>3 DEF Apart
  <2>5. Has(c, q, to, old)
    BY <1>2, <2>4 DEF Keeps
  <2> QED BY <2>4, <2>5, CopyKeeps
<1>3. ASSUME NEW to \in Nat, NEW old \in Seq(Byte), Has(c, p, to, old), to + Len(old) <= from
      PROVE  Has(Copied(c, p, from, bytes), p, to, old)
  <2> DEFINE P == p.start
             m == Len(old)
  <2>1. P \in Nat /\ m \in Nat /\ to + m <= from
    BY <1>1, <1>3
  <2>2. P + to + m <= P + from
    <3> HIDE DEF P, m
    <3> QED BY <2>1
  <2>3. Apart(p, from, Len(bytes), p, to, Len(old))
    BY <2>2 DEF Apart
  <2> QED BY <1>3, <2>3, CopyKeeps
<1>4. Keeps(mem, Copied(c, p, from, bytes), p, n)
  BY <1>2 DEF Keeps
<1> QED BY <1>3, <1>4, CopyHas

-----------------------------------------------------------------------------
(* A row                                                                   *)

(* The columns of a row and the expiry are where the schema says.          *)
HasRow(mem, p, values, expiry) ==
  /\ \A i \in 1..Len(values) : Has(mem, p, column_offset(i), Stored(values[i]))
  /\ Has(mem, p, expiry_offset, Encode(expiry, 8))

(* The places of the columns, of the expiry and of the flag in a row.      *)
LEMMA Layout ==
  ASSUME schema \in Seq(ColumnDef), NEW values \in Seq(Values), validate_row(values)
  PROVE  /\ Len(values) = Len(schema) /\ row_size \in Nat
         /\ \A i \in 1..Len(schema) :
              /\ schema[i] \in ColumnDef /\ column_offset(i) \in Nat
              /\ Stored(values[i]) \in Seq(Byte) /\ Len(Stored(values[i])) \in Nat
              /\ column_offset(i) + Len(Stored(values[i])) <= Ends(schema)[i]
              /\ Ends(schema)[i] \in Nat /\ Ends(schema)[i] <= row_size
<1> DEFINE e == Ends(schema)
           N == Len(schema)
<1>1. /\ e \in [0..N -> Nat] /\ N \in Nat
      /\ \A i \in 1..N : e[i] = e[i - 1] + storage_size(schema[i])
  BY EndsRun
<1>2. ASSUME NEW i \in 1..N PROVE e[i] <= e[N]
  <2>1. i \in 0..Len(schema) /\ N \in i..Len(schema)
    BY <1>1
  <2> HIDE DEF N
  <2> QED BY <2>1, EndsUp
<1>3. N \in 0..N /\ row_size \in Nat
  BY <1>1 DEF row_size
<1>4. ASSUME NEW i \in 1..N
      PROVE  /\ schema[i] \in ColumnDef /\ column_offset(i) \in Nat
             /\ Stored(values[i]) \in Seq(Byte) /\ Len(Stored(values[i])) \in Nat
             /\ column_offset(i) + Len(Stored(values[i])) <= e[i]
             /\ e[i] \in Nat /\ e[i] <= row_size
  <2>1. i - 1 \in 0..N /\ i \in 0..N /\ schema[i] \in ColumnDef
    BY <1>1
  <2>2. /\ values[i] \in Values /\ values[i].type = schema[i].type
        /\ schema[i].type = "VARCHAR" => Len(values[i].bytes) <= schema[i].max_len
    BY DEF validate_row
  <2> DEFINE v == Stored(values[i])
             size == storage_size(schema[i])
  <2>3. v \in Seq(Byte) /\ Len(v) \in Nat /\ Len(v) <= size /\ size \in Nat
    <3> DEFINE col == schema[i]
               w == values[i]
    <3>1. /\ col \in ColumnDef /\ w \in Values /\ w.type = col.type
          /\ col.type = "VARCHAR" => Len(w.bytes) <= col.max_len
      BY <2>1, <2>2
    <3> HIDE DEF col, w
    <3>2. /\ Stored(w) \in Seq(Byte) /\ Len(Stored(w)) \in Nat
          /\ Len(Stored(w)) <= storage_size(col) /\ storage_size(col) \in Nat
      BY <3>1, StoredFits, StorageSize
    <3> QED BY <3>2 DEF col, w
  <2> HIDE DEF e
  <2>4. e[i] = e[i - 1] + size /\ e[i - 1] \in Nat /\ e[i] \in Nat
    BY <1>1, <2>1, Zenon
  <2> HIDE DEF v, size
  <2>5. e[i - 1] + Len(v) <= e[i]
    BY <2>3, <2>4
  <2> QED BY <1>2, <2>1, <2>3, <2>4, <2>5 DEF v, e, column_offset, row_size
<1> QED BY <1>3, <1>4 DEF validate_row

(* write_row: every part of the row is in its place, and nothing outside   *)
(* the row is touched.                                                     *)
LEMMA RowWritten ==
  ASSUME schema \in Seq(ColumnDef), NEW mem \in Memories, NEW p \in Place,
         NEW values \in Seq(Values), validate_row(values), NEW expiry \in Uint16
  PROVE  LET c == write_row(mem, p, values, expiry) IN
         /\ c \in Memories /\ HasRow(c, p, values, expiry)
         /\ Has(c, p, valid_offset, <<1>>) /\ Keeps(mem, c, p, total_row_size)
<1> DEFINE N == Len(values)
           from(i) == column_offset(i)
           v(i) == Stored(values[i])
           e(i) == Ends(schema)[i]
           step == [n \in 1..N |-> [m \in Memories |-> Copied(m, p, from(n), v(n))]]
           Body(f) == [i \in 0..N |-> IF i = 0 THEN mem ELSE Copied(f[i - 1], p, from(i), v(i))]
<1>1. /\ N \in Nat /\ N \in 0..N /\ row_size \in Nat /\ e(0) = 0 /\ e(N) = row_size
      /\ \A i \in 1..N : /\ from(i) \in Nat /\ v(i) \in Seq(Byte) /\ Len(v(i)) \in Nat
                         /\ from(i) + Len(v(i)) <= e(i) /\ e(i) \in Nat /\ from(i) = e(i - 1)
                         /\ e(i) <= row_size
  BY Layout, EndsRun DEF column_offset, row_size
<1>2. write_row(mem, p, values, expiry) =
        Copied(Copied((CHOOSE h : h = Body(h))[N], p, expiry_offset, Encode(expiry, 8)),
               p, valid_offset, <<1>>)
  BY DEF write_row
<1> HIDE DEF N, from, v, e
<1>3. step \in [1..N -> [Memories -> Memories]]
  BY <1>1, CopyHas, Zenon
<1>4. PICK f : IsRun(f, N, Memories, mem, step)
  <2> HIDE DEF step
  <2> QED BY <1>1, <1>3, Recursion, Zenon
<1>5. f = Body(f)
  <2>1. f \in [0..N -> Memories] /\ f[0] = mem /\ \A n \in 1..N : f[n] = step[n][f[n - 1]]
    BY <1>4 DEF IsRun
  <2>2. \A n \in 1..N : n - 1 \in 0..N
    BY <1>1
  <2>3. \A n \in 1..N : f[n] = Copied(f[n - 1], p, from(n), v(n))
    BY <2>1, <2>2, Zenon
  <2>4. \A n \in 0..N : f[n] = IF n = 0 THEN mem ELSE Copied(f[n - 1], p, from(n), v(n))
    BY <1>1, <2>1, <2>3
  <2> QED BY <2>1, <2>4
<1> DEFINE g == CHOOSE h : h = Body(h)
<1>6. g = Body(g)
  <2> HIDE DEF Body
  <2> QED BY <1>5
<1> HIDE DEF g
<1>7. g[0] = mem /\ \A n \in 1..N : g[n] = Copied(g[n - 1], p, from(n), v(n))
  <2>1. \A n \in 0..N : Body(g)[n] = IF n = 0 THEN mem ELSE Copied(g[n - 1], p, from(n), v(n))
    OBVIOUS
  <2>2. \A n \in 0..N : g[n] = Body(g)[n]
    BY <1>6, Zenon
  <2>3. 0 \in 0..N /\ \A n \in 1..N : n \in 0..N /\ n # 0
    BY <1>1
  <2> HIDE DEF Body
  <2> QED BY <2>1, <2>2, <2>3
<1> DEFINE Good(n) == /\ g[n] \in Memories /\ Keeps(mem, g[n], p, e(n))
                      /\ \A i \in 1..n : Has(g[n], p, from(i), v(i))
           S == {n \in 0..N : Good(n)}
<1>8. 0 \in S
  <2>1. Keeps(mem, mem, p, 0)
    BY DEF Keeps
  <2> QED BY <1>1, <1>7, <2>1
<1>9. ASSUME NEW n \in 1..N, n - 1 \in S PROVE n \in S
  <2> DEFINE c == g[n - 1]
             d == Copied(c, p, from(n), v(n))
  <2>1. /\ c \in Memories /\ Keeps(mem, c, p, from(n)) /\ g[n] = d
        /\ \A i \in 1..(n - 1) : Has(c, p, from(i), v(i))
    BY <1>1, <1>7, <1>9
  <2> HIDE DEF c
  <2>2. /\ from(n) \in Nat /\ v(n) \in Seq(Byte) /\ e(n) \in Nat /\ from(n) + Len(v(n)) <= e(n)
    BY <1>1
  <2>3. /\ d \in Memories /\ Has(d, p, from(n), v(n)) /\ Keeps(mem, d, p, e(n))
        /\ \A to \in Nat, old \in Seq(Byte) :
             Has(c, p, to, old) /\ to + Len(old) <= from(n) => Has(d, p, to, old)
    BY <2>1, <2>2, CopyAfter
  <2>4. ASSUME NEW i \in 1..(n - 1) PROVE from(i) + Len(v(i)) <= from(n)
    <3>1. i \in 1..N /\ n - 1 \in 0..N /\ n - 1 \in i..N /\ Len(schema) = N /\ i \in 0..N
      BY <1>1, Layout DEF N
    <3>2. e(i) <= e(n - 1)
      BY <3>1, EndsUp DEF e
    <3>3. e(i) \in Nat /\ from(i) \in Nat /\ Len(v(i)) \in Nat /\ from(i) + Len(v(i)) <= e(i)
      BY <1>1, <3>1
    <3>4. from(n) = e(n - 1) /\ from(n) \in Nat
      BY <1>1
    <3> QED BY <3>2, <3>3, <3>4
  <2>5. ASSUME NEW i \in 1..n PROVE Has(d, p, from(i), v(i))
    <3>1. CASE i = n
      BY <2>3, <3>1
    <3>2. CASE i # n
      <4>1. i \in 1..(n - 1) /\ i \in 1..N
        BY <1>1, <3>2
      <4> QED BY <1>1, <2>1, <2>3, <2>4, <4>1
    <3> QED BY <3>1, <3>2
  <2>6. n \in 0..N
    BY <1>1
  <2> HIDE DEF d
  <2> QED BY <2>1, <2>3, <2>5, <2>6
<1>10. 0..N \subseteq S
  <2> HIDE DEF S
  <2> QED BY <1>1, <1>8, <1>9, UpTo, Zenon
<1>11. Good(N)
  BY <1>1, <1>10
<1> DEFINE c1 == Copied(g[N], p, row_size, Encode(expiry, 8))
           c2 == Copied(c1, p, row_size + 8, <<1>>)
<1>12. /\ Encode(expiry, 8) \in Seq(Byte) /\ Len(Encode(expiry, 8)) = 8
       /\ <<1>> \in Seq(Byte) /\ Len(<<1>>) = 1
  <2>1. 1 \in Byte
    BY DEF Byte
  <2>2. <<1>> \in Seq(Byte) /\ Len(<<1>>) = 1
    BY <2>1
  <2>3. Encode(expiry, 8) \in Seq(Byte) /\ Len(Encode(expiry, 8)) = 8
    <3> DEFINE n == 8
    <3>1. n \in Nat /\ n >= 2
      OBVIOUS
    <3> HIDE DEF n
    <3>2. Encode(expiry, n) \in Seq(Byte) /\ Len(Encode(expiry, n)) = n
      BY <3>1, EncodeDecode
    <3> QED BY <3>2 DEF n
  <2> QED BY <2>2, <2>3
<1>13. /\ c1 \in Memories /\ Has(c1, p, row_size, Encode(expiry, 8))
       /\ Keeps(mem, c1, p, row_size + 8)
       /\ \A i \in 1..N : Has(c1, p, from(i), v(i))
  <2> DEFINE c == g[N]
             b == Encode(expiry, 8)
             n == row_size + 8
  <2>1. /\ c \in Memories /\ Keeps(mem, c, p, row_size) /\ \A i \in 1..N : Has(c, p, from(i), v(i))
    BY <1>1, <1>11
  <2>2. n \in Nat /\ b \in Seq(Byte) /\ row_size + Len(b) <= n
    <3>1. row_size \in Nat /\ b \in Seq(Byte) /\ Len(b) = 8
      BY <1>1, <1>12
    <3> HIDE DEF b
    <3> QED BY <3>1
  <2>3. \A i \in 1..N : from(i) \in Nat /\ v(i) \in Seq(Byte) /\ from(i) + Len(v(i)) <= row_size
    BY <1>1
  <2> HIDE DEF c, b, n
  <2>4. /\ Copied(c, p, row_size, b) \in Memories /\ Has(Copied(c, p, row_size, b), p, row_size, b)
        /\ Keeps(mem, Copied(c, p, row_size, b), p, n)
        /\ \A to \in Nat, old \in Seq(Byte) :
             Has(c, p, to, old) /\ to + Len(old) <= row_size
               => Has(Copied(c, p, row_size, b), p, to, old)
    BY <1>1, <2>1, <2>2, CopyAfter
  <2>5. \A i \in 1..N : Has(Copied(c, p, row_size, b), p, from(i), v(i))
    BY <2>1, <2>3, <2>4
  <2> QED BY <2>4, <2>5 DEF c, b, n
<1> HIDE DEF c1
<1>14. /\ c2 \in Memories /\ Has(c2, p, row_size + 8, <<1>>) /\ Keeps(mem, c2, p, row_size + 9)
       /\ Has(c2, p, row_size, Encode(expiry, 8)) /\ \A i \in 1..N : Has(c2, p, from(i), v(i))
  <2> DEFINE b == <<1>>
             o == row_size + 8
             n == row_size + 9
  <2>1. o \in Nat /\ n \in Nat /\ b \in Seq(Byte) /\ o + Len(b) <= n /\ Keeps(mem, c1, p, o)
    BY <1>1, <1>12, <1>13
  <2>2. \A i \in 1..N : from(i) \in Nat /\ v(i) \in Seq(Byte) /\ from(i) + Len(v(i)) <= o
    BY <1>1
  <2>3. row_size + Len(Encode(expiry, 8)) <= o
    <3> DEFINE l == Len(Encode(expiry, 8))
    <3>1. row_size \in Nat /\ l = 8
      BY <1>1, <1>12
    <3> HIDE DEF l
    <3>2. row_size + l <= o
      BY <3>1
    <3> QED BY <3>2 DEF l
  <2> HIDE DEF b, o, n
  <2>4. /\ Copied(c1, p, o, b) \in Memories /\ Has(Copied(c1, p, o, b), p, o, b)
        /\ Keeps(mem, Copied(c1, p, o, b), p, n)
        /\ \A to \in Nat, old \in Seq(Byte) :
             Has(c1, p, to, old) /\ to + Len(old) <= o => Has(Copied(c1, p, o, b), p, to, old)
    BY <1>13, <2>1, CopyAfter
  <2>5. \A i \in 1..N : Has(Copied(c1, p, o, b), p, from(i), v(i))
    BY <1>13, <2>2, <2>4
  <2>6. Has(Copied(c1, p, o, b), p, row_size, Encode(expiry, 8))
    BY <1>1, <1>12, <1>13, <2>3, <2>4
  <2> QED BY <2>4, <2>5, <2>6 DEF b, o, n
<1>15. write_row(mem, p, values, expiry) = c2
  BY <1>2 DEF g, c1, expiry_offset, valid_offset
<1> QED BY <1>14, <1>15 DEF HasRow, N, from, v, expiry_offset, valid_offset, total_row_size

(* memcpy back.                                                            *)
LEMMA BytesAre ==
  ASSUME NEW p, NEW from \in Nat, NEW bytes \in Seq(Byte), Has(memory, p, from, bytes)
  PROVE  Bytes(p, from, Len(bytes)) = bytes
<1> DEFINE b == Bytes(p, from, Len(bytes))
<1>1. \A k \in 1..Len(bytes) : b[k] = bytes[k]
  BY DEF Bytes, Has
<1>2. b = [k \in 1..Len(bytes) |-> bytes[k]]
  BY <1>1 DEF Bytes
<1>3. bytes = [k \in 1..Len(bytes) |-> bytes[k]]
  OBVIOUS
<1> QED BY <1>2, <1>3

(* What lies in two parts one behind the other.                            *)
LEMMA HasParts ==
  ASSUME NEW mem, NEW p \in Place, NEW from \in Nat, NEW a \in Seq(Byte), NEW b \in Seq(Byte),
         Has(mem, p, from, a \o b)
  PROVE  Has(mem, p, from, a) /\ Has(mem, p, from + Len(a), b)
<1>1. /\ Len(a) \in Nat /\ Len(b) \in Nat /\ Len(a \o b) = Len(a) + Len(b)
      /\ \A i \in 1..Len(a) : (a \o b)[i] = a[i]
      /\ \A i \in 1..Len(b) : (a \o b)[Len(a) + i] = b[i]
  BY Joined
<1> DEFINE c == a \o b
           m == Len(a)
           n == Len(b)
<1>2. /\ m \in Nat /\ n \in Nat /\ Len(c) = m + n
      /\ \A i \in 1..m : c[i] = a[i]
      /\ \A i \in 1..n : c[m + i] = b[i]
  BY <1>1
<1>3. \A k \in 1..Len(c) : At(p, from + k - 1) \in DOMAIN mem /\ mem[At(p, from + k - 1)] = c[k]
  BY DEF Has
<1> HIDE DEF c, m, n
<1>4. ASSUME NEW k \in 1..m
      PROVE  At(p, from + k - 1) \in DOMAIN mem /\ mem[At(p, from + k - 1)] = a[k]
  <2>1. k \in 1..Len(c)
    BY <1>2
  <2> QED BY <1>2, <1>3, <2>1
<1>5. ASSUME NEW k \in 1..n
      PROVE  At(p, from + m + k - 1) \in DOMAIN mem /\ mem[At(p, from + m + k - 1)] = b[k]
  <2>1. m + k \in 1..Len(c) /\ from + (m + k) - 1 = from + m + k - 1
    BY <1>2
  <2> QED BY <1>2, <1>3, <2>1
<1> QED BY <1>4, <1>5 DEF Has, m, n

(* read_value gives back what write_row stored, column by column.          *)
LEMMA ValueRead ==
  ASSUME schema \in Seq(ColumnDef), NEW p \in Place, NEW values \in Seq(Values),
         validate_row(values), NEW i \in 1..Len(schema),
         Has(memory, p, column_offset(i), Stored(values[i]))
  PROVE  read_value(p, i) = values[i]
<1> DEFINE v == values[i]
           t == schema[i].type
           from == column_offset(i)
<1>1. v \in Values /\ v.type = t /\ from \in Nat /\ schema[i] \in ColumnDef
  BY Layout DEF validate_row
<1>2. t = "VARCHAR" => Len(v.bytes) <= schema[i].max_len
  BY DEF validate_row
<1>3. v.bytes \in Seq(Byte) /\ v = Value(t, v.bytes) /\ t \in Types
  BY <1>1 DEF Values, Value
<1>4. Has(memory, p, from, Stored(v))
  OBVIOUS
<1>5. read_value(p, i) = Value(t, IF t = "VARCHAR" THEN Bytes(p, from + 2, Decode(Bytes(p, from, 2)))
                                  ELSE Bytes(p, from, storage_size(schema[i])))
  BY DEF read_value
<1> HIDE DEF v, from
<1>6. CASE t = "VARCHAR"
  <2> DEFINE b == v.bytes
             x == Len(b)
             h == Encode(x, 2)
  <2>1. x \in Uint16 /\ b \in Seq(Byte)
    <3>1. schema[i].max_len \in Nat /\ schema[i].max_len < 65536 /\ x <= schema[i].max_len /\ x \in Nat
      BY <1>1, <1>2, <1>3, <1>6 DEF ColumnDef, Uint16
    <3> QED BY <1>3, <3>1 DEF Uint16
  <2>2. Stored(v) = h \o b
    BY <1>1, <1>6 DEF Stored
  <2> HIDE DEF b, x
  <2>3. h \in Seq(Byte) /\ Len(h) = 2 /\ Decode(h) = x
    <3> DEFINE n == 2
    <3>1. n \in Nat /\ n >= 2
      OBVIOUS
    <3> HIDE DEF n
    <3>2. Encode(x, n) \in Seq(Byte) /\ Len(Encode(x, n)) = n /\ Decode(Encode(x, n)) = x
      BY <2>1, <3>1, EncodeDecode
    <3> QED BY <3>2 DEF n
  <2> HIDE DEF h
  <2>4. Has(memory, p, from, h) /\ Has(memory, p, from + 2, b)
    <3>1. Has(memory, p, from, h) /\ Has(memory, p, from + Len(h), b)
      <4>1. Has(memory, p, from, h \o b)
        BY <1>4, <2>2
      <4>2. h \in Seq(Byte) /\ b \in Seq(Byte) /\ from \in Nat
        BY <1>1, <2>1, <2>3
      <4> QED BY <4>1, <4>2, HasParts
    <3> QED BY <2>3, <3>1
  <2>5. Bytes(p, from, 2) = h
    <3>1. Bytes(p, from, Len(h)) = h
      BY <1>1, <2>3, <2>4, BytesAre, Zenon
    <3> QED BY <2>3, <3>1
  <2>6. Bytes(p, from + 2, x) = b
    <3>1. from + 2 \in Nat
      BY <1>1
    <3>2. Bytes(p, from + 2, Len(b)) = b
      BY <2>1, <2>4, <3>1, BytesAre
    <3> QED BY <3>2 DEF x
  <2> QED BY <1>3, <1>5, <1>6, <2>3, <2>5, <2>6 DEF b, v
<1>7. CASE t # "VARCHAR"
  <2>1. Stored(v) = v.bytes
    BY <1>1, <1>7 DEF Stored
  <2>2. Len(v.bytes) = storage_size(schema[i])
    <3>1. CASE t = "INT"
      <4>1. Len(v.bytes) = 4
        BY <1>1, <3>1 DEF Values
      <4>2. storage_size(schema[i]) = 4
        BY <3>1 DEF storage_size
      <4> QED BY <4>1, <4>2
    <3>2. CASE t \in {"DECIMAL", "DATETIME"}
      BY <1>1, <3>2 DEF Values, storage_size
    <3> QED BY <1>3, <1>7, <3>1, <3>2 DEF Types
  <2>3. Bytes(p, from, Len(v.bytes)) = v.bytes
    BY <1>1, <1>3, <1>4, <2>1, BytesAre
  <2> QED BY <1>3, <1>5, <1>7, <2>2, <2>3 DEF v
<1> QED BY <1>6, <1>7

-----------------------------------------------------------------------------
(* The table                                                               *)

(* allocate returns a block that shares no byte with the ones before.      *)
LEMMA Allocated ==
  ASSUME ArenaInv, NEW size \in Nat, AllocateHere(size) \/ AllocateInNewChunk(size)
  PROVE  /\ ArenaInv' /\ blocks \subseteq blocks' /\ NewBlock \in blocks' \ blocks
         /\ NewBlock \in Place /\ NewBlock.size = size
         /\ \A q \in blocks : /\ q \in Place
                             /\ \/ NewBlock.chunk # q.chunk
                                \/ NewBlock.start + NewBlock.size <= q.start
                                \/ q.start + q.size <= NewBlock.start
<1>1. PICK b \in Place : blocks' = blocks \cup {b} /\ b.size = size /\ b \notin blocks
  <2>1. offset \in Nat /\ Len(chunks) \in Nat /\ size \in Nat \ {0}
    BY DEF ArenaInv, ArenaTypeOK, AllocateHere, AllocateInNewChunk
  <2>2. CASE AllocateHere(size)
    <3> DEFINE b == [chunk |-> Len(chunks), start |-> Aligned(offset), size |-> size]
    <3>1. Aligned(offset) \in Nat /\ Aligned(offset) >= offset
      BY <2>1, AlignedUp
    <3>2. b \in Place
      BY <2>1, <3>1 DEF Place
    <3>3. b \notin blocks
      <4> SUFFICES ASSUME b \in blocks PROVE FALSE
        OBVIOUS
      <4>1. Aligned(offset) + size <= offset
        BY DEF ArenaInv, BelowOffset, End
      <4> QED BY <2>1, <3>1, <4>1
    <3> QED BY <2>2, <3>2, <3>3 DEF AllocateHere
  <2>3. CASE AllocateInNewChunk(size)
    <3> DEFINE b == [chunk |-> Len(chunks) + 1, start |-> 0, size |-> size]
    <3>1. b \in Place
      BY <2>1 DEF Place
    <3>2. b \notin blocks
      BY <2>1 DEF ArenaInv, ArenaTypeOK
    <3> QED BY <2>3, <3>1, <3>2 DEF AllocateInNewChunk
  <2> QED BY <2>2, <2>3
<1>2. NewBlock = b
  BY <1>1 DEF NewBlock
<1>3. ArenaInv'
  BY ArenaInvHere, ArenaInvNewChunk
<1>4. \A q \in blocks : q \in Place
  <2>1. Len(chunks) \in Nat
    BY DEF ArenaInv, ArenaTypeOK
  <2> QED BY <2>1 DEF ArenaInv, ArenaTypeOK, Place
<1>5. \A q \in blocks : b.chunk # q.chunk \/ End(b) <= q.start \/ End(q) <= b.start
  BY <1>1, <1>3 DEF ArenaInv, BlocksDisjoint
<1> QED BY <1>1, <1>2, <1>3, <1>4, <1>5 DEF End

Entry == [values : Seq(Values), expiry : Uint16]
Gone(e) == e.expiry > 0 /\ now > e.expiry

(* A row is whole in a block of its own, is marked unless it has expired,  *)
(* and expires ttl_seconds_ after an earlier time.                         *)
RowOk(i) ==
  /\ rows[i] \in blocks /\ rows[i].size = total_row_size
  /\ validate_row(inserted[i].values)
  /\ HasRow(memory, rows[i], inserted[i].values, inserted[i].expiry)
  /\ \/ Has(memory, rows[i], valid_offset, <<1>>)
     \/ Has(memory, rows[i], valid_offset, <<0>>) /\ Gone(inserted[i])
  /\ inserted[i].expiry = 0 \/ inserted[i].expiry <= now + ttl
  /\ ttl = 0 <=> inserted[i].expiry = 0

(* The index leads from each key to its last row.                          *)
IndexOk ==
  /\ \A k \in DOMAIN pk_index :
       pk_index[k] \in 1..Len(rows) /\ inserted[pk_index[k]].values[1] = k
  /\ \A i \in 1..Len(rows) :
       inserted[i].values[1] \in DOMAIN pk_index /\ i <= pk_index[inserted[i].values[1]]

Flagged == {i \in 1..Len(rows) : Flag(rows[i]) = 1}

TableTypes ==
  /\ schema \in Schemas /\ ttl \in Ttls /\ now \in Nat /\ now > 0 /\ now <= MaxTime
  /\ memory \in Memories
  /\ rows \in Seq(Place) /\ inserted \in Seq(Entry) /\ Len(inserted) = Len(rows)

RowsOk ==
  /\ \A i \in 1..Len(rows) : RowOk(i)
  /\ \A i, j \in 1..Len(rows) :
       i < j => rows[i] # rows[j] /\ inserted[i].expiry <= inserted[j].expiry

(* Inductive.                                                              *)
TableInv ==
  /\ ArenaInv /\ TableTypes /\ RowsOk /\ IndexOk
  /\ row_count = Cardinality(Flagged)

(* The byte of the flag.                                                   *)
LEMMA FlagByte ==
  ASSUME NEW mem, NEW p, NEW b, NEW o \in Nat
  PROVE  Has(mem, p, o, <<b>>) <=> At(p, o) \in DOMAIN mem /\ mem[At(p, o)] = b
<1>1. Len(<<b>>) = 1 /\ <<b>>[1] = b /\ 1..1 = {1} /\ o + 1 - 1 = o
  OBVIOUS
<1> DEFINE s == <<b>>
<1>2. Len(s) = 1 /\ s[1] = b
  BY <1>1
<1> HIDE DEF s
<1>3. Has(mem, p, o, s) <=> At(p, o) \in DOMAIN mem /\ mem[At(p, o)] = b
  BY <1>1, <1>2 DEF Has
<1> QED BY <1>3 DEF s

(* is_row_valid reads the expiry that write_row stored.                    *)
LEMMA ExpiryRead ==
  ASSUME row_size \in Nat, NEW p, NEW values, NEW expiry \in Uint16, HasRow(memory, p, values, expiry)
  PROVE  Expired(p) <=> expiry > 0 /\ now > expiry
<1> DEFINE n == 8
           b == Encode(expiry, n)
<1>1. n \in Nat /\ n >= 2
  OBVIOUS
<1>2. Has(memory, p, expiry_offset, b) /\ expiry_offset \in Nat
  BY DEF HasRow, expiry_offset
<1>3. Expired(p) <=> Decode(Bytes(p, expiry_offset, n)) > 0 /\ now > Decode(Bytes(p, expiry_offset, n))
  BY DEF Expired
<1> HIDE DEF n
<1>4. b \in Seq(Byte) /\ Len(b) = n /\ Decode(b) = expiry
  BY <1>1, EncodeDecode
<1> HIDE DEF b
<1>5. Bytes(p, expiry_offset, Len(b)) = b
  BY <1>2, <1>4, BytesAre
<1> QED BY <1>3, <1>4, <1>5

(* Two blocks that share no byte.                                          *)
Beside(p, q) ==
  p.chunk # q.chunk \/ p.start + p.size <= q.start \/ q.start + q.size <= p.start

(* The bytes before the flag of a row are the same in another memory.      *)
SameBytes(mem, c, q) ==
  \A to \in Nat, old \in Seq(Byte) :
    Has(mem, q, to, old) /\ to + Len(old) <= valid_offset => Has(c, q, to, old)

(* Columns and expiry lie before the flag.                                 *)
LEMMA SameRow ==
  ASSUME schema \in Seq(ColumnDef), NEW mem, NEW c, NEW q, SameBytes(mem, c, q),
         NEW values \in Seq(Values), validate_row(values), NEW expiry \in Uint16,
         HasRow(mem, q, values, expiry)
  PROVE  HasRow(c, q, values, expiry)
<1> DEFINE n == valid_offset
<1>0. row_size \in Nat /\ n = row_size + 8 /\ n \in Nat
  BY Layout DEF valid_offset
<1>1. ASSUME NEW i \in 1..Len(values)
      PROVE  Has(c, q, column_offset(i), Stored(values[i]))
  <2> DEFINE v == Stored(values[i])
  <2>1. /\ column_offset(i) \in Nat /\ v \in Seq(Byte) /\ Len(v) \in Nat
        /\ column_offset(i) + Len(v) <= Ends(schema)[i]
        /\ Ends(schema)[i] \in Nat /\ Ends(schema)[i] <= row_size
    BY Layout
  <2>2. Has(mem, q, column_offset(i), v)
    BY DEF HasRow
  <2> HIDE DEF v
  <2>3. column_offset(i) + Len(v) <= n
    <3> HIDE DEF n
    <3> QED BY <1>0, <2>1
  <2>4. Has(c, q, column_offset(i), v)
    BY <2>1, <2>2, <2>3 DEF n, SameBytes
  <2> QED BY <2>4 DEF v
<1>2. Has(c, q, expiry_offset, Encode(expiry, 8))
  <2> DEFINE k == 8
             b == Encode(expiry, k)
  <2>1. k \in Nat /\ k >= 2 /\ expiry_offset \in Nat /\ expiry_offset + k <= n
    BY <1>0 DEF expiry_offset
  <2>2. Has(mem, q, expiry_offset, b)
    BY DEF HasRow
  <2> HIDE DEF k
  <2>3. b \in Seq(Byte) /\ Len(b) = k
    BY <2>1, EncodeDecode
  <2> HIDE DEF b
  <2>4. Has(c, q, expiry_offset, b)
    BY <2>1, <2>2, <2>3, Zenon DEF n, SameBytes
  <2> QED BY <2>4 DEF b, k
<1> QED BY <1>1, <1>2 DEF HasRow

(* A row stays what it is when another one is written.                     *)
LEMMA RowKept ==
  ASSUME schema \in Seq(ColumnDef), NEW mem, NEW c, NEW p \in Place, NEW q \in Place,
         p.size = total_row_size, q.size = total_row_size, Beside(p, q),
         Keeps(mem, c, p, total_row_size),
         NEW values \in Seq(Values), validate_row(values), NEW expiry \in Uint16
  PROVE  /\ HasRow(mem, q, values, expiry) => HasRow(c, q, values, expiry)
         /\ \A b \in Byte : Has(mem, q, valid_offset, <<b>>) => Has(c, q, valid_offset, <<b>>)
<1> DEFINE n == total_row_size
<1>1. row_size \in Nat /\ n = row_size + 9 /\ n \in Nat
  BY Layout DEF total_row_size
<1>2. ASSUME NEW to \in Nat, NEW old \in Seq(Byte), to + Len(old) <= n, Has(mem, q, to, old)
      PROVE  Has(c, q, to, old)
  <2> DEFINE P == p.start
             Q == q.start
             m == Len(old)
  <2>1. P \in Nat /\ Q \in Nat /\ m \in Nat /\ to + m <= n
    BY <1>2 DEF Place
  <2>2. p.chunk # q.chunk \/ P + n <= Q \/ Q + n <= P
    BY DEF Beside
  <2>3. p.chunk # q.chunk \/ P + 0 + n <= Q + to \/ Q + to + m <= P + 0
    <3> HIDE DEF P, Q, m, n
    <3> QED BY <1>1, <2>1, <2>2
  <2>4. Apart(p, 0, total_row_size, q, to, Len(old))
    BY <2>3 DEF Apart
  <2> QED BY <1>2, <2>4 DEF Keeps
<1> HIDE DEF n
<1>3. ASSUME HasRow(mem, q, values, expiry) PROVE HasRow(c, q, values, expiry)
  <2>1. ASSUME NEW to \in Nat, NEW old \in Seq(Byte), to + Len(old) <= valid_offset
        PROVE  to + Len(old) <= n
    <3> DEFINE m == Len(old)
    <3>1. to + m <= row_size + 8 /\ m \in Nat
      BY <2>1 DEF valid_offset
    <3> HIDE DEF m
    <3>2. to + m <= n
      BY <1>1, <3>1
    <3> QED BY <3>2 DEF m
  <2>2. SameBytes(mem, c, q)
    BY <1>2, <2>1 DEF SameBytes
  <2> QED BY <1>3, <2>2, SameRow
<1>4. ASSUME NEW b \in Byte, Has(mem, q, valid_offset, <<b>>) PROVE Has(c, q, valid_offset, <<b>>)
  <2> DEFINE s == <<b>>
  <2>1. s \in Seq(Byte) /\ Len(s) = 1 /\ Has(mem, q, valid_offset, s)
    BY <1>4
  <2>2. valid_offset \in Nat /\ valid_offset + 1 <= n
    BY <1>1 DEF valid_offset
  <2> HIDE DEF s
  <2>3. Has(c, q, valid_offset, s)
    BY <1>2, <2>1, <2>2, Zenon
  <2> QED BY <2>3 DEF s
<1> QED BY <1>3, <1>4

(* What is to be shown of a row after a step.                              *)
LEMMA RowOkNext ==
  ASSUME schema' = schema, ttl' = ttl, NEW i, NEW c, memory' = c, NEW p, rows'[i] = p,
         NEW e, inserted'[i] = e, p \in blocks', p.size = total_row_size, validate_row(e.values),
         HasRow(c, p, e.values, e.expiry)
  PROVE  /\ \/ Has(c, p, valid_offset, <<1>>)
            \/ Has(c, p, valid_offset, <<0>>) /\ e.expiry > 0 /\ now' > e.expiry
         /\ e.expiry = 0 \/ e.expiry <= now' + ttl
         /\ ttl = 0 <=> e.expiry = 0
         => RowOk(i)'
  BY DEF RowOk, HasRow, Gone, column_offset, expiry_offset, valid_offset, total_row_size, row_size,
         validate_row

(* The invariant, row by row.                                              *)
LEMMA RowFacts ==
  ASSUME TableInv, NEW i \in 1..Len(rows)
  PROVE  /\ schema \in Seq(ColumnDef) /\ Len(schema) > 0
         /\ rows[i] \in Place /\ inserted[i] \in Entry
         /\ inserted[i].values \in Seq(Values) /\ inserted[i].expiry \in Uint16
         /\ inserted[i].expiry \in Nat /\ Len(inserted[i].values) = Len(schema)
         /\ row_size \in Nat /\ valid_offset \in Nat /\ RowOk(i)
         /\ \/ Flag(rows[i]) = 1 /\ Has(memory, rows[i], valid_offset, <<1>>)
            \/ /\ Flag(rows[i]) = 0 /\ Has(memory, rows[i], valid_offset, <<0>>)
               /\ Gone(inserted[i])
         /\ Expired(rows[i]) <=> Gone(inserted[i])
<1>1. /\ schema \in Seq(ColumnDef) /\ Len(schema) > 0
      /\ rows[i] \in Place /\ inserted[i] \in Entry /\ RowOk(i)
  <2>1. schema \in Seq(ColumnDef) /\ Len(schema) > 0
    BY TableAssumption DEF TableInv, TableTypes
  <2>2. rows \in Seq(Place) /\ inserted \in Seq(Entry) /\ Len(inserted) = Len(rows)
    BY DEF TableInv, TableTypes
  <2>3. RowOk(i)
    BY DEF TableInv, RowsOk
  <2> QED BY <2>1, <2>2, <2>3
<1>2. inserted[i].values \in Seq(Values) /\ inserted[i].expiry \in Uint16
  BY <1>1 DEF Entry
<1>3. inserted[i].expiry \in Nat
  BY <1>2 DEF Uint16
<1>4. validate_row(inserted[i].values)
  BY <1>1 DEF RowOk
<1>5. row_size \in Nat /\ Len(inserted[i].values) = Len(schema)
  BY <1>1, <1>2, <1>4, Layout
<1>6. valid_offset \in Nat
  BY <1>5 DEF valid_offset
<1>7. \/ Flag(rows[i]) = 1 /\ Has(memory, rows[i], valid_offset, <<1>>)
      \/ Flag(rows[i]) = 0 /\ Has(memory, rows[i], valid_offset, <<0>>) /\ Gone(inserted[i])
  <2>1. \/ Has(memory, rows[i], valid_offset, <<1>>)
        \/ Has(memory, rows[i], valid_offset, <<0>>) /\ Gone(inserted[i])
    BY <1>1 DEF RowOk
  <2>2. \A b : Has(memory, rows[i], valid_offset, <<b>>) => Flag(rows[i]) = b
    BY <1>6, FlagByte DEF Flag
  <2> QED BY <2>1, <2>2
<1>8. Expired(rows[i]) <=> Gone(inserted[i])
  <2> DEFINE p == rows[i]
             v == inserted[i].values
             x == inserted[i].expiry
  <2>1. HasRow(memory, p, v, x) /\ x \in Uint16
    BY <1>1, <1>2 DEF RowOk
  <2> HIDE DEF p, v, x
  <2>2. Expired(p) <=> x > 0 /\ now > x
    BY <1>5, <2>1, ExpiryRead
  <2> QED BY <2>2 DEF p, x, Gone
<1> QED BY <1>1, <1>2, <1>3, <1>5, <1>6, <1>7, <1>8, Zenon

(* The constructor of the table.                                           *)
LEMMA TableInit == Init => TableInv
<1> SUFFICES ASSUME Init PROVE TableInv
  OBVIOUS
<1>1. ArenaInv
  BY ArenaInvInit DEF Init
<1>2. <<>> \in Memories
  <2>1. <<>> \in [{} -> Byte]
    OBVIOUS
  <2> QED BY <2>1 DEF Memories
<1>3. TableTypes
  BY <1>2, TableAssumption DEF Init, TableTypes
<1>4. RowsOk /\ Len(rows) = 0
  BY DEF Init, RowsOk
<1>5. IndexOk
  BY <1>4 DEF Init, IndexOk
<1>6. Flagged = {} /\ row_count = 0
  BY <1>4 DEF Flagged, Init
<1> QED BY <1>1, <1>3, <1>4, <1>5, <1>6, FS_EmptySet DEF TableInv

(* The clock: a row that had expired stays so.                             *)
LEMMA TickStep ==
  ASSUME TableInv, Tick
  PROVE  TableInv'
<1>1. /\ now' = now + 1 /\ now < MaxTime /\ now \in Nat /\ ttl \in Nat
      /\ chunks' = chunks /\ offset' = offset /\ total' = total /\ blocks' = blocks
      /\ schema' = schema /\ ttl' = ttl /\ memory' = memory /\ rows' = rows
      /\ pk_index' = pk_index /\ row_count' = row_count /\ inserted' = inserted
  BY TableAssumption DEF Tick, arenaVars, TableInv, TableTypes
<1>2. ArenaInv'
  BY <1>1 DEF TableInv, ArenaInv, ArenaTypeOK, BlocksDisjoint, BlocksInside, BelowOffset, End
<1>3. TableTypes'
  BY <1>1, TableAssumption DEF TableInv, TableTypes
<1>4. ASSUME NEW i \in 1..Len(rows) PROVE RowOk(i)'
  <2> DEFINE p == rows[i]
             e == inserted[i]
             c == memory
  <2>1. e.expiry \in Nat /\ RowOk(i)
    BY RowFacts
  <2>2. /\ p \in blocks' /\ p.size = total_row_size /\ validate_row(e.values)
        /\ HasRow(c, p, e.values, e.expiry)
        /\ \/ Has(c, p, valid_offset, <<1>>)
           \/ Has(c, p, valid_offset, <<0>>) /\ e.expiry > 0 /\ now > e.expiry
        /\ e.expiry = 0 \/ e.expiry <= now + ttl
        /\ ttl = 0 <=> e.expiry = 0
    BY <1>1, <2>1, Zenon DEF RowOk, Gone
  <2>3. memory' = c /\ rows'[i] = p /\ inserted'[i] = e
    BY <1>1
  <2> HIDE DEF p, e, c
  <2>4. /\ now > e.expiry => now' > e.expiry
        /\ e.expiry <= now + ttl => e.expiry <= now' + ttl
    BY <1>1, <2>1
  <2> QED BY <1>1, <2>2, <2>3, <2>4, RowOkNext
<1>5. RowsOk'
  BY <1>1, <1>4 DEF TableInv, RowsOk
<1>6. IndexOk'
  BY <1>1 DEF TableInv, IndexOk
<1>7. Flagged' = Flagged
  BY <1>1 DEF Flagged, Flag, valid_offset, row_size
<1> QED BY <1>1, <1>2, <1>3, <1>5, <1>6, <1>7 DEF TableInv

(* The flag of a row is no other byte of a row: what the sweep writes.     *)
LEMMA FlagAddress ==
  ASSUME TableInv, NEW i \in 1..Len(rows), NEW j \in 1..Len(rows), NEW x \in Nat,
         x <= valid_offset, At(rows[j], x) = At(rows[i], valid_offset)
  PROVE  i = j /\ x = valid_offset
<1> DEFINE p == rows[i]
           q == rows[j]
           n == valid_offset
           P == p.start
           Q == q.start
<1>1. /\ p \in Place /\ q \in Place /\ n \in Nat /\ p \in blocks /\ q \in blocks
      /\ p.size = total_row_size /\ q.size = total_row_size /\ total_row_size = n + 1
  <2>1. /\ p \in Place /\ q \in Place /\ row_size \in Nat /\ n \in Nat /\ RowOk(i) /\ RowOk(j)
    BY RowFacts, Zenon
  <2>2. total_row_size = n + 1
    BY <2>1 DEF total_row_size, valid_offset
  <2> QED BY <2>1, <2>2, Zenon DEF RowOk
<1>2. P \in Nat /\ Q \in Nat
  BY <1>1 DEF Place
<1>3. p.chunk = q.chunk /\ Q + x = P + n
  BY DEF At
<1>4. ASSUME p # q PROVE FALSE
  <2>1. p.chunk # q.chunk \/ P + (n + 1) <= Q \/ Q + (n + 1) <= P
    BY <1>1, <1>4 DEF TableInv, ArenaInv, BlocksDisjoint, End
  <2> HIDE DEF p, q, n, P, Q
  <2> QED BY <1>1, <1>2, <1>3, <2>1, x <= n DEF n
<1>5. i = j
  <2>1. i < j \/ j < i \/ i = j
    OBVIOUS
  <2> QED BY <1>4, <2>1 DEF TableInv, RowsOk
<1>6. x = n
  <2>1. P = Q
    BY <1>5
  <2> HIDE DEF P, Q, n
  <2> QED BY <1>1, <1>2, <1>3, <2>1
<1> QED BY <1>5, <1>6

(* Finitely many rows have a flag.                                         *)
LEMMA FlaggedFinite == TableInv => IsFiniteSet(Flagged)
<1> SUFFICES ASSUME TableInv PROVE IsFiniteSet(Flagged)
  OBVIOUS
<1> DEFINE n == Len(rows)
<1>1. 1 \in Int /\ n \in Int
  BY DEF TableInv, TableTypes
<1>2. Flagged \subseteq 1..n
  BY DEF Flagged
<1> HIDE DEF n
<1>3. IsFiniteSet(1..n)
  BY <1>1, FS_Interval
<1> QED BY <1>2, <1>3, FS_Subset, Zenon

(* The sweep: expired rows lose their flags and nothing else changes.      *)
LEMMA SweepStep ==
  ASSUME TableInv, cleanup_expired
  PROVE  TableInv'
<1> DEFINE stale == {i \in 1..Len(rows) : Flag(rows[i]) = 1 /\ Expired(rows[i])}
           c == memory'
           Hit(a) == \E i \in stale : a = At(rows[i], valid_offset)
<1>1. /\ c = [a \in DOMAIN memory |-> IF Hit(a) THEN 0 ELSE memory[a]]
      /\ row_count' = row_count - Cardinality(stale)
      /\ chunks' = chunks /\ offset' = offset /\ total' = total /\ blocks' = blocks
      /\ schema' = schema /\ ttl' = ttl /\ rows' = rows /\ now' = now
      /\ pk_index' = pk_index /\ inserted' = inserted
  BY DEF cleanup_expired, arenaVars
<1>2. ArenaInv'
  BY <1>1 DEF TableInv, ArenaInv, ArenaTypeOK, BlocksDisjoint, BlocksInside, BelowOffset, End
<1>3. c \in Memories
  <2>1. memory \in Memories
    BY DEF TableInv, TableTypes
  <2>2. PICK D \in SUBSET (Nat \X Nat) : memory \in [D -> Byte]
    BY <2>1 DEF Memories
  <2>3. 0 \in Byte
    BY DEF Byte
  <2>4. c \in [D -> Byte]
    BY <1>1, <2>2, <2>3
  <2> QED BY <2>4 DEF Memories
<1>4. TableTypes'
  BY <1>1, <1>3 DEF TableInv, TableTypes
<1>5. ASSUME NEW i \in 1..Len(rows) PROVE SameBytes(memory, c, rows[i])
  <2> SUFFICES ASSUME NEW to \in Nat, NEW old \in Seq(Byte), Has(memory, rows[i], to, old),
                      to + Len(old) <= valid_offset, NEW k \in 1..Len(old)
               PROVE  /\ At(rows[i], to + k - 1) \in DOMAIN c
                      /\ c[At(rows[i], to + k - 1)] = old[k]
    BY Zenon DEF SameBytes, Has
  <2> DEFINE a == At(rows[i], to + k - 1)
  <2>1. a \in DOMAIN memory /\ memory[a] = old[k]
    BY DEF Has
  <2>2. to + k - 1 \in Nat /\ to + k - 1 <= valid_offset /\ to + k - 1 # valid_offset
    <3> DEFINE m == Len(old)
               n == valid_offset
    <3>1. m \in Nat /\ n \in Nat /\ k \in 1..m /\ to + m <= n
      BY RowFacts
    <3> HIDE DEF m, n
    <3>2. to + k - 1 \in Nat /\ to + k - 1 <= n /\ to + k - 1 # n
      BY <3>1
    <3> QED BY <3>2 DEF n
  <2>3. ~Hit(a)
    BY <2>2, FlagAddress
  <2> QED BY <1>1, <2>1, <2>3
<1>6. ASSUME NEW i \in 1..Len(rows)
      PROVE  /\ i \in stale => Has(c, rows[i], valid_offset, <<0>>) /\ Gone(inserted[i])
             /\ i \notin stale => \A b : Has(memory, rows[i], valid_offset, <<b>>)
                                       => Has(c, rows[i], valid_offset, <<b>>)
             /\ c[At(rows[i], valid_offset)] = IF i \in stale THEN 0 ELSE Flag(rows[i])
  <2> DEFINE a == At(rows[i], valid_offset)
  <2>0. /\ valid_offset \in Nat
        /\ \E b : Has(memory, rows[i], valid_offset, <<b>>)
    BY RowFacts, Zenon
  <2>1. valid_offset \in Nat /\ valid_offset <= valid_offset /\ a \in DOMAIN memory
    BY <2>0, FlagByte
  <2>2. Hit(a) <=> i \in stale
    BY <2>1, FlagAddress
  <2>3. a \in DOMAIN c /\ c[a] = IF i \in stale THEN 0 ELSE memory[a]
    BY <1>1, <2>1, <2>2
  <2>4. i \in stale => Gone(inserted[i])
    BY RowFacts
  <2> HIDE DEF stale, c
  <2> QED BY <2>1, <2>3, <2>4, FlagByte DEF Flag
<1>7. ASSUME NEW i \in 1..Len(rows) PROVE RowOk(i)'
  <2> DEFINE p == rows[i]
             e == inserted[i]
  <2>1. /\ schema \in Seq(ColumnDef) /\ e.values \in Seq(Values) /\ e.expiry \in Uint16 /\ RowOk(i)
    BY RowFacts, Zenon
  <2>2. /\ p \in blocks' /\ p.size = total_row_size /\ validate_row(e.values)
        /\ HasRow(memory, p, e.values, e.expiry)
        /\ \/ Has(memory, p, valid_offset, <<1>>)
           \/ Has(memory, p, valid_offset, <<0>>) /\ e.expiry > 0 /\ now > e.expiry
        /\ e.expiry = 0 \/ e.expiry <= now + ttl
        /\ ttl = 0 <=> e.expiry = 0
    BY <1>1, <2>1, Zenon DEF RowOk, Gone
  <2>3. memory' = c /\ rows'[i] = p /\ inserted'[i] = e /\ SameBytes(memory, c, p)
    BY <1>1, <1>5
  <2>4. \/ Has(c, p, valid_offset, <<1>>)
        \/ Has(c, p, valid_offset, <<0>>) /\ e.expiry > 0 /\ now > e.expiry
    BY <1>6, <2>2, Zenon DEF Gone
  <2> HIDE DEF p, e, c
  <2>5. HasRow(c, p, e.values, e.expiry)
    BY <2>1, <2>2, <2>3, SameRow
  <2> QED BY <1>1, <2>2, <2>3, <2>4, <2>5, RowOkNext, Zenon
<1>8. RowsOk'
  BY <1>1, <1>7 DEF TableInv, RowsOk
<1>9. IndexOk'
  BY <1>1 DEF TableInv, IndexOk
<1>10. Flagged' = Flagged \ stale
  <2>1. valid_offset' = valid_offset
    BY <1>1 DEF valid_offset, row_size
  <2>2. \A i \in 1..Len(rows) : Flag(rows[i])' = IF i \in stale THEN 0 ELSE Flag(rows[i])
    BY <1>1, <1>6, <2>1 DEF Flag, valid_offset, row_size
  <2> QED BY <1>1, <2>2 DEF Flagged, Flag, valid_offset, row_size
<1>11. row_count' = Cardinality(Flagged')
  <2>1. stale \subseteq Flagged
    BY DEF Flagged
  <2>2. IsFiniteSet(Flagged)
    BY FlaggedFinite
  <2>3. IsFiniteSet(stale)
    BY <2>1, <2>2, FS_Subset
  <2>4. Flagged \cap stale = stale
    BY <2>1
  <2> HIDE DEF stale
  <2>5. Cardinality(Flagged \ stale) = Cardinality(Flagged) - Cardinality(stale)
    BY <2>2, <2>3, <2>4, FS_Difference
  <2> QED BY <1>1, <1>10, <2>5 DEF TableInv
<1> QED BY <1>2, <1>4, <1>8, <1>9, <1>11 DEF TableInv

(* insert: a row in a block of its own behind the others, which stay.      *)
LEMMA InsertStep ==
  ASSUME TableInv, NEW values \in Offered(schema), insert(values)
  PROVE  TableInv'
<1> DEFINE expiry == IF ttl > 0 THEN now + ttl ELSE 0
           p == NewBlock
           c == write_row(memory, NewBlock, values, expiry)
           e == [values |-> values, expiry |-> expiry]
           N == Len(rows)
<1>1. /\ validate_row(values) /\ Allocate /\ memory' = c /\ rows' = Append(rows, p)
      /\ pk_index' = Indexed(values[1]) /\ row_count' = row_count + 1
      /\ inserted' = Append(inserted, e)
      /\ schema' = schema /\ ttl' = ttl /\ now' = now
  BY DEF insert
<1>2. /\ schema \in Seq(ColumnDef) /\ Len(schema) > 0 /\ values \in Seq(Values)
      /\ memory \in Memories /\ ttl \in Ttls /\ ttl \in Nat /\ now \in Nat /\ now > 0 /\ now <= MaxTime
      /\ rows \in Seq(Place) /\ inserted \in Seq(Entry) /\ Len(inserted) = N /\ N \in Nat
  BY TableAssumption DEF TableInv, TableTypes
<1>3. expiry \in Uint16 /\ expiry \in Nat
  <2>1. MaxTime + ttl \in Uint16 /\ MaxTime \in Nat
    BY <1>2, TableAssumption
  <2> QED BY <1>2, <2>1 DEF Uint16
<1>4. /\ (expiry = 0 \/ expiry <= now + ttl) /\ (ttl = 0 <=> expiry = 0)
  BY <1>2
<1>5. /\ row_size \in Nat /\ valid_offset \in Nat /\ total_row_size \in Nat
      /\ Len(values) = Len(schema)
  BY <1>1, <1>2, Layout DEF valid_offset, total_row_size
<1>6. /\ ArenaInv' /\ blocks \subseteq blocks' /\ p \in blocks' /\ p \notin blocks
      /\ p \in Place /\ p.size = total_row_size
      /\ \A q \in blocks : q \in Place /\ Beside(p, q)
  <2>1. ArenaInv
    BY DEF TableInv
  <2>2. AllocateHere(total_row_size) \/ AllocateInNewChunk(total_row_size)
    BY <1>1 DEF Allocate
  <2> QED BY <1>5, <2>1, <2>2, Allocated DEF Beside
<1>7. /\ c \in Memories /\ HasRow(c, p, values, expiry)
      /\ Has(c, p, valid_offset, <<1>>) /\ Keeps(memory, c, p, total_row_size)
  <2> HIDE DEF p, expiry
  <2> QED BY <1>1, <1>2, <1>3, <1>6, RowWritten DEF p
<1> HIDE DEF p, c, expiry
<1>8. /\ e \in Entry /\ e.values = values /\ e.expiry = expiry
  BY <1>2, <1>3, Zenon DEF Entry
<1> HIDE DEF e
<1>9. /\ rows' \in Seq(Place) /\ Len(rows') = N + 1 /\ rows'[N + 1] = p
      /\ \A i \in 1..N : rows'[i] = rows[i]
      /\ inserted' \in Seq(Entry) /\ Len(inserted') = N + 1 /\ inserted'[N + 1] = e
      /\ \A i \in 1..N : inserted'[i] = inserted[i]
  <2>1. /\ Len(rows) = N /\ rows' = Append(rows, p) /\ inserted' = Append(inserted, e)
    BY <1>1
  <2>2. /\ rows' \in Seq(Place) /\ Len(rows') = N + 1 /\ rows'[N + 1] = p
        /\ \A i \in 1..N : rows'[i] = rows[i]
    BY <1>2, <1>6, <2>1
  <2>3. /\ inserted' \in Seq(Entry) /\ Len(inserted') = N + 1 /\ inserted'[N + 1] = e
        /\ \A i \in 1..N : inserted'[i] = inserted[i]
    BY <1>2, <1>8, <2>1
  <2> QED BY <2>2, <2>3, Zenon
<1> HIDE DEF N
<1>10. TableTypes'
  BY <1>1, <1>2, <1>7, <1>9, Zenon DEF TableInv, TableTypes
<1>11. 1..(N + 1) = 1..N \cup {N + 1} /\ N + 1 \notin 1..N
  BY <1>2
<1>12. ASSUME NEW i \in 1..N
       PROVE  /\ Beside(p, rows[i]) /\ rows[i] # p
              /\ HasRow(c, rows[i], inserted[i].values, inserted[i].expiry)
              /\ \A b \in Byte : Has(memory, rows[i], valid_offset, <<b>>)
                                => Has(c, rows[i], valid_offset, <<b>>)
  <2> DEFINE q == rows[i]
             v == inserted[i].values
             x == inserted[i].expiry
  <2>1. /\ q \in Place /\ v \in Seq(Values) /\ x \in Uint16 /\ RowOk(i)
    BY RowFacts DEF N
  <2>2. /\ q \in blocks /\ q.size = total_row_size /\ validate_row(v) /\ HasRow(memory, q, v, x)
    BY <2>1, Zenon DEF RowOk
  <2> HIDE DEF q, v, x
  <2>3. Beside(p, q) /\ q # p
    BY <1>6, <2>2
  <2>4. /\ HasRow(c, q, v, x)
        /\ \A b \in Byte : Has(memory, q, valid_offset, <<b>>) => Has(c, q, valid_offset, <<b>>)
    BY <1>2, <1>6, <1>7, <2>1, <2>2, <2>3, RowKept
  <2> QED BY <2>3, <2>4 DEF q, v, x
<1>13. ASSUME NEW i \in 1..N PROVE RowOk(i)'
  <2> DEFINE q == rows[i]
             f == inserted[i]
  <2>1. RowOk(i)
    BY RowFacts, Zenon DEF N
  <2>2. /\ q \in blocks' /\ q.size = total_row_size /\ validate_row(f.values)
        /\ \/ Has(memory, q, valid_offset, <<1>>)
           \/ Has(memory, q, valid_offset, <<0>>) /\ f.expiry > 0 /\ now > f.expiry
        /\ f.expiry = 0 \/ f.expiry <= now + ttl
        /\ ttl = 0 <=> f.expiry = 0
    BY <1>6, <2>1, Zenon DEF RowOk, Gone
  <2>3. rows'[i] = q /\ inserted'[i] = f /\ HasRow(c, q, f.values, f.expiry)
    BY <1>9, <1>12, Zenon
  <2>4. 0 \in Byte /\ 1 \in Byte
    BY DEF Byte
  <2>5. \/ Has(c, q, valid_offset, <<1>>)
        \/ Has(c, q, valid_offset, <<0>>) /\ f.expiry > 0 /\ now > f.expiry
    BY <1>12, <2>2, <2>4, Zenon
  <2> HIDE DEF q, f
  <2> QED BY <1>1, <2>2, <2>3, <2>5, RowOkNext, Zenon
<1>14. ASSUME NEW m, m = N + 1 PROVE RowOk(m)'
  <2>1. rows'[m] = p /\ inserted'[m] = e
    BY <1>9, <1>14, Zenon
  <2> QED BY <1>1, <1>4, <1>6, <1>7, <1>8, <2>1, RowOkNext, Zenon
<1>15. \A i \in 1..N : inserted[i].expiry <= expiry
  <2> TAKE i \in 1..N
  <2>1. inserted[i].expiry \in Nat /\ RowOk(i)
    BY RowFacts DEF N
  <2>2. /\ inserted[i].expiry = 0 \/ inserted[i].expiry <= now + ttl
        /\ ttl = 0 <=> inserted[i].expiry = 0
    BY <2>1 DEF RowOk
  <2> QED BY <1>2, <2>1, <2>2 DEF expiry
<1>16. RowsOk'
  <2>1. ASSUME NEW i \in 1..(N + 1) PROVE RowOk(i)'
    <3>1. i \in 1..N \/ i = N + 1
      BY <1>11
    <3> QED BY <1>13, <1>14, <3>1
  <2>2. ASSUME NEW i \in 1..(N + 1), NEW j \in 1..(N + 1), i < j
        PROVE  rows'[i] # rows'[j] /\ inserted'[i].expiry <= inserted'[j].expiry
    <3>1. i \in 1..N /\ (j \in 1..N \/ j = N + 1)
      BY <1>2, <2>2
    <3>2. CASE j \in 1..N
      BY <1>9, <2>2, <3>1, <3>2 DEF TableInv, RowsOk, N
    <3>3. CASE j = N + 1
      BY <1>8, <1>9, <1>12, <1>15, <3>1, <3>3
    <3> QED BY <3>1, <3>2, <3>3
  <2> QED BY <1>9, <2>1, <2>2, Zenon DEF RowsOk
<1>17. IndexOk'
  <2> DEFINE k0 == values[1]
  <2>1. pk_index' = [k \in DOMAIN pk_index \cup {k0} |-> IF k = k0 THEN N + 1 ELSE pk_index[k]]
    <3> HIDE DEF k0
    <3> QED BY <1>1, Zenon DEF Indexed, N, k0
  <2>2. inserted'[N + 1].values[1] = k0 /\ N + 1 \in 1..(N + 1) /\ N + 1 <= N + 1
    <3>1. N + 1 \in 1..(N + 1) /\ N + 1 <= N + 1
      BY <1>2
    <3> QED BY <1>8, <1>9, <3>1
  <2> HIDE DEF k0
  <2>3. /\ \A k \in DOMAIN pk_index : pk_index[k] \in 1..N /\ inserted[pk_index[k]].values[1] = k
        /\ \A i \in 1..N : /\ inserted[i].values[1] \in DOMAIN pk_index
                           /\ i <= pk_index[inserted[i].values[1]]
    BY DEF TableInv, IndexOk, N
  <2>4. ASSUME NEW k \in DOMAIN pk_index'
        PROVE  pk_index'[k] \in 1..(N + 1) /\ inserted'[pk_index'[k]].values[1] = k
    BY <1>9, <1>11, <2>1, <2>2, <2>3, Zenon
  <2>5. ASSUME NEW i \in 1..(N + 1)
        PROVE  /\ inserted'[i].values[1] \in DOMAIN pk_index'
               /\ i <= pk_index'[inserted'[i].values[1]]
    <3>1. CASE i = N + 1
      BY <2>1, <2>2, <3>1
    <3>2. CASE i \in 1..N
      <4> DEFINE k == inserted[i].values[1]
      <4>1. inserted'[i].values[1] = k /\ k \in DOMAIN pk_index /\ i <= pk_index[k]
        BY <1>9, <2>3, <3>2
      <4>2. i <= N + 1
        BY <1>2, <3>2
      <4> HIDE DEF k
      <4> QED BY <2>1, <4>1, <4>2
    <3> QED BY <1>11, <3>1, <3>2
  <2> QED BY <1>9, <2>4, <2>5, Zenon DEF IndexOk
<1>18. Flagged' = Flagged \cup {N + 1} /\ N + 1 \notin Flagged
  <2>1. ASSUME NEW i \in 1..N PROVE c[At(rows[i], valid_offset)] = Flag(rows[i])
    <3>1. /\ valid_offset \in Nat
          /\ \/ Flag(rows[i]) = 1 /\ Has(memory, rows[i], valid_offset, <<1>>)
             \/ Flag(rows[i]) = 0 /\ Has(memory, rows[i], valid_offset, <<0>>)
      BY RowFacts DEF N
    <3>2. 0 \in Byte /\ 1 \in Byte
      BY DEF Byte
    <3>3. \/ Flag(rows[i]) = 1 /\ Has(c, rows[i], valid_offset, <<1>>)
          \/ Flag(rows[i]) = 0 /\ Has(c, rows[i], valid_offset, <<0>>)
      BY <1>12, <3>1, <3>2
    <3> QED BY <3>1, <3>3, FlagByte
  <2>2. c[At(p, valid_offset)] = 1
    BY <1>5, <1>7, FlagByte
  <2>3. valid_offset' = valid_offset
    BY <1>1 DEF valid_offset, row_size
  <2>4. Flagged' = {i \in 1..Len(rows') : c[At(rows'[i], valid_offset)] = 1}
    BY <1>1, <2>3 DEF Flagged, Flag, valid_offset, row_size
  <2>5. Flagged = {i \in 1..N : Flag(rows[i]) = 1}
    BY DEF Flagged, N
  <2> QED BY <1>9, <1>11, <2>1, <2>2, <2>4, <2>5
<1>19. row_count' = Cardinality(Flagged')
  <2>1. row_count = Cardinality(Flagged)
    BY DEF TableInv
  <2> QED BY <1>1, <1>18, <2>1, FlaggedFinite, FS_AddElement, Zenon
<1> QED BY <1>6, <1>10, <1>16, <1>17, <1>19 DEF TableInv

(* TableInv holds of every state of a table.                               *)
LEMMA TableInvNext == TableInv /\ [Next]_vars => TableInv'
<1> SUFFICES ASSUME TableInv, [Next]_vars PROVE TableInv'
  OBVIOUS
<1>1. ASSUME NEW values \in Offered(schema), insert(values) PROVE TableInv'
  BY <1>1, InsertStep
<1>2. CASE cleanup_expired
  BY <1>2, SweepStep
<1>3. CASE Tick
  BY <1>3, TickStep
<1>4. CASE UNCHANGED vars
  <2>1. /\ chunks' = chunks /\ offset' = offset /\ total' = total /\ blocks' = blocks
        /\ schema' = schema /\ ttl' = ttl /\ memory' = memory /\ rows' = rows /\ now' = now
        /\ pk_index' = pk_index /\ row_count' = row_count /\ inserted' = inserted
    BY <1>4 DEF vars, arenaVars, tableVars
  <2>2. ArenaInv'
    BY <2>1 DEF TableInv, ArenaInv, ArenaTypeOK, BlocksDisjoint, BlocksInside, BelowOffset, End
  <2>3. TableTypes' /\ IndexOk'
    BY <2>1 DEF TableInv, TableTypes, IndexOk
  <2>4. ASSUME NEW i \in 1..Len(rows) PROVE RowOk(i)'
    <3> DEFINE p == rows[i]
               e == inserted[i]
               c == memory
    <3>1. RowOk(i)
      BY RowFacts, Zenon
    <3>2. /\ p \in blocks' /\ p.size = total_row_size /\ validate_row(e.values)
          /\ HasRow(c, p, e.values, e.expiry)
          /\ \/ Has(c, p, valid_offset, <<1>>)
             \/ Has(c, p, valid_offset, <<0>>) /\ e.expiry > 0 /\ now' > e.expiry
          /\ e.expiry = 0 \/ e.expiry <= now' + ttl
          /\ ttl = 0 <=> e.expiry = 0
          /\ memory' = c /\ rows'[i] = p /\ inserted'[i] = e
      BY <2>1, <3>1, Zenon DEF RowOk, Gone
    <3> HIDE DEF p, e, c
    <3> QED BY <2>1, <3>2, RowOkNext, Zenon
  <2>5. RowsOk'
    BY <2>1, <2>4, Zenon DEF TableInv, RowsOk
  <2>6. Flagged' = Flagged
    BY <2>1 DEF Flagged, Flag, valid_offset, row_size
  <2> QED BY <2>1, <2>2, <2>3, <2>5, <2>6 DEF TableInv
<1> QED BY <1>1, <1>2, <1>3, <1>4 DEF Next

(* TableInv is an invariant of the table.                                  *)
LEMMA TableInvAlways == Spec => []TableInv
<1> QED BY TableInit, TableInvNext, PTL DEF Spec

(* When a row is shown.                                                    *)
LEMMA RowLive ==
  ASSUME TableInv, NEW i \in 1..Len(rows)
  PROVE  i \in Live <=> inserted[i].expiry = 0 \/ now <= inserted[i].expiry
<1>1. /\ inserted[i].expiry \in Nat
      /\ Flag(rows[i]) = 1 \/ (Flag(rows[i]) = 0 /\ Gone(inserted[i]))
      /\ Expired(rows[i]) <=> Gone(inserted[i])
  BY RowFacts
<1>2. now \in Nat
  BY DEF TableInv, TableTypes
<1>3. i \in Live <=> ~Gone(inserted[i])
  BY <1>1 DEF Live, is_row_valid
<1> QED BY <1>1, <1>2, <1>3 DEF Gone

(* A row inserted after one that is shown is shown.                        *)
LEMMA LaterLive ==
  ASSUME TableInv, NEW i \in 1..Len(rows), NEW j \in 1..Len(rows), i <= j, i \in Live
  PROVE  j \in Live
<1>1. CASE i = j
  BY <1>1
<1>2. CASE i < j
  <2>1. /\ inserted[i].expiry \in Nat /\ inserted[j].expiry \in Nat
        /\ ttl = 0 <=> inserted[i].expiry = 0
        /\ ttl = 0 <=> inserted[j].expiry = 0
    BY RowFacts, Zenon DEF RowOk
  <2>2. inserted[i].expiry <= inserted[j].expiry /\ now \in Nat
    BY <1>2, Zenon DEF TableInv, RowsOk, TableTypes
  <2>3. inserted[i].expiry = 0 \/ now <= inserted[i].expiry
    BY RowLive
  <2>4. inserted[j].expiry = 0 \/ now <= inserted[j].expiry
    BY <2>1, <2>2, <2>3
  <2> QED BY <2>4, RowLive
<1> QED BY <1>1, <1>2

(* The first column of a row is its key.                                   *)
LEMMA KeyRead ==
  ASSUME TableInv, NEW i \in 1..Len(rows)
  PROVE  read_value(rows[i], 1) = inserted[i].values[1]
<1> DEFINE p == rows[i]
           v == inserted[i].values
<1>1. /\ schema \in Seq(ColumnDef) /\ p \in Place /\ v \in Seq(Values) /\ RowOk(i)
      /\ Len(v) = Len(schema) /\ Len(schema) > 0
  BY RowFacts
<1>2. 1 \in 1..Len(schema)
  BY <1>1
<1>3. validate_row(v) /\ Has(memory, p, column_offset(1), Stored(v[1]))
  BY <1>1, <1>2, Zenon DEF RowOk, HasRow
<1> HIDE DEF p, v
<1>4. read_value(p, 1) = v[1]
  BY <1>1, <1>2, <1>3, ValueRead
<1> QED BY <1>4 DEF p, v

(* Every row reads back as it was inserted, whatever the schema, the rows, *)
(* the sizes of the chunks and the order of inserts and sweeps (write_row, *)
(* read_value, Schema::validate_row, Arena::allocate).                     *)
THEOREM TableReadBack == Spec => []ReadBack
<1>1. TableInv => ReadBack
  <2> SUFFICES ASSUME TableInv, NEW i \in 1..Len(rows)
               PROVE  read_row(rows[i]) = inserted[i].values
    BY DEF ReadBack
  <2> DEFINE p == rows[i]
             v == inserted[i].values
  <2>1. /\ schema \in Seq(ColumnDef) /\ p \in Place /\ v \in Seq(Values) /\ RowOk(i)
        /\ Len(v) = Len(schema)
    BY RowFacts
  <2>2. validate_row(v) /\ \A k \in 1..Len(v) : Has(memory, p, column_offset(k), Stored(v[k]))
    BY <2>1, Zenon DEF RowOk, HasRow
  <2> HIDE DEF p, v
  <2>3. \A k \in 1..Len(schema) : read_value(p, k) = v[k]
    BY <2>1, <2>2, ValueRead
  <2>4. v = [k \in 1..Len(schema) |-> v[k]]
    BY <2>1
  <2>5. read_row(p) = v
    BY <2>3, <2>4 DEF read_row
  <2> QED BY <2>5 DEF p, v
<1> QED BY <1>1, TableInvAlways, PTL

(* A row is shown exactly until its expiry, and row_count_ counts the      *)
(* marked rows, whatever the sweep (cleanup_expired) has done              *)
(* (is_row_valid, insert).                                                 *)
THEOREM TableLiveInTime == Spec => []LiveInTime
<1>1. TableInv => LiveInTime
  <2> SUFFICES ASSUME TableInv PROVE LiveInTime
    OBVIOUS
  <2>1. ASSUME NEW i \in 1..Len(rows)
        PROVE  i \in Live <=> inserted[i].expiry = 0 \/ now <= inserted[i].expiry
    BY RowLive
  <2>2. row_count = Cardinality({i \in 1..Len(rows) : Flag(rows[i]) = 1})
    BY DEF TableInv, Flagged
  <2> QED BY <2>1, <2>2 DEF LiveInTime
<1> QED BY <1>1, TableInvAlways, PTL

(* A query through the index and a scan agree on the keys, and the index   *)
(* leads to the last row of a key, also when rows have expired             *)
(* (index_range, scan_where, BPTree::insert).                              *)
THEOREM TableIndexAgrees == Spec => []IndexAgrees
<1>1. TableInv => IndexAgrees
  <2> SUFFICES ASSUME TableInv, NEW op \in Ops, NEW k \in DOMAIN pk_index
               PROVE  /\ scan_where(1, op, k) \subseteq Scanned(1, op, k)
                      /\ \A i \in Scanned(1, op, k) : \E j \in scan_where(1, op, k) :
                            j >= i /\ inserted[j].values[1] = inserted[i].values[1]
    BY DEF IndexAgrees
  <2> DEFINE key(i) == inserted[i].values[1]
             found == index_range(op, k)
  <2>1. scan_where(1, op, k) = found
    BY DEF scan_where
  <2>2. \A i \in 1..Len(rows) : read_value(rows[i], 1) = key(i)
    BY KeyRead
  <2>3. found = {pk_index[m] : m \in {m \in DOMAIN pk_index : Holds(m, op, k)}} \cap Live
    BY DEF index_range
  <2>4. Scanned(1, op, k) = {i \in Live : Holds(key(i), op, k)}
    BY <2>2 DEF Scanned, Live
  <2>5. \A m \in DOMAIN pk_index : pk_index[m] \in 1..Len(rows) /\ key(pk_index[m]) = m
    BY DEF TableInv, IndexOk
  <2>6. ASSUME NEW i \in Scanned(1, op, k)
        PROVE  \E j \in found : j >= i /\ key(j) = key(i)
    <3> DEFINE j == pk_index[key(i)]
    <3>1. i \in Live /\ i \in 1..Len(rows) /\ Holds(key(i), op, k)
      BY <2>4, <2>6 DEF Live
    <3>2. key(i) \in DOMAIN pk_index /\ i <= j
      BY <3>1 DEF TableInv, IndexOk
    <3>3. j \in 1..Len(rows) /\ key(j) = key(i)
      BY <2>5, <3>2
    <3>4. j \in Live
      <4> HIDE DEF j
      <4> QED BY <3>1, <3>2, <3>3, LaterLive
    <3>5. j \in found /\ j >= i
      BY <2>3, <3>1, <3>2, <3>4
    <3> QED BY <3>3, <3>5
  <2>7. found \subseteq Scanned(1, op, k)
    BY <2>3, <2>4, <2>5
  <2> HIDE DEF found
  <2> QED BY <2>1, <2>6, <2>7
<1> QED BY <1>1, TableInvAlways, PTL
=============================================================================
