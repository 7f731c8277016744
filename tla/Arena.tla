-------------------------------- MODULE Arena --------------------------------
(***************************************************************************)
(* Arena (server/storage/arena.cpp), the bump allocator that row storage   *)
(* comes from.  A block is what allocate returned: a chunk, an offset in   *)
(* it and a size.  Every caller leaves the alignment at its default.       *)
(***************************************************************************)
EXTENDS Integers, Sequences

CONSTANTS
  ChunkSize,   \* chunk_size_
  Sizes        \* the sizes asked for

Alignment == 8

ASSUME ArenaAssumption == ChunkSize \in Nat /\ Sizes \subseteq Nat

VARIABLES
  chunks,      \* chunks_: the capacity of each
  offset,      \* current_offset_
  total,       \* total_allocated_
  blocks       \* history: the blocks handed out since the last reset

arenaVars == <<chunks, offset, total, blocks>>

(* The constructor takes the first chunk.                                  *)
ArenaInit ==
  /\ chunks = <<ChunkSize>>
  /\ offset = 0 /\ total = 0
  /\ blocks = {}

(* Mutant: the offset is not rounded.                                      *)
Unaligned(o) == o

(* Mutant: the offset is rounded down.                                     *)
RoundedDown(o) == (o \div Alignment) * Alignment

(* (o + 7) & ~7                                                            *)
Aligned(o) == ((o + Alignment - 1) \div Alignment) * Alignment

Larger(a, b) == IF a >= b THEN a ELSE b

Fits(size) == Aligned(offset) + size <= chunks[Len(chunks)]

AllocateNothing(size) == size = 0 /\ UNCHANGED arenaVars

AllocateHere(size) ==
  /\ size # 0 /\ Fits(size)
  /\ offset' = Aligned(offset) + size
  /\ total' = total + size
  /\ blocks' = blocks \cup
       {[chunk |-> Len(chunks), start |-> Aligned(offset), size |-> size]}
  /\ UNCHANGED chunks

(* allocate_new_chunk is asked for room to align the block as well.        *)
NewCapacity(size) == Larger(size + Alignment, ChunkSize)

AllocateInNewChunk(size) ==
  /\ size # 0 /\ ~Fits(size)
  /\ chunks' = Append(chunks, NewCapacity(size))
  /\ offset' = size
  /\ total' = total + size
  /\ blocks' = blocks \cup
       {[chunk |-> Len(chunks) + 1, start |-> 0, size |-> size]}

(* Every chunk but the first is freed; no block is valid any longer.       *)
Reset ==
  /\ chunks' = <<chunks[1]>>
  /\ offset' = 0 /\ total' = 0
  /\ blocks' = {}

ArenaNext ==
  \/ \E size \in Sizes :
       AllocateNothing(size) \/ AllocateHere(size) \/ AllocateInNewChunk(size)
  \/ Reset

ArenaSpec == ArenaInit /\ [][ArenaNext]_arenaVars

-----------------------------------------------------------------------------
End(b) == b.start + b.size

(* The allocator has a current chunk, and its offset lies within it.       *)
ArenaTypeOK ==
  /\ chunks \in Seq(Nat) /\ chunks # <<>>
  /\ offset \in 0..chunks[Len(chunks)] /\ total \in Nat
  /\ blocks \subseteq [chunk : 1..Len(chunks), start : Nat, size : Nat \ {0}]

(* No two blocks that allocate returned share a byte, whatever the order   *)
(* of small, oversized and chunk-crossing requests and of resets.          *)
BlocksDisjoint ==
  \A b, c \in blocks :
    b # c => b.chunk # c.chunk \/ End(b) <= c.start \/ End(c) <= b.start

(* Every block lies within its chunk and starts at a multiple of the       *)
(* alignment, an oversized request included.                               *)
BlocksInside ==
  \A b \in blocks : End(b) <= chunks[b.chunk] /\ b.start % Alignment = 0

(* The strengthening that makes the two inductive: no block of the current *)
(* chunk reaches beyond the offset.                                        *)
BelowOffset ==
  \A b \in blocks : b.chunk = Len(chunks) => End(b) <= offset
=============================================================================
