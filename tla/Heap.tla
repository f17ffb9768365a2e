--------------------------------- MODULE Heap --------------------------------
(***************************************************************************)
(* The kernel heap of Wittche OS (kernel/heap.c): a linked list of blocks, *)
(* each with a header in front of its payload; kmalloc takes the first     *)
(* free block that fits and splits it, kfree marks a block free and merges *)
(* neighbouring free blocks.                                               *)
(*                                                                         *)
(* The list is the sequence of its blocks.  A block keeps its address, as  *)
(* the list keeps pointers: that the blocks tile the heap is a property,   *)
(* not part of the representation.  Only the shell's context uses the heap *)
(* and it frees what it was given once, so a call is one step; the magic   *)
(* number that kfree and krealloc test is then always right and left out.  *)
(***************************************************************************)
EXTENDS Integers, Sequences, FiniteSets, SequencesExt

CONSTANTS
  HEAP_SIZE,       \* bytes (4 MB)
  HEADER,          \* sizeof(heap_block_t) (16)
  MIN_BLOCK_SIZE,  \* smallest block, header included (32)
  ALIGN,           \* sizes are rounded up to a multiple (4)
  WORD,            \* modulus of uint32 arithmetic (2^32)
  Sizes,           \* sizes the kernel asks for (1 MB at most)
  MaxLive          \* bound: allocations held at once

ASSUME HeapAssumption ==
  /\ {HEAP_SIZE, HEADER, MIN_BLOCK_SIZE, ALIGN, WORD, MaxLive} \subseteq Nat \ {0}
  /\ HEADER < MIN_BLOCK_SIZE
  /\ MIN_BLOCK_SIZE <= HEAP_SIZE
  /\ HEAP_SIZE < WORD
  /\ Sizes \subseteq 0..(WORD - HEADER - ALIGN)

VARIABLES
  blocks,  \* the block list from heap_head
  live     \* live[ptr]: the size asked for, of each pointer not yet freed

vars == <<blocks, live>>

(* heap_init: one free block over the whole heap.                          *)
Init ==
  /\ blocks = << [addr |-> 0, size |-> HEAP_SIZE, free |-> TRUE] >>
  /\ live = <<>>

(* align_size and the header and minimum kmalloc adds, in 32 bits.         *)
AlignSize(size) == (((size + ALIGN - 1) % WORD) \div ALIGN) * ALIGN
TotalSize_NoHeader(size) ==
  LET total == AlignSize(size) IN IF total < MIN_BLOCK_SIZE THEN MIN_BLOCK_SIZE ELSE total
TotalSize(size) ==
  LET total == (AlignSize(size) + HEADER) % WORD
  IN  IF total < MIN_BLOCK_SIZE THEN MIN_BLOCK_SIZE ELSE total

Fits(list, size) == {k \in 1..Len(list) : list[k].free /\ list[k].size >= TotalSize(size)}

(* The list once kmalloc has taken block k for size bytes: the rest of the *)
(* block is split off when it can be a block of its own.                   *)
Take_SplitsTooSmall(list, k, size) ==
  LET b == list[k]
      total == TotalSize(size)
      taken == [b EXCEPT !.size = total, !.free = FALSE]
      rest == [addr |-> b.addr + total, size |-> b.size - total, free |-> TRUE]
  IN  IF b.size > total
        THEN SubSeq(list, 1, k - 1) \o <<taken, rest>> \o SubSeq(list, k + 1, Len(list))
        ELSE [list EXCEPT ![k].free = FALSE]
Take(list, k, size) ==
  LET b == list[k]
      total == TotalSize(size)
      taken == [b EXCEPT !.size = total, !.free = FALSE]
      rest == [addr |-> b.addr + total, size |-> b.size - total, free |-> TRUE]
  IN  IF b.size >= total + MIN_BLOCK_SIZE
        THEN SubSeq(list, 1, k - 1) \o <<taken, rest>> \o SubSeq(list, k + 1, Len(list))
        ELSE [list EXCEPT ![k].free = FALSE]

Coalesce_OnePair(list) ==
  LET pairs == {k \in 1..(Len(list) - 1) : list[k].free /\ list[k + 1].free}
  IN  IF pairs = {} THEN list
      ELSE LET k == CHOOSE k \in pairs : \A m \in pairs : k <= m
           IN  SubSeq(list, 1, k - 1)
                 \o << [list[k] EXCEPT !.size = @ + list[k + 1].size] >>
                 \o SubSeq(list, k + 2, Len(list))

(* coalesce_free_blocks: a walk down the list that absorbs the next block  *)
(* into the current one as long as both are free and touch.                *)
Absorb(done, b) ==
  IF done = <<>> THEN <<b>>
  ELSE LET cur == Last(done)
       IN  IF cur.free /\ b.free /\ cur.addr + cur.size = b.addr
             THEN Append(Front(done), [cur EXCEPT !.size = @ + b.size])
             ELSE Append(done, b)
Coalesce(list) ==
  LET walk[k \in 0..Len(list)] == IF k = 0 THEN <<>> ELSE Absorb(walk[k - 1], list[k])
  IN  walk[Len(list)]

Release(list, ptr) ==
  Coalesce([k \in 1..Len(list) |->
              IF list[k].addr + HEADER = ptr THEN [list[k] EXCEPT !.free = TRUE] ELSE list[k]])

FirstFit(list, size) == CHOOSE k \in Fits(list, size) : \A m \in Fits(list, size) : k <= m
Pointer(list, k) == list[k].addr + HEADER
With(held, ptr, size) == [q \in DOMAIN held \union {ptr} |-> IF q = ptr THEN size ELSE held[q]]
Without(ptr) == [q \in DOMAIN live \ {ptr} |-> live[q]]
Block(ptr) == CHOOSE k \in 1..Len(blocks) : Pointer(blocks, k) = ptr

(* kmalloc (and kcalloc, whose zeroing leaves the list alone).  A size of  *)
(* 0, or one nothing fits, returns NULL and changes nothing.               *)
Kmalloc(size) ==
  /\ Cardinality(DOMAIN live) < MaxLive
  /\ size # 0
  /\ Fits(blocks, size) # {}
  /\ LET k == FirstFit(blocks, size)
     IN  /\ blocks' = Take(blocks, k, size)
         /\ live' = With(live, Pointer(blocks, k), size)

(* kfree of a pointer kmalloc returned.  Its refusals (NULL, an address    *)
(* outside the heap, a header without the magic number, a block that is    *)
(* free already) return before they change the list.                       *)
Kfree(ptr) ==
  /\ blocks' = Release(blocks, ptr)
  /\ live' = Without(ptr)

(* krealloc of such a pointer: 0 frees it, a size its block holds returns  *)
(* it, else a new block is taken before the old one is released; when none *)
(* fits, the old one stays.                                                *)
Krealloc(ptr, size) ==
  \/ /\ size = 0
     /\ Kfree(ptr)
  \/ /\ size \in 1..(blocks[Block(ptr)].size - HEADER)
     /\ live' = [live EXCEPT ![ptr] = size]
     /\ UNCHANGED blocks
  \/ /\ size > blocks[Block(ptr)].size - HEADER
     /\ Fits(blocks, size) # {}
     /\ LET k == FirstFit(blocks, size)
        IN  /\ blocks' = Release(Take(blocks, k, size), ptr)
            /\ live' = With(Without(ptr), Pointer(blocks, k), size)

Next ==
  \/ \E size \in Sizes : Kmalloc(size)
  \/ \E ptr \in DOMAIN live : Kfree(ptr)
  \/ \E ptr \in DOMAIN live, size \in Sizes : Krealloc(ptr, size)

Spec == Init /\ [][Next]_vars

-----------------------------------------------------------------------------
(* Properties.                                                             *)

TypeOK ==
  /\ blocks \in Seq([addr : 0..HEAP_SIZE, size : 0..HEAP_SIZE, free : BOOLEAN])
  /\ Len(blocks) > 0
  /\ \A ptr \in DOMAIN live : live[ptr] \in Sizes

(* The blocks tile the heap without gap or overlap, and each can hold a    *)
(* header and some payload: splitting and merging lose no byte.            *)
Tiled ==
  /\ TypeOK
  /\ Head(blocks).addr = 0
  /\ \A k \in 1..Len(blocks) :
       /\ blocks[k].size >= MIN_BLOCK_SIZE
       /\ blocks[k].addr + blocks[k].size
            = IF k = Len(blocks) THEN HEAP_SIZE ELSE blocks[k + 1].addr

(* Every pointer held is the payload of one allocated block, that block is *)
(* large enough for what was asked, and no other block is allocated.       *)
LiveFits ==
  /\ \A ptr \in DOMAIN live :
       \E k \in 1..Len(blocks) :
         /\ Pointer(blocks, k) = ptr
         /\ ~blocks[k].free
         /\ blocks[k].size - HEADER >= live[ptr]
  /\ \A k \in 1..Len(blocks) : ~blocks[k].free => Pointer(blocks, k) \in DOMAIN live

(* No two neighbouring blocks are both free, so memory given back is       *)
(* always available as one piece (and an empty heap is one free block).    *)
Coalesced == \A k \in 1..(Len(blocks) - 1) : ~(blocks[k].free /\ blocks[k + 1].free)
=============================================================================
