------------------------------ MODULE HeapProofs ------------------------------
(***************************************************************************)
(* Proofs about module Heap: whatever is allocated, freed and reallocated, *)
(* the blocks tile the heap, each pointer has a block large enough, and    *)
(* free memory is merged, for every size of heap, header, minimum and      *)
(* alignment.                                                              *)
(***************************************************************************)
EXTENDS Heap, KernelLemmas, TLAPS

Block_t == [addr : Nat, size : Nat, free : BOOLEAN]

(* A list of blocks that tiles the memory from 0 to end.                   *)
Tiles(list, end) ==
  /\ list \in Seq(Block_t)
  /\ Len(list) > 0
  /\ list[1].addr = 0
  /\ \A k \in 1..Len(list) :
       /\ list[k].size >= MIN_BLOCK_SIZE
       /\ list[k].addr + list[k].size = IF k = Len(list) THEN end ELSE list[k + 1].addr

Merged(list) == \A k \in 1..(Len(list) - 1) : ~(list[k].free /\ list[k + 1].free)

(* The allocated ones among the first n blocks, and all of them.           *)
TakenTo(list, n) == {list[k] : k \in {j \in 1..n : ~list[j].free}}
Taken(list) == TakenTo(list, Len(list))

(* The blocks A serve the pointers lv: each has one, large enough, and no  *)
(* block is taken that nobody holds.                                       *)
Serves(A, lv) ==
  /\ \A ptr \in DOMAIN lv :
       \E b \in A : b.addr + HEADER = ptr /\ b.size - HEADER >= lv[ptr]
  /\ \A b \in A : b.addr + HEADER \in DOMAIN lv

(* The inductive invariant.                                                *)
HeapInv ==
  /\ Tiles(blocks, HEAP_SIZE)
  /\ Merged(blocks)
  /\ Serves(Taken(blocks), live)
  /\ \A ptr \in DOMAIN live : live[ptr] \in Sizes

-----------------------------------------------------------------------------
(* Lists of blocks.                                                        *)

(* The constants, as the proofs use them.                                  *)
LEMMA HeapSizes ==
  /\ HEAP_SIZE \in Nat \ {0} /\ HEADER \in Nat \ {0} /\ MIN_BLOCK_SIZE \in Nat \ {0}
  /\ ALIGN \in Nat \ {0} /\ WORD \in Nat \ {0}
  /\ HEADER < MIN_BLOCK_SIZE /\ MIN_BLOCK_SIZE <= HEAP_SIZE /\ HEAP_SIZE < WORD
  /\ \A size \in Sizes : size \in Nat /\ size <= WORD - HEADER - ALIGN
  BY HeapAssumption

(* Blocks further down a tiling begin behind the end of the ones before.   *)
LEMMA TilesInOrder ==
  ASSUME NEW list, NEW end \in Nat, Tiles(list, end),
         NEW j \in 1..Len(list), NEW k \in 1..Len(list), j < k
  PROVE  list[j].addr + list[j].size <= list[k].addr
<1>1. Len(list) \in Nat /\ \A i \in 1..Len(list) : list[i] \in Block_t
  BY DEF Tiles
<1>2. \A i \in 1..Len(list) :
        /\ list[i].addr \in Nat /\ list[i].size \in Nat
        /\ i # Len(list) => list[i].addr + list[i].size = list[i + 1].addr
  <2>1. \A i \in 1..Len(list) : list[i].addr \in Nat /\ list[i].size \in Nat
    BY <1>1 DEF Block_t
  <2>2. \A i \in 1..Len(list) : i # Len(list) => list[i].addr + list[i].size = list[i + 1].addr
    BY DEF Tiles
  <2> QED
    BY <2>1, <2>2
<1> DEFINE e == list[j].addr + list[j].size
           Bad == {i \in (j + 1)..Len(list) : ~(e <= list[i].addr)}
<1>3. e \in Nat
  BY <1>2
<1> HIDE DEF e
<1>4. ASSUME Bad # {} PROVE FALSE
  <2>1. Bad \subseteq Nat
    BY <1>1
  <2>2. PICK i \in Bad : \A x \in Bad : i <= x
    <3> HIDE DEF Bad
    <3> QED
      BY <1>4, <2>1, MinExists
  <2>3. i \in (j + 1)..Len(list) /\ ~(e <= list[i].addr) /\ i - 1 \in 1..Len(list)
    BY <1>1
  <2>4. list[i - 1].addr + list[i - 1].size = list[i].addr
    <3>1. i - 1 # Len(list) /\ (i - 1) + 1 = i
      BY <1>1, <2>3
    <3> QED
      BY <1>2, <2>3, <3>1
  <2>5. CASE i = j + 1
    BY <1>2, <1>3, <2>3, <2>4, <2>5 DEF e
  <2>6. CASE i # j + 1
    <3>1. i - 1 \in (j + 1)..Len(list) /\ ~(i <= i - 1)
      BY <1>1, <2>3, <2>6
    <3>2. e <= list[i - 1].addr
      BY <2>2, <3>1
    <3>3. list[i].addr \in Nat /\ list[i - 1].addr \in Nat /\ list[i - 1].size \in Nat
      BY <1>1, <1>2, <2>3
    <3>4. list[i - 1].addr <= list[i].addr
      BY <2>4, <3>3
    <3> QED
      BY <1>3, <2>3, <3>2, <3>3, <3>4
  <2> QED
    BY <2>5, <2>6
<1>5. k \in (j + 1)..Len(list)
  BY <1>1
<1> QED
  BY <1>4, <1>5 DEF e

(* Blocks of a tiling end inside it, and no two begin at the same address. *)
LEMMA TilesInside ==
  ASSUME NEW list, NEW end \in Nat, Tiles(list, end)
  PROVE  /\ \A k \in 1..Len(list) : list[k].addr \in 0..end /\ list[k].size \in 0..end
         /\ \A j, k \in 1..Len(list) : list[j].addr = list[k].addr => j = k
<1>1. Len(list) \in Nat /\ Len(list) > 0 /\ \A i \in 1..Len(list) : list[i] \in Block_t
  BY DEF Tiles
<1>2. \A i \in 1..Len(list) :
        list[i].addr \in Nat /\ list[i].size \in Nat /\ list[i].size >= MIN_BLOCK_SIZE
  BY <1>1 DEF Tiles, Block_t
<1>3. list[Len(list)].addr + list[Len(list)].size = end /\ Len(list) \in 1..Len(list)
  BY <1>1 DEF Tiles
<1>4. ASSUME NEW k \in 1..Len(list) PROVE list[k].addr + list[k].size <= end
  <2>1. CASE k = Len(list)
    BY <1>2, <1>3, <2>1
  <2>2. CASE k < Len(list)
    <3>1. list[k].addr + list[k].size <= list[Len(list)].addr
      BY <1>3, <2>2, TilesInOrder
    <3> QED
      BY <1>2, <1>3, <3>1
  <2> QED
    BY <1>1, <2>1, <2>2
<1>5. ASSUME NEW j \in 1..Len(list), NEW k \in 1..Len(list), j < k
      PROVE  list[j].addr # list[k].addr
  <2>1. list[j].addr + list[j].size <= list[k].addr
    BY <1>5, TilesInOrder
  <2> QED
    BY <1>2, <2>1, HeapSizes
<1> QED
  BY <1>1, <1>2, <1>4, <1>5

-----------------------------------------------------------------------------
(* coalesce_free_blocks.                                                   *)

(* One more block at the end of a list, and one in place of the last.      *)
LEMMA ListEnds ==
  ASSUME NEW list \in Seq(Block_t), NEW b \in Block_t
  PROVE  /\ Append(list, b) \in Seq(Block_t) /\ Len(Append(list, b)) = Len(list) + 1
         /\ \A k \in 1..Len(list) : Append(list, b)[k] = list[k]
         /\ Append(list, b)[Len(list) + 1] = b
         /\ Len(list) > 0 =>
              /\ Last(list) = list[Len(list)]
              /\ Append(Front(list), b) \in Seq(Block_t)
              /\ Len(Append(Front(list), b)) = Len(list)
              /\ \A k \in 1..(Len(list) - 1) : Append(Front(list), b)[k] = list[k]
              /\ Append(Front(list), b)[Len(list)] = b
<1>1. /\ Append(list, b) \in Seq(Block_t) /\ Len(Append(list, b)) = Len(list) + 1
      /\ \A k \in 1..Len(list) : Append(list, b)[k] = list[k]
      /\ Append(list, b)[Len(list) + 1] = b
  OBVIOUS
<1>2. ASSUME Len(list) > 0
      PROVE  /\ Last(list) = list[Len(list)]
             /\ Append(Front(list), b) \in Seq(Block_t)
             /\ Len(Append(Front(list), b)) = Len(list)
             /\ \A k \in 1..(Len(list) - 1) : Append(Front(list), b)[k] = list[k]
             /\ Append(Front(list), b)[Len(list)] = b
  <2>1. PICK f : f = SubSeq(list, 1, Len(list) - 1)
    OBVIOUS
  <2>2. /\ f \in Seq(Block_t) /\ Len(f) = Len(list) - 1
        /\ \A k \in 1..(Len(list) - 1) : f[k] = list[k]
    <3>1. Len(list) \in Nat /\ Len(list) - 1 \in Nat /\ Len(list) - 1 <= Len(list)
      BY <1>2
    <3>2. \A k \in 1..(Len(list) - 1) : list[k] \in Block_t
      BY <3>1
    <3>3. f = [k \in 1..(Len(list) - 1) |-> list[k]]
      BY <2>1, <3>1
    <3>4. f \in Seq(Block_t) /\ Len(f) = Len(list) - 1
      BY <3>1, <3>2, <3>3, IsASeq
    <3> QED
      BY <3>3, <3>4
  <2>3. /\ Append(f, b) \in Seq(Block_t) /\ Len(Append(f, b)) = Len(list)
        /\ \A k \in 1..(Len(list) - 1) : Append(f, b)[k] = list[k]
        /\ Append(f, b)[Len(list)] = b
    BY <1>2, <2>2
  <2> QED
    BY <2>1, <2>3 DEF Front, Last
<1> QED
  BY <1>1, <1>2

(* The blocks taken of a list, when one more block is counted.             *)
LEMMA TakenOneMore ==
  ASSUME NEW list, NEW n \in Nat
  PROVE  TakenTo(list, n + 1)
           = TakenTo(list, n) \union (IF list[n + 1].free THEN {} ELSE {list[n + 1]})
<1>1. \A k : k \in 1..(n + 1) <=> k \in 1..n \/ k = n + 1
  OBVIOUS
<1> QED
  BY <1>1 DEF TakenTo

(* Two lists that begin alike have the same blocks taken there.            *)
LEMMA TakenSame ==
  ASSUME NEW list, NEW other, NEW n \in Nat, \A k \in 1..n : other[k] = list[k]
  PROVE  TakenTo(other, n) = TakenTo(list, n)
  BY DEF TakenTo

(* A block that touches the end of a merged tiling: absorbed or appended,  *)
(* the list tiles what both cover, stays merged, and the blocks taken are  *)
(* those of both.                                                          *)
LEMMA AbsorbStep ==
  ASSUME NEW done, NEW end \in Nat, Tiles(done, end), Merged(done),
         NEW b \in Block_t, b.addr = end, b.size >= MIN_BLOCK_SIZE
  PROVE  /\ Tiles(Absorb(done, b), end + b.size)
         /\ Merged(Absorb(done, b))
         /\ Taken(Absorb(done, b)) = Taken(done) \union (IF b.free THEN {} ELSE {b})
<1>1. PICK n : n = Len(done)
  OBVIOUS
<1>2. /\ done \in Seq(Block_t) /\ n \in Nat /\ n > 0 /\ done # <<>>
      /\ \A k \in 1..n : done[k] \in Block_t
  BY <1>1 DEF Tiles
<1>3. PICK cur : cur = done[n]
  OBVIOUS
<1>4. /\ cur \in Block_t /\ cur.addr \in Nat /\ cur.size \in Nat /\ cur.free \in BOOLEAN
      /\ cur.size >= MIN_BLOCK_SIZE /\ cur.addr + cur.size = end /\ cur = Last(done)
      /\ b.addr \in Nat /\ b.size \in Nat /\ b.free \in BOOLEAN
  BY <1>1, <1>2, <1>3 DEF Tiles, Block_t, Last
<1>5. CASE cur.free /\ b.free
  <2>1. PICK both : both = [cur EXCEPT !.size = @ + b.size]
    OBVIOUS
  <2>2. /\ both \in Block_t /\ both.addr = cur.addr /\ both.size = cur.size + b.size
        /\ both.free = cur.free
    BY <1>4, <2>1 DEF Block_t
  <2>3. PICK new : new = Append(Front(done), both)
    OBVIOUS
  <2>4. Absorb(done, b) = new
    BY <1>2, <1>4, <1>5, <2>1, <2>3 DEF Absorb
  <2>5. /\ new \in Seq(Block_t) /\ Len(new) = n /\ new[n] = both
        /\ \A k \in 1..(n - 1) : new[k] = done[k]
    BY <1>1, <1>2, <2>2, <2>3, ListEnds
  <2>6. \A k \in 1..n : new[k].addr = done[k].addr /\ new[k].free = done[k].free
    BY <1>2, <1>3, <2>2, <2>5
  <2>7. Tiles(new, end + b.size)
    <3>1. new[1].addr = 0
      BY <1>1, <1>2, <2>6 DEF Tiles
    <3>2. ASSUME NEW k \in 1..n
          PROVE  /\ new[k].size >= MIN_BLOCK_SIZE
                 /\ new[k].addr + new[k].size = IF k = n THEN end + b.size ELSE new[k + 1].addr
      <4>1. CASE k = n
        BY <1>4, <2>2, <2>5, <4>1, HeapSizes
      <4>2. CASE k # n
        <5>1. k \in 1..(n - 1) /\ k + 1 \in 1..n
          BY <1>2, <4>2
        <5> QED
          BY <1>1, <2>5, <2>6, <4>2, <5>1 DEF Tiles
      <4> QED
        BY <4>1, <4>2
    <3> QED
      BY <1>2, <2>5, <3>1, <3>2 DEF Tiles
  <2>8. Merged(new)
    <3>1. \A k \in 1..(n - 1) : k \in 1..n /\ k + 1 \in 1..n
      BY <1>2
    <3> QED
      BY <1>1, <2>5, <2>6, <3>1 DEF Merged
  <2>9. Taken(new) = Taken(done)
    <3>1. PICK m \in Nat : n = m + 1
      BY <1>2
    <3>2. TakenTo(new, m) = TakenTo(done, m)
      BY <2>5, <3>1, TakenSame
    <3>3. new[m + 1].free /\ done[m + 1].free
      BY <1>3, <1>5, <2>2, <2>5, <3>1
    <3>4. TakenTo(new, n) = TakenTo(new, m) /\ TakenTo(done, n) = TakenTo(done, m)
      BY <3>1, <3>3, TakenOneMore
    <3> QED
      BY <1>1, <2>5, <3>2, <3>4 DEF Taken
  <2> QED
    BY <1>5, <2>4, <2>7, <2>8, <2>9
<1>6. CASE ~(cur.free /\ b.free)
  <2>1. PICK new : new = Append(done, b)
    OBVIOUS
  <2>2. Absorb(done, b) = new
    BY <1>2, <1>4, <1>6, <2>1 DEF Absorb
  <2>3. /\ new \in Seq(Block_t) /\ Len(new) = n + 1 /\ new[n + 1] = b
        /\ \A k \in 1..n : new[k] = done[k]
    BY <1>1, <1>2, <2>1, ListEnds
  <2>4. Tiles(new, end + b.size)
    <3>1. new[1].addr = 0
      BY <1>1, <1>2, <2>3 DEF Tiles
    <3>2. ASSUME NEW k \in 1..(n + 1)
          PROVE  /\ new[k].size >= MIN_BLOCK_SIZE
                 /\ new[k].addr + new[k].size = IF k = n + 1 THEN end + b.size ELSE new[k + 1].addr
      <4>1. CASE k = n + 1
        BY <1>4, <2>3, <4>1
      <4>2. CASE k = n
        <5>1. n \in 1..n /\ n # n + 1
          BY <1>2
        <5>2. new[k] = cur /\ new[k + 1] = b
          BY <1>3, <2>3, <4>2, <5>1
        <5> QED
          BY <1>4, <4>2, <5>1, <5>2
      <4>3. CASE k < n
        <5>1. k \in 1..n /\ k + 1 \in 1..n /\ k # n /\ k # n + 1
          BY <1>2, <4>3
        <5>2. new[k] = done[k] /\ new[k + 1] = done[k + 1]
          BY <2>3, <5>1
        <5>3. done[k].size >= MIN_BLOCK_SIZE /\ done[k].addr + done[k].size = done[k + 1].addr
          BY <1>1, <5>1 DEF Tiles
        <5> QED
          BY <5>1, <5>2, <5>3
      <4> QED
        BY <1>2, <4>1, <4>2, <4>3
    <3> QED
      BY <1>2, <2>3, <3>1, <3>2 DEF Tiles
  <2>5. Merged(new)
    <3>1. ASSUME NEW k \in 1..n PROVE ~(new[k].free /\ new[k + 1].free)
      <4>1. CASE k = n
        BY <1>3, <1>6, <2>3, <4>1
      <4>2. CASE k < n
        <5>1. k \in 1..(n - 1) /\ k + 1 \in 1..n
          BY <1>2, <4>2
        <5> QED
          BY <1>1, <2>3, <5>1 DEF Merged
      <4> QED
        BY <1>2, <4>1, <4>2
    <3> QED
      BY <1>2, <2>3, <3>1 DEF Merged
  <2>6. Taken(new) = Taken(done) \union (IF b.free THEN {} ELSE {b})
    <3>1. TakenTo(new, n) = TakenTo(done, n)
      BY <1>2, <2>3, TakenSame
    <3>2. TakenTo(new, n + 1) = TakenTo(new, n) \union (IF b.free THEN {} ELSE {b})
      BY <1>2, <2>3, TakenOneMore
    <3> QED
      BY <1>1, <2>3, <3>1, <3>2 DEF Taken
  <2> QED
    BY <2>2, <2>4, <2>5, <2>6
<1> QED
  BY <1>5, <1>6

(* What the walk down a list computes, of the list it has built so far.    *)
WalkBody(list, f) ==
  [k \in 0..Len(list) |-> IF k = 0 THEN <<>> ELSE Absorb(f[k - 1], list[k])]

(* The walk of the first n blocks.                                         *)
IsWalk(list, g, n) ==
  g = [k \in 0..n |-> IF k = 0 THEN <<>> ELSE Absorb(g[k - 1], list[k])]

(* The walk exists: a walk of n blocks goes on to one more.                *)
LEMMA CoalesceWalkExists ==
  ASSUME NEW list, Len(list) \in Nat
  PROVE  \E f : f = WalkBody(list, f)
<1> DEFINE Bad == {n \in 0..Len(list) : ~ \E g : IsWalk(list, g, n)}
<1>1. ASSUME Bad # {} PROVE FALSE
  <2>1. Bad \subseteq Nat
    OBVIOUS
  <2>2. PICK n \in Bad : \A x \in Bad : n <= x
    <3> HIDE DEF Bad
    <3> QED
      BY <1>1, <2>1, MinExists
  <2>3. CASE n = 0
    <3>1. PICK g : g = [k \in 0..0 |-> <<>>]
      OBVIOUS
    <3>2. IsWalk(list, g, 0)
      BY <3>1 DEF IsWalk
    <3> QED
      BY <2>2, <2>3, <3>2
  <2>4. CASE n # 0
    <3>1. PICK m : m = n - 1
      OBVIOUS
    <3>2. m \in Nat /\ m \in 0..Len(list) /\ n = m + 1 /\ m \notin Bad
      BY <2>2, <2>4, <3>1
    <3>3. PICK g : IsWalk(list, g, m)
      BY <3>2
    <3>4. PICK h : h = [k \in 0..n |-> IF k = n THEN Absorb(g[m], list[n]) ELSE g[k]]
      OBVIOUS
    <3>5. \A k \in 0..m : g[k] = IF k = 0 THEN <<>> ELSE Absorb(g[k - 1], list[k])
      BY <3>3 DEF IsWalk
    <3>6. ASSUME NEW k \in 0..n
          PROVE  h[k] = IF k = 0 THEN <<>> ELSE Absorb(h[k - 1], list[k])
      <4>1. CASE k = n
        <5>1. n \in 0..n /\ m \in 0..n /\ m # n /\ n - 1 = m
          BY <3>2
        <5>2. h[n] = Absorb(g[m], list[n]) /\ h[m] = g[m]
          BY <3>4, <5>1
        <5> QED
          BY <2>4, <4>1, <5>1, <5>2
      <4>2. CASE k # n /\ k # 0
        <5>1. k \in 0..m /\ k - 1 \in 0..n /\ k - 1 # n
          BY <3>2, <4>2
        <5>2. h[k] = g[k] /\ h[k - 1] = g[k - 1]
          BY <3>4, <4>2, <5>1
        <5> QED
          BY <3>5, <4>2, <5>1, <5>2
      <4>3. CASE k = 0
        <5>1. 0 \in 0..m /\ 0 \in 0..n
          BY <3>2
        <5> QED
          BY <2>4, <3>4, <3>5, <4>3, <5>1
      <4> QED
        BY <4>1, <4>2, <4>3
    <3>7. IsWalk(list, h, n)
      BY <3>4, <3>6 DEF IsWalk
    <3> QED
      BY <2>2, <3>7
  <2> QED
    BY <2>3, <2>4
<1>2. PICK g : IsWalk(list, g, Len(list))
  BY <1>1
<1> QED
  BY <1>2 DEF IsWalk, WalkBody

(* coalesce_free_blocks is the last list of a walk.                        *)
LEMMA CoalesceWalks ==
  ASSUME NEW list, Len(list) \in Nat
  PROVE  \E f : /\ Coalesce(list) = f[Len(list)]
                /\ f[0] = <<>>
                /\ \A k \in 1..Len(list) : f[k] = Absorb(f[k - 1], list[k])
<1>1. \E f : f = WalkBody(list, f)
  BY CoalesceWalkExists
<1>2. PICK f : f = CHOOSE g : g = WalkBody(list, g)
  OBVIOUS
<1>3. f = WalkBody(list, f)
  BY <1>1, <1>2, Zenon
<1>4. Coalesce(list) = f[Len(list)]
  BY <1>2, Zenon DEF Coalesce, WalkBody
<1>5. f[0] = <<>> /\ \A k \in 1..Len(list) : f[k] = Absorb(f[k - 1], list[k])
  <2>1. \A k \in 0..Len(list) : f[k] = IF k = 0 THEN <<>> ELSE Absorb(f[k - 1], list[k])
    BY <1>3 DEF WalkBody
  <2>2. 0 \in 0..Len(list) /\ \A k \in 1..Len(list) : k \in 0..Len(list) /\ k # 0
    OBVIOUS
  <2> QED
    BY <2>1, <2>2
<1> QED
  BY <1>4, <1>5

(* Merging a tiling: the list tiles the same memory, no two neighbours are *)
(* free any more, and the blocks taken are the same.                       *)
LEMMA CoalesceKeeps ==
  ASSUME NEW list, NEW end \in Nat, Tiles(list, end)
  PROVE  /\ Tiles(Coalesce(list), end)
         /\ Merged(Coalesce(list))
         /\ Taken(Coalesce(list)) = Taken(list)
<1>1. /\ list \in Seq(Block_t) /\ Len(list) \in Nat /\ Len(list) > 0
      /\ \A k \in 1..Len(list) :
           /\ list[k] \in Block_t /\ list[k].addr \in Nat /\ list[k].size \in Nat
           /\ list[k].free \in BOOLEAN /\ list[k].size >= MIN_BLOCK_SIZE
      /\ list[1].addr = 0
  <2>1. list \in Seq(Block_t) /\ Len(list) \in Nat /\ Len(list) > 0 /\ list[1].addr = 0
    BY DEF Tiles
  <2>2. \A k \in 1..Len(list) : list[k] \in Block_t /\ list[k].size >= MIN_BLOCK_SIZE
    BY DEF Tiles
  <2> QED
    BY <2>1, <2>2 DEF Block_t
<1>2. PICK f : /\ Coalesce(list) = f[Len(list)]
               /\ f[0] = <<>>
               /\ \A k \in 1..Len(list) : f[k] = Absorb(f[k - 1], list[k])
  BY <1>1, CoalesceWalks
<1> DEFINE Ok(k) == /\ Tiles(f[k], list[k].addr + list[k].size)
                    /\ Merged(f[k])
                    /\ Taken(f[k]) = TakenTo(list, k)
           Bad == {k \in 1..Len(list) : ~Ok(k)}
<1>3. Ok(1)
  <2>1. 1 \in 1..Len(list) /\ 1 - 1 = 0
    BY <1>1
  <2>2. f[1] = <<list[1]>>
    BY <1>2, <2>1 DEF Absorb
  <2>3. PICK b : b = list[1]
    OBVIOUS
  <2>4. /\ b \in Block_t /\ b.addr = 0 /\ b.size \in Nat /\ b.size >= MIN_BLOCK_SIZE
        /\ b.free \in BOOLEAN
    BY <1>1, <2>1, <2>3
  <2>5. <<b>> \in Seq(Block_t) /\ Len(<<b>>) = 1 /\ <<b>>[1] = b
    BY <2>4
  <2>6. Tiles(<<b>>, b.addr + b.size)
    BY <2>4, <2>5 DEF Tiles
  <2>7. Merged(<<b>>)
    BY <2>5 DEF Merged
  <2>8. Taken(<<b>>) = TakenTo(list, 1)
    <3>1. \A k \in 1..1 : <<b>>[k] = list[k]
      BY <2>3, <2>5
    <3> QED
      BY <2>5, <3>1, TakenSame DEF Taken
  <2> QED
    BY <2>2, <2>3, <2>6, <2>7, <2>8
<1>4. ASSUME NEW m \in 1..Len(list), m + 1 \in 1..Len(list), Ok(m) PROVE Ok(m + 1)
  <2>1. PICK b : b = list[m + 1]
    OBVIOUS
  <2>2. PICK e : e = list[m].addr + list[m].size
    OBVIOUS
  <2>3. m # Len(list) /\ m \in Nat /\ (m + 1) - 1 = m
    BY <1>1, <1>4
  <2>4. e \in Nat /\ b \in Block_t /\ b.addr = e /\ b.size >= MIN_BLOCK_SIZE
    <3>1. b.addr = e
      BY <2>1, <2>2, <2>3 DEF Tiles
    <3> QED
      BY <1>1, <1>4, <2>1, <2>2, <3>1
  <2>5. f[m + 1] = Absorb(f[m], b)
    BY <1>2, <1>4, <2>1, <2>3
  <2>6. Tiles(f[m], e) /\ Merged(f[m])
    BY <1>4, <2>2
  <2>7. /\ Tiles(f[m + 1], e + b.size) /\ Merged(f[m + 1])
        /\ Taken(f[m + 1]) = Taken(f[m]) \union (IF b.free THEN {} ELSE {b})
    BY <2>4, <2>5, <2>6, AbsorbStep
  <2>8. TakenTo(list, m + 1) = TakenTo(list, m) \union (IF b.free THEN {} ELSE {b})
    BY <2>1, <2>3, TakenOneMore
  <2> QED
    BY <1>4, <2>1, <2>4, <2>7, <2>8
<1>5. ASSUME Bad # {} PROVE FALSE
  <2>1. Bad \subseteq Nat
    OBVIOUS
  <2>2. PICK n \in Bad : \A x \in Bad : n <= x
    <3> HIDE DEF Bad
    <3> QED
      BY <1>5, <2>1, MinExists
  <2>3. n \in 1..Len(list) /\ ~Ok(n) /\ \A k \in 1..Len(list) : ~Ok(k) => n <= k
    BY <2>2
  <2> HIDE DEF Ok
  <2>4. n # 1
    BY <1>3, <2>3
  <2>5. PICK m : m = n - 1
    OBVIOUS
  <2>6. m \in 1..Len(list) /\ m + 1 = n /\ ~(n <= m)
    BY <1>1, <2>3, <2>4, <2>5
  <2>7. Ok(m)
    BY <2>3, <2>6
  <2>8. Ok(m + 1)
    BY <1>4, <2>3, <2>6, <2>7
  <2> QED
    BY <2>3, <2>6, <2>8
<1>6. Len(list) \in 1..Len(list)
  BY <1>1
<1>7. Ok(Len(list))
  BY <1>5, <1>6
<1>8. list[Len(list)].addr + list[Len(list)].size = end
  BY <1>6 DEF Tiles
<1> QED
  BY <1>2, <1>7, <1>8 DEF Taken

-----------------------------------------------------------------------------
(* kmalloc's arithmetic and search.                                        *)

(* The block asked for holds a header and the payload: nothing wraps.      *)
LEMMA TotalHolds ==
  ASSUME NEW size \in Sizes
  PROVE  /\ TotalSize(size) \in Nat
         /\ TotalSize(size) >= MIN_BLOCK_SIZE
         /\ TotalSize(size) - HEADER >= size
<1>1. PICK a : a = size + ALIGN - 1
  OBVIOUS
<1>2. a \in Nat /\ a < WORD - HEADER /\ a \in 0..(2*WORD - 1)
  BY <1>1, HeapSizes
<1>3. a % WORD = a
  <2>1. Slot(a, WORD) = a
    BY <1>2, HeapSizes, SlotValue
  <2> QED
    BY <2>1 DEF Slot
<1>4. PICK c : c = (a \div ALIGN) * ALIGN
  OBVIOUS
<1>5. c \in Nat /\ c >= size /\ c <= a
  <2>1. PICK q : q = a \div ALIGN
    OBVIOUS
  <2>2. PICK r : r = a % ALIGN
    OBVIOUS
  <2>3. q \in Nat /\ r \in 0..(ALIGN - 1) /\ a = q * ALIGN + r
    BY <1>2, <2>1, <2>2, HeapSizes, DivisionBounds
  <2>4. PICK p : p = q * ALIGN
    OBVIOUS
  <2>5. p \in Nat
    BY <2>3, <2>4, HeapSizes
  <2>6. a = p + r /\ c = p
    BY <1>4, <2>1, <2>3, <2>4
  <2> QED
    BY <1>1, <1>2, <2>3, <2>5, <2>6, HeapSizes
<1>6. AlignSize(size) = c
  BY <1>1, <1>3, <1>4 DEF AlignSize
<1>7. PICK t : t = c + HEADER
  OBVIOUS
<1>8. t \in Nat /\ t < WORD /\ t \in 0..(2*WORD - 1)
  BY <1>2, <1>5, <1>7, HeapSizes
<1>9. t % WORD = t
  <2>1. Slot(t, WORD) = t
    BY <1>8, HeapSizes, SlotValue
  <2> QED
    BY <2>1 DEF Slot
<1>10. TotalSize(size) = IF t < MIN_BLOCK_SIZE THEN MIN_BLOCK_SIZE ELSE t
  BY <1>6, <1>7, <1>9 DEF TotalSize
<1> QED
  BY <1>5, <1>7, <1>8, <1>10, HeapSizes

(* The search ends on a free block that fits.                              *)
LEMMA FirstFitFits ==
  ASSUME NEW list, Len(list) \in Nat, NEW size, Fits(list, size) # {}
  PROVE  FirstFit(list, size) \in Fits(list, size)
<1>1. Fits(list, size) \subseteq Nat
  BY DEF Fits
<1>2. \E k \in Fits(list, size) : \A m \in Fits(list, size) : k <= m
  BY <1>1, MinExists
<1> QED
  BY <1>2 DEF FirstFit

-----------------------------------------------------------------------------
(* Taking a block and marking one free.                                    *)

(* The list new is list with x and y in the place of its block k.          *)
Split(list, k, x, y, new) ==
  /\ new \in Seq(Block_t) /\ Len(new) = Len(list) + 1
  /\ \A i \in 1..(k - 1) : new[i] = list[i]
  /\ new[k] = x /\ new[k + 1] = y
  /\ \A i \in (k + 1)..Len(list) : new[i + 1] = list[i]

(* A list with the element at k replaced by two.                           *)
LEMMA Spliced ==
  ASSUME NEW list \in Seq(Block_t), NEW k \in 1..Len(list), NEW x \in Block_t, NEW y \in Block_t
  PROVE  Split(list, k, x, y,
               SubSeq(list, 1, k - 1) \o <<x, y>> \o SubSeq(list, k + 1, Len(list)))
<1> DEFINE T == Block_t
<1> HIDE DEF T
<1>A. PICK new : new = SubSeq(list, 1, k - 1) \o <<x, y>> \o SubSeq(list, k + 1, Len(list))
  OBVIOUS
<1>B. list \in Seq(T) /\ x \in T /\ y \in T
  BY DEF T
<1>1. PICK n : n = Len(list)
  OBVIOUS
<1>2. n \in Nat /\ k \in Nat /\ k >= 1 /\ k <= n /\ \A i \in 1..n : list[i] \in T
  BY <1>1, <1>B
<1>3. PICK a : a = SubSeq(list, 1, k - 1)
  OBVIOUS
<1>4. /\ a \in Seq(T) /\ Len(a) = k - 1
      /\ \A i \in 1..(k - 1) : a[i] = list[i]
  <2>1. \A i \in 1..(k - 1) : list[i] \in T
    BY <1>2
  <2>2. a = [i \in 1..(k - 1) |-> list[i]]
    BY <1>1, <1>2, <1>3
  <2>3. a \in Seq(T) /\ Len(a) = k - 1
    BY <1>2, <2>1, <2>2, IsASeq
  <2> QED
    BY <2>2, <2>3
<1>5. PICK c : c = SubSeq(list, k + 1, n)
  OBVIOUS
<1>6. /\ c \in Seq(T) /\ Len(c) = n - k
      /\ \A i \in 1..(n - k) : c[i] = list[k + i]
  <2>1. \A i \in 1..(n - k) : list[k + i] \in T
    BY <1>2
  <2>2. c = [i \in 1..(n - k) |-> list[k + i]]
    BY <1>1, <1>2, <1>5
  <2>3. c \in Seq(T) /\ Len(c) = n - k
    BY <1>2, <2>1, <2>2, IsASeq
  <2> QED
    BY <2>2, <2>3
<1>7. PICK b : b = a \o <<x, y>>
  OBVIOUS
<1>8. <<x, y>> \in Seq(T) /\ Len(<<x, y>>) = 2 /\ <<x, y>>[1] = x /\ <<x, y>>[2] = y
  BY <1>B
<1>9. /\ b \in Seq(T) /\ Len(b) = k + 1
      /\ \A i \in 1..(k - 1) : b[i] = list[i]
      /\ b[k] = x /\ b[k + 1] = y
  <2>1. k - 1 \in Nat /\ (k - 1) + 2 = k + 1 /\ (k - 1) + 1 = k
    BY <1>2
  <2>2. /\ b \in Seq(T) /\ Len(b) = (k - 1) + 2
        /\ \A i \in 1..(k - 1) : b[i] = a[i]
        /\ \A i \in 1..2 : b[(k - 1) + i] = <<x, y>>[i]
    <3>1. PICK j : j = k - 1
      OBVIOUS
    <3>2. PICK p : p = <<x, y>>
      OBVIOUS
    <3>3. 2 \in Nat /\ j \in Nat /\ Len(a) = j /\ p \in Seq(T) /\ Len(p) = 2 /\ b = a \o p
      BY <1>4, <1>7, <1>8, <2>1, <3>1, <3>2
    <3>4. /\ b \in Seq(T) /\ Len(b) = j + 2
          /\ \A i \in 1..j : b[i] = a[i]
          /\ \A i \in 1..2 : b[j + i] = p[i]
      <4>A. a \in Seq(T) /\ p \in Seq(T)
        BY <1>4, <3>3
      <4>1. /\ a \o p \in Seq(T) /\ Len(a \o p) = Len(a) + Len(p)
            /\ \A i \in 1..Len(a) : (a \o p)[i] = a[i]
            /\ \A i \in 1..Len(p) : (a \o p)[Len(a) + i] = p[i]
        BY ONLY <4>A, Joined
      <4> QED
        BY <3>3, <4>1, Zenon
    <3> QED
      BY <3>1, <3>2, <3>4
  <2>3. b[(k - 1) + 1] = x /\ b[(k - 1) + 2] = y
    BY <1>8, <2>2
  <2> QED
    BY <1>4, <2>1, <2>2, <2>3
<1>10. new = b \o c
  BY <1>A, <1>1, <1>3, <1>5, <1>7
<1>11. /\ new \in Seq(T) /\ Len(new) = (k + 1) + (n - k)
       /\ \A i \in 1..(k + 1) : new[i] = b[i]
       /\ \A i \in 1..(n - k) : new[(k + 1) + i] = c[i]
  <2>1. PICK j, l : j = k + 1 /\ l = n - k
    OBVIOUS
  <2>2. j \in Nat /\ l \in Nat /\ Len(b) = j /\ Len(c) = l
    BY <1>2, <1>6, <1>9, <2>1
  <2>3. /\ new \in Seq(T) /\ Len(new) = j + l
        /\ \A i \in 1..j : new[i] = b[i]
        /\ \A i \in 1..l : new[j + i] = c[i]
    <3>A. b \in Seq(T) /\ c \in Seq(T)
      BY <1>6, <1>9
    <3>1. /\ b \o c \in Seq(T) /\ Len(b \o c) = Len(b) + Len(c)
          /\ \A i \in 1..Len(b) : (b \o c)[i] = b[i]
          /\ \A i \in 1..Len(c) : (b \o c)[Len(b) + i] = c[i]
      BY ONLY <3>A, Joined
    <3> QED
      BY <1>10, <2>2, <3>1, Zenon
  <2> QED
    BY <2>1, <2>3
<1>12. ASSUME NEW i \in (k + 1)..n PROVE new[i + 1] = list[i]
  <2>1. PICK j : j = i - k
    OBVIOUS
  <2>2. j \in 1..(n - k) /\ k + j = i /\ (k + 1) + j = i + 1
    BY <1>2, <2>1
  <2>3. new[(k + 1) + j] = c[j]
    BY <1>11, <2>2
  <2> QED
    BY <1>6, <2>2, <2>3
<1>13. (k + 1) + (n - k) = n + 1
  BY <1>2
<1>14. k \in 1..(k + 1) /\ k + 1 \in 1..(k + 1) /\ \A i \in 1..(k - 1) : i \in 1..(k + 1)
  BY <1>2
<1>15. /\ new \in Seq(Block_t) /\ Len(new) = n + 1
       /\ \A i \in 1..(k - 1) : new[i] = list[i]
       /\ new[k] = x /\ new[k + 1] = y
  BY <1>9, <1>11, <1>13, <1>14 DEF T
<1>16. Split(list, k, x, y, new)
  BY <1>1, <1>12, <1>15 DEF Split
<1> QED
  BY <1>A, <1>16

(* What taking block k of a list makes of it: t is the block taken.        *)
Takes(list, end, k, size, new, t) ==
  /\ t \in Block_t /\ t.addr = list[k].addr /\ t.size >= TotalSize(size) /\ ~t.free
  /\ Tiles(new, end)
  /\ Taken(new) = Taken(list) \union {t}
  /\ Merged(list) => Merged(new)

(* Block b cut into t, which is taken, and r, which is free.               *)
Cut(b, total, t, r) ==
  /\ total \in Nat /\ total >= MIN_BLOCK_SIZE
  /\ t \in Block_t /\ t.addr = b.addr /\ t.size = total /\ t.free = FALSE
  /\ r \in Block_t /\ r.addr = b.addr + total /\ r.size = b.size - total /\ r.free = TRUE
  /\ r.size >= MIN_BLOCK_SIZE

(* A block cut in two: the first part is taken, the rest is free.          *)
LEMMA TakePart ==
  ASSUME NEW list, NEW end \in Nat, Tiles(list, end), NEW size, NEW k \in Fits(list, size),
         NEW new, NEW t, NEW r, Cut(list[k], TotalSize(size), t, r), Split(list, k, t, r, new)
  PROVE  Takes(list, end, k, size, new, t)
<1>1. PICK n : n = Len(list)
  OBVIOUS
<1>2. PICK total : total = TotalSize(size)
  OBVIOUS
<1>3. PICK b : b = list[k]
  OBVIOUS
<1>4. list \in Seq(Block_t) /\ n \in Nat /\ \A i \in 1..n : list[i] \in Block_t
  BY <1>1 DEF Tiles
<1>5. k \in 1..n /\ k \in Nat /\ b \in Block_t /\ b.free
  BY <1>1, <1>3, <1>4 DEF Fits
<1>6. b.addr \in Nat /\ b.size \in Nat
  BY <1>5 DEF Block_t
<1>7. total \in Nat /\ total >= MIN_BLOCK_SIZE
  BY <1>2 DEF Cut
<1>8. /\ t \in Block_t /\ t.addr = b.addr /\ t.size = total /\ t.free = FALSE
      /\ r \in Block_t /\ r.addr = b.addr + total /\ r.size = b.size - total /\ r.free = TRUE
      /\ r.size >= MIN_BLOCK_SIZE
  BY <1>2, <1>3 DEF Cut
<1>9. /\ new \in Seq(Block_t) /\ Len(new) = n + 1
      /\ \A i \in 1..(k - 1) : new[i] = list[i]
      /\ new[k] = t /\ new[k + 1] = r
      /\ \A i \in (k + 1)..n : new[i + 1] = list[i]
  BY <1>1 DEF Split
<1>10. \A i \in 1..n : /\ list[i].size >= MIN_BLOCK_SIZE
                       /\ i # n => list[i].addr + list[i].size = list[i + 1].addr
                       /\ i = n => list[i].addr + list[i].size = end
  BY <1>1 DEF Tiles
<1>11. Tiles(new, end)
  <2>1. new[1].addr = 0
    <3>1. list[1].addr = 0
      BY DEF Tiles
    <3>2. CASE k = 1
      BY <1>3, <1>8, <1>9, <3>1, <3>2
    <3>3. CASE k # 1
      <4>1. 1 \in 1..(k - 1)
        BY <1>5, <3>3
      <4> QED
        BY <1>9, <3>1, <4>1
    <3> QED
      BY <3>2, <3>3
  <2>2. ASSUME NEW i \in 1..(n + 1)
        PROVE  /\ new[i].size >= MIN_BLOCK_SIZE
               /\ i # n + 1 => new[i].addr + new[i].size = new[i + 1].addr
               /\ i = n + 1 => new[i].addr + new[i].size = end
    <3>1. CASE i \in 1..(k - 1)
      <4>1. i \in 1..n /\ i # n /\ i # n + 1
        BY <1>4, <1>5, <3>1
      <4>2. new[i] = list[i] /\ new[i].addr + new[i].size = list[i + 1].addr
        BY <1>9, <1>10, <3>1, <4>1
      <4>3. new[i + 1].addr = list[i + 1].addr
        <5>1. CASE i + 1 = k
          BY <1>3, <1>8, <1>9, <5>1
        <5>2. CASE i + 1 # k
          <6>1. i + 1 \in 1..(k - 1)
            BY <1>5, <3>1, <5>2
          <6> QED
            BY <1>9, <6>1
        <5> QED
          BY <5>1, <5>2
      <4> QED
        BY <1>10, <4>1, <4>2, <4>3
    <3>2. CASE i = k
      <4>1. i # n + 1 /\ new[i] = t /\ new[i + 1] = r
        BY <1>4, <1>5, <1>9, <3>2
      <4> QED
        BY <1>7, <1>8, <4>1
    <3>3. CASE i = k + 1
      <4>1. new[i] = r /\ new[i].addr + new[i].size = b.addr + b.size
        BY <1>6, <1>7, <1>8, <1>9, <3>3
      <4>2. CASE k = n
        BY <1>3, <1>5, <1>8, <1>10, <3>3, <4>1, <4>2
      <4>3. CASE k # n
        <5>1. k + 1 \in (k + 1)..n /\ i # n + 1
          BY <1>4, <1>5, <3>3, <4>3
        <5>2. new[i + 1] = list[k + 1]
          BY <1>9, <3>3, <5>1
        <5> QED
          BY <1>3, <1>5, <1>8, <1>10, <4>1, <4>3, <5>1, <5>2
      <4> QED
        BY <4>2, <4>3
    <3>4. CASE i \in (k + 2)..(n + 1)
      <4>1. PICK j : j = i - 1
        OBVIOUS
      <4>2. j \in (k + 1)..n /\ j \in 1..n /\ i = j + 1 /\ (i = n + 1 <=> j = n)
        BY <1>4, <1>5, <3>4, <4>1
      <4>3. new[i] = list[j]
        BY <1>9, <4>2
      <4>4. CASE j = n
        BY <1>10, <4>2, <4>3, <4>4
      <4>5. CASE j # n
        <5>1. j + 1 \in (k + 1)..n /\ new[(j + 1) + 1] = list[j + 1]
          BY <1>4, <1>5, <1>9, <4>2, <4>5
        <5> QED
          BY <1>10, <4>2, <4>3, <4>5, <5>1
      <4> QED
        BY <4>4, <4>5
    <3> QED
      BY <1>4, <1>5, <3>1, <3>2, <3>3, <3>4
  <2>3. n + 1 > 0
    BY <1>4
  <2> QED
    BY <1>9, <2>1, <2>2, <2>3 DEF Tiles
<1>12. Taken(new) = Taken(list) \union {t}
  <2>1. ASSUME NEW x \in Taken(new) PROVE x \in Taken(list) \union {t}
    <3>1. PICK i \in 1..(n + 1) : ~new[i].free /\ x = new[i]
      BY <1>9, <2>1 DEF Taken, TakenTo
    <3>2. CASE i \in 1..(k - 1)
      <4>1. i \in 1..n /\ x = list[i] /\ ~list[i].free
        BY <1>4, <1>5, <1>9, <3>1, <3>2
      <4> QED
        BY <1>1, <4>1 DEF Taken, TakenTo
    <3>3. CASE i = k \/ i = k + 1
      BY <1>8, <1>9, <3>1, <3>3
    <3>4. CASE i \in (k + 2)..(n + 1)
      <4>1. PICK j : j = i - 1
        OBVIOUS
      <4>2. j \in (k + 1)..n /\ j \in 1..n /\ i = j + 1
        BY <1>4, <1>5, <3>4, <4>1
      <4>3. x = list[j] /\ ~list[j].free
        BY <1>9, <3>1, <4>2
      <4> QED
        BY <1>1, <4>2, <4>3 DEF Taken, TakenTo
    <3> QED
      BY <1>4, <1>5, <3>1, <3>2, <3>3, <3>4
  <2>2. ASSUME NEW x \in Taken(list) PROVE x \in Taken(new)
    <3>1. PICK i \in 1..n : ~list[i].free /\ x = list[i]
      BY <1>1, <2>2 DEF Taken, TakenTo
    <3>2. i # k
      BY <1>3, <1>5, <3>1
    <3>3. CASE i < k
      <4>1. i \in 1..(k - 1) /\ i \in 1..(n + 1)
        BY <1>4, <1>5, <3>3
      <4>2. x = new[i] /\ ~new[i].free
        BY <1>9, <3>1, <4>1
      <4> QED
        BY <1>9, <4>1, <4>2 DEF Taken, TakenTo
    <3>4. CASE i > k
      <4>1. i \in (k + 1)..n /\ i + 1 \in 1..(n + 1)
        BY <1>4, <1>5, <3>4
      <4>2. x = new[i + 1] /\ ~new[i + 1].free
        BY <1>9, <3>1, <4>1
      <4> QED
        BY <1>9, <4>1, <4>2 DEF Taken, TakenTo
    <3> QED
      BY <1>4, <1>5, <3>2, <3>3, <3>4
  <2>3. t \in Taken(new)
    <3>1. k \in 1..(n + 1) /\ ~new[k].free
      BY <1>4, <1>5, <1>8, <1>9
    <3> QED
      BY <1>9, <3>1 DEF Taken, TakenTo
  <2> QED
    BY <2>1, <2>2, <2>3
<1>13. ASSUME Merged(list) PROVE Merged(new)
  <2>1. \A i \in 1..(n - 1) : ~(list[i].free /\ list[i + 1].free)
    BY <1>1, <1>13 DEF Merged
  <2>2. ASSUME NEW i \in 1..n PROVE ~(new[i].free /\ new[i + 1].free)
    <3>1. CASE i \in 1..(k - 2)
      <4>1. i \in 1..(n - 1) /\ i \in 1..(k - 1) /\ i + 1 \in 1..(k - 1)
        BY <1>4, <1>5, <3>1
      <4> QED
        BY <1>9, <2>1, <4>1
    <3>2. CASE i + 1 = k \/ i = k
      BY <1>8, <1>9, <3>2
    <3>3. CASE i = k + 1
      <4>1. k + 1 \in (k + 1)..n /\ k \in 1..(n - 1)
        BY <1>4, <1>5, <3>3
      <4>2. new[i + 1] = list[k + 1] /\ ~list[k + 1].free
        BY <1>3, <1>5, <1>9, <2>1, <3>3, <4>1
      <4> QED
        BY <4>2
    <3>4. CASE i \in (k + 2)..n
      <4>1. PICK j : j = i - 1
        OBVIOUS
      <4>2. /\ j \in (k + 1)..n /\ j + 1 \in (k + 1)..n /\ j \in 1..(n - 1)
            /\ i = j + 1 /\ i + 1 = (j + 1) + 1
        BY <1>4, <1>5, <3>4, <4>1
      <4>3. new[i] = list[j] /\ new[i + 1] = list[j + 1]
        BY <1>9, <4>2
      <4> QED
        BY <2>1, <4>2, <4>3
    <3> QED
      BY <1>4, <1>5, <3>1, <3>2, <3>3, <3>4
  <2>3. Len(new) - 1 = n
    BY <1>4, <1>9
  <2> QED
    BY <2>2, <2>3 DEF Merged
<1> QED
  BY <1>2, <1>3, <1>7, <1>8, <1>11, <1>12, <1>13 DEF Takes

(* The list new is list with x in the place of its block k.                *)
Replaced(list, k, x, new) ==
  /\ new \in Seq(Block_t) /\ Len(new) = Len(list)
  /\ \A i \in 1..Len(list) : new[i] = IF i = k THEN x ELSE list[i]

(* A block taken whole.                                                    *)
LEMMA TakeWhole ==
  ASSUME NEW list, NEW end \in Nat, Tiles(list, end), NEW size, NEW k \in Fits(list, size),
         NEW new, NEW t \in Block_t, Replaced(list, k, t, new),
         t.addr = list[k].addr, t.size = list[k].size, t.free = FALSE
  PROVE  Takes(list, end, k, size, new, t)
<1>1. PICK n : n = Len(list)
  OBVIOUS
<1>2. n \in Nat /\ n > 0 /\ 1 \in 1..n
  BY <1>1 DEF Tiles
<1>3. k \in 1..n /\ list[k].free /\ t.size >= TotalSize(size)
  BY <1>1 DEF Fits
<1>4. new \in Seq(Block_t) /\ Len(new) = n
  BY <1>1 DEF Replaced
<1>5. \A i \in 1..n : new[i].addr = list[i].addr /\ new[i].size = list[i].size
  BY <1>1 DEF Replaced
<1>6. new[k] = t /\ \A i \in 1..n : i # k => new[i] = list[i]
  BY <1>1, <1>3 DEF Replaced
<1>7. Tiles(new, end)
  <2>1. new[1].addr = 0
    BY <1>2, <1>5 DEF Tiles
  <2>2. ASSUME NEW i \in 1..n
        PROVE  /\ new[i].size >= MIN_BLOCK_SIZE
               /\ i # n => new[i].addr + new[i].size = new[i + 1].addr
               /\ i = n => new[i].addr + new[i].size = end
    <3>1. /\ list[i].size >= MIN_BLOCK_SIZE
          /\ i # n => list[i].addr + list[i].size = list[i + 1].addr
          /\ i = n => list[i].addr + list[i].size = end
      BY <1>1 DEF Tiles
    <3>2. i # n => i + 1 \in 1..n
      BY <1>2
    <3> QED
      BY <1>5, <3>1, <3>2
  <2> QED
    BY <1>2, <1>4, <2>1, <2>2 DEF Tiles
<1>8. Taken(new) = Taken(list) \union {t}
  <2>1. ASSUME NEW x \in Taken(new) PROVE x \in Taken(list) \union {t}
    <3>1. PICK i \in 1..n : ~new[i].free /\ x = new[i]
      BY <1>4, <2>1 DEF Taken, TakenTo
    <3>2. CASE i # k
      BY <1>1, <1>6, <3>1, <3>2 DEF Taken, TakenTo
    <3> QED
      BY <1>6, <3>1, <3>2
  <2>2. ASSUME NEW x \in Taken(list) PROVE x \in Taken(new)
    <3>1. PICK i \in 1..n : ~list[i].free /\ x = list[i]
      BY <1>1, <2>2 DEF Taken, TakenTo
    <3>2. i # k
      BY <1>3, <3>1
    <3> QED
      BY <1>4, <1>6, <3>1, <3>2 DEF Taken, TakenTo
  <2>3. t \in Taken(new)
    BY <1>3, <1>4, <1>6 DEF Taken, TakenTo
  <2> QED
    BY <2>1, <2>2, <2>3
<1>9. ASSUME Merged(list) PROVE Merged(new)
  <2>1. ASSUME NEW i \in 1..(n - 1) PROVE ~(new[i].free /\ new[i + 1].free)
    <3>1. i \in 1..n /\ i + 1 \in 1..n /\ ~(list[i].free /\ list[i + 1].free)
      BY <1>1, <1>2, <1>9 DEF Merged
    <3> QED
      BY <1>6, <3>1
  <2> QED
    BY <1>4, <2>1 DEF Merged
<1> QED
  BY <1>3, <1>7, <1>8, <1>9 DEF Takes

(* A block of a list, with its free mark changed.                          *)
LEMMA Remarked ==
  ASSUME NEW b \in Block_t, NEW f \in BOOLEAN
  PROVE  /\ [b EXCEPT !.free = f] \in Block_t
         /\ [b EXCEPT !.free = f].addr = b.addr
         /\ [b EXCEPT !.free = f].size = b.size
         /\ [b EXCEPT !.free = f].free = f
  BY DEF Block_t

(* kmalloc's change of the list, in either case.                           *)
LEMMA TakeStep ==
  ASSUME NEW list, NEW end \in Nat, Tiles(list, end), NEW size \in Sizes,
         NEW k \in Fits(list, size)
  PROVE  \E t : Takes(list, end, k, size, Take(list, k, size), t)
<1>1. PICK b : b = list[k]
  OBVIOUS
<1>2. PICK total : total = TotalSize(size)
  OBVIOUS
<1>3. PICK new : new = Take(list, k, size)
  OBVIOUS
<1>4. list \in Seq(Block_t) /\ k \in 1..Len(list) /\ b \in Block_t /\ Len(list) \in Nat
  <2>1. list \in Seq(Block_t) /\ k \in 1..Len(list)
    BY DEF Tiles, Fits
  <2> QED
    BY <1>1, <2>1
<1>5. b.addr \in Nat /\ b.size \in Nat /\ b.free \in BOOLEAN
  BY <1>4 DEF Block_t
<1>6. total \in Nat /\ total >= MIN_BLOCK_SIZE
  BY <1>2, TotalHolds
<1>7. CASE b.size >= total + MIN_BLOCK_SIZE
  <2>1. PICK t : t = [b EXCEPT !.size = total, !.free = FALSE]
    OBVIOUS
  <2>2. PICK r : r = [addr |-> b.addr + total, size |-> b.size - total, free |-> TRUE]
    OBVIOUS
  <2>3. new = SubSeq(list, 1, k - 1) \o <<t, r>> \o SubSeq(list, k + 1, Len(list))
    BY <1>1, <1>2, <1>3, <1>7, <2>1, <2>2 DEF Take
  <2>4. Cut(b, total, t, r)
    <3>1. b.addr + total \in Nat /\ b.size - total \in Nat /\ b.size - total >= MIN_BLOCK_SIZE
      BY <1>5, <1>6, <1>7, HeapSizes
    <3>2. t \in Block_t /\ t.addr = b.addr /\ t.size = total /\ t.free = FALSE
      BY <1>4, <1>6, <2>1 DEF Block_t
    <3>3. /\ r \in Block_t /\ r.addr = b.addr + total /\ r.size = b.size - total
          /\ r.free = TRUE
      BY <2>2, <3>1 DEF Block_t
    <3> QED
      BY <1>6, <3>1, <3>2, <3>3 DEF Cut
  <2>5. t \in Block_t /\ r \in Block_t
    BY <2>4 DEF Cut
  <2>6. Split(list, k, t, r, new)
    BY <1>4, <2>3, <2>5, Spliced, Zenon
  <2>7. Takes(list, end, k, size, new, t)
    BY <1>1, <1>2, <2>4, <2>6, TakePart
  <2> QED
    BY <1>3, <2>7
<1>8. CASE ~(b.size >= total + MIN_BLOCK_SIZE)
  <2>1. PICK t : t = [b EXCEPT !.free = FALSE]
    OBVIOUS
  <2>2. t \in Block_t /\ t.addr = b.addr /\ t.size = b.size /\ t.free = FALSE
    BY <1>4, <2>1, Remarked
  <2>3. new = [list EXCEPT ![k].free = FALSE]
    BY <1>1, <1>2, <1>3, <1>8 DEF Take
  <2>4. new = [list EXCEPT ![k] = t]
    BY <1>1, <2>1, <2>3
  <2>5. Replaced(list, k, t, new)
    BY <1>4, <2>2, <2>4 DEF Replaced
  <2>6. Takes(list, end, k, size, new, t)
    BY <1>1, <2>2, <2>5, TakeWhole
  <2> QED
    BY <1>3, <2>6
<1> QED
  BY <1>7, <1>8

(* The list in which kfree has marked the block of ptr.                    *)
Mark(list, ptr) ==
  [k \in 1..Len(list) |->
     IF list[k].addr + HEADER = ptr THEN [list[k] EXCEPT !.free = TRUE] ELSE list[k]]

(* Marking moves no block, and leaves taken the blocks of other pointers.  *)
LEMMA MarkKeeps ==
  ASSUME NEW list, NEW end \in Nat, Tiles(list, end), NEW ptr
  PROVE  /\ Tiles(Mark(list, ptr), end)
         /\ Taken(Mark(list, ptr)) = {b \in Taken(list) : b.addr + HEADER # ptr}
<1>1. PICK n : n = Len(list)
  OBVIOUS
<1>2. list \in Seq(Block_t) /\ n \in Nat /\ n > 0 /\ 1 \in 1..n
  BY <1>1 DEF Tiles
<1>3. \A i \in 1..n : list[i] \in Block_t
  BY <1>1, <1>2
<1>4. PICK new : new = Mark(list, ptr)
  OBVIOUS
<1>5. ASSUME NEW i \in 1..n
      PROVE  /\ new[i] \in Block_t /\ new[i].addr = list[i].addr /\ new[i].size = list[i].size
             /\ list[i].addr + HEADER = ptr => new[i].free = TRUE
             /\ list[i].addr + HEADER # ptr => new[i] = list[i]
  <2>1. CASE list[i].addr + HEADER = ptr
    <3>1. new[i] = [list[i] EXCEPT !.free = TRUE]
      BY <1>1, <1>4, <2>1 DEF Mark
    <3> QED
      BY <1>3, <2>1, <3>1, Remarked
  <2>2. CASE list[i].addr + HEADER # ptr
    <3>1. new[i] = list[i]
      BY <1>1, <1>4, <2>2 DEF Mark
    <3> QED
      BY <1>3, <2>2, <3>1
  <2> QED
    BY <2>1, <2>2
<1>6. new \in Seq(Block_t) /\ Len(new) = n
  <2>1. new = [i \in 1..n |-> new[i]]
    BY <1>1, <1>4 DEF Mark
  <2>2. new \in [1..n -> Block_t]
    BY <1>5, <2>1
  <2> QED
    BY <1>2, <2>2
<1>7. Tiles(new, end)
  <2>1. new[1].addr = 0
    BY <1>2, <1>5 DEF Tiles
  <2>2. ASSUME NEW i \in 1..n
        PROVE  /\ new[i].size >= MIN_BLOCK_SIZE
               /\ i # n => new[i].addr + new[i].size = new[i + 1].addr
               /\ i = n => new[i].addr + new[i].size = end
    <3>1. /\ list[i].size >= MIN_BLOCK_SIZE
          /\ i # n => list[i].addr + list[i].size = list[i + 1].addr
          /\ i = n => list[i].addr + list[i].size = end
      BY <1>1 DEF Tiles
    <3>2. i # n => i + 1 \in 1..n
      BY <1>2
    <3> QED
      BY <1>5, <3>1, <3>2
  <2> QED
    BY <1>2, <1>6, <2>1, <2>2 DEF Tiles
<1>8. ASSUME NEW x \in Taken(new) PROVE x \in Taken(list) /\ x.addr + HEADER # ptr
  <2>1. PICK i \in 1..n : ~new[i].free /\ x = new[i]
    BY <1>6, <1>8 DEF Taken, TakenTo
  <2>2. list[i].addr + HEADER # ptr /\ new[i] = list[i]
    BY <1>5, <2>1
  <2> QED
    BY <1>1, <2>1, <2>2 DEF Taken, TakenTo
<1>9. ASSUME NEW x \in Taken(list), x.addr + HEADER # ptr PROVE x \in Taken(new)
  <2>1. PICK i \in 1..n : ~list[i].free /\ x = list[i]
    BY <1>1, <1>9 DEF Taken, TakenTo
  <2>2. new[i] = list[i]
    BY <1>5, <1>9, <2>1
  <2> QED
    BY <1>6, <2>1, <2>2 DEF Taken, TakenTo
<1> QED
  BY <1>4, <1>7, <1>8, <1>9

(* kfree of a list: it tiles, is merged, and only ptr's block is released. *)
LEMMA ReleaseKeeps ==
  ASSUME NEW list, NEW end \in Nat, Tiles(list, end), NEW ptr
  PROVE  /\ Tiles(Release(list, ptr), end)
         /\ Merged(Release(list, ptr))
         /\ Taken(Release(list, ptr)) = {b \in Taken(list) : b.addr + HEADER # ptr}
<1>1. Release(list, ptr) = Coalesce(Mark(list, ptr))
  BY DEF Release, Mark
<1> QED
  BY <1>1, MarkKeeps, CoalesceKeeps

-----------------------------------------------------------------------------
(* The pointers held.                                                      *)

(* A pointer more, with a block of its own.                                *)
LEMMA ServesWith ==
  ASSUME NEW A, NEW lv, Serves(A, lv), NEW t, NEW size, t.size - HEADER >= size
  PROVE  Serves(A \union {t}, With(lv, t.addr + HEADER, size))
<1>1. PICK p : p = t.addr + HEADER
  OBVIOUS
<1>2. PICK w : w = With(lv, p, size)
  OBVIOUS
<1>3. /\ DOMAIN w = DOMAIN lv \union {p} /\ w[p] = size
      /\ \A q \in DOMAIN lv : q # p => w[q] = lv[q]
  BY <1>2 DEF With
<1>4. ASSUME NEW q \in DOMAIN w
      PROVE  \E b \in A \union {t} : b.addr + HEADER = q /\ b.size - HEADER >= w[q]
  <2>1. CASE q = p
    BY <1>1, <1>3, <2>1
  <2>2. CASE q # p
    <3>1. q \in DOMAIN lv /\ w[q] = lv[q]
      BY <1>3, <2>2
    <3>2. PICK b \in A : b.addr + HEADER = q /\ b.size - HEADER >= lv[q]
      BY <3>1 DEF Serves
    <3> QED
      BY <3>1, <3>2
  <2> QED
    BY <2>1, <2>2
<1>5. ASSUME NEW b \in A \union {t} PROVE b.addr + HEADER \in DOMAIN w
  BY <1>1, <1>3 DEF Serves
<1>6. Serves(A \union {t}, w)
  BY <1>4, <1>5 DEF Serves
<1> QED
  BY <1>1, <1>2, <1>6

(* A pointer less, and its block.                                          *)
LEMMA ServesWithout ==
  ASSUME NEW A, Serves(A, live), NEW ptr
  PROVE  Serves({b \in A : b.addr + HEADER # ptr}, Without(ptr))
<1>1. PICK w : w = Without(ptr)
  OBVIOUS
<1>2. DOMAIN w = DOMAIN live \ {ptr} /\ \A q \in DOMAIN live \ {ptr} : w[q] = live[q]
  BY <1>1 DEF Without
<1>3. Serves({b \in A : b.addr + HEADER # ptr}, w)
  BY <1>2 DEF Serves
<1> QED
  BY <1>1, <1>3

(* The sizes held are sizes asked for.                                     *)
LEMMA SizesHeld ==
  ASSUME NEW lv, \A q \in DOMAIN lv : lv[q] \in Sizes, NEW p, NEW size \in Sizes
  PROVE  \A q \in DOMAIN With(lv, p, size) : With(lv, p, size)[q] \in Sizes
  BY DEF With

-----------------------------------------------------------------------------
(* The steps.                                                              *)

(* The memory kmalloc finds: a free block of a tiling, and what it makes   *)
(* of the list.                                                            *)
LEMMA FoundFits ==
  ASSUME HeapInv, NEW size \in Sizes, Fits(blocks, size) # {}, NEW k, k = FirstFit(blocks, size)
  PROVE  /\ k \in 1..Len(blocks) /\ blocks[k].free
         /\ \E t : /\ Takes(blocks, HEAP_SIZE, k, size, Take(blocks, k, size), t)
                  /\ t.size - HEADER >= size
<1>1. Tiles(blocks, HEAP_SIZE) /\ Len(blocks) \in Nat /\ HEAP_SIZE \in Nat
  BY HeapSizes DEF HeapInv, Tiles
<1>2. k \in Fits(blocks, size)
  BY <1>1, FirstFitFits
<1>3. k \in 1..Len(blocks) /\ blocks[k].free
  BY <1>2 DEF Fits
<1>4. PICK t : Takes(blocks, HEAP_SIZE, k, size, Take(blocks, k, size), t)
  BY <1>1, <1>2, TakeStep
<1>5. t.size - HEADER >= size
  <2>1. t.size \in Nat /\ t.size >= TotalSize(size)
    BY <1>4 DEF Takes, Block_t
  <2> QED
    BY <2>1, TotalHolds, HeapSizes
<1> QED
  BY <1>3, <1>4, <1>5

(* kmalloc keeps the invariant.                                            *)
LEMMA KmallocKeeps ==
  ASSUME HeapInv, NEW size \in Sizes, Kmalloc(size)
  PROVE  HeapInv'
<1>1. PICK k : k = FirstFit(blocks, size)
  OBVIOUS
<1>2. /\ blocks' = Take(blocks, k, size) /\ live' = With(live, blocks[k].addr + HEADER, size)
      /\ Fits(blocks, size) # {}
  BY <1>1 DEF Kmalloc, Pointer
<1>3. PICK t : Takes(blocks, HEAP_SIZE, k, size, Take(blocks, k, size), t) /\ t.size - HEADER >= size
  BY <1>1, <1>2, FoundFits
<1>4. PICK new : new = blocks'
  OBVIOUS
<1>5. /\ t.addr = blocks[k].addr /\ Tiles(new, HEAP_SIZE) /\ Merged(new)
      /\ Taken(new) = Taken(blocks) \union {t}
  BY <1>2, <1>3, <1>4 DEF Takes, HeapInv
<1>6. PICK held : held = live'
  OBVIOUS
<1>7. Serves(Taken(new), held)
  <2>1. Serves(Taken(blocks), live)
    BY DEF HeapInv
  <2>2. Serves(Taken(blocks) \union {t}, With(live, t.addr + HEADER, size))
    BY <1>3, <2>1, ServesWith
  <2> QED
    BY <1>2, <1>5, <1>6, <2>2
<1>8. \A q \in DOMAIN held : held[q] \in Sizes
  BY <1>2, <1>6, SizesHeld DEF HeapInv
<1> QED
  BY <1>4, <1>5, <1>6, <1>7, <1>8 DEF HeapInv

(* kfree keeps it.                                                         *)
LEMMA KfreeKeeps ==
  ASSUME HeapInv, NEW ptr, Kfree(ptr)
  PROVE  HeapInv'
<1>1. PICK new : new = blocks'
  OBVIOUS
<1>2. PICK held : held = live'
  OBVIOUS
<1>3. new = Release(blocks, ptr) /\ held = Without(ptr)
  BY <1>1, <1>2 DEF Kfree
<1>4. /\ Tiles(new, HEAP_SIZE) /\ Merged(new)
      /\ Taken(new) = {b \in Taken(blocks) : b.addr + HEADER # ptr}
  BY <1>3, HeapSizes, ReleaseKeeps DEF HeapInv
<1>5. Serves(Taken(new), held)
  BY <1>3, <1>4, ServesWithout DEF HeapInv
<1>6. \A q \in DOMAIN held : held[q] \in Sizes
  BY <1>3 DEF HeapInv, Without
<1> QED
  BY <1>1, <1>2, <1>4, <1>5, <1>6 DEF HeapInv

(* The block of a pointer that is held.                                    *)
LEMMA BlockOfPointer ==
  ASSUME HeapInv, NEW ptr \in DOMAIN live
  PROVE  /\ Block(ptr) \in 1..Len(blocks)
         /\ blocks[Block(ptr)].addr + HEADER = ptr
         /\ blocks[Block(ptr)] \in Taken(blocks)
         /\ ~blocks[Block(ptr)].free
<1>1. PICK b \in Taken(blocks) : b.addr + HEADER = ptr
  BY DEF HeapInv, Serves
<1>2. PICK i \in 1..Len(blocks) : ~blocks[i].free /\ b = blocks[i]
  BY <1>1 DEF Taken, TakenTo
<1>3. PICK j : j = Block(ptr)
  OBVIOUS
<1>4. j \in 1..Len(blocks) /\ blocks[j].addr + HEADER = ptr
  BY <1>1, <1>2, <1>3 DEF Block, Pointer
<1>5. blocks[i].addr = blocks[j].addr
  <2>1. blocks[i] \in Block_t /\ blocks[j] \in Block_t
    BY <1>2, <1>4 DEF HeapInv, Tiles
  <2>2. blocks[i].addr \in Nat /\ blocks[j].addr \in Nat
    BY <2>1 DEF Block_t
  <2> QED
    BY <1>1, <1>2, <1>4, <2>2, HeapSizes
<1>6. i = j
  BY <1>2, <1>4, <1>5, HeapSizes, TilesInside DEF HeapInv
<1> QED
  BY <1>1, <1>2, <1>3, <1>4, <1>6

(* krealloc keeps it, in each of its cases: in the last, the block taken   *)
(* is not the one released.                                                *)
LEMMA KreallocKeeps ==
  ASSUME HeapInv, NEW ptr \in DOMAIN live, NEW size \in Sizes, Krealloc(ptr, size)
  PROVE  HeapInv'
<1>1. PICK j : j = Block(ptr)
  OBVIOUS
<1>2. /\ j \in 1..Len(blocks) /\ blocks[j].addr + HEADER = ptr
      /\ blocks[j] \in Taken(blocks) /\ ~blocks[j].free
  BY <1>1, BlockOfPointer
<1>3. CASE Kfree(ptr)
  BY <1>3, KfreeKeeps
<1>4. CASE /\ size \in 1..(blocks[j].size - HEADER)
           /\ live' = [live EXCEPT ![ptr] = size]
           /\ UNCHANGED blocks
  <2>1. PICK held : held = live'
    OBVIOUS
  <2>2. /\ DOMAIN held = DOMAIN live /\ held[ptr] = size
        /\ \A q \in DOMAIN live : q # ptr => held[q] = live[q]
    BY <1>4, <2>1
  <2>3. blocks[j].size \in Nat
    <3>1. blocks[j] \in Block_t
      BY <1>2 DEF HeapInv, Tiles
    <3> QED
      BY <3>1 DEF Block_t
  <2>4. blocks[j].size - HEADER >= size
    BY <1>4, <2>3, HeapSizes
  <2>5. ASSUME NEW q \in DOMAIN held
        PROVE  \E b \in Taken(blocks) : b.addr + HEADER = q /\ b.size - HEADER >= held[q]
    <3>1. CASE q = ptr
      BY <1>2, <2>2, <2>4, <3>1
    <3>2. CASE q # ptr
      BY <2>2, <3>2 DEF HeapInv, Serves
    <3> QED
      BY <3>1, <3>2
  <2>6. Serves(Taken(blocks), held)
    BY <2>2, <2>5 DEF HeapInv, Serves
  <2>7. \A q \in DOMAIN held : held[q] \in Sizes
    BY <2>2 DEF HeapInv
  <2>8. blocks' = blocks /\ Tiles(blocks, HEAP_SIZE) /\ Merged(blocks)
    BY <1>4 DEF HeapInv
  <2> QED
    BY <2>1, <2>6, <2>7, <2>8 DEF HeapInv
<1>5. CASE /\ Fits(blocks, size) # {}
           /\ LET k == FirstFit(blocks, size)
              IN  /\ blocks' = Release(Take(blocks, k, size), ptr)
                  /\ live' = With(Without(ptr), Pointer(blocks, k), size)
  <2>1. PICK k : k = FirstFit(blocks, size)
    OBVIOUS
  <2>2. PICK mid : mid = Take(blocks, k, size)
    OBVIOUS
  <2>3. PICK new : new = blocks'
    OBVIOUS
  <2>4. PICK held : held = live'
    OBVIOUS
  <2>5. PICK less : less = Without(ptr)
    OBVIOUS
  <2>6. new = Release(mid, ptr) /\ held = With(less, blocks[k].addr + HEADER, size)
    BY <1>5, <2>1, <2>2, <2>3, <2>4, <2>5 DEF Pointer
  <2>7. /\ k \in 1..Len(blocks) /\ blocks[k].free
        /\ \E t : Takes(blocks, HEAP_SIZE, k, size, mid, t) /\ t.size - HEADER >= size
    BY <1>5, <2>1, <2>2, FoundFits
  <2>8. PICK t : Takes(blocks, HEAP_SIZE, k, size, mid, t) /\ t.size - HEADER >= size
    BY <2>7
  <2>9. /\ t.addr = blocks[k].addr /\ Tiles(mid, HEAP_SIZE)
        /\ Taken(mid) = Taken(blocks) \union {t}
    BY <2>8 DEF Takes
  <2>10. /\ Tiles(new, HEAP_SIZE) /\ Merged(new)
         /\ Taken(new) = {b \in Taken(mid) : b.addr + HEADER # ptr}
    BY <2>6, <2>9, HeapSizes, ReleaseKeeps
  <2>11. t.addr + HEADER # ptr
    <3>1. k # j
      BY <1>2, <2>7
    <3>2. blocks[k].addr # blocks[j].addr
      BY <1>2, <2>7, <3>1, HeapSizes, TilesInside DEF HeapInv
    <3>3. blocks[k].addr \in Nat /\ blocks[j].addr \in Nat
      <4>1. blocks[k] \in Block_t /\ blocks[j] \in Block_t
        BY <1>2, <2>7 DEF HeapInv, Tiles
      <4> QED
        BY <4>1 DEF Block_t
    <3> QED
      BY <1>2, <2>9, <3>2, <3>3, HeapSizes
  <2>12. PICK A : A = {b \in Taken(blocks) : b.addr + HEADER # ptr}
    OBVIOUS
  <2>13. Taken(new) = A \union {t}
    BY <2>9, <2>10, <2>11, <2>12
  <2>14. Serves(A, less)
    BY <2>5, <2>12, ServesWithout DEF HeapInv
  <2>15. Serves(Taken(new), held)
    BY <2>6, <2>8, <2>9, <2>13, <2>14, ServesWith
  <2>16. \A q \in DOMAIN less : less[q] \in Sizes
    BY <2>5 DEF HeapInv, Without
  <2>17. \A q \in DOMAIN held : held[q] \in Sizes
    BY <2>6, <2>16, SizesHeld
  <2> QED
    BY <2>3, <2>4, <2>10, <2>15, <2>17 DEF HeapInv
<1> QED
  BY <1>1, <1>3, <1>4, <1>5 DEF Krealloc

(* The invariant holds at heap_init and every call keeps it: the blocks    *)
(* tile the heap, no two neighbours are free, and the allocated ones are   *)
(* those of the pointers held, each large enough.                          *)
THEOREM HeapInvariance == Spec => []HeapInv
<1>1. ASSUME Init PROVE HeapInv
  <2>1. PICK b : b = [addr |-> 0, size |-> HEAP_SIZE, free |-> TRUE]
    OBVIOUS
  <2>2. b \in Block_t /\ b.addr = 0 /\ b.size = HEAP_SIZE /\ b.free = TRUE
    BY <2>1, HeapSizes DEF Block_t
  <2>3. blocks = <<b>> /\ live = <<>>
    BY <1>1, <2>1 DEF Init
  <2>4. blocks \in Seq(Block_t) /\ Len(blocks) = 1 /\ blocks[1] = b /\ DOMAIN live = {}
    BY <2>2, <2>3
  <2>5. Tiles(blocks, HEAP_SIZE)
    BY <2>2, <2>4, HeapSizes DEF Tiles
  <2>6. Merged(blocks)
    BY <2>4 DEF Merged
  <2>7. Taken(blocks) = {}
    BY <2>2, <2>4 DEF Taken, TakenTo
  <2> QED
    BY <2>4, <2>5, <2>6, <2>7 DEF HeapInv, Serves
<1>2. ASSUME HeapInv, [Next]_vars PROVE HeapInv'
  <2>1. CASE UNCHANGED vars
    BY <1>2, <2>1 DEF HeapInv, vars
  <2>2. CASE \E size \in Sizes : Kmalloc(size)
    BY <1>2, <2>2, KmallocKeeps
  <2>3. CASE \E ptr \in DOMAIN live : Kfree(ptr)
    BY <1>2, <2>3, KfreeKeeps
  <2>4. CASE \E ptr \in DOMAIN live, size \in Sizes : Krealloc(ptr, size)
    BY <1>2, <2>4, KreallocKeeps
  <2> QED
    BY <1>2, <2>1, <2>2, <2>3, <2>4 DEF Next
<1> QED
  BY <1>1, <1>2, PTL DEF Spec

(* The blocks always tile the heap: no byte is lost or counted twice, and  *)
(* every block has room for its header.                                    *)
THEOREM BlocksTile == Spec => []Tiled
<1>1. ASSUME HeapInv PROVE Tiled
  <2>1. Tiles(blocks, HEAP_SIZE) /\ HEAP_SIZE \in Nat
    BY <1>1, HeapSizes DEF HeapInv
  <2>2. blocks \in Seq(Block_t) /\ Len(blocks) \in Nat /\ Len(blocks) > 0 /\ Head(blocks) = blocks[1]
    BY <2>1 DEF Tiles
  <2>3. TypeOK
    <3> DEFINE Inside == [addr : 0..HEAP_SIZE, size : 0..HEAP_SIZE, free : BOOLEAN]
    <3>1. ASSUME NEW k \in 1..Len(blocks) PROVE blocks[k] \in Inside
      <4>1. blocks[k] \in Block_t
        BY <2>2
      <4>2. blocks[k].addr \in 0..HEAP_SIZE /\ blocks[k].size \in 0..HEAP_SIZE
        BY <2>1, TilesInside
      <4> QED
        BY <4>1, <4>2 DEF Block_t
    <3>2. blocks \in Seq(Inside)
      <4> HIDE DEF Inside
      <4> QED
        BY <2>2, <3>1
    <3> QED
      BY <1>1, <2>2, <3>2 DEF TypeOK, HeapInv
  <2>4. /\ Head(blocks).addr = 0
        /\ \A k \in 1..Len(blocks) :
             /\ blocks[k].size >= MIN_BLOCK_SIZE
             /\ blocks[k].addr + blocks[k].size
                  = IF k = Len(blocks) THEN HEAP_SIZE ELSE blocks[k + 1].addr
    BY <2>1, <2>2 DEF Tiles
  <2> QED
    BY <2>3, <2>4 DEF Tiled
<1> QED
  BY <1>1, HeapInvariance, PTL

(* Every pointer held has an allocated block large enough for what was     *)
(* asked, and no other block is allocated.                                 *)
THEOREM PointersFit == Spec => []LiveFits
<1>1. ASSUME HeapInv PROVE LiveFits
  <2>1. ASSUME NEW ptr \in DOMAIN live
        PROVE  \E k \in 1..Len(blocks) : /\ Pointer(blocks, k) = ptr
                                         /\ ~blocks[k].free
                                         /\ blocks[k].size - HEADER >= live[ptr]
    <3>1. PICK b \in Taken(blocks) : b.addr + HEADER = ptr /\ b.size - HEADER >= live[ptr]
      BY <1>1 DEF HeapInv, Serves
    <3>2. PICK k \in 1..Len(blocks) : ~blocks[k].free /\ b = blocks[k]
      BY <3>1 DEF Taken, TakenTo
    <3> QED
      BY <3>1, <3>2 DEF Pointer
  <2>2. ASSUME NEW k \in 1..Len(blocks), ~blocks[k].free PROVE Pointer(blocks, k) \in DOMAIN live
    <3>1. blocks[k] \in Taken(blocks)
      BY <2>2 DEF Taken, TakenTo
    <3> QED
      BY <1>1, <3>1 DEF HeapInv, Serves, Pointer
  <2> QED
    BY <2>1, <2>2 DEF LiveFits
<1> QED
  BY <1>1, HeapInvariance, PTL

(* No two neighbouring blocks are both free.                               *)
THEOREM FreeMemoryMerged == Spec => []Coalesced
<1>1. ASSUME HeapInv PROVE Coalesced
  BY <1>1 DEF HeapInv, Merged, Coalesced
<1> QED
  BY <1>1, HeapInvariance, PTL
=============================================================================
