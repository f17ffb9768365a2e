---------------------------- MODULE KeyboardProofs ----------------------------
(***************************************************************************)
(* Proofs about module Keyboard: the ring is a queue, whatever the handler *)
(* does between two steps of the reader, for every size of the ring and    *)
(* every layout.                                                           *)
(***************************************************************************)
EXTENDS Keyboard, KernelLemmas, TLAPS

Cells == Chars \union {NoChar}
Size == KEYBOARD_BUFFER_SIZE

(* The number of keys typed ahead, from the two positions of the ring.     *)
Count(r, w) == (w - r) % Size

(* The inductive invariant.  Between its test and its advance the reader   *)
(* knows a key it has not taken yet; what it has read is still in place.   *)
KeyboardInv ==
  /\ keyboard_buffer \in RingOf(Size, Cells)
  /\ buffer_read_pos \in Slots
  /\ buffer_write_pos \in Slots
  /\ reader \in {"test", "hlt", "halted", "read", "advance"}
  /\ Pending \in Seq(Chars)
  /\ reader \in {"read", "advance"} => ~Empty
  /\ reader = "advance" => c = keyboard_buffer[buffer_read_pos]

-----------------------------------------------------------------------------
(* The positions.                                                          *)

(* The key ring has at least two places.                                   *)
LEMMA SizeOk == Size \in Nat \ {0} /\ Size > 1 /\ Slots = 0..(Size - 1)
  BY KeyboardAssumption DEF Size, Slots

(* The next position is the slot one further round the ring.               *)
LEMMA NextPosIsSlot ==
  ASSUME NEW p \in Slots
  PROVE  /\ NextPos(p) \in Slots
         /\ NextPos(p) = Slot(p + 1, Size)
         /\ NextPos(p) = IF p + 1 < Size THEN p + 1 ELSE 0
<1>1. p \in 0..(Size - 1) /\ Size \in Nat \ {0}
  BY SizeOk
<1>2. NextPos(p) = Slot(p + 1, Size)
  BY DEF NextPos, Slot, Size
<1>3. Slot(p + 1, Size) = IF p + 1 < Size THEN p + 1 ELSE 0
  BY <1>1, SlotValue
<1> QED
  BY <1>1, <1>2, <1>3, SizeOk

(* How many keys wait follows from the two positions.                      *)
LEMMA CountOfPositions ==
  ASSUME NEW r \in Slots, NEW w \in Slots
  PROVE  /\ Count(r, w) \in 0..(Size - 1)
         /\ Slot(r + Count(r, w), Size) = w
         /\ r = w <=> Count(r, w) = 0
         /\ r # w => Count(NextPos(r), w) = Count(r, w) - 1
         /\ NextPos(w) # r => /\ Count(r, w) < Size - 1
                              /\ Count(r, NextPos(w)) = Count(r, w) + 1
<1>1. Size \in Nat \ {0} /\ Size > 1 /\ r \in 0..(Size - 1) /\ w \in 0..(Size - 1)
  BY SizeOk
<1>2. ASSUME NEW a \in Slots, NEW b \in Slots
      PROVE  Count(a, b) = IF a <= b THEN b - a ELSE b - a + Size
  BY SizeOk, DistanceValue DEF Count
<1>3. Count(r, w) = IF r <= w THEN w - r ELSE w - r + Size
  BY <1>2
<1>4. Count(r, w) \in 0..(Size - 1) /\ (r = w <=> Count(r, w) = 0)
  BY <1>1, <1>3
<1>5. Slot(r + Count(r, w), Size) = w
  BY <1>1, <1>3, SlotValue
<1>6. ASSUME r # w PROVE Count(NextPos(r), w) = Count(r, w) - 1
  <2>1. Count(NextPos(r), w) = IF NextPos(r) <= w THEN w - NextPos(r) ELSE w - NextPos(r) + Size
    BY <1>2, NextPosIsSlot
  <2>2. NextPos(r) = IF r + 1 < Size THEN r + 1 ELSE 0
    BY NextPosIsSlot
  <2> QED
    BY <1>1, <1>3, <1>6, <2>1, <2>2
<1>7. ASSUME NextPos(w) # r
      PROVE  Count(r, w) < Size - 1 /\ Count(r, NextPos(w)) = Count(r, w) + 1
  <2>1. Count(r, NextPos(w)) = IF r <= NextPos(w) THEN NextPos(w) - r ELSE NextPos(w) - r + Size
    BY <1>2, NextPosIsSlot
  <2>2. NextPos(w) = IF w + 1 < Size THEN w + 1 ELSE 0
    BY NextPosIsSlot
  <2> QED
    BY <1>1, <1>3, <1>7, <2>1, <2>2
<1> QED
  BY <1>4, <1>5, <1>6, <1>7

(* The keys typed ahead are the window between the two positions.          *)
LEMMA PendingIsWindow ==
  Pending = Window(keyboard_buffer, buffer_read_pos,
                   Count(buffer_read_pos, buffer_write_pos), Size)
  BY DEF Pending, Window, Slot, Count, Size

-----------------------------------------------------------------------------
(* The operations on the ring.                                             *)

(* The oldest key is the one at the read position.                         *)
LEMMA OldestKey ==
  ASSUME KeyboardInv
  PROVE  /\ Empty <=> Pending = <<>>
         /\ ~Empty => Head(Pending) = keyboard_buffer[buffer_read_pos]
<1> DEFINE r == buffer_read_pos
           n == Count(buffer_read_pos, buffer_write_pos)
           w == Window(keyboard_buffer, r, n, Size)
<1>1. /\ Size \in Nat \ {0} /\ r \in 0..(Size - 1) /\ n \in 0..Size
      /\ keyboard_buffer \in RingOf(Size, Cells)
      /\ Empty <=> n = 0
  <2>1. r \in Slots /\ buffer_write_pos \in Slots /\ keyboard_buffer \in RingOf(Size, Cells)
    BY DEF KeyboardInv
  <2>2. n \in 0..(Size - 1) /\ (r = buffer_write_pos <=> n = 0)
    BY <2>1, CountOfPositions
  <2> QED
    BY <2>1, <2>2, SizeOk DEF Empty
<1> HIDE DEF r, n
<1>2. w \in Seq(Cells) /\ Len(w) = n
  BY <1>1, WindowIsSeq
<1>3. n = 0 <=> w = <<>>
  BY <1>1, <1>2, EmptySeq
<1>4. n \in 1..Size => Head(w) = keyboard_buffer[r]
  BY <1>1, WindowTail
<1> QED
  BY <1>1, <1>3, <1>4, PendingIsWindow DEF r, n

(* keyboard_buffer_add appends a key while there is room, and touches      *)
(* nothing that is pending.                                                *)
LEMMA AddAppends ==
  ASSUME KeyboardInv, NEW ch \in Chars, keyboard_buffer_add(ch)
  PROVE  \/ UNCHANGED ringVars
         \/ /\ keyboard_buffer' \in RingOf(Size, Cells)
            /\ buffer_read_pos' = buffer_read_pos
            /\ buffer_write_pos' \in Slots
            /\ ~Empty'
            /\ ~Empty => keyboard_buffer'[buffer_read_pos] = keyboard_buffer[buffer_read_pos]
            /\ Len(Pending) < KEYBOARD_BUFFER_SIZE - 1
            /\ Pending' = Append(Pending, ch)
<1> DEFINE r == buffer_read_pos
           w == buffer_write_pos
           n == Count(r, w)
           l == Count(r, NextPos(w))
           after == keyboard_buffer'
<1> SUFFICES ASSUME ~Full
             PROVE  /\ keyboard_buffer' \in RingOf(Size, Cells)
                    /\ buffer_read_pos' = buffer_read_pos
                    /\ buffer_write_pos' \in Slots
                    /\ ~Empty'
                    /\ ~Empty => keyboard_buffer'[buffer_read_pos] = keyboard_buffer[buffer_read_pos]
                    /\ Len(Pending) < KEYBOARD_BUFFER_SIZE - 1
                    /\ Pending' = Append(Pending, ch)
  BY DEF keyboard_buffer_add
<1>1. /\ after = [keyboard_buffer EXCEPT ![w] = ch]
      /\ buffer_write_pos' = NextPos(w)
      /\ buffer_read_pos' = r
      /\ NextPos(w) # r
  BY DEF keyboard_buffer_add, Full
<1>2. /\ Size \in Nat \ {0} /\ r \in Slots /\ w \in Slots
      /\ r \in 0..(Size - 1) /\ w \in 0..(Size - 1)
      /\ keyboard_buffer \in RingOf(Size, Cells) /\ ch \in Cells
  BY SizeOk DEF KeyboardInv, Cells
<1>3. /\ n \in 0..Size /\ n < Size - 1 /\ l = n + 1 /\ l \in 0..Size
      /\ Slot(r + n, Size) = w
  BY <1>1, <1>2, CountOfPositions
<1>4. after \in RingOf(Size, Cells) /\ SlotWritten(keyboard_buffer, r, n, ch, after, Size)
  <2>1. after \in RingOf(Size, Cells) /\ after[w] = ch
    BY <1>1, <1>2 DEF RingOf
  <2>2. \A i \in 0..(Size - 1) : i # w => after[i] = keyboard_buffer[i]
    BY <1>1, <1>2 DEF RingOf
  <2> QED
    BY <1>3, <2>1, <2>2 DEF SlotWritten
<1>5. Pending = Window(keyboard_buffer, r, n, Size)
  BY PendingIsWindow
<1>6. Pending' = Window(after, r, l, Size)
  BY <1>1 DEF Pending, Window, Slot, Count, Size
<1>7. NextPos(w) \in Slots
  BY <1>2, NextPosIsSlot
<1>8. ~Empty => after[r] = keyboard_buffer[r]
  BY <1>1, <1>2 DEF Empty, RingOf
<1> HIDE DEF r, n, l, after
<1>9. Len(Pending) = n
  BY <1>2, <1>3, <1>5, WindowIsSeq
<1>10. Window(after, r, l, Size) = Append(Window(keyboard_buffer, r, n, Size), ch)
  BY <1>2, <1>3, <1>4, WindowAppend
<1>11. Pending' = Append(Pending, ch)
  BY <1>5, <1>6, <1>10
<1> QED
  BY <1>1, <1>3, <1>4, <1>7, <1>8, <1>9, <1>11 DEF r, after, Empty, Size

(* keyboard_getchar's advance drops the oldest key.                        *)
LEMMA AdvanceDrops ==
  ASSUME KeyboardInv, Advance
  PROVE  buffer_read_pos' \in Slots /\ Pending' = Tail(Pending) /\ Pending # <<>>
<1> DEFINE r == buffer_read_pos
           w == buffer_write_pos
           n == Count(r, w)
<1>1. /\ reader = "advance" /\ buffer_read_pos' = NextPos(r)
      /\ keyboard_buffer' = keyboard_buffer /\ buffer_write_pos' = w
  BY DEF Advance, AfterRead
<1>2. /\ Size \in Nat \ {0} /\ r \in Slots /\ w \in Slots /\ r # w
      /\ r \in 0..(Size - 1)
      /\ keyboard_buffer \in RingOf(Size, Cells)
  BY <1>1, SizeOk DEF KeyboardInv, Empty
<1>3. /\ n \in 1..Size /\ Count(NextPos(r), w) = n - 1
      /\ NextPos(r) = Slot(r + 1, Size) /\ NextPos(r) \in Slots
  BY <1>2, CountOfPositions, NextPosIsSlot
<1>4. Pending = Window(keyboard_buffer, r, n, Size)
  BY PendingIsWindow
<1>5. Pending' = Window(keyboard_buffer, Slot(r + 1, Size), n - 1, Size)
  <2>1. Pending' = Window(keyboard_buffer, NextPos(r), Count(NextPos(r), w), Size)
    BY <1>1 DEF Pending, Window, Slot, Count, Size
  <2> QED
    BY <1>3, <2>1
<1> HIDE DEF r, n
<1>6. /\ Window(keyboard_buffer, r, n, Size) # <<>>
      /\ Window(keyboard_buffer, Slot(r + 1, Size), n - 1, Size)
           = Tail(Window(keyboard_buffer, r, n, Size))
  BY <1>2, <1>3, WindowTail
<1> QED
  BY <1>1, <1>3, <1>4, <1>5, <1>6 DEF r

-----------------------------------------------------------------------------
(* The steps.                                                              *)

(* What a step may do to the keys typed ahead.                             *)
Ordered ==
  \/ Pending' = Pending
  \/ /\ Len(Pending) < KEYBOARD_BUFFER_SIZE - 1
     /\ \E ch \in Chars : Pending' = Append(Pending, ch)
  \/ /\ reader = "advance"
     /\ Pending' = Tail(Pending)

(* The ring is empty at the start.                                         *)
LEMMA InitInv == Init => KeyboardInv
<1> SUFFICES ASSUME Init PROVE KeyboardInv
  OBVIOUS
<1>1. /\ keyboard_buffer \in RingOf(Size, Cells)
      /\ buffer_read_pos \in Slots /\ buffer_write_pos \in Slots
  BY SizeOk DEF Init, RingOf, Cells
<1>2. Count(buffer_read_pos, buffer_write_pos) = 0
  BY <1>1, CountOfPositions DEF Init
<1>3. Pending = <<>>
  BY <1>2, PendingIsWindow DEF Window
<1>4. Pending \in Seq(Chars)
  BY <1>3, EmptySeq
<1> QED
  BY <1>1, <1>4 DEF Init, KeyboardInv

(* A step that leaves the ring alone.                                      *)
LEMMA RingKept ==
  ASSUME KeyboardInv, UNCHANGED ringVars,
         reader' \in {"test", "hlt", "halted", "read", "advance"},
         reader' \in {"read", "advance"} => ~Empty,
         reader' = "advance" => c' = keyboard_buffer[buffer_read_pos]
  PROVE  KeyboardInv' /\ Ordered
<1>1. Pending' = Pending
  BY DEF ringVars, Pending
<1> QED
  BY <1>1 DEF KeyboardInv, Ordered, Empty, ringVars

(* The handler: it may come at any point of the reader's loop.             *)
LEMMA HandlerStep ==
  ASSUME KeyboardInv, Resume, c' = c,
         UNCHANGED ringVars \/ \E ch \in Chars : keyboard_buffer_add(ch)
  PROVE  KeyboardInv' /\ Ordered
<1>1. /\ reader' \in {"test", "hlt", "halted", "read", "advance"}
      /\ reader' \in {"read", "advance"} => reader \in {"read", "advance"}
      /\ reader' = "advance" => reader = "advance"
  BY DEF Resume, KeyboardInv
<1>2. CASE UNCHANGED ringVars
  BY <1>1, <1>2, RingKept DEF KeyboardInv
<1>3. ASSUME NEW ch \in Chars, keyboard_buffer_add(ch), ~UNCHANGED ringVars
      PROVE  KeyboardInv' /\ Ordered
  <2>1. /\ keyboard_buffer' \in RingOf(Size, Cells)
        /\ buffer_read_pos' = buffer_read_pos
        /\ buffer_write_pos' \in Slots
        /\ ~Empty'
        /\ ~Empty => keyboard_buffer'[buffer_read_pos] = keyboard_buffer[buffer_read_pos]
        /\ Len(Pending) < KEYBOARD_BUFFER_SIZE - 1
        /\ Pending' = Append(Pending, ch)
    BY <1>3, AddAppends
  <2>2. Pending' \in Seq(Chars)
    BY <2>1, AppendProperties DEF KeyboardInv
  <2>3. Ordered
    BY <2>1 DEF Ordered
  <2>4. reader' = "advance" => c' = keyboard_buffer'[buffer_read_pos']
    BY <1>1, <2>1 DEF KeyboardInv
  <2> QED
    BY <1>1, <2>1, <2>2, <2>3, <2>4 DEF KeyboardInv
<1> QED
  BY <1>2, <1>3

(* Advancing the read position takes the oldest key off the ring.          *)
LEMMA AdvanceStep ==
  ASSUME KeyboardInv, Advance
  PROVE  KeyboardInv' /\ Ordered
<1>1. buffer_read_pos' \in Slots /\ Pending' = Tail(Pending) /\ Pending # <<>>
  BY AdvanceDrops
<1>2. Pending' \in Seq(Chars)
  BY <1>1, HeadTailProperties DEF KeyboardInv
<1> QED
  BY <1>1, <1>2 DEF KeyboardInv, Advance, Ordered

(* Every step keeps the ring well formed, and is a step of a queue.        *)
LEMMA StepOk ==
  ASSUME KeyboardInv, [Next]_vars
  PROVE  KeyboardInv' /\ Ordered
<1>1. CASE Prefix
  BY <1>1, HandlerStep DEF Prefix
<1>2. ASSUME NEW k \in Keys, Release(k) PROVE KeyboardInv' /\ Ordered
  BY <1>2, HandlerStep DEF Release
<1>3. ASSUME NEW k \in Keys, PressExtended(k) PROVE KeyboardInv' /\ Ordered
  <2>1. k \in Special => k \in Chars
    BY DEF Chars
  <2> QED
    BY <1>3, <2>1, HandlerStep DEF PressExtended
<1>4. ASSUME NEW k \in Keys, Press(k) PROVE KeyboardInv' /\ Ordered
  <2>1. k \in Printing => Ascii(k) \in Chars
    BY DEF Ascii, Chars
  <2> QED
    BY <1>4, <2>1, HandlerStep DEF Press
<1>5. CASE Tick
  BY <1>5, RingKept DEF Tick
<1>6. CASE Test
  BY <1>6, RingKept DEF Test
<1>7. CASE Halt
  BY <1>7, RingKept DEF Halt
<1>8. CASE Read
  BY <1>8, RingKept DEF Read, KeyboardInv
<1>9. CASE Advance
  BY <1>9, AdvanceStep
<1>10. CASE UNCHANGED vars
  BY <1>10, RingKept DEF vars, KeyboardInv
<1> QED
  BY <1>1, <1>2, <1>3, <1>4, <1>5, <1>6, <1>7, <1>8, <1>9, <1>10
     DEF Next, keyboard_handler, ReaderStep

(* Through every interleaving of keyboard interrupts with the reader's     *)
(* steps, the positions stay in the ring and what lies between them is a   *)
(* sequence of characters the handler stored.                              *)
THEOREM KeyboardInvariance == Spec => []KeyboardInv
  BY InitInv, StepOk, PTL DEF Spec

(* What keyboard_getchar has read is still the oldest key when it advances *)
(* the ring, and the ring is not empty then.                               *)
THEOREM ReaderTakesOldest == Spec => []ReadIsOldest
<1>1. KeyboardInv => ReadIsOldest
  BY OldestKey DEF KeyboardInv, ReadIsOldest
<1> QED
  BY <1>1, KeyboardInvariance, PTL

(* Each step leaves the keys typed ahead, appends one while there is room, *)
(* or drops the oldest for the reader.                                     *)
THEOREM RingIsQueue == Spec => KeysInOrder
<1>1. KeyboardInv /\ [Next]_vars => [Ordered]_vars
  BY StepOk
<1>2. Spec => [][Ordered]_vars
  BY <1>1, KeyboardInvariance, PTL DEF Spec
<1> QED
  BY <1>2, PTL DEF KeysInOrder, Ordered
=============================================================================
