----------------------------- MODULE KernelLemmas -----------------------------
(***************************************************************************)
(* Facts several proof modules need: least and greatest elements of sets   *)
(* of naturals, for the kernel's searches (the scheduler's scan, first     *)
(* fit), and what a ring buffer holds, for its queues (the messages of a   *)
(* process, the keys typed ahead).                                         *)
(***************************************************************************)
EXTENDS Integers, Sequences, FiniteSetsExt, SequenceTheorems, WellFoundedInduction, TLAPS

(* A non-empty set of naturals has a least element; Min picks it.          *)
LEMMA MinExists ==
  ASSUME NEW S, S # {}, S \subseteq Nat
  PROVE  /\ \E x \in S : \A y \in S : x <= y
         /\ Min(S) \in S
<1>1. PICK x \in S : \A y \in S : ~ (<<y, x>> \in OpToRel(<, Nat))
  BY NatLessThanWellFounded, WFMin
<1>2. \A y \in S : ~(y < x)
  BY <1>1 DEF OpToRel
<1>3. \E z \in S : \A y \in S : z <= y
  BY <1>2
<1> QED
  BY <1>3 DEF Min

(* Min is the least element, and the only one that is.                     *)
LEMMA LeastIs ==
  ASSUME NEW S, S # {}, S \subseteq Nat
  PROVE  /\ Min(S) \in S /\ \A y \in S : Min(S) <= y
         /\ \A x \in S : (\A y \in S : x <= y) => Min(S) = x
<1>1. \E x \in S : \A y \in S : x <= y
  BY MinExists
<1>2. Min(S) \in S /\ \A y \in S : Min(S) <= y
  BY <1>1 DEF Min
<1>3. ASSUME NEW x \in S, \A y \in S : x <= y PROVE Min(S) = x
  <2>1. x \in Nat /\ Min(S) \in Nat /\ x <= Min(S) /\ Min(S) <= x
    BY <1>2, <1>3
  <2> QED
    BY <2>1
<1> QED
  BY <1>2, <1>3

(* A non-empty set of naturals with an upper bound has a greatest element; *)
(* Max picks it.                                                           *)
LEMMA MaxExists ==
  ASSUME NEW S, S # {}, NEW n \in Nat, S \subseteq 0..n
  PROVE  /\ \E x \in S : \A y \in S : x >= y
         /\ Max(S) \in S
<1> DEFINE T == {n - x : x \in S}
<1>1. T \subseteq Nat
  <2> SUFFICES ASSUME NEW x \in S PROVE n - x \in Nat
    OBVIOUS
  <2>1. x \in 0..n
    OBVIOUS
  <2> QED
    BY <2>1
<1>2. T # {}
  <2>1. PICK x \in S : TRUE
    OBVIOUS
  <2>2. n - x \in T
    BY <2>1
  <2> QED
    BY <2>2
<1>3. PICK t \in T : \A u \in T : t <= u
  BY <1>1, <1>2, MinExists
<1>4. PICK x \in S : t = n - x
  OBVIOUS
<1>5. \A y \in S : n - x <= n - y
  BY <1>3, <1>4
<1>6. \A y \in S : x \in 0..n /\ y \in 0..n
  OBVIOUS
<1>7. \A y \in S : x >= y
  BY <1>5, <1>6
<1> QED
  BY <1>7 DEF Max

(* Max is the greatest element, and the only one that is.                  *)
LEMMA GreatestIs ==
  ASSUME NEW S, S # {}, NEW n \in Nat, S \subseteq 0..n
  PROVE  /\ Max(S) \in S /\ \A y \in S : Max(S) >= y
         /\ \A x \in S : (\A y \in S : x >= y) => Max(S) = x
<1>1. \E x \in S : \A y \in S : x >= y
  BY MaxExists
<1>2. Max(S) \in S /\ \A y \in S : Max(S) >= y
  BY <1>1 DEF Max
<1>3. ASSUME NEW x \in S, \A y \in S : x >= y PROVE Max(S) = x
  <2>1. x \in 0..n /\ Max(S) \in 0..n
    BY <1>2
  <2>2. x >= Max(S) /\ Max(S) >= x
    BY <1>2, <1>3
  <2> QED
    BY <2>1, <2>2
<1> QED
  BY <1>2, <1>3

-----------------------------------------------------------------------------
(* Slot a of a ring of S slots, counted on from slot 0 past its end.       *)
Slot(a, S) == a % S

(* The remainder, without division.                                        *)
LEMMA SlotValue ==
  ASSUME NEW S \in Nat \ {0}, NEW a \in 0..(2*S - 1)
  PROVE  Slot(a, S) = IF a < S THEN a ELSE a - S
  BY DEF Slot

(* One slot on from the end of a window, and the end seen from one slot on *)
(* from its start.                                                         *)
LEMMA SlotSteps ==
  ASSUME NEW S \in Nat \ {0}, NEW h \in 0..(S - 1), NEW n \in 0..S
  PROVE  /\ Slot(h + n, S) \in 0..(S - 1)
         /\ n < S => Slot(Slot(h + n, S) + 1, S) = Slot(h + (n + 1), S)
         /\ n > 0 => Slot(Slot(h + 1, S) + (n - 1), S) = Slot(h + n, S)
<1>1. Slot(h + n, S) \in 0..(S - 1)
  BY SlotValue
<1>2. ASSUME n < S PROVE Slot(Slot(h + n, S) + 1, S) = Slot(h + (n + 1), S)
  BY <1>1, <1>2, SlotValue
<1>3. ASSUME n > 0 PROVE Slot(Slot(h + 1, S) + (n - 1), S) = Slot(h + n, S)
  <2>1. Slot(h + 1, S) = IF h + 1 < S THEN h + 1 ELSE 0
    BY SlotValue
  <2> QED
    BY <1>3, <2>1, SlotValue
<1> QED
  BY <1>1, <1>2, <1>3

(* The distance from slot a forward to slot b, without division.           *)
LEMMA DistanceValue ==
  ASSUME NEW S \in Nat \ {0}, NEW a \in 0..(S - 1), NEW b \in 0..(S - 1)
  PROVE  (b - a) % S = IF a <= b THEN b - a ELSE b - a + S
  OBVIOUS

(* Rings of S slots that hold elements of T.                               *)
RingOf(S, T) == [0..(S - 1) -> T]

(* What the n slots of a ring of S slots hold that begin at slot h.        *)
Window(slots, h, n, S) == [k \in 1..n |-> slots[Slot(h + k - 1, S)]]

(* A window is a sequence of its length.                                   *)
LEMMA WindowIsSeq ==
  ASSUME NEW T, NEW S \in Nat \ {0}, NEW h \in 0..(S - 1), NEW n \in 0..S,
         NEW slots \in RingOf(S, T)
  PROVE  /\ Window(slots, h, n, S) \in Seq(T)
         /\ Len(Window(slots, h, n, S)) = n
<1> DEFINE w == Window(slots, h, n, S)
<1>1. ASSUME NEW k \in 1..n PROVE slots[Slot(h + k - 1, S)] \in T
  <2>1. Slot(h + k - 1, S) \in 0..(S - 1)
    BY SlotValue
  <2> QED
    BY <2>1 DEF RingOf
<1>2. w \in [1..n -> T]
  BY <1>1 DEF Window
<1>3. n \in Nat
  OBVIOUS
<1> HIDE DEF w
<1>4. w \in Seq(T)
  BY <1>2, <1>3, SeqDef
<1>5. DOMAIN w = 1..n
  BY <1>2
<1>6. Len(w) = n
  BY <1>3, <1>4, <1>5, LenProperties
<1> QED
  BY <1>4, <1>6 DEF w

(* Ring after is slots with x in the slot n behind slot h.                 *)
SlotWritten(slots, h, n, x, after, S) ==
  /\ after[Slot(h + n, S)] = x
  /\ \A i \in 0..(S - 1) : i # Slot(h + n, S) => after[i] = slots[i]

(* Writing behind a window that does not fill the ring extends it.         *)
LEMMA WindowAppend ==
  ASSUME NEW T, NEW S \in Nat \ {0}, NEW h \in 0..(S - 1), NEW n \in 0..S, NEW l \in 0..S,
         l = n + 1, NEW slots \in RingOf(S, T), NEW x \in T,
         NEW after \in RingOf(S, T), SlotWritten(slots, h, n, x, after, S)
  PROVE  Window(after, h, l, S) = Append(Window(slots, h, n, S), x)
<1> DEFINE w == Window(slots, h, n, S)
           u == Window(after, h, l, S)
<1>1. n \in Nat
  OBVIOUS
<1>2. w \in Seq(T) /\ Len(w) = n
  BY WindowIsSeq
<1>3. u \in Seq(T) /\ Len(u) = l
  BY WindowIsSeq
<1>4. ASSUME NEW k \in 1..n PROVE u[k] = w[k]
  <2>1. Slot(h + k - 1, S) \in 0..(S - 1) /\ Slot(h + k - 1, S) # Slot(h + n, S)
    BY SlotValue
  <2>2. after[Slot(h + k - 1, S)] = slots[Slot(h + k - 1, S)]
    BY <2>1 DEF SlotWritten
  <2> QED
    BY <2>2 DEF Window
<1>5. u[l] = x
  <2>1. h + l - 1 = h + n
    OBVIOUS
  <2>2. u[l] = after[Slot(h + l - 1, S)]
    BY <1>1 DEF Window
  <2> QED
    BY <2>1, <2>2 DEF SlotWritten
<1> HIDE DEF w, u
<1>6. /\ Append(w, x) \in Seq(T) /\ Len(Append(w, x)) = l
      /\ \A k \in 1..n : Append(w, x)[k] = w[k]
      /\ Append(w, x)[l] = x
  BY <1>2, AppendProperties
<1>7. \A k \in 1..Len(u) : u[k] = Append(w, x)[k]
  BY <1>1, <1>3, <1>4, <1>5, <1>6
<1>8. u = Append(w, x)
  BY <1>3, <1>6, <1>7, SeqEqual
<1> QED
  BY <1>8 DEF u, w

(* Moving the start of a window on drops its first element.                *)
LEMMA WindowTail ==
  ASSUME NEW T, NEW S \in Nat \ {0}, NEW h \in 0..(S - 1), NEW n \in 1..S,
         NEW slots \in RingOf(S, T)
  PROVE  /\ Window(slots, h, n, S) # <<>>
         /\ Head(Window(slots, h, n, S)) = slots[h]
         /\ Window(slots, Slot(h + 1, S), n - 1, S) = Tail(Window(slots, h, n, S))
<1> DEFINE w == Window(slots, h, n, S)
           v == Window(slots, Slot(h + 1, S), n - 1, S)
<1>1. w \in Seq(T) /\ Len(w) = n /\ n \in Nat
  BY WindowIsSeq
<1>2. Slot(h + 1, S) \in 0..(S - 1) /\ n - 1 \in 0..S
  BY SlotValue
<1>3. v \in Seq(T) /\ Len(v) = n - 1
  <2> DEFINE g == Slot(h + 1, S)
             l == n - 1
  <2>1. g \in 0..(S - 1) /\ l \in 0..S
    BY <1>2
  <2> HIDE DEF g, l
  <2>2. Window(slots, g, l, S) \in Seq(T) /\ Len(Window(slots, g, l, S)) = l
    BY <2>1, WindowIsSeq
  <2> QED
    BY <2>2 DEF g, l
<1>4. w[1] = slots[h]
  <2>1. w[1] = slots[Slot(h + 1 - 1, S)]
    BY DEF Window
  <2>2. Slot(h + 1 - 1, S) = h
    BY SlotValue
  <2> QED
    BY <2>1, <2>2
<1>5. ASSUME NEW k \in 1..(n - 1) PROVE v[k] = w[k + 1]
  <2>1. v[k] = slots[Slot(Slot(h + 1, S) + k - 1, S)] /\ w[k + 1] = slots[Slot(h + (k + 1) - 1, S)]
    BY DEF Window
  <2>2. Slot(Slot(h + 1, S) + k - 1, S) = Slot(h + (k + 1) - 1, S)
    BY <1>2, SlotValue
  <2> QED
    BY <2>1, <2>2
<1> HIDE DEF w, v
<1>6. w # <<>> /\ Head(w) = w[1] /\ Tail(w) \in Seq(T) /\ Len(Tail(w)) = n - 1
      /\ \A k \in 1..(n - 1) : Tail(w)[k] = w[k + 1]
  BY <1>1, HeadTailProperties, EmptySeq
<1>7. v = Tail(w)
  BY <1>3, <1>5, <1>6, SeqEqual
<1> QED
  BY <1>4, <1>6, <1>7 DEF w, v

(* The multiple after a multiple, and multiples in their order.            *)
LEMMA Multiples ==
  ASSUME NEW a \in Nat, NEW d \in Nat
  PROVE  /\ a * d \in Nat /\ (a + 1) * d = a * d + d
         /\ \A n \in Nat : a <= n => a * d <= n * d
  OBVIOUS

(* A quotient below the factor, and the remainder.                         *)
LEMMA DivisionBounds ==
  ASSUME NEW a \in Nat, NEW d \in Nat \ {0}
  PROVE  /\ a \div d \in Nat /\ a % d \in 0..(d - 1) /\ a = (a \div d) * d + (a % d)
         /\ \A n \in Nat : a < n * d => a \div d < n
         /\ \A n \in Nat : n * d <= a => n <= a \div d
<1>1. a \div d \in Nat /\ a % d \in 0..(d - 1) /\ a = (a \div d) * d + (a % d)
  OBVIOUS
<1> DEFINE q == a \div d
<1> HIDE DEF q
<1>2. ASSUME NEW n \in Nat, a < n * d PROVE q < n
  <2>1. q * d < n * d /\ q \in Nat
    BY <1>1, <1>2 DEF q
  <2>2. q >= n => q * d >= n * d
    BY <2>1
  <2> QED
    BY <2>1, <2>2
<1>3. ASSUME NEW n \in Nat, n * d <= a PROVE n <= q
  <2>1. n * d < (q + 1) * d /\ q \in Nat
    BY <1>1, <1>3 DEF q
  <2>2. n >= q + 1 => n * d >= (q + 1) * d
    BY <2>1
  <2> QED
    BY <2>1, <2>2
<1> QED
  BY <1>1, <1>2, <1>3 DEF q

-----------------------------------------------------------------------------
(* Parts of sequences.                                                     *)

(* Two sequences, one behind the other.                                   *)
LEMMA Joined ==
  ASSUME NEW T, NEW a \in Seq(T), NEW b \in Seq(T)
  PROVE  /\ a \o b \in Seq(T) /\ Len(a \o b) = Len(a) + Len(b)
         /\ \A i \in 1..Len(a) : (a \o b)[i] = a[i]
         /\ \A i \in 1..Len(b) : (a \o b)[Len(a) + i] = b[i]
<1>1. PICK j, l : j = Len(a) /\ l = Len(b)
  OBVIOUS
<1>2. j \in Nat /\ l \in Nat
  BY <1>1
<1>3. \A i \in 1..(j + l) : (a \o b)[i] = IF i <= j THEN a[i] ELSE b[i - j]
  BY <1>1, ConcatProperties
<1>4. \A i \in 1..j : i \in 1..(j + l) /\ i <= j
  BY <1>2
<1>5. \A i \in 1..l : j + i \in 1..(j + l) /\ ~(j + i <= j) /\ (j + i) - j = i
  BY <1>2
<1> QED
  BY <1>1, <1>3, <1>4, <1>5

(* The part of a sequence from m to n.                                     *)
LEMMA Part ==
  ASSUME NEW T, NEW s \in Seq(T), NEW m \in 1..(Len(s) + 1), NEW n \in (m - 1)..Len(s)
  PROVE  /\ SubSeq(s, m, n) \in Seq(T) /\ Len(SubSeq(s, m, n)) = n - m + 1
         /\ \A i \in 1..(n - m + 1) : SubSeq(s, m, n)[i] = s[m + i - 1]
<1>1. Len(s) \in Nat /\ m \in Int /\ n \in Int /\ \A i \in m..n : s[i] \in T
  OBVIOUS
<1>2. /\ SubSeq(s, m, n) \in Seq(T)
      /\ Len(SubSeq(s, m, n)) = IF m <= n THEN n - m + 1 ELSE 0
      /\ \A i \in 1..(n - m + 1) : SubSeq(s, m, n)[i] = s[m + i - 1]
  BY ONLY <1>1, SubSeqProperties
<1> QED
  BY <1>1, <1>2

(* A sequence that has one element more than another.                      *)
LEMMA Inserted ==
  ASSUME NEW T, NEW s \in Seq(T), NEW c \in 0..Len(s), NEW e \in T,
         NEW u \in Seq(T), Len(u) = Len(s) + 1, u[c + 1] = e,
         \A p \in 1..c : u[p] = s[p], \A p \in (c + 1)..Len(s) : u[p + 1] = s[p]
  PROVE  u = SubSeq(s, 1, c) \o <<e>> \o SubSeq(s, c + 1, Len(s))
<1>1. PICK n : n = Len(s)
  OBVIOUS
<1>2. PICK a : a = SubSeq(s, 1, c)
  OBVIOUS
<1>3. PICK z : z = SubSeq(s, c + 1, n)
  OBVIOUS
<1>4. PICK b : b = a \o <<e>>
  OBVIOUS
<1>5. PICK w : w = b \o z
  OBVIOUS
<1>6. n \in Nat /\ c \in Nat /\ c <= n
  BY <1>1
<1>7. a \in Seq(T) /\ Len(a) = c /\ \A i \in 1..c : a[i] = s[i]
  <2>1. 1 \in 1..(Len(s) + 1) /\ c \in (1 - 1)..Len(s) /\ c - 1 + 1 = c
    BY <1>1, <1>6
  <2>2. /\ a \in Seq(T) /\ Len(a) = c - 1 + 1
        /\ \A i \in 1..(c - 1 + 1) : a[i] = s[1 + i - 1]
    BY <1>2, <2>1, Part
  <2>3. \A i \in 1..c : 1 + i - 1 = i
    OBVIOUS
  <2> QED
    BY <2>1, <2>2, <2>3
<1>8. z \in Seq(T) /\ Len(z) = n - c /\ \A i \in 1..(n - c) : z[i] = s[c + i]
  <2>1. c + 1 \in 1..(n + 1) /\ n \in ((c + 1) - 1)..n /\ n - (c + 1) + 1 = n - c
    BY <1>6
  <2>2. /\ z \in Seq(T) /\ Len(z) = n - (c + 1) + 1
        /\ \A i \in 1..(n - (c + 1) + 1) : z[i] = s[(c + 1) + i - 1]
    BY <1>1, <1>3, <2>1, Part
  <2>3. \A i \in 1..(n - c) : (c + 1) + i - 1 = c + i
    BY <1>6
  <2> QED
    BY <2>1, <2>2, <2>3
<1>9. <<e>> \in Seq(T) /\ Len(<<e>>) = 1 /\ <<e>>[1] = e
  OBVIOUS
<1>10. b \in Seq(T) /\ Len(b) = c + 1 /\ b[c + 1] = e /\ \A i \in 1..c : b[i] = s[i]
  <2>1. a \in Seq(T) /\ <<e>> \in Seq(T)
    BY <1>7, <1>9
  <2>2. /\ a \o <<e>> \in Seq(T) /\ Len(a \o <<e>>) = Len(a) + Len(<<e>>)
        /\ \A i \in 1..Len(a) : (a \o <<e>>)[i] = a[i]
        /\ \A i \in 1..Len(<<e>>) : (a \o <<e>>)[Len(a) + i] = <<e>>[i]
    BY ONLY <2>1, Joined
  <2>3. 1 \in 1..Len(<<e>>)
    BY <1>9
  <2> QED
    BY <1>4, <1>7, <1>9, <2>2, <2>3
<1>11. /\ w \in Seq(T) /\ Len(w) = (c + 1) + (n - c)
       /\ \A i \in 1..(c + 1) : w[i] = b[i]
       /\ \A i \in 1..(n - c) : w[(c + 1) + i] = z[i]
  <2>1. b \in Seq(T) /\ z \in Seq(T)
    BY <1>8, <1>10
  <2>2. /\ b \o z \in Seq(T) /\ Len(b \o z) = Len(b) + Len(z)
        /\ \A i \in 1..Len(b) : (b \o z)[i] = b[i]
        /\ \A i \in 1..Len(z) : (b \o z)[Len(b) + i] = z[i]
    BY ONLY <2>1, Joined
  <2> QED
    BY <1>5, <1>8, <1>10, <2>2
<1>12. Len(w) = n + 1 /\ Len(u) = n + 1
  BY <1>1, <1>6, <1>11
<1>13. ASSUME NEW p \in 1..(n + 1) PROVE u[p] = w[p]
  <2>1. CASE p \in 1..c
    <3>1. p \in 1..(c + 1)
      BY <1>6, <2>1
    <3> QED
      BY <1>10, <1>11, <2>1, <3>1
  <2>2. CASE p = c + 1
    <3>1. p \in 1..(c + 1)
      BY <1>6, <2>2
    <3> QED
      BY <1>10, <1>11, <2>2, <3>1
  <2>3. CASE p \in (c + 2)..(n + 1)
    <3>1. PICK j : j = p - (c + 1)
      OBVIOUS
    <3>2. j \in 1..(n - c) /\ (c + 1) + j = p /\ c + j \in (c + 1)..n /\ (c + j) + 1 = p
      BY <1>6, <2>3, <3>1
    <3>3. w[p] = s[c + j]
      BY <1>8, <1>11, <3>2
    <3>4. u[(c + j) + 1] = s[c + j]
      BY <1>1, <3>2
    <3> QED
      BY <3>2, <3>3, <3>4
  <2> QED
    BY <1>6, <2>1, <2>2, <2>3
<1>14. u = w
  <2>1. w \in Seq(T) /\ Len(u) = Len(w) /\ \A i \in 1..Len(u) : u[i] = w[i]
    BY <1>11, <1>12, <1>13
  <2> QED
    BY <2>1, SeqEqual
<1> QED
  BY <1>1, <1>2, <1>3, <1>4, <1>5, <1>14

(* A sequence that lacks one element of another.                           *)
LEMMA Removed ==
  ASSUME NEW T, NEW s \in Seq(T), NEW c \in 1..Len(s),
         NEW u \in Seq(T), Len(u) = Len(s) - 1,
         \A p \in 1..(c - 1) : u[p] = s[p], \A p \in c..(Len(s) - 1) : u[p] = s[p + 1]
  PROVE  u = SubSeq(s, 1, c - 1) \o SubSeq(s, c + 1, Len(s))
<1>1. PICK n : n = Len(s)
  OBVIOUS
<1>2. PICK a : a = SubSeq(s, 1, c - 1)
  OBVIOUS
<1>3. PICK z : z = SubSeq(s, c + 1, n)
  OBVIOUS
<1>4. PICK w : w = a \o z
  OBVIOUS
<1>5. n \in Nat /\ c \in Nat /\ c <= n /\ c >= 1
  BY <1>1
<1>6. a \in Seq(T) /\ Len(a) = c - 1 /\ \A i \in 1..(c - 1) : a[i] = s[i]
  <2>1. 1 \in 1..(Len(s) + 1) /\ c - 1 \in (1 - 1)..Len(s) /\ (c - 1) - 1 + 1 = c - 1
    BY <1>1, <1>5
  <2>2. /\ a \in Seq(T) /\ Len(a) = (c - 1) - 1 + 1
        /\ \A i \in 1..((c - 1) - 1 + 1) : a[i] = s[1 + i - 1]
    BY <1>2, <2>1, Part
  <2>3. \A i \in 1..(c - 1) : 1 + i - 1 = i
    OBVIOUS
  <2> QED
    BY <2>1, <2>2, <2>3
<1>7. z \in Seq(T) /\ Len(z) = n - c /\ \A i \in 1..(n - c) : z[i] = s[c + i]
  <2>1. c + 1 \in 1..(n + 1) /\ n \in ((c + 1) - 1)..n /\ n - (c + 1) + 1 = n - c
    BY <1>5
  <2>2. /\ z \in Seq(T) /\ Len(z) = n - (c + 1) + 1
        /\ \A i \in 1..(n - (c + 1) + 1) : z[i] = s[(c + 1) + i - 1]
    BY <1>1, <1>3, <2>1, Part
  <2>3. \A i \in 1..(n - c) : (c + 1) + i - 1 = c + i
    BY <1>5
  <2> QED
    BY <2>1, <2>2, <2>3
<1>8. /\ w \in Seq(T) /\ Len(w) = (c - 1) + (n - c)
      /\ \A i \in 1..(c - 1) : w[i] = a[i]
      /\ \A i \in 1..(n - c) : w[(c - 1) + i] = z[i]
  <2>1. a \in Seq(T) /\ z \in Seq(T)
    BY <1>6, <1>7
  <2>2. /\ a \o z \in Seq(T) /\ Len(a \o z) = Len(a) + Len(z)
        /\ \A i \in 1..Len(a) : (a \o z)[i] = a[i]
        /\ \A i \in 1..Len(z) : (a \o z)[Len(a) + i] = z[i]
    BY ONLY <2>1, Joined
  <2> QED
    BY <1>4, <1>6, <1>7, <2>2
<1>9. Len(w) = n - 1 /\ Len(u) = n - 1
  BY <1>1, <1>5, <1>8
<1>10. ASSUME NEW p \in 1..(n - 1) PROVE u[p] = w[p]
  <2>1. CASE p \in 1..(c - 1)
    BY <1>6, <1>8, <2>1
  <2>2. CASE p \in c..(n - 1)
    <3>1. PICK j : j = p - (c - 1)
      OBVIOUS
    <3>2. j \in 1..(n - c) /\ (c - 1) + j = p /\ c + j = p + 1
      BY <1>5, <2>2, <3>1
    <3>3. w[p] = s[p + 1]
      BY <1>7, <1>8, <3>2
    <3> QED
      BY <1>1, <2>2, <3>3
  <2> QED
    BY <1>5, <2>1, <2>2
<1>11. u = w
  <2>1. w \in Seq(T) /\ Len(u) = Len(w) /\ \A i \in 1..Len(u) : u[i] = w[i]
    BY <1>8, <1>9, <1>10
  <2> QED
    BY <2>1, SeqEqual
<1> QED
  BY <1>1, <1>2, <1>3, <1>4, <1>11

(* A sequence another one begins with.                                     *)
LEMMA Begins ==
  ASSUME NEW T, NEW s \in Seq(T), NEW t \in Seq(T), Len(s) <= Len(t),
         \A p \in 1..Len(s) : s[p] = t[p]
  PROVE  SubSeq(s, 1, Len(s)) = SubSeq(t, 1, Len(s))
<1>1. PICK n, a, b : n = Len(s) /\ a = SubSeq(s, 1, n) /\ b = SubSeq(t, 1, n)
  OBVIOUS
<1>2. n \in Nat /\ n - 1 + 1 = n /\ \A i \in 1..n : 1 + i - 1 = i
  BY <1>1
<1>3. /\ 1 \in 1..(Len(s) + 1) /\ n \in (1 - 1)..Len(s)
      /\ 1 \in 1..(Len(t) + 1) /\ n \in (1 - 1)..Len(t)
  BY <1>1, <1>2
<1>4. a \in Seq(T) /\ Len(a) = n /\ \A i \in 1..n : a[i] = s[i]
  <2>1. /\ a \in Seq(T) /\ Len(a) = n - 1 + 1
        /\ \A i \in 1..(n - 1 + 1) : a[i] = s[1 + i - 1]
    BY <1>1, <1>3, Part
  <2> QED
    BY <1>2, <2>1
<1>5. b \in Seq(T) /\ Len(b) = n /\ \A i \in 1..n : b[i] = t[i]
  <2>1. /\ b \in Seq(T) /\ Len(b) = n - 1 + 1
        /\ \A i \in 1..(n - 1 + 1) : b[i] = t[1 + i - 1]
    BY <1>1, <1>3, Part
  <2> QED
    BY <1>2, <2>1
<1>6. a = b
  <2>1. Len(a) = Len(b) /\ \A i \in 1..Len(a) : a[i] = b[i]
    BY <1>1, <1>4, <1>5
  <2> QED
    BY <1>4, <1>5, <2>1, SeqEqual
<1> QED
  BY <1>1, <1>6

-----------------------------------------------------------------------------
(* Walks.  Induction over data is out of reach as a scheme, but not as a   *)
(* fact about a set of numbers.                                            *)

(* What holds of 0 and goes from each number to the next holds up to n.    *)
LEMMA Upward ==
  ASSUME NEW n \in Nat, NEW S, 0 \in S, \A k \in 0..(n - 1) : k \in S => k + 1 \in S
  PROVE  \A k \in 0..n : k \in S
<1> DEFINE Bad == (0..n) \ S
<1>1. ASSUME Bad # {} PROVE FALSE
  <2>1. Bad \subseteq Nat
    OBVIOUS
  <2>2. PICK k \in Bad : \A x \in Bad : k <= x
    <3> HIDE DEF Bad
    <3> QED
      BY <1>1, <2>1, MinExists
  <2>3. PICK m : m = k - 1
    OBVIOUS
  <2>4. k # 0 /\ m \in 0..(n - 1) /\ k = m + 1 /\ m \notin Bad
    BY <2>2, <2>3
  <2> QED
    BY <2>2, <2>4
<1> QED
  BY <1>1

(* A step leads from T into T, and may depend on its number.               *)
Steppings(n, T) == [(1..n) \X T -> T]

(* Such steps can be taken one after the other.                            *)
LEMMA WalkExists ==
  ASSUME NEW n \in Nat, NEW T, NEW base \in T, NEW step \in Steppings(n, T)
  PROVE  \E f \in [0..n -> T] : f[0] = base /\ \A k \in 1..n : f[k] = step[<<k, f[k - 1]>>]
<1> DEFINE Walk(f, m) == f[0] = base /\ \A k \in 1..m : f[k] = step[<<k, f[k - 1]>>]
           S == {m \in 0..n : \E f \in [0..m -> T] : Walk(f, m)}
<1>1. 0 \in S
  <2>1. PICK f : f = [k \in 0..0 |-> base]
    OBVIOUS
  <2>2. f \in [0..0 -> T] /\ f[0] = base
    BY <2>1
  <2> QED
    BY <2>2
<1>2. ASSUME NEW m \in 0..(n - 1), m \in S
      PROVE  m + 1 \in S
  <2>1. PICK f \in [0..m -> T] : Walk(f, m)
    BY <1>2
  <2>2. PICK l : l = m + 1
    OBVIOUS
  <2>3. l \in 1..n /\ l \in 0..n /\ m \in 0..m /\ l - 1 = m /\ l \notin 0..m
    BY <2>2
  <2>4. PICK x : x = step[<<l, f[m]>>]
    OBVIOUS
  <2>5. x \in T
    BY <2>1, <2>3, <2>4 DEF Steppings
  <2>6. PICK h : h = [k \in 0..l |-> IF k = l THEN x ELSE f[k]]
    OBVIOUS
  <2>7. h \in [0..l -> T]
    <3>1. \A k \in 0..l : k # l => k \in 0..m
      BY <2>2
    <3> QED
      BY <2>1, <2>5, <2>6, <3>1
  <2>8. h[l] = x /\ \A k \in 0..m : h[k] = f[k]
    BY <2>2, <2>3, <2>6
  <2>9. ASSUME NEW k \in 1..l
        PROVE  h[k] = step[<<k, h[k - 1]>>]
    <3>1. CASE k = l
      BY <2>3, <2>4, <2>8, <3>1
    <3>2. CASE k # l
      <4>1. k \in 1..m /\ k \in 0..m /\ k - 1 \in 0..m
        BY <2>2, <3>2
      <4>2. f[k] = step[<<k, f[k - 1]>>]
        BY <2>1, <4>1
      <4> QED
        BY <2>8, <4>1, <4>2
    <3> QED
      BY <3>1, <3>2
  <2>10. h[0] = base
    BY <2>1, <2>8
  <2>11. Walk(h, l)
    BY <2>9, <2>10
  <2> QED
    BY <2>2, <2>3, <2>7, <2>11
<1>3. n \in S
  <2> HIDE DEF S
  <2>1. \A k \in 0..n : k \in S
    BY <1>1, <1>2, Upward
  <2> QED
    BY <2>1
<1> QED
  BY <1>3
=============================================================================
