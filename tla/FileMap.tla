------------------------------- MODULE FileMap -------------------------------
(***************************************************************************)
(* What WitFS promises its users: a map from names to contents.  Creating  *)
(* adds an empty file, a write lays some prefix of its text over the       *)
(* contents (there is no truncation), removing takes the file away, and a  *)
(* format takes all away.  A command may fail and change nothing.          *)
(***************************************************************************)
EXTENDS Integers, Sequences

CONSTANTS Names, Texts

VARIABLE files

Overlay(old, new) ==
  [p \in 1..(IF Len(old) < Len(new) THEN Len(new) ELSE Len(old)) |->
     IF p <= Len(new) THEN new[p] ELSE old[p]]

Init == files = <<>>

Add(n) ==
  /\ n \notin DOMAIN files
  /\ files' = [m \in DOMAIN files \union {n} |-> IF m = n THEN <<>> ELSE files[m]]

Remove(n) ==
  /\ n \in DOMAIN files
  /\ files' = [m \in DOMAIN files \ {n} |-> files[m]]

Write(n, text) ==
  /\ n \in DOMAIN files
  /\ \E k \in 0..Len(text) :
       files' = [files EXCEPT ![n] = Overlay(@, SubSeq(text, 1, k))]

Erase == files' = <<>>

Next ==
  /\ files' # files
  /\ \/ \E n \in Names : Add(n) \/ Remove(n)
     \/ \E n \in Names, text \in Texts : Write(n, text)
     \/ Erase

Spec == Init /\ [][Next]_files
=============================================================================
