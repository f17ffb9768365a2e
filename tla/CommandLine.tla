----------------------------- MODULE CommandLine -----------------------------
(***************************************************************************)
(* What the shell's prompt keeps: a line of text with a cursor, and a log  *)
(* of the last commands in which no command follows itself.                *)
(*                                                                         *)
(* Tab completes the line and what happens to lie behind it, as if that    *)
(* had been typed too; nothing is promised of how it comes and goes.  With *)
(* nothing behind the line this is completion, but for two differences     *)
(* from the documentation: without a match the line is dropped, where the  *)
(* code's comment says that nothing is done; and of several matches two    *)
(* share the new line, where the release notes of v0.5.0 have the longest  *)
(* common prefix of them all.                                              *)
(***************************************************************************)
EXTENDS Integers, Sequences, SequencesExt

CONSTANTS Chars, Space, Commands, MaxText, MaxLog

VARIABLES
  text,
  cursor,
  log,
  behind  \* left behind the line by earlier ones

Init ==
  /\ text = <<>>
  /\ cursor = 0
  /\ log = <<>>

Type(ch) ==
  /\ Len(text) < MaxText
  /\ text' = InsertAt(text, cursor + 1, ch)
  /\ cursor' = cursor + 1
  /\ UNCHANGED log

(* The character before the cursor, or the one at it.                      *)
Erase(p) ==
  /\ p \in 1..Len(text)
  /\ text' = RemoveAt(text, p)
  /\ cursor' = p - 1
  /\ UNCHANGED log

Move ==
  /\ cursor' \in 0..Len(text)
  /\ UNCHANGED <<text, log>>

Matches == {command \in Commands : IsPrefix(text \o behind, command)}

(* A single match becomes the line, with a space, if the two fit.          *)
CompleteOne ==
  \E command \in Matches :
    /\ Matches = {command}
    /\ text' = IF Len(command) < MaxText THEN Append(command, Space) ELSE text

(* Of several matches at least two begin with the new line, and it with    *)
(* the old one.                                                            *)
CompleteSeveral ==
  /\ IsPrefix(text, text')
  /\ \E one, two \in Matches : one # two /\ IsPrefix(text', one) /\ IsPrefix(text', two)

Complete ==
  /\ CompleteOne \/ CompleteSeveral
  /\ cursor' = Len(text')
  /\ UNCHANGED log

Fresh ==
  /\ text' = <<>>
  /\ cursor' = 0

Drop ==
  /\ Matches = {}
  /\ Fresh
  /\ UNCHANGED log

(* The shortest part of t outside which there are only spaces.             *)
Trimmed(t) ==
  LET ink == {p \in 1..Len(t) : t[p] # Space}
  IN  IF ink = {} THEN <<>> ELSE SubSeq(t, Min(ink), Max(ink))

Newest(s) == SubSeq(s, IF Len(s) > MaxLog THEN Len(s) - MaxLog + 1 ELSE 1, Len(s))

Submit ==
  LET command == Trimmed(text)
      repeated == log # <<>> /\ log[Len(log)] = command
  IN  /\ Fresh
      /\ log' = IF command = <<>> \/ repeated THEN log ELSE Newest(Append(log, command))

Next ==
  \/ \E ch \in Chars : Type(ch)
  \/ Erase(cursor) \/ Erase(cursor + 1)
  \/ Move
  \/ Complete
  \/ Drop
  \/ Submit

Spec == Init /\ [][Next]_<<text, cursor, log>>
=============================================================================
