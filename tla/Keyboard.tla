------------------------------- MODULE Keyboard -------------------------------
(***************************************************************************)
(* The keyboard driver of Wittche OS (kernel/keyboard.c): the interrupt    *)
(* handler decodes scancodes and puts characters into a ring; the shell,   *)
(* with interrupts enabled, waits for one, reads it and advances the ring. *)
(* The handler runs to its end; the reader can be interrupted between any  *)
(* two of its steps.                                                       *)
(*                                                                         *)
(* A scancode is the prefix E0, or a key going down or up.  The two shift  *)
(* keys are one key, as the handler does not tell them apart.  The flag of *)
(* the control key is never read and is left out.                          *)
(***************************************************************************)
EXTENDS Integers, Sequences

CONSTANTS
  KEYBOARD_BUFFER_SIZE,  \* slots of the ring (256)
  Printing,              \* keys of the layout tables
  Lower, Upper,          \* the layout tables: key -> character
  Special                \* keys that count after E0 only (arrows, home, ...)

ASSUME KeyboardAssumption ==
  /\ KEYBOARD_BUFFER_SIZE \in Nat /\ KEYBOARD_BUFFER_SIZE > 1
  /\ DOMAIN Lower = Printing
  /\ DOMAIN Upper = Printing

VARIABLES
  keyboard_buffer,
  buffer_read_pos,
  buffer_write_pos,
  shift_pressed,
  caps_lock,
  extended_key,  \* the last scancode was E0
  reader,        \* where the shell is in its loop
  c              \* the character keyboard_getchar has read

ringVars == <<keyboard_buffer, buffer_read_pos, buffer_write_pos>>
modVars == <<shift_pressed, caps_lock, extended_key>>
vars == <<ringVars, modVars, reader, c>>

Slots == 0..(KEYBOARD_BUFFER_SIZE - 1)
Shift == "shift"
Caps == "caps"
Keys == Printing \union Special \union {Shift, Caps}
Chars == {Lower[k] : k \in Printing} \union {Upper[k] : k \in Printing} \union Special
NoChar == "none"

Init ==
  /\ keyboard_buffer = [i \in Slots |-> NoChar]
  /\ buffer_read_pos = 0
  /\ buffer_write_pos = 0
  /\ shift_pressed = FALSE
  /\ caps_lock = FALSE
  /\ extended_key = FALSE
  /\ reader = "test"
  /\ c = NoChar

NextPos(p) == (p + 1) % KEYBOARD_BUFFER_SIZE
Empty == buffer_read_pos = buffer_write_pos

-----------------------------------------------------------------------------
(* The interrupt handler.                                                  *)

Full_Never == FALSE
Full == NextPos(buffer_write_pos) = buffer_read_pos

keyboard_buffer_add_DropsOldest(ch) ==
  /\ keyboard_buffer' = [keyboard_buffer EXCEPT ![buffer_write_pos] = ch]
  /\ buffer_write_pos' = NextPos(buffer_write_pos)
  /\ buffer_read_pos' = IF Full THEN NextPos(buffer_read_pos) ELSE buffer_read_pos

(* A character that finds the ring full is dropped.                        *)
keyboard_buffer_add(ch) ==
  IF Full THEN UNCHANGED ringVars
  ELSE /\ keyboard_buffer' = [keyboard_buffer EXCEPT ![buffer_write_pos] = ch]
       /\ buffer_write_pos' = NextPos(buffer_write_pos)
       /\ UNCHANGED buffer_read_pos

(* Any interrupt ends the hlt of a waiting reader.                         *)
Resume == reader' = IF reader = "halted" THEN "test" ELSE reader

Prefix ==
  /\ extended_key' = TRUE
  /\ Resume
  /\ UNCHANGED <<ringVars, shift_pressed, caps_lock, c>>

(* A release counts for shift only, prefixed or not.                       *)
Release(k) ==
  /\ shift_pressed' = (shift_pressed /\ k # Shift)
  /\ extended_key' = FALSE
  /\ Resume
  /\ UNCHANGED <<ringVars, caps_lock, c>>

PressExtended(k) ==
  /\ extended_key
  /\ extended_key' = FALSE
  /\ IF k \in Special THEN keyboard_buffer_add(k) ELSE UNCHANGED ringVars
  /\ Resume
  /\ UNCHANGED <<shift_pressed, caps_lock, c>>

Ascii(k) == IF shift_pressed # caps_lock THEN Upper[k] ELSE Lower[k]

(* A key that is neither a modifier nor in the tables has no character.    *)
Press(k) ==
  /\ ~extended_key
  /\ shift_pressed' = (shift_pressed \/ k = Shift)
  /\ caps_lock' = (caps_lock # (k = Caps))
  /\ IF k \in Printing THEN keyboard_buffer_add(Ascii(k)) ELSE UNCHANGED ringVars
  /\ Resume
  /\ UNCHANGED <<extended_key, c>>

keyboard_handler ==
  \/ Prefix
  \/ \E k \in Keys : Release(k) \/ PressExtended(k) \/ Press(k)

(* A timer interrupt, as far as the reader sees it.                        *)
Tick_StaysHalted ==
  /\ reader = "halted"
  /\ UNCHANGED vars
Tick ==
  /\ reader = "halted"
  /\ reader' = "test"
  /\ UNCHANGED <<ringVars, modVars, c>>

-----------------------------------------------------------------------------
(* The reader: shell_get_line's wait, and keyboard_getchar.                *)

(* keyboard_has_input.  A key may come between this test and the hlt.      *)
Test ==
  /\ reader = "test"
  /\ reader' = IF Empty THEN "hlt" ELSE "read"
  /\ UNCHANGED <<ringVars, modVars, c>>

Halt ==
  /\ reader = "hlt"
  /\ reader' = "halted"
  /\ UNCHANGED <<ringVars, modVars, c>>

Read ==
  /\ reader = "read"
  /\ c' = keyboard_buffer[buffer_read_pos]
  /\ reader' = "advance"
  /\ UNCHANGED <<ringVars, modVars>>

AfterRead == NextPos(buffer_read_pos)

Advance ==
  /\ reader = "advance"
  /\ buffer_read_pos' = AfterRead
  /\ reader' = "test"
  /\ c' = NoChar
  /\ UNCHANGED <<keyboard_buffer, buffer_write_pos, modVars>>

ReaderStep == Test \/ Halt \/ Read \/ Advance

Next == keyboard_handler \/ Tick \/ ReaderStep

(* The PIT keeps interrupting and the shell executes on.  Nobody has to    *)
(* press a key.                                                            *)
Fairness == WF_vars(Tick) /\ WF_vars(ReaderStep)

Spec == Init /\ [][Next]_vars /\ Fairness
-----------------------------------------------------------------------------
(* Properties.                                                             *)

(* The keys typed ahead, oldest first.                                     *)
Pending ==
  LET n == (buffer_write_pos - buffer_read_pos) % KEYBOARD_BUFFER_SIZE
  IN  [i \in 1..n |-> keyboard_buffer[(buffer_read_pos + i - 1) % KEYBOARD_BUFFER_SIZE]]

(* The ring is a queue of one character less than its slots: each step     *)
(* leaves it, adds a newest key while there is room, or removes the        *)
(* oldest, whatever the handler does between the reader's steps.           *)
KeysInOrder ==
  [][\/ Pending' = Pending
     \/ /\ Len(Pending) < KEYBOARD_BUFFER_SIZE - 1
        /\ \E ch \in Chars : Pending' = Append(Pending, ch)
     \/ /\ reader = "advance"
        /\ Pending' = Tail(Pending)]_vars

(* What keyboard_getchar has read is still the oldest key when it advances *)
(* the ring, and is a character: its 0 for "empty" is never taken for one. *)
ReadIsOldest == reader = "advance" => Pending # <<>> /\ c = Head(Pending)

(* No key waits for the next key: also one that comes between the test for *)
(* input and the hlt is read, after the next timer interrupt.              *)
KeyIsRead == (Pending # <<>>) ~> (reader = "advance")
=============================================================================
