--------------------------------- MODULE Vga ---------------------------------
(***************************************************************************)
(* The text screen of Wittche OS (kernel/screen.c) as operators on a       *)
(* screen: a record of the cursor's row and col and of video, the cells.   *)
(* The characters that occur are printing ones and the newline: no caller  *)
(* prints a tab, a backspace or a carriage return.  Colours are in module  *)
(* Screen.                                                                 *)
(***************************************************************************)
EXTENDS Integers, Sequences, SequencesExt

CONSTANTS
  SCREEN_WIDTH,   \* 80
  SCREEN_HEIGHT   \* 25

ASSUME VgaAssumption ==
  /\ SCREEN_WIDTH \in Nat /\ SCREEN_WIDTH > 1
  /\ SCREEN_HEIGHT \in Nat \ {0}

Newline == "newline"
Blank == " "

Position(row, col) == row * SCREEN_WIDTH + col
ScreenCells == 0..(SCREEN_WIDTH * SCREEN_HEIGHT - 1)

(* Where the cursor goes first, before the line wrap.                      *)
Stepped(cur, ch) ==
  IF ch = Newline THEN [cur EXCEPT !.col = 0, !.row = @ + 1] ELSE [cur EXCEPT !.col = @ + 1]

Wrapped(cur) ==
  IF cur.col >= SCREEN_WIDTH THEN [cur EXCEPT !.col = 0, !.row = @ + 1] ELSE cur

MustScroll_Late(row) == row > SCREEN_HEIGHT
MustScroll(row) == row >= SCREEN_HEIGHT

(* The cursor after screen_putchar_internal.                               *)
CursorAfter(cur, ch) ==
  LET next == Wrapped(Stepped(cur, ch))
  IN  IF MustScroll(next.row) THEN [next EXCEPT !.row = SCREEN_HEIGHT - 1, !.col = 0] ELSE next

(* screen_scroll on the cells.                                             *)
Scrolled(video) ==
  [i \in ScreenCells |-> IF i + SCREEN_WIDTH \in ScreenCells THEN video[i + SCREEN_WIDTH] ELSE Blank]

(* screen_putchar_internal as a whole.                                     *)
PutChar(s, ch) ==
  LET drawn == IF ch = Newline THEN s.video ELSE [s.video EXCEPT ![Position(s.row, s.col)] = ch]
      scrolls == MustScroll(Wrapped(Stepped(s, ch)).row)
  IN  [CursorAfter(s, ch) EXCEPT !.video = IF scrolls THEN Scrolled(drawn) ELSE drawn]

(* screen_write: the characters one after the other.                       *)
Written(s, str) ==
  LET after[n \in 0..Len(str)] == IF n = 0 THEN s ELSE PutChar(after[n - 1], str[n])
  IN  after[Len(str)]

(* screen_set_cursor; a position off the screen changes nothing.           *)
CursorSet(s, row, col) ==
  IF row \in 0..(SCREEN_HEIGHT - 1) /\ col \in 0..(SCREEN_WIDTH - 1)
    THEN [s EXCEPT !.row = row, !.col = col] ELSE s

screen_clear == [row |-> 0, col |-> 0, video |-> [i \in ScreenCells |-> Blank]]
=============================================================================
