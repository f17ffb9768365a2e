----------------------------- MODULE ConsoleProofs ----------------------------
(***************************************************************************)
(* Proofs about the screen and the prompt, for every size of both.         *)
(*                                                                         *)
(* The shared driver (Screen): where the cursor can be depends on where    *)
(* the shell is in its call, one column too far before the test for a      *)
(* wrap, one row too far between the increment and the test for a scroll,  *)
(* and never both.  The line editor (Shell): it stays in its buffer, and   *)
(* implements a line of text.  What is drawn of the line (Console): while  *)
(* it fits behind its prompt, the screen shows what the buffer holds.      *)
(***************************************************************************)
EXTENDS Console, Screen, KernelLemmas, FiniteSetTheorems, TLAPS

Columns == 0..(SCREEN_WIDTH - 1)
Rows == 0..(SCREEN_HEIGHT - 1)

Steps == {"idle", "set color", "char", "newline load", "newline store", "wrap", "wrap column",
          "wrap load", "wrap store", "position", "store char", "load column", "store column",
          "scroll", "scroll row", "scroll column", "set row", "set column", "update"} \union Updating

Locals == [color : Colors \union {Plain}, row : Rows, col : Columns]

ScreenTypeOK ==
  /\ cursor_row \in Rows \union {SCREEN_HEIGHT}
  /\ cursor_col \in Columns \union {SCREEN_WIDTH}
  /\ current_color \in Colors
  /\ pc \in Steps
  /\ local \in Locals

(* Where the cursor is one too far, the shell has yet to test for it.      *)
CursorNear ==
  /\ cursor_row = SCREEN_HEIGHT => pc \in {"wrap", "scroll", "scroll row"} /\ cursor_col \in Columns
  /\ cursor_col = SCREEN_WIDTH => pc \in {"wrap", "wrap column"}

(* A colour other than the default one is on only inside a call that knows *)
(* what to put back.                                                       *)
ColorKept ==
  /\ local.color \in {Plain, DEFAULT_COLOR}
  /\ current_color # DEFAULT_COLOR =>
       /\ local.color = DEFAULT_COLOR
       /\ pc \in Steps \ ({"idle", "set color", "set row", "set column", "update"} \union Updating)
  /\ pc = "set color" => local.color = DEFAULT_COLOR

DriverInv == ScreenTypeOK /\ CursorNear /\ WritesOnScreen /\ ColorKept

(* A position in a row up to the one behind the screen.                    *)
LEMMA PositionBound ==
  ASSUME NEW row \in 0..SCREEN_HEIGHT, NEW col \in 0..SCREEN_WIDTH,
         row = SCREEN_HEIGHT => col < SCREEN_WIDTH
  PROVE  Position(row, col) \in 0..(SCREEN_WIDTH * (SCREEN_HEIGHT + 1) - 1)
<1> DEFINE W == SCREEN_WIDTH  H == SCREEN_HEIGHT
<1>1. W \in Nat /\ H \in Nat /\ row \in Nat /\ col \in Nat /\ H > 0 /\ W > 1
  BY VgaAssumption
<1>2. W * (H + 1) = H * W + W
  BY <1>1
<1>3. row * W \in Nat
  BY <1>1
<1>4. CASE row = H
  BY <1>1, <1>2, <1>3, <1>4 DEF Position
<1>5. CASE row < H
  <2>1. PICK d \in Nat : H = row + 1 + d
    BY <1>1, <1>5
  <2>2. H * W = row * W + W + d * W
    BY <2>1, <1>1
  <2>3. d * W \in Nat
    BY <2>1, <1>1
  <2>4. QED
    BY <2>2, <2>3, <1>1, <1>2, <1>3 DEF Position
<1>6. QED
  BY <1>1, <1>4, <1>5

(* A process leaves the cursor on the screen, wherever it finds it.        *)
LEMMA CursorAfterOnScreen ==
  ASSUME NEW row \in 0..SCREEN_HEIGHT, NEW col \in 0..SCREEN_WIDTH, NEW ch
  PROVE  LET next == CursorAfter([row |-> row, col |-> col], ch)
         IN  next.row \in Rows /\ next.col \in Columns
<1> DEFINE cur == [row |-> row, col |-> col]
           stepped == Stepped(cur, ch)
           wrapped == Wrapped(stepped)
<1>1. \E r \in 0..(SCREEN_HEIGHT + 1), c \in 0..(SCREEN_WIDTH + 1) : stepped = [row |-> r, col |-> c]
  <2>1. CASE ch = Newline
    <3>1. stepped = [row |-> row + 1, col |-> 0]
      BY <2>1 DEF Stepped
    <3>2. QED
      BY <3>1, VgaAssumption
  <2>2. CASE ch # Newline
    <3>1. stepped = [row |-> row, col |-> col + 1]
      BY <2>2 DEF Stepped
    <3>2. QED
      BY <3>1, VgaAssumption
  <2>3. QED
    BY <2>1, <2>2
<1> HIDE DEF stepped
<1>2. \E r \in Nat, c \in Columns : wrapped = [row |-> r, col |-> c]
  <2>1. PICK r \in 0..(SCREEN_HEIGHT + 1), c \in 0..(SCREEN_WIDTH + 1) :
          stepped = [row |-> r, col |-> c]
    BY <1>1
  <2>2. CASE c >= SCREEN_WIDTH
    <3>1. wrapped = [row |-> r + 1, col |-> 0]
      BY <2>1, <2>2 DEF Wrapped
    <3>2. QED
      BY <3>1, VgaAssumption DEF Columns
  <2>3. CASE c < SCREEN_WIDTH
    <3>1. wrapped = [row |-> r, col |-> c]
      BY <2>1, <2>3, VgaAssumption DEF Wrapped
    <3>2. QED
      BY <3>1, <2>3, VgaAssumption DEF Columns
  <2>4. QED
    BY <2>2, <2>3, VgaAssumption
<1> HIDE DEF wrapped
<1>3. QED
  BY <1>2, VgaAssumption DEF CursorAfter, MustScroll, Rows, Columns, stepped, wrapped

(* Rows and columns, and where an increment leads.                         *)
LEMMA Coordinates ==
  /\ 0 \in Rows /\ SCREEN_HEIGHT - 1 \in Rows /\ SCREEN_HEIGHT \notin Rows
  /\ 0 \in Columns /\ SCREEN_WIDTH \notin Columns
  /\ \A r \in Rows : r + 1 \in Rows \union {SCREEN_HEIGHT}
  /\ \A c \in Columns : c + 1 \in Columns \union {SCREEN_WIDTH}
  /\ \A r \in Rows : ~(r >= SCREEN_HEIGHT)
  /\ \A c \in Columns : ~(c >= SCREEN_WIDTH)
  /\ SCREEN_WIDTH >= SCREEN_WIDTH /\ SCREEN_HEIGHT >= SCREEN_HEIGHT
  BY VgaAssumption DEF Rows, Columns

(* The shell's locals hold rows and columns of the screen.                 *)
LEMMA LocalUpdates ==
  ASSUME NEW l \in Locals
  PROVE  /\ l.row \in Rows /\ l.col \in Columns /\ l.color \in Colors \union {Plain}
         /\ NoLocals \in Locals
         /\ \A r \in Rows : [l EXCEPT !.row = r] \in Locals
         /\ \A c \in Columns : [l EXCEPT !.col = c] \in Locals
         /\ \A c \in Colors : [NoLocals EXCEPT !.color = c] \in Locals
         /\ \A r \in Rows, c \in Columns : [NoLocals EXCEPT !.row = r, !.col = c] \in Locals
<1>1. NoLocals \in Locals
  BY Coordinates DEF NoLocals, Locals
<1>2. QED
  BY <1>1 DEF Locals

(* The two places where cursor_row is incremented.                         *)
LEMMA RowStepCases ==
  /\ LoadRow => \/ pc = "newline load" /\ pc' = "newline store"
                \/ pc = "wrap load" /\ pc' = "wrap store"
  /\ StoreRow => \/ pc = "newline store" /\ pc' = "wrap"
                 \/ pc = "wrap store" /\ pc' = "scroll"
<1> DEFINE nl == <<"newline load", "newline store", "wrap">>
           wr == <<"wrap load", "wrap store", "scroll">>
<1>1. \A at \in RowSteps : at = nl \/ at = wr
  BY DEF RowSteps
<1>2. /\ LoadRow => \/ pc = nl[1] /\ pc' = nl[2]
                    \/ pc = wr[1] /\ pc' = wr[2]
      /\ StoreRow => \/ pc = nl[2] /\ pc' = nl[3]
                     \/ pc = wr[2] /\ pc' = wr[3]
  <2> HIDE DEF nl, wr
  <2>1. QED
    BY <1>1, Zenon DEF LoadRow, StoreRow, Goto
<1>3. QED
  BY <1>2

(* The shell's steps move the cursor by one at a time and test it before   *)
(* they move it again.                                                     *)
LEMMA ShellKeepsCursor ==
  ASSUME ScreenTypeOK, CursorNear, ShellDraws
  PROVE  cursor_row' \in Rows \union {SCREEN_HEIGHT} /\ cursor_col' \in Columns \union {SCREEN_WIDTH}
         /\ CursorNear'
<1> USE Coordinates, LocalUpdates DEF ScreenTypeOK, CursorNear, Goto, cursor
<1>1. CASE BeginPlain \/ BeginColored \/ SetColor \/ EndOfString
  BY <1>1 DEF BeginPlain, BeginColored, SetColor, EndOfString
<1>2. CASE NewlineColumn
  BY <1>2 DEF NewlineColumn
<1>3. CASE PositionRow \/ PositionColumn \/ StoreChar \/ LoadColumn
  BY <1>3 DEF PositionRow, PositionColumn, StoreChar, LoadColumn
<1>4. CASE StoreColumn
  BY <1>4 DEF StoreColumn
<1>5. CASE WrapTest \/ WrapColumn
  BY <1>5 DEF WrapTest, WrapColumn
<1>6. CASE LoadRow
  BY <1>6, RowStepCases DEF LoadRow
<1>7. CASE StoreRow
  BY <1>7, RowStepCases DEF StoreRow
<1>8. CASE ScrollTest
  BY <1>8 DEF ScrollTest, MustScroll
<1>9. CASE ScrollRow \/ ScrollColumn
  BY <1>9 DEF ScrollRow, ScrollColumn
<1>10. CASE BeginSetCursor
  BY <1>10 DEF BeginSetCursor
<1>11. CASE SetRow \/ SetColumn
  BY <1>11 DEF SetRow, SetColumn
<1>12. CASE UpdateRow \/ UpdateColumn \/ UpdateRegisters
  BY <1>12 DEF UpdateRow, UpdateColumn, UpdateRegisters, Select, Send
<1>13. QED
  BY <1>1, <1>2, <1>3, <1>4, <1>5, <1>6, <1>7, <1>8, <1>9, <1>10, <1>11, <1>12 DEF ShellDraws

(* What the shell loads into its locals is on the screen: it never loads a *)
(* row or a column between an increment and the test that follows.         *)
LEMMA ShellKeepsLocals ==
  ASSUME ScreenTypeOK, CursorNear, ShellDraws
  PROVE  local' \in Locals /\ pc' \in Steps
<1> USE Coordinates, LocalUpdates DEF ScreenTypeOK, CursorNear, Goto, cursor, Steps, Updating
<1>1. CASE BeginPlain \/ BeginColored \/ SetColor \/ EndOfString \/ NewlineColumn
  BY <1>1 DEF BeginPlain, BeginColored, SetColor, EndOfString, NewlineColumn
<1>2. CASE PositionRow \/ PositionColumn \/ StoreChar \/ LoadColumn \/ StoreColumn
  BY <1>2 DEF PositionRow, PositionColumn, StoreChar, LoadColumn, StoreColumn
<1>3. CASE LoadRow
  BY <1>3, RowStepCases DEF LoadRow
<1>4. CASE StoreRow
  BY <1>4, RowStepCases DEF StoreRow
<1>5. CASE WrapTest \/ WrapColumn \/ ScrollTest \/ ScrollRow \/ ScrollColumn
  BY <1>5 DEF WrapTest, WrapColumn, ScrollTest, ScrollRow, ScrollColumn
<1>6. CASE BeginSetCursor
  <2>1. PICK row \in Rows, col \in Columns : local' = [NoLocals EXCEPT !.row = row, !.col = col]
    BY <1>6 DEF BeginSetCursor, Rows, Columns
  <2>2. pc' = "set row"
    BY <1>6 DEF BeginSetCursor
  <2>3. QED
    BY <2>1, <2>2
<1>7. CASE SetRow \/ SetColumn
  BY <1>7 DEF SetRow, SetColumn
<1>8. CASE UpdateRow \/ UpdateColumn \/ UpdateRegisters
  BY <1>8 DEF UpdateRow, UpdateColumn, UpdateRegisters, Select, Send
<1>9. QED
  BY <1>1, <1>2, <1>3, <1>4, <1>5, <1>6, <1>7, <1>8 DEF ShellDraws

(* A call puts back the colour it found, and no other call of the shell    *)
(* begins in between.                                                      *)
LEMMA ShellKeepsColor ==
  ASSUME ScreenTypeOK, ColorKept, ShellDraws
  PROVE  current_color' \in Colors /\ ColorKept'
<1> USE ScreenAssumption DEF ScreenTypeOK, ColorKept, Goto, Locals, NoLocals, Plain, Updating, Steps
<1>0. CASE BeginPlain
  BY <1>0 DEF BeginPlain
<1>1. CASE BeginColored
  BY <1>1 DEF BeginColored
<1>2. CASE SetColor
  BY <1>2 DEF SetColor
<1>3. CASE EndOfString
  BY <1>3 DEF EndOfString
<1>4. CASE NewlineColumn \/ PositionRow \/ PositionColumn \/ StoreChar
  BY <1>4 DEF NewlineColumn, PositionRow, PositionColumn, StoreChar
<1>5. CASE LoadColumn \/ StoreColumn \/ WrapTest \/ WrapColumn
  BY <1>5 DEF LoadColumn, StoreColumn, WrapTest, WrapColumn
<1>6. CASE LoadRow
  BY <1>6, RowStepCases DEF LoadRow
<1>7. CASE StoreRow
  BY <1>7, RowStepCases DEF StoreRow
<1>8. CASE ScrollTest \/ ScrollRow \/ ScrollColumn
  BY <1>8 DEF ScrollTest, ScrollRow, ScrollColumn
<1>9. CASE BeginSetCursor \/ SetRow \/ SetColumn
  BY <1>9 DEF BeginSetCursor, SetRow, SetColumn
<1>10. CASE UpdateRow \/ UpdateColumn
  BY <1>10 DEF UpdateRow, UpdateColumn
<1>11. CASE UpdateRegisters
  BY <1>11 DEF UpdateRegisters, Select, Send
<1>12. QED
  BY <1>0, <1>1, <1>2, <1>3, <1>4, <1>5, <1>6, <1>7, <1>8, <1>9, <1>10, <1>11 DEF ShellDraws

(* StoreChar is the one step of the shell that writes, at a position it    *)
(* computed from a row and a column of the screen.                         *)
LEMMA ShellKeepsWrites ==
  ASSUME ScreenTypeOK, WritesOnScreen, ShellDraws
  PROVE  WritesOnScreen'
<1>1. local.row \in 0..SCREEN_HEIGHT /\ local.col \in 0..SCREEN_WIDTH /\ local.row # SCREEN_HEIGHT
  <2>1. local.row \in Rows /\ local.col \in Columns
    BY LocalUpdates DEF ScreenTypeOK
  <2>2. QED
    BY <2>1, VgaAssumption DEF Rows, Columns
<1>2. Position(local.row, local.col) \in 0..(SCREEN_WIDTH * (SCREEN_HEIGHT + 1) - 1)
  BY <1>1, PositionBound
<1>3. last' \in {last, Position(local.row, local.col)}
  BY DEF ShellDraws, BeginPlain, BeginColored, SetColor, EndOfString, NewlineColumn, PositionRow,
         PositionColumn, StoreChar, LoadColumn, StoreColumn, WrapTest, WrapColumn, LoadRow,
         StoreRow, ScrollTest, ScrollRow, ScrollColumn, BeginSetCursor, SetRow, SetColumn, UpdateRow,
         UpdateColumn, UpdateRegisters, Select, Send
<1>4. QED
  BY <1>2, <1>3 DEF WritesOnScreen

(* A process that draws in the middle finds the cursor at most one too     *)
(* far, and leaves it on the screen.                                       *)
LEMMA ProcessStepKeeps ==
  ASSUME DriverInv, NEW ch, ProcessDraws(ch)
  PROVE  DriverInv'
<1> DEFINE next == CursorAfter([row |-> cursor_row, col |-> cursor_col], ch)
<1>0. /\ cursor_row \in 0..SCREEN_HEIGHT /\ cursor_col \in 0..SCREEN_WIDTH
      /\ cursor_row = SCREEN_HEIGHT => cursor_col < SCREEN_WIDTH
  <2>1. /\ cursor_row \in Rows \union {SCREEN_HEIGHT} /\ cursor_col \in Columns \union {SCREEN_WIDTH}
        /\ cursor_row = SCREEN_HEIGHT => cursor_col \in Columns
    BY DEF DriverInv, ScreenTypeOK, CursorNear
  <2>2. QED
    BY <2>1, VgaAssumption DEF Rows, Columns
<1>1. next.row \in Rows /\ next.col \in Columns
  BY <1>0, CursorAfterOnScreen
<1>2. Position(cursor_row, cursor_col) \in 0..(SCREEN_WIDTH * (SCREEN_HEIGHT + 1) - 1)
  BY <1>0, PositionBound
<1>3. last' \in {last, Position(cursor_row, cursor_col)}
  BY DEF ProcessDraws
<1>4. cursor_row' = next.row /\ cursor_col' = next.col /\ UNCHANGED <<current_color, pc, local>>
  BY DEF ProcessDraws
<1> HIDE DEF next
<1>5. WritesOnScreen'
  BY <1>2, <1>3 DEF DriverInv, WritesOnScreen
<1>6. ScreenTypeOK' /\ CursorNear'
  BY <1>1, <1>4, Coordinates DEF DriverInv, ScreenTypeOK, CursorNear
<1>7. ColorKept'
  BY <1>4 DEF DriverInv, ColorKept
<1>8. QED
  BY <1>5, <1>6, <1>7 DEF DriverInv

(* The driver starts at the top left, in the default colour.               *)
LEMMA DriverInvInit == ScreenInit => DriverInv
<1> SUFFICES ASSUME ScreenInit PROVE DriverInv
  OBVIOUS
<1>1. NoLocals \in Locals /\ NoLocals.color = Plain
  BY Coordinates DEF NoLocals, Locals
<1>2. ScreenTypeOK /\ CursorNear
  BY <1>1, Coordinates, ScreenAssumption DEF ScreenInit, ScreenTypeOK, CursorNear, Steps
<1>3. ColorKept
  BY <1>1 DEF ScreenInit, ColorKept
<1>4. WritesOnScreen
  <2>1. SCREEN_WIDTH * (SCREEN_HEIGHT + 1) \in Nat /\ SCREEN_WIDTH * (SCREEN_HEIGHT + 1) > 0
    BY VgaAssumption
  <2>2. QED
    BY <2>1 DEF ScreenInit, WritesOnScreen
<1>5. QED
  BY <1>2, <1>3, <1>4 DEF DriverInv

(* The driver's invariant holds however the characters of the processes    *)
(* fall between the loads and stores of screen_putchar_internal,           *)
(* screen_set_cursor and the colour calls of the shell.                    *)
THEOREM DriverInvariance == ScreenSpec => []DriverInv
<1>1. ScreenInit => DriverInv
  BY DriverInvInit
<1>2. DriverInv /\ [ScreenNext]_driverVars => DriverInv'
  <2> SUFFICES ASSUME DriverInv, [ScreenNext]_driverVars PROVE DriverInv'
    OBVIOUS
  <2>1. CASE ShellDraws
    BY <2>1, ShellKeepsCursor, ShellKeepsLocals, ShellKeepsColor, ShellKeepsWrites
    DEF DriverInv, ScreenTypeOK
  <2>2. CASE \E ch \in {Printing, Newline} : ProcessDraws(ch)
    BY <2>2, ProcessStepKeeps
  <2>3. CASE UNCHANGED driverVars
    BY <2>3 DEF driverVars, cursor, DriverInv, ScreenTypeOK, CursorNear, ColorKept, WritesOnScreen
  <2>4. QED
    BY <2>1, <2>2, <2>3 DEF ScreenNext
<1>3. QED
  BY <1>1, <1>2, PTL DEF ScreenSpec

(* After every call of the shell the cursor is on the screen, whatever the *)
(* processes drew while screen.c worked on cursor_row and cursor_col.      *)
THEOREM CursorStaysOnScreen == ScreenSpec => []CursorOnScreen
<1>1. DriverInv => CursorOnScreen
  BY DEF DriverInv, ScreenTypeOK, CursorNear, CursorOnScreen, Rows, Columns
<1>2. QED
  BY <1>1, DriverInvariance, PTL

(* screen_putchar_internal never writes further than the row behind the    *)
(* screen.                                                                 *)
THEOREM WritesStayNear == ScreenSpec => []WritesOnScreen
<1>1. DriverInv => WritesOnScreen
  BY DEF DriverInv
<1>2. QED
  BY <1>1, DriverInvariance, PTL

(* Between two calls of the shell current_color is the default colour.     *)
THEOREM ColorComesBack == ScreenSpec => []ColorRestored
<1>1. DriverInv => ColorRestored
  BY DEF DriverInv, ColorKept, ColorRestored
<1>2. QED
  BY <1>1, DriverInvariance, PTL

-----------------------------------------------------------------------------
(* The position that screen_update_cursor sends.  While no process has     *)
(* drawn since the shell loaded the cursor, its locals are the cursor and  *)
(* the registers hold what it has sent so far.                             *)

Sending == {"select high", "send high", "select low", "send low"}
At == Position(cursor_row, cursor_col)

SentInv ==
  /\ vga.selected \in Registers
  /\ vga = [selected |-> vga.selected, high |-> vga.high, low |-> vga.low]
  /\ pc = "idle" /\ ~overtaken => vga.high = High(At) /\ vga.low = Low(At)
  /\ ~overtaken /\ pc \in {"update column"} \union Sending => local.row = cursor_row
  /\ ~overtaken /\ pc \in Sending => local.col = cursor_col
  /\ ~overtaken /\ pc = "send high" => vga.selected = "high"
  /\ ~overtaken /\ pc \in {"select low", "send low"} => vga.high = High(At)
  /\ ~overtaken /\ pc = "send low" => vga.selected = "low"

(* The two bytes of a position give the position back.                     *)
LEMMA BytesOfPosition ==
  ASSUME NEW position \in Nat
  PROVE  High(position) * ByteSize + Low(position) = position
  BY ScreenAssumption DEF High, Low

(* The steps of the shell outside screen_update_cursor do not touch the    *)
(* registers, and lead neither into the call nor back to the prompt.       *)
LEMMA ShellKeepsSent ==
  ASSUME ScreenTypeOK, SentInv, ShellDraws
  PROVE  SentInv'
<1> USE DEF SentInv, Goto, cursor, Sending, At
<1>1. CASE BeginPlain \/ BeginColored \/ SetColor \/ EndOfString
  BY <1>1 DEF BeginPlain, BeginColored, SetColor, EndOfString
<1>2. CASE NewlineColumn \/ PositionRow \/ PositionColumn \/ StoreChar
  BY <1>2 DEF NewlineColumn, PositionRow, PositionColumn, StoreChar
<1>3. CASE LoadColumn \/ StoreColumn \/ WrapTest \/ WrapColumn
  BY <1>3 DEF LoadColumn, StoreColumn, WrapTest, WrapColumn
<1>4. CASE LoadRow
  BY <1>4, RowStepCases DEF LoadRow
<1>5. CASE StoreRow
  BY <1>5, RowStepCases DEF StoreRow
<1>6. CASE ScrollTest \/ ScrollRow \/ ScrollColumn
  BY <1>6 DEF ScrollTest, ScrollRow, ScrollColumn
<1>7. CASE BeginSetCursor \/ SetRow \/ SetColumn
  BY <1>7 DEF BeginSetCursor, SetRow, SetColumn
<1>8. CASE UpdateRow
  BY <1>8 DEF UpdateRow, ScreenTypeOK, Locals
<1>9. CASE UpdateColumn
  BY <1>9 DEF UpdateColumn, ScreenTypeOK, Locals
<1>10. CASE UpdateRegisters
  <2> DEFINE position == Position(local.row, local.col)
  <2>1. CASE Select("high", "select high", "send high")
    BY <2>1 DEF Select, Registers
  <2>2. CASE Send(High(position), "send high", "select low")
    BY <2>2 DEF Send, Registers
  <2>3. CASE Select("low", "select low", "send low")
    BY <2>3 DEF Select, Registers
  <2>4. CASE Send(Low(position), "send low", "idle")
    BY <2>4 DEF Send, Registers
  <2>5. QED
    BY <1>10, <2>1, <2>2, <2>3, <2>4 DEF UpdateRegisters
<1>11. QED
  BY <1>1, <1>2, <1>3, <1>4, <1>5, <1>6, <1>7, <1>8, <1>9, <1>10 DEF ShellDraws

(* The cursor that is shown is where the next character goes, unless a     *)
(* process drew inside screen_update_cursor.                               *)
THEOREM CursorIsShown == ScreenSpec => []CursorShown
<1>1. ScreenInit => SentInv
  <2>1. ASSUME ScreenInit PROVE High(At) = 0 /\ Low(At) = 0
    BY <2>1, VgaAssumption, ScreenAssumption DEF ScreenInit, High, Low, At, Position
  <2>2. ASSUME ScreenInit PROVE pc = "idle" /\ vga = [selected |-> "low", high |-> 0, low |-> 0]
    BY <2>2 DEF ScreenInit
  <2>3. QED
    BY <2>1, <2>2 DEF SentInv, Registers, Sending
<1>2. DriverInv /\ SentInv /\ [ScreenNext]_driverVars => SentInv'
  <2> SUFFICES ASSUME DriverInv, SentInv, [ScreenNext]_driverVars PROVE SentInv'
    OBVIOUS
  <2>1. CASE ShellDraws
    BY <2>1, ShellKeepsSent DEF DriverInv
  <2>2. CASE \E ch \in {Printing, Newline} : ProcessDraws(ch)
    <3>1. PICK ch : ProcessDraws(ch)
      BY <2>2
    <3>2. vga' = [selected |-> "low", high |-> High(At'), low |-> Low(At')]
      BY <3>1 DEF ProcessDraws, At
    <3>3. pc' = pc /\ overtaken' = (overtaken \/ pc \in Updating)
      BY <3>1 DEF ProcessDraws
    <3> HIDE DEF At
    <3>4. QED
      BY <3>2, <3>3 DEF SentInv, Registers, Updating, Sending
  <2>3. CASE UNCHANGED driverVars
    BY <2>3 DEF driverVars, cursor, SentInv, At
  <2>4. QED
    BY <2>1, <2>2, <2>3 DEF ScreenNext
<1>3. DriverInv /\ SentInv => CursorShown
  <2> SUFFICES ASSUME DriverInv, SentInv PROVE CursorShown
    OBVIOUS
  <2>1. cursor_row \in Nat /\ cursor_col \in Nat
    BY VgaAssumption DEF DriverInv, ScreenTypeOK, Rows, Columns
  <2>2. At \in Nat
    BY <2>1, VgaAssumption DEF At, Position
  <2>3. High(At) * ByteSize + Low(At) = At
    BY <2>2, BytesOfPosition
  <2>4. QED
    BY <2>3 DEF SentInv, CursorShown, At
<1>4. QED
  BY <1>1, <1>2, <1>3, DriverInvariance, PTL DEF ScreenSpec

-----------------------------------------------------------------------------
(* The line editor.                                                        *)

(* The line's characters are typed or completed ones, never the            *)
(* terminator; what lies behind them may be anything.                      *)
LineOfChars == \A i \in 0..(length - 1) : command_buffer[i] \in Chars

(* The inductive invariant of module Shell.                                *)
ShellInv ==
  /\ TypeOK
  /\ command_history \in Seq(Seq(Chars))
  /\ LineOfChars

(* The constants, as the proofs use them.                                  *)
LEMMA ShellSizes ==
  /\ MAX_CMD_LENGTH \in Nat \ {0} /\ MAX_HISTORY \in Nat \ {0}
  /\ Space \in Chars /\ NUL \notin Chars
  /\ DOMAIN available_commands = 1..Len(available_commands) /\ Len(available_commands) \in Nat
  /\ \A i \in DOMAIN available_commands :
       /\ available_commands[i] \in Seq(Chars)
       /\ Len(available_commands[i]) \in Nat
       /\ Len(available_commands[i]) < MAX_CMD_LENGTH
<1>1. available_commands \in Seq(Seq(Chars))
  BY ShellAssumption
<1>2. /\ DOMAIN available_commands = 1..Len(available_commands) /\ Len(available_commands) \in Nat
      /\ \A i \in DOMAIN available_commands : available_commands[i] \in Seq(Chars)
  BY <1>1
<1> QED
  BY <1>2, ShellAssumption

(* The types, one by one.                                                  *)
LEMMA ShellTypes ==
  ASSUME ShellInv
  PROVE  /\ command_buffer \in [Cells -> Chars \union {NUL}]
         /\ length \in Nat /\ length <= MAX_CMD_LENGTH - 1
         /\ cursor_pos \in Nat /\ cursor_pos <= length
         /\ command_history \in Seq(Seq(Chars)) /\ Len(command_history) \in 0..MAX_HISTORY
         /\ \A i \in 0..(length - 1) : i \in Cells /\ command_buffer[i] \in Chars
  BY ShellSizes DEF ShellInv, TypeOK, LineOfChars, Cells

(* The line as a sequence.                                                 *)
LEMMA TextIs ==
  ASSUME ShellInv
  PROVE  /\ Text \in Seq(Chars) /\ Len(Text) = length
         /\ \A p \in 1..length : Text[p] = command_buffer[p - 1]
<1>1. length \in Nat
  BY ShellTypes
<1>2. \A p \in 1..length : command_buffer[p - 1] \in Chars
  <2>1. \A p \in 1..length : p - 1 \in 0..(length - 1)
    BY <1>1
  <2> QED
    BY <2>1, ShellTypes
<1>3. PICK t : t = [p \in 1..length |-> command_buffer[p - 1]]
  OBVIOUS
<1>4. t \in [1..length -> Chars]
  BY <1>2, <1>3
<1>5. t \in Seq(Chars) /\ Len(t) = length
  BY <1>1, <1>4
<1> QED
  BY <1>3, <1>5 DEF Text

(* The same after a step.                                                  *)
LEMMA TextAfter ==
  ASSUME ShellInv'
  PROVE  /\ Text' \in Seq(Chars) /\ Len(Text') = length' /\ length' \in Nat
         /\ \A p \in 1..length' : Text'[p] = command_buffer'[p - 1]
<1>1. PICK n : n = length'
  OBVIOUS
<1>2. PICK b : b = command_buffer'
  OBVIOUS
<1>3. /\ n \in Nat /\ n <= MAX_CMD_LENGTH - 1 /\ b \in [Cells -> Chars \union {NUL}]
      /\ \A i \in 0..(n - 1) : b[i] \in Chars
  <2>1. n \in 0..(MAX_CMD_LENGTH - 1) /\ b \in [Cells -> Chars \union {NUL}]
    BY <1>1, <1>2 DEF ShellInv, TypeOK
  <2>2. \A i \in 0..(n - 1) : b[i] \in Chars
    BY <1>1, <1>2 DEF ShellInv, LineOfChars
  <2> QED
    BY <2>1, <2>2, ShellSizes
<1>4. \A p \in 1..n : b[p - 1] \in Chars
  <2>1. \A p \in 1..n : p - 1 \in 0..(n - 1)
    BY <1>3
  <2> QED
    BY <1>3, <2>1
<1>5. PICK t : t = [p \in 1..n |-> b[p - 1]]
  OBVIOUS
<1>6. t \in [1..n -> Chars]
  BY <1>4, <1>5
<1>7. t \in Seq(Chars) /\ Len(t) = n
  BY <1>3, <1>6
<1> QED
  BY <1>1, <1>2, <1>3, <1>5, <1>7 DEF Text

(* A typed character: the ones behind the cursor move on.                  *)
LEMMA InsertStep ==
  ASSUME ShellInv, NEW ch \in Chars, Insert(ch)
  PROVE  ShellInv' /\ Line!Type(ch)
<1>1. PICK b, n, c : b = command_buffer /\ n = length /\ c = cursor_pos
  OBVIOUS
<1>2. PICK b2 : b2 = command_buffer'
  OBVIOUS
<1>3. /\ b \in [Cells -> Chars \union {NUL}] /\ n \in Nat /\ c \in Nat /\ c <= n
      /\ MAX_CMD_LENGTH \in Nat /\ \A i \in 0..(n - 1) : i \in Cells /\ b[i] \in Chars
  BY <1>1, ShellTypes, ShellSizes
<1>4. n < MAX_CMD_LENGTH - 1 /\ length' = n + 1 /\ cursor_pos' = c + 1 /\ command_history' = command_history
  BY <1>1 DEF Insert, Roomy
<1>5. b2 = [i \in Cells |-> IF i = c THEN ch ELSE IF i \in (c + 1)..n THEN b[i - 1] ELSE b[i]]
  BY <1>1, <1>2 DEF Insert
<1>6. \A i \in (c + 1)..n : i \in Cells /\ i - 1 \in 0..(n - 1)
  BY <1>3, <1>4 DEF Cells
<1>7. b2 \in [Cells -> Chars \union {NUL}]
  BY <1>3, <1>5, <1>6
<1>8. /\ \A i \in 0..(c - 1) : b2[i] = b[i]
      /\ b2[c] = ch
      /\ \A i \in (c + 1)..n : b2[i] = b[i - 1]
  <2>1. /\ \A i \in 0..(c - 1) : i \in Cells /\ i # c /\ i \notin (c + 1)..n
        /\ c \in Cells /\ \A i \in (c + 1)..n : i # c
    BY <1>3, <1>4 DEF Cells
  <2> QED
    BY <1>5, <1>6, <2>1
<1>9. \A i \in 0..n : b2[i] \in Chars
  <2>1. \A i \in 0..n : i \in 0..(c - 1) \/ i = c \/ i \in (c + 1)..n
    BY <1>3
  <2>2. \A i \in 0..(c - 1) : i \in 0..(n - 1)
    BY <1>3
  <2> QED
    BY <1>3, <1>6, <1>8, <2>1, <2>2
<1>10. ShellInv'
  <2>1. length' \in 0..(MAX_CMD_LENGTH - 1) /\ cursor_pos' \in 0..length' /\ length' - 1 = n
    BY <1>3, <1>4
  <2>2. /\ command_history' \in Seq(Seq(Chars))
        /\ Len(command_history') \in 0..MAX_HISTORY
    BY <1>4, ShellTypes
  <2> QED
    BY <1>2, <1>7, <1>9, <2>1, <2>2 DEF ShellInv, TypeOK, LineOfChars
<1>11. PICK t, u : t = Text /\ u = Text'
  OBVIOUS
<1>12. t \in Seq(Chars) /\ Len(t) = n /\ \A p \in 1..n : t[p] = b[p - 1]
  BY <1>1, <1>11, TextIs
<1>13. u \in Seq(Chars) /\ Len(u) = n + 1 /\ \A p \in 1..(n + 1) : u[p] = b2[p - 1]
  BY <1>2, <1>4, <1>10, <1>11, TextAfter
<1>14. u = SubSeq(t, 1, c) \o <<ch>> \o SubSeq(t, c + 1, n)
  <2>1. u[c + 1] = ch
    <3>1. c + 1 \in 1..(n + 1) /\ (c + 1) - 1 = c
      BY <1>3
    <3> QED
      BY <1>8, <1>13, <3>1
  <2>2. ASSUME NEW p \in 1..c PROVE u[p] = t[p]
    <3>1. p \in 1..n /\ p \in 1..(n + 1) /\ p - 1 \in 0..(c - 1)
      BY <1>3
    <3> QED
      BY <1>8, <1>12, <1>13, <3>1
  <2>3. ASSUME NEW p \in (c + 1)..n PROVE u[p + 1] = t[p]
    <3>1. p \in 1..n /\ p + 1 \in 1..(n + 1) /\ (p + 1) - 1 = p
      BY <1>3
    <3> QED
      BY <1>8, <1>12, <1>13, <3>1
  <2>4. c \in 0..Len(t)
    BY <1>3, <1>12
  <2> QED
    BY <1>12, <1>13, <2>1, <2>2, <2>3, <2>4, Inserted
<1>15. u = Line!InsertAt(t, c + 1, ch)
  <2>1. (c + 1) - 1 = c
    BY <1>3
  <2> QED
    BY <1>12, <1>14, <2>1 DEF Line!InsertAt
<1> QED
  BY <1>1, <1>4, <1>10, <1>11, <1>12, <1>15 DEF Line!Type, Text

(* A character erased at position p: the ones behind it move back.         *)
LEMMA EraseStep ==
  ASSUME ShellInv, NEW p \in 1..length, CloseGap(p - 1), length' = length - 1,
         cursor_pos' = p - 1, UNCHANGED command_history
  PROVE  ShellInv' /\ Line!Erase(p)
<1>1. PICK b, n : b = command_buffer /\ n = length
  OBVIOUS
<1>2. PICK b2 : b2 = command_buffer'
  OBVIOUS
<1>3. /\ b \in [Cells -> Chars \union {NUL}] /\ n \in Nat /\ p \in Nat /\ p >= 1 /\ p <= n
      /\ MAX_CMD_LENGTH \in Nat /\ n <= MAX_CMD_LENGTH - 1
      /\ \A i \in 0..(n - 1) : i \in Cells /\ b[i] \in Chars
  BY <1>1, ShellTypes, ShellSizes
<1>4. b2 = [i \in Cells |-> IF i \in (p - 1)..(n - 2) THEN b[i + 1] ELSE b[i]]
  BY <1>1, <1>2 DEF CloseGap
<1>5. \A i \in (p - 1)..(n - 2) : i \in Cells /\ i + 1 \in 0..(n - 1)
  BY <1>3 DEF Cells
<1>6. b2 \in [Cells -> Chars \union {NUL}]
  BY <1>3, <1>4, <1>5
<1>7. /\ \A i \in 0..(p - 2) : b2[i] = b[i]
      /\ \A i \in (p - 1)..(n - 2) : b2[i] = b[i + 1]
  <2>1. \A i \in 0..(p - 2) : i \in Cells /\ i \notin (p - 1)..(n - 2)
    BY <1>3 DEF Cells
  <2> QED
    BY <1>4, <1>5, <2>1
<1>8. \A i \in 0..(n - 2) : b2[i] \in Chars
  <2>1. \A i \in 0..(n - 2) : i \in 0..(p - 2) \/ i \in (p - 1)..(n - 2)
    BY <1>3
  <2>2. \A i \in 0..(p - 2) : i \in 0..(n - 1)
    BY <1>3
  <2> QED
    BY <1>3, <1>5, <1>7, <2>1, <2>2
<1>9. ShellInv'
  <2>1. length' \in 0..(MAX_CMD_LENGTH - 1) /\ cursor_pos' \in 0..length' /\ length' - 1 = n - 2
    BY <1>1, <1>3
  <2>2. /\ command_history' \in Seq(Seq(Chars))
        /\ Len(command_history') \in 0..MAX_HISTORY
    BY ShellTypes
  <2> QED
    BY <1>2, <1>6, <1>8, <2>1, <2>2 DEF ShellInv, TypeOK, LineOfChars
<1>10. PICK t, u : t = Text /\ u = Text'
  OBVIOUS
<1>11. t \in Seq(Chars) /\ Len(t) = n /\ \A q \in 1..n : t[q] = b[q - 1]
  BY <1>1, <1>10, TextIs
<1>12. u \in Seq(Chars) /\ Len(u) = n - 1 /\ \A q \in 1..(n - 1) : u[q] = b2[q - 1]
  BY <1>1, <1>2, <1>9, <1>10, TextAfter
<1>13. u = SubSeq(t, 1, p - 1) \o SubSeq(t, p + 1, n)
  <2>1. ASSUME NEW q \in 1..(p - 1) PROVE u[q] = t[q]
    <3>1. q \in 1..n /\ q \in 1..(n - 1) /\ q - 1 \in 0..(p - 2)
      BY <1>3
    <3> QED
      BY <1>7, <1>11, <1>12, <3>1
  <2>2. ASSUME NEW q \in p..(n - 1) PROVE u[q] = t[q + 1]
    <3>1. /\ q + 1 \in 1..n /\ q \in 1..(n - 1) /\ q - 1 \in (p - 1)..(n - 2)
          /\ (q + 1) - 1 = q /\ (q - 1) + 1 = q
      BY <1>3
    <3> QED
      BY <1>7, <1>11, <1>12, <3>1
  <2>3. p \in 1..Len(t) /\ Len(u) = Len(t) - 1
    BY <1>3, <1>11, <1>12
  <2> QED
    BY <1>11, <1>12, <2>1, <2>2, <2>3, Removed
<1>14. u = Line!RemoveAt(t, p)
  BY <1>11, <1>13 DEF Line!RemoveAt
<1> QED
  BY <1>1, <1>9, <1>10, <1>11, <1>14 DEF Line!Erase, Text

(* Backspace and Delete erase the character before and at the cursor.      *)
LEMMA BackspaceStep ==
  ASSUME ShellInv, Backspace
  PROVE  ShellInv' /\ Line!Erase(cursor_pos)
<1>1. PICK p : p = cursor_pos
  OBVIOUS
<1>2. p \in 1..length
  BY <1>1, ShellTypes DEF Backspace
<1>3. /\ CloseGap(p - 1) /\ length' = length - 1 /\ cursor_pos' = p - 1
      /\ UNCHANGED command_history
  BY <1>1 DEF Backspace
<1>4. ShellInv' /\ Line!Erase(p)
  BY <1>2, <1>3, EraseStep
<1> QED
  BY <1>1, <1>4 DEF Line!Erase

(* Delete.                                                                 *)
LEMMA DeleteStep ==
  ASSUME ShellInv, Delete
  PROVE  ShellInv' /\ Line!Erase(cursor_pos + 1)
<1>1. PICK p : p = cursor_pos + 1
  OBVIOUS
<1>2. p \in 1..length /\ p - 1 = cursor_pos
  BY <1>1, ShellTypes DEF Delete
<1>3. /\ CloseGap(p - 1) /\ length' = length - 1 /\ cursor_pos' = p - 1
      /\ UNCHANGED command_history
  BY <1>2 DEF Delete
<1>4. ShellInv' /\ Line!Erase(p)
  BY <1>2, <1>3, EraseStep
<1> QED
  BY <1>1, <1>4 DEF Line!Erase

(* The cursor keys stay on the line.                                       *)
LEMMA MoveStep ==
  ASSUME ShellInv, NEW p \in 0..length, MoveTo(p)
  PROVE  ShellInv' /\ Line!Move
<1>1. /\ cursor_pos' = p /\ command_buffer' = command_buffer /\ length' = length
      /\ command_history' = command_history
  BY DEF MoveTo
<1>2. ShellInv'
  BY <1>1 DEF ShellInv, TypeOK, LineOfChars
<1>3. Len(Text) = length /\ Text' = Text
  BY <1>1, TextIs DEF Text
<1> QED
  BY <1>1, <1>2, <1>3 DEF Line!Move, Text

(* Left, Right, Home and End.                                              *)
LEMMA CursorKeys ==
  ASSUME ShellInv, Left \/ Right \/ Home \/ End
  PROVE  ShellInv' /\ Line!Move
<1>1. PICK p \in 0..length : MoveTo(p)
  <2>1. CASE Left
    <3>1. cursor_pos - 1 \in 0..length
      BY <2>1, ShellTypes DEF Left
    <3> QED
      BY <2>1, <3>1 DEF Left
  <2>2. CASE Right
    <3>1. cursor_pos + 1 \in 0..length
      BY <2>2, ShellTypes DEF Right
    <3> QED
      BY <2>2, <3>1 DEF Right
  <2>3. 0 \in 0..length /\ length \in 0..length
    BY ShellTypes
  <2> QED
    BY <2>1, <2>2, <2>3 DEF Home, End
<1> QED
  BY <1>1, MoveStep

-----------------------------------------------------------------------------
(* Tab completion.                                                         *)

(* A completion that leaves new as the line.                               *)
LEMMA CompletedLine ==
  ASSUME ShellInv, NEW new \in Seq(Chars), Len(new) <= MAX_CMD_LENGTH - 1,
         Completed(new, Len(new))
  PROVE  ShellInv' /\ Text' = new /\ cursor_pos' = Len(new) /\ command_history' = command_history
<1>1. PICK b, b2, n : b = command_buffer /\ b2 = command_buffer' /\ n = Len(new)
  OBVIOUS
<1>2. /\ b \in [Cells -> Chars \union {NUL}] /\ n \in Nat /\ n <= MAX_CMD_LENGTH - 1
      /\ \A i \in 1..n : new[i] \in Chars
      /\ MAX_CMD_LENGTH \in Nat
  BY <1>1, ShellTypes, ShellSizes
<1>3. /\ b2 = [i \in Cells |-> IF i < n THEN new[i + 1] ELSE b[i]]
      /\ length' = n /\ cursor_pos' = n /\ command_history' = command_history
  BY <1>1 DEF Completed
<1>4. \A i \in 0..(n - 1) : i \in Cells /\ i < n /\ i + 1 \in 1..n
  BY <1>2 DEF Cells
<1>5. \A i \in Cells : i < n => i + 1 \in 1..n
  BY <1>2 DEF Cells
<1>6. b2 \in [Cells -> Chars \union {NUL}]
  BY <1>2, <1>3, <1>5
<1>7. \A i \in 0..(n - 1) : b2[i] = new[i + 1] /\ b2[i] \in Chars
  BY <1>2, <1>3, <1>4
<1>8. ShellInv'
  <2>1. length' \in 0..(MAX_CMD_LENGTH - 1) /\ cursor_pos' \in 0..length'
    BY <1>2, <1>3
  <2>2. command_history' \in Seq(Seq(Chars)) /\ Len(command_history') \in 0..MAX_HISTORY
    BY <1>3, ShellTypes
  <2> QED
    BY <1>1, <1>3, <1>6, <1>7, <2>1, <2>2 DEF ShellInv, TypeOK, LineOfChars
<1>9. PICK u : u = Text'
  OBVIOUS
<1>10. u \in Seq(Chars) /\ Len(u) = n /\ \A p \in 1..n : u[p] = b2[p - 1]
  BY <1>1, <1>3, <1>8, <1>9, TextAfter
<1>11. \A p \in 1..n : u[p] = new[p]
  <2>1. \A p \in 1..n : p - 1 \in 0..(n - 1) /\ (p - 1) + 1 = p
    BY <1>2
  <2> QED
    BY <1>7, <1>10, <2>1
<1>12. u = new
  BY <1>1, <1>10, <1>11, SeqEqual
<1> QED
  BY <1>1, <1>3, <1>8, <1>9, <1>12

(* One that leaves the line and moves to its end.                          *)
LEMMA CompletedNothing ==
  ASSUME ShellInv, Completed(<<>>, length)
  PROVE  ShellInv' /\ Line!Move
<1>1. /\ length' = length /\ cursor_pos' = length /\ command_history' = command_history
      /\ command_buffer' = [i \in Cells |-> IF i < 0 THEN <<>>[i + 1] ELSE command_buffer[i]]
  BY DEF Completed
<1>2. \A i \in Cells : ~(i < 0)
  BY ShellSizes DEF Cells
<1>3. command_buffer' = command_buffer
  BY <1>1, <1>2, ShellTypes
<1>4. length \in 0..length
  BY ShellTypes
<1>5. ShellInv'
  BY <1>1, <1>3, <1>4 DEF ShellInv, TypeOK, LineOfChars
<1>6. Len(Text) = length
  BY TextIs
<1> QED
  BY <1>1, <1>3, <1>4, <1>5, <1>6 DEF Line!Move, Text

(* The buffer as str_starts_with reads it ends at its first terminator.    *)
Ends(n) ==
  /\ n \in Cells /\ command_buffer[n] = NUL
  /\ \A j \in 0..(n - 1) : command_buffer[j] # NUL

(* It ends in one place.                                                   *)
LEMMA EndsOnce ==
  ASSUME NEW m, NEW n, Ends(m), Ends(n)
  PROVE  m = n
<1>1. m \in Nat /\ n \in Nat
  BY ShellSizes DEF Ends, Cells
<1>2. ~(m < n) /\ ~(n < m)
  <2>1. m < n => m \in 0..(n - 1)
    BY <1>1
  <2>2. n < m => n \in 0..(m - 1)
    BY <1>1
  <2> QED
    BY <2>1, <2>2 DEF Ends
<1> QED
  BY <1>1, <1>2

(* A command matches if the string in the buffer begins it; the string is  *)
(* at least as long as the line.                                           *)
LEMMA MatchIs ==
  ASSUME ShellInv, NEW i \in Matching
  PROVE  /\ i \in DOMAIN available_commands
         /\ \E n \in Nat :
              /\ Ends(n) /\ length <= n /\ n <= Len(available_commands[i])
              /\ \A j \in 0..(n - 1) : command_buffer[j] = available_commands[i][j + 1]
<1>1. i \in DOMAIN available_commands /\ StartsWith(available_commands[i])
  BY DEF Matching
<1>2. PICK c : c = available_commands[i]
  OBVIOUS
<1>3. c \in Seq(Chars) /\ Len(c) \in Nat /\ Len(c) < MAX_CMD_LENGTH
  BY <1>1, <1>2, ShellSizes
<1>4. PICK n \in 0..Len(c) : /\ command_buffer[n] = NUL
                             /\ \A j \in 0..(n - 1) : command_buffer[j] = c[j + 1]
  BY <1>1, <1>2 DEF StartsWith
<1>5. n \in Nat /\ n <= Len(c) /\ n \in Cells
  BY <1>3, <1>4, ShellSizes DEF Cells
<1>6. \A j \in 0..(n - 1) : command_buffer[j] # NUL
  <2>1. \A j \in 0..(n - 1) : j + 1 \in 1..Len(c)
    BY <1>3, <1>5
  <2>2. \A j \in 0..(n - 1) : c[j + 1] \in Chars
    BY <1>3, <2>1
  <2> QED
    BY <1>4, <2>2, ShellSizes
<1>7. length <= n
  <2>1. length \in Nat
    BY ShellTypes
  <2>2. n < length => n \in 0..(length - 1)
    BY <1>5, <2>1
  <2>3. ~(n < length)
    BY <1>4, <2>2, ShellTypes, ShellSizes
  <2> QED
    BY <1>5, <2>1, <2>3
<1> QED
  BY <1>1, <1>2, <1>4, <1>5, <1>6, <1>7 DEF Ends

(* One sequence begins another, position by position.                      *)
LEMMA PrefixIs ==
  ASSUME NEW s \in Seq(Chars), NEW t \in Seq(Chars)
  PROVE  Line!IsPrefix(s, t) <=> (Len(s) <= Len(t) /\ \A p \in 1..Len(s) : s[p] = t[p])
<1>1. ASSUME Len(s) <= Len(t), \A p \in 1..Len(s) : s[p] = t[p] PROVE Line!IsPrefix(s, t)
  BY <1>1, Begins DEF Line!IsPrefix
<1>2. ASSUME Line!IsPrefix(s, t) PROVE Len(s) <= Len(t) /\ \A p \in 1..Len(s) : s[p] = t[p]
  <2>1. PICK n, a, b : n = Len(s) /\ a = SubSeq(s, 1, n) /\ b = SubSeq(t, 1, n)
    OBVIOUS
  <2>2. n \in Nat /\ Len(t) \in Nat /\ n <= Len(t) /\ a = b
    BY <1>2, <2>1 DEF Line!IsPrefix
  <2>3. /\ 1 \in 1..(Len(s) + 1) /\ n \in (1 - 1)..Len(s)
        /\ 1 \in 1..(Len(t) + 1) /\ n \in (1 - 1)..Len(t)
        /\ n - 1 + 1 = n /\ \A p \in 1..n : 1 + p - 1 = p
    BY <2>1, <2>2
  <2>4. \A p \in 1..(n - 1 + 1) : a[p] = s[1 + p - 1]
    BY <2>1, <2>3, Part
  <2>5. \A p \in 1..(n - 1 + 1) : b[p] = t[1 + p - 1]
    BY <2>1, <2>3, Part
  <2> QED
    BY <2>1, <2>2, <2>3, <2>4, <2>5
<1> QED
  BY <1>1, <1>2

(* What lies behind the line, and the whole string Tab reads.              *)
Behind == [p \in 1..(Terminator - length) |-> command_buffer[length + p - 1]]
Seen == Text \o Behind

(* That string ends at the first terminator, which is never in the line,   *)
(* or runs through the whole buffer.                                       *)
LEMMA TerminatorIs ==
  ASSUME ShellInv
  PROVE  /\ Terminator \in Nat /\ length <= Terminator /\ Terminator <= MAX_CMD_LENGTH
         /\ Terminator < MAX_CMD_LENGTH => Ends(Terminator)
         /\ \A j \in 0..(Terminator - 1) : command_buffer[j] \in Chars
<1>1. PICK ends : ends = {n \in length..(MAX_CMD_LENGTH - 1) : command_buffer[n] = NUL}
  OBVIOUS
<1>2. PICK e : e = Terminator
  OBVIOUS
<1>3. length \in Nat /\ MAX_CMD_LENGTH \in Nat /\ length <= MAX_CMD_LENGTH - 1
  BY ShellTypes, ShellSizes
<1>4. /\ e \in Nat /\ length <= e /\ e <= MAX_CMD_LENGTH
      /\ e < MAX_CMD_LENGTH => command_buffer[e] = NUL
      /\ \A n \in ends : e <= n
  <2>1. CASE ends = {}
    <3>1. e = MAX_CMD_LENGTH
      BY <1>1, <1>2, <2>1 DEF Terminator
    <3> QED
      BY <1>3, <2>1, <3>1
  <2>2. CASE ends # {}
    <3>1. e = Min(ends)
      BY <1>1, <1>2, <2>2 DEF Terminator
    <3>2. ends \subseteq Nat
      BY <1>1, <1>3
    <3>3. e \in ends /\ \A n \in ends : e <= n
      BY <2>2, <3>1, <3>2, LeastIs
    <3> QED
      BY <1>1, <1>3, <3>3
  <2> QED
    BY <2>1, <2>2
<1>5. \A j \in 0..(e - 1) : command_buffer[j] \in Chars
  <2> SUFFICES ASSUME NEW j \in 0..(e - 1) PROVE command_buffer[j] \in Chars
    OBVIOUS
  <2>1. j \in Cells
    BY <1>3, <1>4 DEF Cells
  <2>2. CASE j < length
    <3>1. j \in 0..(length - 1)
      BY <1>3, <2>2
    <3> QED
      BY <3>1, ShellTypes
  <2>3. CASE ~(j < length)
    <3>1. j \in length..(MAX_CMD_LENGTH - 1) /\ ~(e <= j)
      BY <1>3, <1>4, <2>3
    <3>2. command_buffer[j] # NUL
      BY <1>1, <1>4, <3>1
    <3> QED
      BY <2>1, <3>2, ShellTypes
  <2> QED
    BY <2>2, <2>3
<1>6. e < MAX_CMD_LENGTH => Ends(e)
  <2>1. e < MAX_CMD_LENGTH => e \in Cells
    BY <1>3, <1>4 DEF Cells
  <2>2. \A j \in 0..(e - 1) : command_buffer[j] # NUL
    BY <1>5, ShellSizes
  <2> QED
    BY <1>4, <2>1, <2>2 DEF Ends
<1> QED
  BY <1>2, <1>4, <1>5, <1>6

(* It is the start of the buffer.                                          *)
LEMMA SeenIs ==
  ASSUME ShellInv
  PROVE  /\ Seen \in Seq(Chars) /\ Len(Seen) = Terminator
         /\ \A p \in 1..Terminator : Seen[p] = command_buffer[p - 1]
<1>1. PICK e, n, t : e = Terminator /\ n = length /\ t = Text
  OBVIOUS
<1>2. /\ e \in Nat /\ n \in Nat /\ n <= e
      /\ \A j \in 0..(e - 1) : command_buffer[j] \in Chars
  BY <1>1, TerminatorIs, ShellTypes
<1>3. t \in Seq(Chars) /\ Len(t) = n /\ \A p \in 1..n : t[p] = command_buffer[p - 1]
  BY <1>1, TextIs
<1>4. PICK u : u = [p \in 1..(e - n) |-> command_buffer[n + p - 1]]
  OBVIOUS
<1>5. u = Behind
  BY <1>1, <1>4 DEF Behind
<1>6. u \in Seq(Chars) /\ Len(u) = e - n /\ \A p \in 1..(e - n) : u[p] = command_buffer[n + p - 1]
  <2>1. \A p \in 1..(e - n) : n + p - 1 \in 0..(e - 1)
    BY <1>2
  <2>2. PICK k : k = e - n
    OBVIOUS
  <2>3. k \in Nat /\ u \in [1..k -> Chars]
    BY <1>2, <1>4, <2>1, <2>2
  <2>4. u \in Seq(Chars) /\ Len(u) = k
    BY <2>3
  <2> QED
    BY <1>4, <2>2, <2>4
<1>7. PICK s : s = t \o u
  OBVIOUS
<1>8. /\ s \in Seq(Chars) /\ Len(s) = Len(t) + Len(u)
      /\ \A p \in 1..Len(t) : s[p] = t[p]
      /\ \A p \in 1..Len(u) : s[Len(t) + p] = u[p]
  <2>1. t \in Seq(Chars) /\ u \in Seq(Chars)
    BY <1>3, <1>6
  <2>2. /\ t \o u \in Seq(Chars) /\ Len(t \o u) = Len(t) + Len(u)
        /\ \A p \in 1..Len(t) : (t \o u)[p] = t[p]
        /\ \A p \in 1..Len(u) : (t \o u)[Len(t) + p] = u[p]
    BY ONLY <2>1, Joined
  <2> QED
    BY <1>7, <2>2
<1>9. Len(s) = e
  BY <1>2, <1>3, <1>6, <1>8
<1>10. ASSUME NEW p \in 1..e PROVE s[p] = command_buffer[p - 1]
  <2>1. CASE p <= n
    <3>1. p \in 1..n
      BY <1>2, <2>1
    <3> QED
      BY <1>3, <1>8, <3>1
  <2>2. CASE ~(p <= n)
    <3>1. PICK q \in 1..(e - n) : q = p - n
      BY <1>2, <2>2
    <3>2. p = n + q /\ n + q - 1 = p - 1
      BY <1>2, <3>1
    <3>3. s[n + q] = u[q] /\ u[q] = command_buffer[n + q - 1]
      BY <1>3, <1>6, <1>8
    <3> QED
      BY <3>2, <3>3
  <2> QED
    BY <2>1, <2>2
<1> QED
  BY <1>1, <1>5, <1>7, <1>8, <1>9, <1>10 DEF Seen

(* The commands Tab finds are those that begin with the string.            *)
LEMMA MatchingIs ==
  ASSUME ShellInv, NEW i \in DOMAIN available_commands
  PROVE  i \in Matching <=> Line!IsPrefix(Seen, available_commands[i])
<1>1. PICK c, s, e : c = available_commands[i] /\ s = Seen /\ e = Terminator
  OBVIOUS
<1>2. c \in Seq(Chars) /\ Len(c) \in Nat /\ Len(c) < MAX_CMD_LENGTH /\ MAX_CMD_LENGTH \in Nat
  BY <1>1, ShellSizes
<1>3. /\ e \in Nat /\ length <= e /\ e <= MAX_CMD_LENGTH
      /\ e < MAX_CMD_LENGTH => Ends(e)
      /\ \A j \in 0..(e - 1) : command_buffer[j] \in Chars
  BY <1>1, TerminatorIs
<1>4. s \in Seq(Chars) /\ Len(s) = e /\ \A p \in 1..e : s[p] = command_buffer[p - 1]
  BY <1>1, SeenIs
<1>5. ASSUME i \in Matching PROVE Line!IsPrefix(s, c)
  <2>1. PICK n \in Nat : /\ Ends(n) /\ length <= n /\ n <= Len(c)
                         /\ \A j \in 0..(n - 1) : command_buffer[j] = c[j + 1]
    BY <1>1, <1>5, MatchIs
  <2>2. n = e
    <3>1. e < MAX_CMD_LENGTH
      <4>1. ASSUME e = MAX_CMD_LENGTH PROVE FALSE
        <5>1. n \in 0..(e - 1)
          BY <1>2, <2>1, <4>1
        <5> QED
          BY <1>3, <2>1, <5>1, ShellSizes DEF Ends
      <4> QED
        BY <1>2, <1>3, <4>1
    <3> QED
      BY <1>3, <2>1, <3>1, EndsOnce
  <2>3. \A p \in 1..e : s[p] = c[p]
    <3>1. \A p \in 1..e : p - 1 \in 0..(n - 1) /\ (p - 1) + 1 = p
      BY <1>3, <2>2
    <3> QED
      BY <1>4, <2>1, <3>1
  <2> QED
    BY <1>2, <1>4, <2>1, <2>2, <2>3, PrefixIs
<1>6. ASSUME Line!IsPrefix(s, c) PROVE i \in Matching
  <2>1. e <= Len(c) /\ \A p \in 1..e : s[p] = c[p]
    BY <1>2, <1>4, <1>6, PrefixIs
  <2>2. e \in 0..Len(c) /\ command_buffer[e] = NUL
    BY <1>2, <1>3, <2>1 DEF Ends
  <2>3. \A j \in 0..(e - 1) : command_buffer[j] = c[j + 1]
    <3>1. \A j \in 0..(e - 1) : j + 1 \in 1..e /\ (j + 1) - 1 = j
      BY <1>3
    <3> QED
      BY <1>4, <2>1, <3>1
  <2>4. StartsWith(c)
    BY <2>2, <2>3 DEF StartsWith
  <2> QED
    BY <1>1, <2>4 DEF Matching
<1> QED
  BY <1>1, <1>5, <1>6

(* So they are the matches of the abstract line.                           *)
LEMMA MatchesAre ==
  ASSUME ShellInv
  PROVE  Line!Matches = {available_commands[i] : i \in Matching}
<1>1. Line!Matches = {command \in {available_commands[i] : i \in DOMAIN available_commands} :
                        Line!IsPrefix(Seen, command)}
  BY DEF Line!Matches, Seen, Behind, Text
<1>2. Matching \subseteq DOMAIN available_commands
  BY DEF Matching
<1> QED
  BY <1>1, <1>2, MatchingIs

(* So the line begins every match.                                         *)
LEMMA LineBeginsMatch ==
  ASSUME ShellInv, NEW i \in Matching
  PROVE  /\ length <= Len(available_commands[i])
         /\ \A p \in 1..length : Text[p] = available_commands[i][p]
<1>1. PICK n \in Nat : /\ length <= n /\ n <= Len(available_commands[i])
                       /\ \A j \in 0..(n - 1) : command_buffer[j] = available_commands[i][j + 1]
  BY MatchIs
<1>2. length \in Nat /\ Len(available_commands[i]) \in Nat
  BY ShellTypes, ShellSizes, MatchIs
<1>3. \A p \in 1..length : p - 1 \in 0..(n - 1) /\ (p - 1) + 1 = p
  BY <1>1, <1>2
<1>4. length <= Len(available_commands[i])
  BY <1>1, <1>2
<1>5. \A p \in 1..length : command_buffer[p - 1] = available_commands[i][p]
  BY <1>1, <1>3
<1> QED
  BY <1>4, <1>5, TextIs

(* The length of a common beginning.                                       *)
LEMMA CommonIs ==
  ASSUME NEW s \in Seq(Chars), NEW t \in Seq(Chars)
  PROVE  /\ Common(s, t) \in Nat /\ Common(s, t) <= Len(s) /\ Common(s, t) <= Len(t)
         /\ \A i \in 1..Common(s, t) : s[i] = t[i]
<1> DEFINE S == {n \in 0..Len(s) : n <= Len(t) /\ \A i \in 1..n : s[i] = t[i]}
<1>1. Len(s) \in Nat /\ Len(t) \in Nat
  OBVIOUS
<1>2. 0 \in S
  BY <1>1
<1>3. S \subseteq 0..Len(s)
  OBVIOUS
<1>4. Max(S) \in S
  <2> HIDE DEF S
  <2> QED
    BY <1>1, <1>2, <1>3, MaxExists
<1>5. Common(s, t) = Max(S)
  BY DEF Common
<1> QED
  BY <1>1, <1>4, <1>5

(* Several matches: the first two of them, and the command before the      *)
(* second, which the completion also reads.                                *)
LEMMA FirstMatches ==
  ASSUME ShellInv, Cardinality(Matching) > 1
  PROVE  \E first, second, before :
           /\ first = Min(Matching) /\ second = Min(Matching \ {first}) /\ before = second - 1
           /\ first \in Matching /\ second \in Matching /\ first \in Nat /\ first >= 1
           /\ first # second
           /\ first \in DOMAIN available_commands /\ second \in DOMAIN available_commands
           /\ before \in DOMAIN available_commands
           /\ before # first => before \notin Matching
<1>1. PICK M : M = Matching
  OBVIOUS
<1>2. M \subseteq DOMAIN available_commands /\ M \subseteq Nat
  BY <1>1, ShellSizes DEF Matching
<1>3. M # {}
  BY <1>1, FS_EmptySet
<1>4. PICK first : first = Min(M)
  OBVIOUS
<1>5. first \in M /\ \A y \in M : first <= y
  BY <1>2, <1>3, <1>4, LeastIs
<1>6. PICK rest : rest = M \ {first}
  OBVIOUS
<1>7. rest # {}
  <2>1. rest = {} => M = {first}
    BY <1>5, <1>6
  <2>2. Cardinality({first}) = 1
    BY FS_Singleton
  <2> QED
    BY <1>1, <2>1, <2>2
<1>8. PICK second : second = Min(rest)
  OBVIOUS
<1>9. second \in rest /\ \A y \in rest : second <= y
  <2>1. rest \subseteq Nat
    BY <1>2, <1>6
  <2> QED
    BY <1>7, <1>8, <2>1, LeastIs
<1>10. PICK before : before = second - 1
  OBVIOUS
<1>11. /\ first \in Nat /\ second \in M /\ before \in DOMAIN available_commands
       /\ first \in DOMAIN available_commands /\ second \in DOMAIN available_commands
       /\ ~(second <= before) /\ first >= 1 /\ first # second
  <2>1. /\ first \in 1..Len(available_commands) /\ second \in 1..Len(available_commands)
        /\ first <= second /\ first # second /\ second \in M
    BY <1>2, <1>5, <1>6, <1>9, ShellSizes
  <2> QED
    BY <1>10, <2>1, ShellSizes
<1>12. before # first => before \notin M
  BY <1>6, <1>9, <1>11
<1> QED
  BY <1>1, <1>4, <1>5, <1>6, <1>8, <1>10, <1>11, <1>12

(* What the second match has in common with the command before it is       *)
(* common to the first two matches, although that command need not be a    *)
(* match: if it is none, the two differ inside the string typed.           *)
LEMMA CommonIsShared ==
  ASSUME ShellInv, Cardinality(Matching) > 1
  PROVE  \E first, second \in Matching :
           /\ first = Min(Matching) /\ first # second
           /\ common_len \in Nat
           /\ common_len <= Len(available_commands[first])
           /\ common_len <= Len(available_commands[second])
           /\ \A i \in 1..common_len : available_commands[first][i] = available_commands[second][i]
<1>1. PICK M : M = Matching
  OBVIOUS
<1>2. PICK first, second, before :
         /\ first = Min(M) /\ second = Min(M \ {first}) /\ before = second - 1
         /\ first \in M /\ second \in M /\ first # second
         /\ first \in DOMAIN available_commands /\ second \in DOMAIN available_commands
         /\ before \in DOMAIN available_commands
         /\ before # first => before \notin M
  BY <1>1, FirstMatches
<1>3. PICK c0, c1, c2 : /\ c0 = available_commands[before] /\ c1 = available_commands[first]
                        /\ c2 = available_commands[second]
  OBVIOUS
<1>4. /\ c0 \in Seq(Chars) /\ c1 \in Seq(Chars) /\ c2 \in Seq(Chars)
       /\ Len(c0) \in Nat /\ Len(c1) \in Nat /\ Len(c2) \in Nat
  BY <1>2, <1>3, ShellSizes
<1>5. PICK n : n = Common(c0, c2)
  OBVIOUS
<1>6. n \in Nat /\ n <= Len(c0) /\ n <= Len(c2) /\ \A i \in 1..n : c0[i] = c2[i]
  BY <1>4, <1>5, CommonIs
<1>7. common_len = n
  BY <1>1, <1>2, <1>3, <1>5 DEF common_len
<1>8. n <= Len(c1) /\ \A i \in 1..n : c1[i] = c2[i]
  <2>1. CASE before = first
    BY <1>3, <1>6, <2>1
  <2>2. CASE before # first
    <3>1. before \notin M
      BY <1>2, <2>2
    <3>2. PICK k \in Nat : Ends(k) /\ k <= Len(c2) /\ \A j \in 0..(k - 1) : command_buffer[j] = c2[j + 1]
      BY <1>1, <1>2, <1>3, MatchIs
    <3>3. PICK m \in Nat : Ends(m) /\ m <= Len(c1) /\ \A j \in 0..(m - 1) : command_buffer[j] = c1[j + 1]
      BY <1>1, <1>2, <1>3, MatchIs
    <3>4. m = k
      BY <3>2, <3>3, EndsOnce
    <3>5. ASSUME k <= n PROVE FALSE
      <4>1. k \in 0..Len(c0)
        BY <1>4, <1>6, <3>2, <3>5
      <4>2. \A j \in 0..(k - 1) : j + 1 \in 1..n
        BY <1>6, <3>2, <3>5
      <4>3. \A j \in 0..(k - 1) : command_buffer[j] = c0[j + 1]
        BY <1>6, <3>2, <4>2
      <4>4. command_buffer[k] = NUL
        BY <3>2 DEF Ends
      <4>5. StartsWith(c0)
        BY <4>1, <4>3, <4>4 DEF StartsWith
      <4> QED
        BY <1>1, <1>2, <1>3, <3>1, <4>5 DEF Matching
    <3>6. \A i \in 1..n : i - 1 \in 0..(k - 1) /\ (i - 1) + 1 = i
      BY <1>6, <3>2, <3>5
    <3>7. n <= Len(c1)
      BY <1>4, <1>6, <3>2, <3>3, <3>4, <3>5
    <3>8. \A i \in 1..n : command_buffer[i - 1] = c1[i]
      BY <3>3, <3>4, <3>6
    <3>9. \A i \in 1..n : command_buffer[i - 1] = c2[i]
      BY <3>2, <3>6
    <3> QED
      BY <3>7, <3>8, <3>9
  <2> QED
    BY <2>1, <2>2
<1> QED
  <2>1. \A i \in 1..common_len : available_commands[first][i] = available_commands[second][i]
    BY <1>3, <1>7, <1>8
  <2> first \in Matching /\ second \in Matching
    BY <1>1, <1>2
  <2>2. first = Min(Matching) /\ first # second
    BY <1>1, <1>2
  <2>3. /\ common_len \in Nat /\ common_len <= Len(available_commands[first])
        /\ common_len <= Len(available_commands[second])
    BY <1>3, <1>6, <1>7, <1>8
  <2> WITNESS first \in Matching, second \in Matching
  <2> QED
    BY <2>1, <2>2, <2>3

(* The line with its new text, as the abstract line sees it.               *)
LEMMA NewText ==
  ASSUME ShellInv, NEW new \in Seq(Chars), Len(new) <= MAX_CMD_LENGTH - 1,
         Completed(new, Len(new)),
         Line!Matches = {} => new = <<>>,
         Line!Matches # {} =>
           \/ \E command \in Line!Matches :
                /\ Line!Matches = {command} /\ Len(command) < MAX_CMD_LENGTH - 1
                /\ new = Append(command, Space)
           \/ /\ Line!IsPrefix(Text, new)
              /\ \E one, two \in Line!Matches :
                   one # two /\ Line!IsPrefix(new, one) /\ Line!IsPrefix(new, two)
  PROVE  ShellInv' /\ (Line!Drop \/ Line!Complete)
<1>1. ShellInv' /\ Text' = new /\ cursor_pos' = Len(new) /\ command_history' = command_history
  BY CompletedLine
<1>2. CASE Line!Matches = {}
  <2>1. new = <<>> /\ Len(new) = 0
    BY <1>2
  <2> QED
    BY <1>1, <1>2, <2>1 DEF Line!Drop, Line!Fresh, Text
<1>3. CASE \E command \in Line!Matches :
             /\ Line!Matches = {command} /\ Len(command) < MAX_CMD_LENGTH - 1
             /\ new = Append(command, Space)
  <2>1. Line!CompleteOne
    BY <1>1, <1>3 DEF Line!CompleteOne, Text
  <2> QED
    BY <1>1, <2>1 DEF Line!Complete, Text
<1>4. CASE /\ Line!IsPrefix(Text, new)
           /\ \E one, two \in Line!Matches :
                one # two /\ Line!IsPrefix(new, one) /\ Line!IsPrefix(new, two)
  <2>1. Line!CompleteSeveral
    BY <1>1, <1>4 DEF Line!CompleteSeveral, Text
  <2> QED
    BY <1>1, <2>1 DEF Line!Complete, Text
<1> QED
  BY <1>2, <1>3, <1>4

(* Tab: without a match the line is dropped, a single match becomes the    *)
(* line, of several the first two share the new line; or the line stays.   *)
LEMMA TabStep ==
  ASSUME ShellInv, Tab
  PROVE  ShellInv' /\ (Line!Drop \/ Line!Move \/ Line!Complete)
<1>1. CASE TabNone
  <2>1. <<>> \in Seq(Chars) /\ Len(<<>>) = 0
    OBVIOUS
  <2>2. Completed(<<>>, Len(<<>>)) /\ Len(<<>>) <= MAX_CMD_LENGTH - 1
    BY <1>1, <2>1, ShellSizes DEF TabNone
  <2>3. Line!Matches = {}
    BY <1>1, MatchesAre DEF TabNone
  <2> QED
    BY <2>1, <2>2, <2>3, NewText
<1>2. CASE TabOne
  <2>1. PICK i \in Matching :
          LET match == available_commands[i]
          IN  /\ Matching = {i}
              /\ IF Len(match) < MAX_CMD_LENGTH - 1
                   THEN Completed(Append(match, Space), Len(match) + 1)
                   ELSE Completed(<<>>, length)
    BY <1>2 DEF TabOne
  <2>2. CASE Len(available_commands[i]) < MAX_CMD_LENGTH - 1
    <3>1. PICK c, new : c = available_commands[i] /\ new = Append(c, Space)
      OBVIOUS
    <3>2. c \in Seq(Chars) /\ Len(c) \in Nat /\ Space \in Chars /\ MAX_CMD_LENGTH \in Nat
      BY <3>1, MatchIs, ShellSizes
    <3>3. new \in Seq(Chars) /\ Len(new) = Len(c) + 1
      BY <3>1, <3>2
    <3>4. Completed(new, Len(new)) /\ Len(new) <= MAX_CMD_LENGTH - 1
      BY <2>1, <2>2, <3>1, <3>2, <3>3
    <3>5. Line!Matches = {c}
      BY <2>1, <3>1, MatchesAre
    <3> QED
      BY <2>2, <3>1, <3>3, <3>4, <3>5, NewText
  <2>3. CASE ~(Len(available_commands[i]) < MAX_CMD_LENGTH - 1)
    <3>1. Completed(<<>>, length)
      BY <2>1, <2>3
    <3> QED
      BY <3>1, CompletedNothing
  <2> QED
    BY <2>2, <2>3
<1>3. CASE TabSeveral
  <2>1. CASE common_len > length /\ common_len < MAX_CMD_LENGTH - 1
    <3>1. PICK M, n : M = Matching /\ n = common_len
      OBVIOUS
    <3>2. PICK first \in M, second \in M :
            /\ first = Min(M) /\ first # second /\ n \in Nat
            /\ n <= Len(available_commands[first]) /\ n <= Len(available_commands[second])
            /\ \A p \in 1..n : available_commands[first][p] = available_commands[second][p]
      BY <1>3, <3>1, CommonIsShared DEF TabSeveral
    <3>3. PICK c, d, new : /\ c = available_commands[first] /\ d = available_commands[second]
                           /\ new = SubSeq(c, 1, n)
      OBVIOUS
    <3>4. /\ first \in DOMAIN available_commands /\ second \in DOMAIN available_commands
          /\ c \in Seq(Chars) /\ Len(c) \in Nat /\ d \in Seq(Chars) /\ Len(d) \in Nat
          /\ MAX_CMD_LENGTH \in Nat
      BY <3>1, <3>2, <3>3, MatchIs, ShellSizes
    <3>5. new \in Seq(Chars) /\ Len(new) = n /\ \A p \in 1..n : new[p] = c[p]
      <4>1. 1 \in 1..(Len(c) + 1) /\ n \in (1 - 1)..Len(c) /\ n - 1 + 1 = n
        BY <3>2, <3>3, <3>4
      <4>2. /\ new \in Seq(Chars) /\ Len(new) = n - 1 + 1
            /\ \A p \in 1..(n - 1 + 1) : new[p] = c[1 + p - 1]
        BY <3>3, <3>4, <4>1, Part
      <4>3. \A p \in 1..n : 1 + p - 1 = p
        OBVIOUS
      <4> QED
        BY <4>1, <4>2, <4>3
    <3>6. Completed(new, Len(new)) /\ Len(new) <= MAX_CMD_LENGTH - 1
      BY <1>3, <2>1, <3>1, <3>2, <3>3, <3>4, <3>5 DEF TabSeveral
    <3>7. length <= Len(c) /\ length \in Nat /\ \A p \in 1..length : Text[p] = c[p]
      BY <3>1, <3>3, LineBeginsMatch, ShellTypes
    <3>8. Line!IsPrefix(Text, new)
      <4>1. length <= n /\ \A p \in 1..length : p \in 1..n
        BY <2>1, <3>1, <3>2, <3>7
      <4>2. Text \in Seq(Chars) /\ Len(Text) = length
        BY TextIs
      <4>3. \A p \in 1..Len(Text) : Text[p] = new[p]
        BY <3>5, <3>7, <4>1, <4>2
      <4> QED
        BY <3>5, <4>1, <4>2, <4>3, PrefixIs
    <3>9. Line!IsPrefix(new, c) /\ Line!IsPrefix(new, d)
      <4>1. Len(new) <= Len(c) /\ Len(new) <= Len(d)
        BY <3>2, <3>3, <3>5
      <4>2. \A p \in 1..Len(new) : new[p] = c[p]
        BY <3>5
      <4>3. \A p \in 1..Len(new) : new[p] = d[p]
        BY <3>2, <3>3, <3>5
      <4> QED
        BY <3>4, <3>5, <4>1, <4>2, <4>3, PrefixIs
    <3>10. c # d
      BY <3>2, <3>3, <3>4, ShellAssumption
    <3>11. c \in Line!Matches /\ d \in Line!Matches
      BY <3>1, <3>3, MatchesAre
    <3> QED
      BY <3>5, <3>6, <3>8, <3>9, <3>10, <3>11, NewText
  <2>2. CASE ~(common_len > length /\ common_len < MAX_CMD_LENGTH - 1)
    <3>1. Completed(<<>>, length)
      BY <1>3, <2>2 DEF TabSeveral
    <3> QED
      BY <3>1, CompletedNothing
  <2> QED
    BY <2>1, <2>2
<1> QED
  BY <1>1, <1>2, <1>3 DEF Tab

-----------------------------------------------------------------------------
(* Enter.                                                                  *)

(* str_trim leaves the part of the line between its first and its last     *)
(* character that is no space.                                             *)
LEMMA TrimIs ==
  ASSUME ShellInv
  PROVE  /\ str_trim \in Seq(Chars) /\ Len(str_trim) <= length
         /\ str_trim = Line!Trimmed(Text)
<1>1. PICK b, n, t : b = command_buffer /\ n = length /\ t = Text
  OBVIOUS
<1>2. n \in Nat /\ \A i \in 0..(n - 1) : b[i] \in Chars
  BY <1>1, ShellTypes
<1>3. t \in Seq(Chars) /\ Len(t) = n /\ \A p \in 1..n : t[p] = b[p - 1]
  BY <1>1, TextIs
<1>4. PICK J, K : J = Ink /\ K = {p \in 1..n : t[p] # Space}
  OBVIOUS
<1>5. J = {i \in 0..(n - 1) : b[i] # Space}
  BY <1>1, <1>4 DEF Ink
<1>6. ASSUME NEW i \in J PROVE i + 1 \in K
  <2>1. i + 1 \in 1..n /\ (i + 1) - 1 = i
    BY <1>2, <1>5
  <2> QED
    BY <1>3, <1>4, <1>5, <2>1
<1>7. ASSUME NEW p \in K PROVE p \in 1..n /\ p - 1 \in J
  <2>1. p \in 1..n /\ p - 1 \in 0..(n - 1)
    BY <1>2, <1>4
  <2> QED
    BY <1>3, <1>4, <1>5, <2>1
<1>8. CASE J = {}
  <2>1. K = {} /\ str_trim = <<>>
    BY <1>4, <1>7, <1>8 DEF str_trim
  <2>2. Line!Trimmed(t) = <<>>
    BY <1>3, <1>4, <2>1 DEF Line!Trimmed
  <2>3. <<>> \in Seq(Chars) /\ Len(<<>>) = 0
    OBVIOUS
  <2> QED
    BY <1>1, <1>2, <2>1, <2>2, <2>3
<1>9. CASE J # {}
  <2>1. PICK lo, hi : lo = Min(J) /\ hi = Max(J)
    OBVIOUS
  <2>2. lo \in J /\ \A y \in J : lo <= y
    <3>1. J \subseteq Nat
      BY <1>5
    <3> QED
      BY <1>9, <2>1, <3>1, LeastIs
  <2>3. hi \in J /\ \A y \in J : hi >= y
    <3>1. J \subseteq 0..n
      BY <1>2, <1>5
    <3> QED
      BY <1>2, <1>9, <2>1, <3>1, GreatestIs
  <2>4. lo \in Nat /\ hi \in Nat /\ lo <= hi /\ hi <= n - 1
    BY <1>2, <1>5, <2>2, <2>3
  <2>5. Min(K) = lo + 1
    <3>1. lo + 1 \in K
      BY <1>6, <2>2
    <3>2. ASSUME NEW y \in K PROVE lo + 1 <= y
      <4>1. y \in 1..n /\ lo <= y - 1
        BY <1>7, <2>2
      <4> QED
        BY <2>4, <4>1
    <3>3. K \subseteq Nat /\ K # {}
      BY <1>4, <3>1
    <3> QED
      BY <3>1, <3>2, <3>3, LeastIs
  <2>6. Max(K) = hi + 1
    <3>1. hi + 1 \in K
      BY <1>6, <2>3
    <3>2. ASSUME NEW y \in K PROVE hi + 1 >= y
      <4>1. y \in 1..n /\ hi >= y - 1
        BY <1>7, <2>3
      <4> QED
        BY <2>4, <4>1
    <3>3. K \subseteq 0..n /\ K # {}
      BY <1>2, <1>4, <3>1
    <3> QED
      BY <1>2, <3>1, <3>2, <3>3, GreatestIs
  <2>7. Line!Min(K) = lo + 1 /\ Line!Max(K) = hi + 1
    BY <2>5, <2>6 DEF Min, Max, Line!Min, Line!Max
  <2>8. PICK w, v : w = str_trim /\ v = SubSeq(t, lo + 1, hi + 1)
    OBVIOUS
  <2>9. Line!Trimmed(t) = v
    <3>1. K # {}
      BY <1>6, <2>2
    <3> QED
      BY <1>3, <1>4, <2>7, <2>8, <3>1 DEF Line!Trimmed
  <2>10. PICK l : l = hi - lo + 1
    OBVIOUS
  <2>11. l \in Nat /\ l <= n /\ \A i \in 1..l : lo + i - 1 \in 0..(n - 1)
    BY <1>2, <2>4, <2>10
  <2>12. w = [i \in 1..l |-> b[lo + i - 1]]
    BY <1>1, <1>4, <1>9, <2>1, <2>8, <2>10 DEF str_trim
  <2>13. w \in Seq(Chars) /\ Len(w) = l
    <3>1. w \in [1..l -> Chars]
      BY <1>2, <2>11, <2>12
    <3> QED
      BY <2>11, <3>1
  <2>14. v \in Seq(Chars) /\ Len(v) = l /\ \A i \in 1..l : v[i] = t[(lo + 1) + i - 1]
    <3>1. /\ lo + 1 \in 1..(Len(t) + 1) /\ hi + 1 \in ((lo + 1) - 1)..Len(t)
          /\ (hi + 1) - (lo + 1) + 1 = l
      BY <1>2, <1>3, <2>4, <2>10
    <3>2. /\ v \in Seq(Chars) /\ Len(v) = (hi + 1) - (lo + 1) + 1
          /\ \A i \in 1..((hi + 1) - (lo + 1) + 1) : v[i] = t[(lo + 1) + i - 1]
      BY <1>3, <2>8, <3>1, Part
    <3> QED
      BY <3>1, <3>2
  <2>15. ASSUME NEW i \in 1..l PROVE w[i] = v[i]
    <3>1. (lo + 1) + i - 1 \in 1..n /\ ((lo + 1) + i - 1) - 1 = lo + i - 1
      BY <1>2, <2>4, <2>10, <2>11
    <3> QED
      BY <1>3, <2>12, <2>14, <3>1
  <2>16. w = v
    BY <2>13, <2>14, <2>15, SeqEqual
  <2> QED
    BY <1>1, <2>8, <2>9, <2>11, <2>13, <2>16
<1> QED
  BY <1>8, <1>9

(* shell_add_history keeps the newest commands, each once in a row.        *)
LEMMA HistoryIs ==
  ASSUME ShellInv, NEW command \in Seq(Chars), shell_add_history(command)
  PROVE  /\ command_history' \in Seq(Seq(Chars)) /\ Len(command_history') \in 0..MAX_HISTORY
         /\ command_history' =
              IF command = <<>> \/ (command_history # <<>> /\ command_history[Len(command_history)] = command)
                THEN command_history ELSE Line!Newest(Append(command_history, command))
<1>1. PICK h, g, n, X : /\ h = command_history /\ g = command_history' /\ n = Len(h)
                        /\ X = Seq(Chars)
  OBVIOUS
<1>2. h \in Seq(X) /\ n \in Nat /\ n <= MAX_HISTORY /\ MAX_HISTORY \in Nat \ {0} /\ command \in X
  BY <1>1, ShellTypes, ShellSizes
<1>3. h # <<>> <=> n > 0
  BY <1>1, <1>2, EmptySeq
<1>4. CASE command = <<>> \/ (n > 0 /\ h[n] = command)
  <2>1. g = h
    BY <1>1, <1>4 DEF shell_add_history
  <2> QED
    BY <1>1, <1>2, <1>3, <1>4, <2>1
<1>5. CASE ~(command = <<>> \/ (n > 0 /\ h[n] = command))
  <2>1. PICK a : a = Append(h, command)
    OBVIOUS
  <2>2. /\ a \in Seq(X) /\ Len(a) = n + 1 /\ a[n + 1] = command
        /\ \A i \in 1..n : a[i] = h[i]
    BY <1>1, <1>2, <2>1
  <2>3. CASE n >= MAX_HISTORY
    <3>1. n = MAX_HISTORY /\ h # <<>>
      BY <1>2, <1>3, <2>3
    <3>2. PICK r : r = Tail(h)
      OBVIOUS
    <3>3. r \in Seq(X) /\ Len(r) = n - 1 /\ \A i \in 1..(n - 1) : r[i] = h[i + 1]
      BY <1>1, <1>2, <3>1, <3>2, HeadTailProperties
    <3>4. g = Append(r, command)
      BY <1>1, <1>5, <2>3, <3>2 DEF shell_add_history
    <3>5. /\ g \in Seq(X) /\ Len(g) = n /\ g[n] = command
          /\ \A i \in 1..(n - 1) : g[i] = h[i + 1]
      BY <1>2, <3>1, <3>3, <3>4
    <3>6. PICK w : w = SubSeq(a, 2, n + 1)
      OBVIOUS
    <3>7. w \in Seq(X) /\ Len(w) = n /\ \A i \in 1..n : w[i] = a[2 + i - 1]
      <4>1. 2 \in 1..(Len(a) + 1) /\ n + 1 \in (2 - 1)..Len(a) /\ (n + 1) - 2 + 1 = n
        BY <1>2, <2>2, <3>1
      <4>2. /\ w \in Seq(X) /\ Len(w) = (n + 1) - 2 + 1
            /\ \A i \in 1..((n + 1) - 2 + 1) : w[i] = a[2 + i - 1]
        BY <2>2, <3>6, <4>1, Part
      <4> QED
        BY <4>1, <4>2
    <3>8. ASSUME NEW i \in 1..n PROVE g[i] = w[i]
      <4>1. 2 + i - 1 = i + 1
        OBVIOUS
      <4>2. CASE i = n
        BY <2>2, <3>5, <3>7, <4>1, <4>2
      <4>3. CASE i # n
        <5>1. i \in 1..(n - 1) /\ i + 1 \in 1..n
          BY <1>2, <4>3
        <5> QED
          BY <2>2, <3>5, <3>7, <4>1, <5>1
      <4> QED
        BY <4>2, <4>3
    <3>9. g = w
      BY <3>5, <3>7, <3>8, SeqEqual
    <3>10. Line!Newest(a) = w
      <4>1. Len(a) > MAX_HISTORY /\ Len(a) - MAX_HISTORY + 1 = 2 /\ Len(a) = n + 1
        BY <1>2, <2>2, <3>1
      <4> QED
        BY <3>6, <4>1 DEF Line!Newest
    <3> QED
      BY <1>1, <1>2, <1>3, <1>5, <2>1, <3>1, <3>5, <3>9, <3>10
  <2>4. CASE ~(n >= MAX_HISTORY)
    <3>1. g = a
      BY <1>1, <1>5, <2>1, <2>4 DEF shell_add_history
    <3>2. Line!Newest(a) = a
      <4>1. ~(Len(a) > MAX_HISTORY)
        BY <1>2, <2>2, <2>4
      <4>2. SubSeq(a, 1, Len(a)) = a
        BY <2>2, SubSeqFull
      <4> QED
        BY <4>1, <4>2 DEF Line!Newest
    <3>3. Len(g) \in 0..MAX_HISTORY
      BY <1>2, <2>2, <2>4, <3>1
    <3> QED
      BY <1>1, <1>3, <1>5, <2>1, <2>2, <3>1, <3>2, <3>3
  <2> QED
    BY <2>3, <2>4
<1> QED
  BY <1>4, <1>5

(* Enter submits the line.                                                 *)
LEMMA EnterStep ==
  ASSUME ShellInv, Enter
  PROVE  ShellInv' /\ Line!Submit
<1>1. PICK w, b2 : w = str_trim /\ b2 = command_buffer'
  OBVIOUS
<1>2. w \in Seq(Chars) /\ Len(w) \in Nat /\ w = Line!Trimmed(Text) /\ \A i \in 1..Len(w) : w[i] \in Chars
  BY <1>1, TrimIs
<1>3. /\ b2 = [i \in Cells |-> IF i < Len(w) THEN w[i + 1]
                              ELSE IF i \in {Len(w), length} THEN NUL ELSE command_buffer[i]]
      /\ shell_add_history(w) /\ length' = 0 /\ cursor_pos' = 0
  BY <1>1 DEF Enter
<1>4. \A i \in Cells : i < Len(w) => i + 1 \in 1..Len(w)
  BY <1>2, ShellSizes DEF Cells
<1>5. b2 \in [Cells -> Chars \union {NUL}]
  BY <1>2, <1>3, <1>4, ShellTypes
<1>6. /\ command_history' \in Seq(Seq(Chars)) /\ Len(command_history') \in 0..MAX_HISTORY
      /\ command_history' =
           IF w = <<>> \/ (command_history # <<>> /\ command_history[Len(command_history)] = w)
             THEN command_history ELSE Line!Newest(Append(command_history, w))
  BY <1>2, <1>3, HistoryIs
<1>7. ShellInv'
  <2>1. length' \in 0..(MAX_CMD_LENGTH - 1) /\ cursor_pos' \in 0..length'
        /\ \A i \in 0..(length' - 1) : FALSE
    BY <1>3, ShellSizes
  <2> QED
    BY <1>1, <1>5, <1>6, <2>1 DEF ShellInv, TypeOK, LineOfChars
<1>8. Text' = <<>>
  <2>1. Text' \in Seq(Chars) /\ Len(Text') = 0
    BY <1>3, <1>7, TextAfter
  <2> QED
    BY <2>1, EmptySeq
<1> QED
  BY <1>2, <1>3, <1>6, <1>7, <1>8 DEF Line!Submit, Line!Fresh, Text

-----------------------------------------------------------------------------
(* The prompt as a whole.                                                  *)

(* Every key keeps the invariant and is a step of the abstract line.       *)
LEMMA KeyStep ==
  ASSUME ShellInv, Next
  PROVE  ShellInv' /\ Line!Next
<1>1. CASE \E ch \in Chars : Insert(ch)
  BY <1>1, InsertStep DEF Line!Next
<1>2. CASE Backspace
  BY <1>2, BackspaceStep DEF Line!Next
<1>3. CASE Delete
  BY <1>3, DeleteStep DEF Line!Next
<1>4. CASE Left \/ Right \/ Home \/ End
  BY <1>4, CursorKeys DEF Line!Next
<1>5. CASE Tab
  BY <1>5, TabStep DEF Line!Next
<1>6. CASE Enter
  BY <1>6, EnterStep DEF Line!Next
<1> QED
  BY <1>1, <1>2, <1>3, <1>4, <1>5, <1>6 DEF Next

(* shell_init leaves an empty line over whatever the stack held.           *)
LEMMA ShellStart == Init => ShellInv
<1> SUFFICES ASSUME Init PROVE ShellInv
  OBVIOUS
<1>1. command_buffer \in [Cells -> Chars \union {NUL}]
  BY ShellAssumption DEF Init
<1>2. /\ length = 0 /\ cursor_pos = 0 /\ command_history = <<>>
      /\ \A i \in 0..(length - 1) : FALSE
  BY DEF Init
<1>3. command_history \in Seq(Seq(Chars)) /\ Len(command_history) = 0
  BY <1>2
<1> QED
  BY <1>1, <1>2, <1>3, ShellSizes DEF ShellInv, TypeOK, LineOfChars

(* The line editor's invariant holds whatever keys come.                   *)
THEOREM ShellInvariance == Spec => []ShellInv
<1>1. ShellInv /\ [Next]_vars => ShellInv'
  <2> SUFFICES ASSUME ShellInv, [Next]_vars PROVE ShellInv'
    OBVIOUS
  <2>1. CASE UNCHANGED vars
    BY <2>1 DEF vars, ShellInv, TypeOK, LineOfChars
  <2> QED
    BY <2>1, KeyStep
<1> QED
  BY <1>1, ShellStart, PTL DEF Spec

(* The line never fills its buffer's last cell and the cursor stays on it, *)
(* whatever Tab found behind the line.                                     *)
THEOREM LineFits == Spec => []TypeOK
<1>1. ShellInv => TypeOK
  BY DEF ShellInv
<1> QED
  BY <1>1, ShellInvariance, PTL

(* The prompt implements a line of text: the array moves of                *)
(* shell_get_line, handle_tab_completion and shell_add_history are edits   *)
(* at the cursor, completions of the string in the buffer to the one       *)
(* command that begins so or to what two such commands share, a drop of    *)
(* the line only where no command does, and submissions.                   *)
THEOREM PromptImplementsCommandLine == Spec => ImplementsCommandLine
<1>1. Init => Line!Init
  <2> SUFFICES ASSUME Init PROVE Line!Init
    OBVIOUS
  <2>1. length = 0 /\ cursor_pos = 0 /\ command_history = <<>> /\ ShellInv
    BY ShellStart DEF Init
  <2>2. Text \in Seq(Chars) /\ Len(Text) = 0
    BY <2>1, TextIs
  <2>3. Text = <<>>
    BY <2>2, EmptySeq
  <2> QED
    BY <2>1, <2>3 DEF Line!Init, Text
<1>2. ShellInv /\ [Next]_vars =>
        [Line!Next]_<<[p \in 1..length |-> command_buffer[p - 1]], cursor_pos, command_history>>
  <2> SUFFICES ASSUME ShellInv, [Next]_vars
               PROVE  [Line!Next]_<<[p \in 1..length |-> command_buffer[p - 1]], cursor_pos,
                                    command_history>>
    OBVIOUS
  <2>1. CASE UNCHANGED vars
    BY <2>1 DEF vars
  <2>2. CASE Next
    BY <2>2, KeyStep
  <2> QED
    BY <2>1, <2>2
<1> QED
  BY <1>1, <1>2, ShellInvariance, PTL DEF Spec, ImplementsCommandLine, Line!Spec

-----------------------------------------------------------------------------
(* What the user sees.                                                     *)

(* Everything that is ever printed at the prompt.                          *)
Glyphs ==
  Chars \union {Newline, Blank} \union Range(Prompt)
    \union UNION {Range(Output[command]) : command \in DOMAIN Output}

Screens == [row : Rows, col : Columns, video : [ScreenCells -> Glyphs]]

(* The cells with a character in the cursor's place.                       *)
Inked(s, ch) == IF ch = Newline THEN s.video ELSE [s.video EXCEPT ![Position(s.row, s.col)] = ch]

(* A row and a column of the screen are a cell of it, and cells of a row   *)
(* differ when their columns do.                                           *)
LEMMA CellOf ==
  ASSUME NEW row \in Rows, NEW col \in Columns
  PROVE  /\ Position(row, col) \in ScreenCells /\ Position(row, col) \in Nat
         /\ \A c \in Columns : Position(row, c) = Position(row, col) => c = col
         /\ Position(row, 0) + SCREEN_WIDTH = Position(row + 1, 0)
         /\ \A c \in Columns : Position(row, c) = Position(row, 0) + c
<1> DEFINE W == SCREEN_WIDTH  H == SCREEN_HEIGHT
<1>1. W \in Nat /\ H \in Nat /\ row \in Nat /\ col \in Nat /\ row < H /\ col < W /\ W > 1 /\ H > 0
  BY VgaAssumption DEF Rows, Columns
<1>2. row * W \in Nat /\ 0 * W = 0 /\ (row + 1) * W = row * W + W
  BY <1>1
<1>3. PICK d \in Nat : H = row + 1 + d
  BY <1>1
<1>4. W * H = row * W + W + d * W /\ d * W \in Nat
  BY <1>1, <1>3
<1>5. Position(row, col) \in ScreenCells /\ Position(row, col) \in Nat
  <2> HIDE DEF W, H
  <2>1. row * W + col \in 0..(W * H - 1) /\ row * W + col \in Nat
    BY <1>1, <1>2, <1>4
  <2> QED
    BY <2>1 DEF Position, ScreenCells, W, H
<1>6. PICK b \in Nat : b = row * SCREEN_WIDTH
  BY <1>2
<1>7. \A c \in Columns : c \in Nat /\ Position(row, c) = b + c
  BY <1>6 DEF Position, Columns
<1>8. 0 \in Columns /\ col \in Columns
  BY Coordinates
<1>9. Position(row + 1, 0) = b + SCREEN_WIDTH
  <2>1. Position(row + 1, 0) = (row + 1) * W + 0
    BY DEF Position
  <2> QED
    BY <1>1, <1>2, <1>6, <2>1
<1> QED
  BY <1>1, <1>5, <1>7, <1>8, <1>9

(* screen_putchar_internal: the next column, the next row, or a scroll.    *)
LEMMA PutCharIs ==
  ASSUME NEW s \in Screens, NEW ch
  PROVE  /\ ch # Newline /\ s.col + 1 < SCREEN_WIDTH =>
              PutChar(s, ch) = [row |-> s.row, col |-> s.col + 1, video |-> Inked(s, ch)]
         /\ (ch = Newline \/ s.col + 1 = SCREEN_WIDTH) /\ s.row + 1 < SCREEN_HEIGHT =>
              PutChar(s, ch) = [row |-> s.row + 1, col |-> 0, video |-> Inked(s, ch)]
         /\ (ch = Newline \/ s.col + 1 = SCREEN_WIDTH) /\ s.row + 1 = SCREEN_HEIGHT =>
              PutChar(s, ch) = [row |-> SCREEN_HEIGHT - 1, col |-> 0,
                                video |-> Scrolled(Inked(s, ch))]
<1>1. PICK r \in Rows, c \in Columns, v \in [ScreenCells -> Glyphs] :
        s = [row |-> r, col |-> c, video |-> v]
  BY DEF Screens
<1>2. PICK w : w = Inked(s, ch)
  OBVIOUS
<1>3. /\ s.row = r /\ s.col = c /\ s.video = v
      /\ SCREEN_WIDTH \in Nat /\ SCREEN_WIDTH > 1 /\ SCREEN_HEIGHT \in Nat /\ SCREEN_HEIGHT > 0
      /\ r \in Nat /\ c \in Nat /\ r < SCREEN_HEIGHT /\ c < SCREEN_WIDTH
  BY <1>1, VgaAssumption DEF Rows, Columns
<1>4. PICK next : next = Wrapped(Stepped(s, ch))
  OBVIOUS
<1>5. PutChar(s, ch) =
        [(IF MustScroll(next.row) THEN [next EXCEPT !.row = SCREEN_HEIGHT - 1, !.col = 0] ELSE next)
           EXCEPT !.video = IF MustScroll(next.row) THEN Scrolled(w) ELSE w]
  BY <1>2, <1>4 DEF PutChar, CursorAfter, Inked
<1>6. ASSUME ch # Newline, c + 1 < SCREEN_WIDTH
      PROVE  PutChar(s, ch) = [row |-> r, col |-> c + 1, video |-> w]
  <2>1. Stepped(s, ch) = [row |-> r, col |-> c + 1, video |-> v]
    BY <1>1, <1>6 DEF Stepped
  <2>2. next = [row |-> r, col |-> c + 1, video |-> v]
    BY <1>3, <1>4, <1>6, <2>1 DEF Wrapped
  <2>3. ~MustScroll(next.row)
    BY <1>3, <2>2 DEF MustScroll
  <2> QED
    BY <1>5, <2>2, <2>3
<1>7. ASSUME ch = Newline \/ c + 1 = SCREEN_WIDTH
      PROVE  next = [row |-> r + 1, col |-> 0, video |-> v]
  <2>1. CASE ch = Newline
    <3>1. Stepped(s, ch) = [row |-> r + 1, col |-> 0, video |-> v]
      BY <1>1, <2>1 DEF Stepped
    <3> QED
      BY <1>3, <1>4, <3>1 DEF Wrapped
  <2>2. CASE ch # Newline
    <3>1. Stepped(s, ch) = [row |-> r, col |-> c + 1, video |-> v]
      BY <1>1, <2>2 DEF Stepped
    <3>2. PICK x : x = [row |-> r, col |-> c + 1, video |-> v]
      OBVIOUS
    <3>3. x.col >= SCREEN_WIDTH
      BY <1>3, <1>7, <2>2, <3>2
    <3>4. next = [x EXCEPT !.col = 0, !.row = @ + 1]
      BY <1>4, <3>1, <3>2, <3>3 DEF Wrapped
    <3> QED
      BY <3>2, <3>4
  <2> QED
    BY <2>1, <2>2
<1>8. ASSUME ch = Newline \/ c + 1 = SCREEN_WIDTH, r + 1 < SCREEN_HEIGHT
      PROVE  PutChar(s, ch) = [row |-> r + 1, col |-> 0, video |-> w]
  <2>1. ~MustScroll(r + 1)
    BY <1>3, <1>8 DEF MustScroll
  <2>2. next = [row |-> r + 1, col |-> 0, video |-> v]
    BY <1>7, <1>8
  <2> QED
    BY <1>5, <2>1, <2>2
<1>9. ASSUME ch = Newline \/ c + 1 = SCREEN_WIDTH, r + 1 = SCREEN_HEIGHT
      PROVE  PutChar(s, ch) = [row |-> SCREEN_HEIGHT - 1, col |-> 0, video |-> Scrolled(w)]
  <2>1. MustScroll(r + 1)
    BY <1>3, <1>9 DEF MustScroll
  <2>2. next = [row |-> r + 1, col |-> 0, video |-> v]
    BY <1>7, <1>9
  <2> QED
    BY <1>5, <2>1, <2>2
<1> QED
  BY <1>2, <1>3, <1>6, <1>8, <1>9

(* A character leaves a screen a screen.                                   *)
LEMMA PutCharTyped ==
  ASSUME NEW s \in Screens, NEW ch \in Glyphs
  PROVE  PutChar(s, ch) \in Screens
<1>1. PICK r \in Rows, c \in Columns, v \in [ScreenCells -> Glyphs] :
        r = s.row /\ c = s.col /\ v = s.video
  BY DEF Screens
<1>2. PICK w : w = Inked(s, ch)
  OBVIOUS
<1>3. w \in [ScreenCells -> Glyphs]
  BY <1>1, <1>2 DEF Inked
<1>4. Scrolled(w) \in [ScreenCells -> Glyphs]
  <2>1. Blank \in Glyphs
    BY DEF Glyphs
  <2> QED
    BY <1>3, <2>1 DEF Scrolled
<1>5. /\ SCREEN_WIDTH \in Nat /\ SCREEN_HEIGHT \in Nat /\ r \in Nat /\ c \in Nat
      /\ r < SCREEN_HEIGHT /\ c < SCREEN_WIDTH
  BY VgaAssumption DEF Rows, Columns
<1>6. CASE ch # Newline /\ c + 1 < SCREEN_WIDTH
  <2>1. PutChar(s, ch) = [row |-> r, col |-> c + 1, video |-> w]
    BY <1>1, <1>2, <1>6, PutCharIs
  <2>2. c + 1 \in Columns
    BY <1>5, <1>6 DEF Columns
  <2> QED
    BY <1>1, <1>3, <2>1, <2>2 DEF Screens
<1>7. CASE ~(ch # Newline /\ c + 1 < SCREEN_WIDTH) /\ r + 1 < SCREEN_HEIGHT
  <2>1. PutChar(s, ch) = [row |-> r + 1, col |-> 0, video |-> w]
    <3>1. ch = Newline \/ c + 1 = SCREEN_WIDTH
      BY <1>5, <1>7
    <3> QED
      BY <1>1, <1>2, <1>7, <3>1, PutCharIs
  <2>2. r + 1 \in Rows
    BY <1>5, <1>7 DEF Rows
  <2> QED
    BY <1>1, <1>3, <2>1, <2>2, Coordinates DEF Screens
<1>8. CASE ~(ch # Newline /\ c + 1 < SCREEN_WIDTH) /\ ~(r + 1 < SCREEN_HEIGHT)
  <2>1. PutChar(s, ch) = [row |-> SCREEN_HEIGHT - 1, col |-> 0, video |-> Scrolled(w)]
    <3>1. (ch = Newline \/ c + 1 = SCREEN_WIDTH) /\ r + 1 = SCREEN_HEIGHT
      BY <1>5, <1>8
    <3> QED
      BY <1>1, <1>2, <3>1, PutCharIs
  <2> QED
    BY <1>4, <2>1, Coordinates DEF Screens
<1> QED
  BY <1>6, <1>7, <1>8

(* The screens screen_write goes through, in the form of the definition.   *)
WriteBody(s, str, f) == [n \in 0..Len(str) |-> IF n = 0 THEN s ELSE PutChar(f[n - 1], str[n])]

(* screen_write ends a walk of one character after the other.              *)
LEMMA WriteWalks ==
  ASSUME NEW s \in Screens, NEW str \in Seq(Glyphs)
  PROVE  \E f \in [0..Len(str) -> Screens] :
           /\ Written(s, str) = f[Len(str)] /\ f[0] = s
           /\ \A k \in 1..Len(str) : f[k] = PutChar(f[k - 1], str[k])
<1>1. PICK n \in Nat : n = Len(str)
  OBVIOUS
<1>2. \A k \in 1..n : str[k] \in Glyphs
  BY <1>1
<1>3. PICK step : step = [p \in (1..n) \X Screens |-> PutChar(p[2], str[p[1]])]
  OBVIOUS
<1>4. step \in [(1..n) \X Screens -> Screens]
  <2>1. ASSUME NEW p \in (1..n) \X Screens
        PROVE  PutChar(p[2], str[p[1]]) \in Screens
    <3>1. p[2] \in Screens /\ str[p[1]] \in Glyphs
      BY <1>2
    <3> QED
      BY <3>1, PutCharTyped
  <2> QED
    BY <1>3, <2>1
<1>5. PICK g \in [0..n -> Screens] : g[0] = s /\ \A k \in 1..n : g[k] = step[<<k, g[k - 1]>>]
  <2>1. PICK T : T = Screens
    OBVIOUS
  <2>2. n \in Nat /\ s \in T /\ step \in Steppings(n, T)
    BY <1>1, <1>4, <2>1 DEF Steppings
  <2>3. \E g \in [0..n -> T] : g[0] = s /\ \A k \in 1..n : g[k] = step[<<k, g[k - 1]>>]
    BY <2>2, WalkExists
  <2> QED
    BY <2>1, <2>3, Zenon
<1>6. g = WriteBody(s, str, g)
  <2>1. ASSUME NEW k \in 0..n
        PROVE  g[k] = IF k = 0 THEN s ELSE PutChar(g[k - 1], str[k])
    <3>1. CASE k = 0
      BY <1>5, <3>1
    <3>2. CASE k # 0
      <4>1. k \in 1..n /\ k - 1 \in 0..n
        BY <3>2
      <4>2. PICK p : p = <<k, g[k - 1]>>
        OBVIOUS
      <4>3. p \in (1..n) \X Screens /\ p[1] = k /\ p[2] = g[k - 1]
        BY <4>1, <4>2
      <4>4. step[p] = PutChar(p[2], str[p[1]])
        BY <1>3, <4>3
      <4>5. g[k] = step[p]
        BY <1>5, <4>1, <4>2
      <4> QED
        BY <3>2, <4>3, <4>4, <4>5
    <3> QED
      BY <3>1, <3>2
  <2> QED
    BY <1>1, <2>1 DEF WriteBody
<1>7. PICK f : f = CHOOSE h : h = WriteBody(s, str, h)
  OBVIOUS
<1>8. f = WriteBody(s, str, f)
  BY <1>6, <1>7, Zenon
<1>9. Written(s, str) = f[Len(str)]
  BY <1>7, Zenon DEF Written, WriteBody
<1>10. f[0] = s /\ \A k \in 1..n : f[k] = PutChar(f[k - 1], str[k])
  <2>1. 0 \in 0..Len(str) /\ \A k \in 1..n : k \in 0..Len(str) /\ k # 0
    BY <1>1
  <2> QED
    BY <1>8, <2>1 DEF WriteBody
<1>11. \A k \in 0..n : f[k] \in Screens
  <2> DEFINE S == {k \in 0..n : f[k] \in Screens}
  <2>1. 0 \in S
    BY <1>10
  <2>2. ASSUME NEW k \in 0..(n - 1), k \in S
        PROVE  k + 1 \in S
    <3>1. PICK l : l = k + 1
      OBVIOUS
    <3>2. l \in 1..n /\ l \in 0..n /\ l - 1 = k
      BY <3>1
    <3>3. f[l] = PutChar(f[k], str[l])
      BY <1>10, <3>2
    <3>4. f[k] \in Screens /\ str[l] \in Glyphs
      BY <1>2, <2>2, <3>2
    <3>5. PutChar(f[k], str[l]) \in Screens
      BY <3>4, PutCharTyped
    <3> QED
      BY <3>1, <3>2, <3>3, <3>5
  <2>3. \A k \in 0..n : k \in S
    <3> HIDE DEF S
    <3> QED
      BY <2>1, <2>2, Upward
  <2> QED
    BY <2>3
<1>12. f \in [0..n -> Screens]
  <2>1. PICK e : e = [k \in 0..n |-> IF k = 0 THEN s ELSE PutChar(f[k - 1], str[k])]
    OBVIOUS
  <2>2. f = e
    BY <1>1, <1>8, <2>1 DEF WriteBody
  <2>3. DOMAIN e = 0..n /\ e = [k \in 0..n |-> e[k]]
    BY <2>1
  <2> QED
    BY <1>11, <2>2, <2>3
<1> QED
  BY <1>1, <1>9, <1>10, <1>12

(* screen_write leaves a screen a screen.                                  *)
LEMMA WrittenTyped ==
  ASSUME NEW s \in Screens, NEW str \in Seq(Glyphs)
  PROVE  Written(s, str) \in Screens
<1>1. PICK f \in [0..Len(str) -> Screens] : Written(s, str) = f[Len(str)]
  BY WriteWalks
<1>2. Len(str) \in 0..Len(str)
  OBVIOUS
<1> QED
  BY <1>1, <1>2

(* The screen after n characters in the cursor's row.                      *)
ShowsPart(s, str, n, after) ==
  /\ after.row = s.row /\ after.col = s.col + n
  /\ \A col \in Columns :
       after.video[Position(s.row, col)] =
         IF col \in s.col..(s.col + n - 1) THEN str[col - s.col + 1]
         ELSE s.video[Position(s.row, col)]

(* One more character in the cursor's row.                                 *)
LEMMA OneMore ==
  ASSUME NEW s \in Screens, NEW str, NEW n \in Nat, NEW t \in Screens, NEW u,
         ShowsPart(s, str, n, t), str[n + 1] # Newline, s.col + n + 1 < SCREEN_WIDTH,
         u = PutChar(t, str[n + 1])
  PROVE  ShowsPart(s, str, n + 1, u)
<1>1. PICK ch : ch = str[n + 1]
  OBVIOUS
<1>2. PICK r \in Rows, c \in Columns : r = s.row /\ c = s.col
  BY DEF Screens
<1>3. t.row = r /\ t.col = c + n
  BY <1>2 DEF ShowsPart
<1>4. c \in Nat /\ SCREEN_WIDTH \in Nat /\ c + n + 1 < SCREEN_WIDTH /\ c + n \in Columns
  BY <1>2, VgaAssumption DEF Columns
<1>5. u = [row |-> r, col |-> c + n + 1, video |-> Inked(t, ch)]
  BY <1>1, <1>3, <1>4, PutCharIs
<1>6. t.video \in [ScreenCells -> Glyphs]
  BY DEF Screens
<1>7. PICK v : v = t.video
  OBVIOUS
<1>8. u.video = [v EXCEPT ![Position(r, c + n)] = ch]
  BY <1>1, <1>3, <1>5, <1>7 DEF Inked
<1>9. ASSUME NEW col \in Columns
      PROVE  u.video[Position(r, col)] =
               IF col \in c..(c + n) THEN str[col - c + 1] ELSE s.video[Position(r, col)]
  <2>1. /\ col \in Nat
        /\ v[Position(r, col)] =
             IF col \in c..(c + n - 1) THEN str[col - c + 1] ELSE s.video[Position(r, col)]
    BY <1>2, <1>7 DEF ShowsPart, Columns
  <2>2. CASE col = c + n
    <3>1. Position(r, c + n) \in ScreenCells
      BY <1>4, CellOf
    <3>2. u.video[Position(r, col)] = ch
      BY <1>6, <1>7, <1>8, <2>2, <3>1
    <3>3. col \in c..(c + n) /\ col - c + 1 = n + 1
      BY <1>4, <2>2
    <3> QED
      BY <1>1, <3>2, <3>3
  <2>3. CASE col # c + n
    <3>1. /\ Position(r, col) \in ScreenCells /\ Position(r, c + n) \in ScreenCells
          /\ Position(r, col) # Position(r, c + n)
      BY <1>4, <2>3, CellOf
    <3>2. u.video[Position(r, col)] = v[Position(r, col)]
      BY <1>6, <1>7, <1>8, <3>1
    <3>3. col \in c..(c + n) <=> col \in c..(c + n - 1)
      BY <1>4, <2>1, <2>3
    <3> QED
      BY <2>1, <3>2, <3>3
  <2> QED
    BY <2>2, <2>3
<1>10. u.row = r /\ u.col = c + (n + 1) /\ c + (n + 1) - 1 = c + n
  BY <1>4, <1>5
<1> QED
  BY <1>2, <1>9, <1>10 DEF ShowsPart

(* A string without newlines that ends before the edge stays in its row.   *)
LEMMA WrittenInRow ==
  ASSUME NEW s \in Screens, NEW str \in Seq(Glyphs), s.col + Len(str) < SCREEN_WIDTH,
         \A k \in 1..Len(str) : str[k] # Newline
  PROVE  Written(s, str) \in Screens /\ ShowsPart(s, str, Len(str), Written(s, str))
<1>1. PICK n \in Nat : n = Len(str)
  OBVIOUS
<1>2. PICK f \in [0..n -> Screens] :
        Written(s, str) = f[n] /\ f[0] = s /\ \A k \in 1..n : f[k] = PutChar(f[k - 1], str[k])
  BY <1>1, WriteWalks
<1>3. s.col \in Nat /\ s.col + n < SCREEN_WIDTH /\ SCREEN_WIDTH \in Nat
  BY <1>1, VgaAssumption DEF Screens, Columns
<1> DEFINE S == {k \in 0..n : ShowsPart(s, str, k, f[k])}
<1>4. 0 \in S
  <2>1. s.col + 0 = s.col /\ \A col \in Columns : ~(col \in s.col..(s.col + 0 - 1))
    BY <1>3 DEF Columns
  <2>2. ShowsPart(s, str, 0, s)
    BY <2>1 DEF ShowsPart
  <2> QED
    BY <1>2, <2>2
<1>5. ASSUME NEW k \in 0..(n - 1), k \in S
      PROVE  k + 1 \in S
  <2>1. PICK l : l = k + 1
    OBVIOUS
  <2>2. l \in 1..n /\ l \in 0..n /\ k \in 0..n /\ l - 1 = k /\ k \in Nat
    BY <2>1
  <2>3. f[l] = PutChar(f[k], str[l]) /\ f[k] \in Screens /\ ShowsPart(s, str, k, f[k])
    BY <1>2, <1>5, <2>2
  <2>4. str[k + 1] # Newline /\ s.col + k + 1 < SCREEN_WIDTH /\ f[l] = PutChar(f[k], str[k + 1])
    BY <1>1, <1>3, <2>1, <2>2, <2>3
  <2>5. ShowsPart(s, str, k + 1, f[l])
    BY <2>2, <2>3, <2>4, OneMore
  <2> QED
    BY <2>1, <2>2, <2>5
<1>6. n \in S
  <2> HIDE DEF S
  <2>1. \A k \in 0..n : k \in S
    BY <1>4, <1>5, Upward
  <2> QED
    BY <2>1
<1> QED
  BY <1>1, <1>2, <1>6

(* screen_set_cursor moves the cursor only, and only to a cell.            *)
LEMMA CursorSetIs ==
  ASSUME NEW s \in Screens, NEW row, NEW col
  PROVE  /\ CursorSet(s, row, col) \in Screens
         /\ row \in Rows /\ col \in Columns =>
              CursorSet(s, row, col) = [row |-> row, col |-> col, video |-> s.video]
<1>1. PICK r \in Rows, c \in Columns, v \in [ScreenCells -> Glyphs] :
        s = [row |-> r, col |-> c, video |-> v]
  BY DEF Screens
<1>2. row \in Rows /\ col \in Columns =>
        CursorSet(s, row, col) = [row |-> row, col |-> col, video |-> v]
  BY <1>1 DEF CursorSet, Rows, Columns
<1>3. ~(row \in Rows /\ col \in Columns) => CursorSet(s, row, col) = s
  BY DEF CursorSet, Rows, Columns
<1>4. row \in Rows /\ col \in Columns => CursorSet(s, row, col) \in Screens
  BY <1>1, <1>2 DEF Screens
<1> QED
  BY <1>1, <1>2, <1>3, <1>4

(* A cleared screen is a screen.                                           *)
LEMMA ClearTyped == screen_clear \in Screens
<1>1. Blank \in Glyphs
  BY DEF Glyphs
<1>2. [i \in ScreenCells |-> Blank] \in [ScreenCells -> Glyphs]
  BY <1>1
<1> QED
  BY <1>2, Coordinates DEF screen_clear, Screens

(* From the cursor to the end of the screen nothing is written.            *)
BlankAfter(s) == \A i \in ScreenCells : i >= Position(s.row, s.col) => s.video[i] = Blank

(* A character leaves nothing behind itself.                               *)
LEMMA BlankStaysAfter ==
  ASSUME NEW s \in Screens, BlankAfter(s), NEW ch
  PROVE  BlankAfter(PutChar(s, ch))
<1>1. PICK r \in Rows, c \in Columns, v \in [ScreenCells -> Glyphs] :
        r = s.row /\ c = s.col /\ v = s.video
  BY DEF Screens
<1>2. PICK w : w = Inked(s, ch)
  OBVIOUS
<1>3. PICK p : p = Position(r, c)
  OBVIOUS
<1>4. p \in Nat /\ p \in ScreenCells
  BY <1>3, CellOf
<1>5. /\ SCREEN_WIDTH \in Nat /\ SCREEN_HEIGHT \in Nat /\ r \in Nat /\ c \in Nat
      /\ r < SCREEN_HEIGHT /\ c < SCREEN_WIDTH
  BY VgaAssumption DEF Rows, Columns
<1>6. PICK b \in Nat : b = Position(r, 0)
  BY CellOf, Coordinates
<1>7. p = b + c /\ Position(r + 1, 0) = b + SCREEN_WIDTH
  BY <1>3, <1>6, CellOf
<1>8. \A i \in ScreenCells : i \in Nat /\ (i > p => w[i] = Blank)
  <2>1. \A i \in ScreenCells : i \in Nat
    BY DEF ScreenCells
  <2>2. \A i \in ScreenCells : i > p => v[i] = Blank
    BY <1>1, <1>3, <1>4, <2>1 DEF BlankAfter
  <2>3. w = v \/ w = [v EXCEPT ![p] = ch]
    BY <1>1, <1>2, <1>3 DEF Inked
  <2>4. \A i \in ScreenCells : i > p => w[i] = v[i]
    BY <1>1, <1>4, <2>1, <2>3
  <2> QED
    BY <2>1, <2>2, <2>4
<1>9. CASE ch # Newline /\ c + 1 < SCREEN_WIDTH
  <2>1. PutChar(s, ch) = [row |-> r, col |-> c + 1, video |-> w]
    BY <1>1, <1>2, <1>9, PutCharIs
  <2>2. c + 1 \in Columns
    BY <1>5, <1>9 DEF Columns
  <2>3. Position(r, c + 1) = b + (c + 1)
    BY <1>6, <2>2, CellOf
  <2>4. \A i \in ScreenCells : i >= b + (c + 1) => i > p
    BY <1>5, <1>7, <1>8
  <2> QED
    BY <1>8, <2>1, <2>3, <2>4 DEF BlankAfter
<1>10. CASE ~(ch # Newline /\ c + 1 < SCREEN_WIDTH) /\ r + 1 < SCREEN_HEIGHT
  <2>1. PutChar(s, ch) = [row |-> r + 1, col |-> 0, video |-> w]
    <3>1. ch = Newline \/ c + 1 = SCREEN_WIDTH
      BY <1>5, <1>10
    <3> QED
      BY <1>1, <1>2, <1>10, <3>1, PutCharIs
  <2>2. \A i \in ScreenCells : i >= b + SCREEN_WIDTH => i > p
    BY <1>5, <1>7, <1>8
  <2> QED
    BY <1>7, <1>8, <2>1, <2>2 DEF BlankAfter
<1>11. CASE ~(ch # Newline /\ c + 1 < SCREEN_WIDTH) /\ ~(r + 1 < SCREEN_HEIGHT)
  <2>1. PutChar(s, ch) = [row |-> SCREEN_HEIGHT - 1, col |-> 0, video |-> Scrolled(w)]
    <3>1. (ch = Newline \/ c + 1 = SCREEN_WIDTH) /\ r + 1 = SCREEN_HEIGHT
      BY <1>5, <1>11
    <3> QED
      BY <1>1, <1>2, <3>1, PutCharIs
  <2>2. SCREEN_HEIGHT - 1 = r
    BY <1>5, <1>11
  <2>3. b + SCREEN_WIDTH = SCREEN_WIDTH * SCREEN_HEIGHT
    <3>1. b + SCREEN_WIDTH = (r + 1) * SCREEN_WIDTH + 0
      BY <1>7 DEF Position
    <3>2. r + 1 = SCREEN_HEIGHT
      BY <1>5, <1>11
    <3> QED
      BY <1>5, <3>1, <3>2
  <2>4. \A i \in ScreenCells : i >= b => ~(i + SCREEN_WIDTH \in ScreenCells)
    <3>1. PICK e : e = SCREEN_WIDTH * SCREEN_HEIGHT
      OBVIOUS
    <3>2. ScreenCells = 0..(e - 1) /\ e = b + SCREEN_WIDTH
      BY <2>3, <3>1 DEF ScreenCells
    <3> QED
      BY <1>5, <3>2
  <2>5. \A i \in ScreenCells : i >= b => Scrolled(w)[i] = Blank
    BY <2>4 DEF Scrolled
  <2> QED
    BY <1>6, <2>1, <2>2, <2>5 DEF BlankAfter
<1> QED
  BY <1>9, <1>10, <1>11

(* Whatever is written on a cleared screen, the rest of the cursor's row   *)
(* is blank.                                                               *)
LEMMA BlankAfterClear ==
  ASSUME NEW str \in Seq(Glyphs)
  PROVE  BlankBehind(Written(screen_clear, str))
<1>1. PICK n \in Nat : n = Len(str)
  OBVIOUS
<1>2. PICK f \in [0..n -> Screens] :
        /\ Written(screen_clear, str) = f[n] /\ f[0] = screen_clear
        /\ \A k \in 1..n : f[k] = PutChar(f[k - 1], str[k])
  BY <1>1, ClearTyped, WriteWalks
<1> DEFINE S == {k \in 0..n : BlankAfter(f[k])}
<1>3. 0 \in S
  <2>1. BlankAfter(screen_clear)
    BY DEF BlankAfter, screen_clear
  <2> QED
    BY <1>2, <2>1
<1>4. ASSUME NEW k \in 0..(n - 1), k \in S
      PROVE  k + 1 \in S
  <2>1. PICK l : l = k + 1
    OBVIOUS
  <2>2. l \in 1..n /\ l \in 0..n /\ k \in 0..n /\ l - 1 = k
    BY <2>1
  <2>3. f[l] = PutChar(f[k], str[l]) /\ f[k] \in Screens /\ BlankAfter(f[k])
    BY <1>2, <1>4, <2>2
  <2>4. BlankAfter(f[l])
    BY <2>3, BlankStaysAfter
  <2> QED
    BY <2>1, <2>2, <2>4
<1>5. n \in S
  <2> HIDE DEF S
  <2>1. \A k \in 0..n : k \in S
    BY <1>3, <1>4, Upward
  <2> QED
    BY <2>1
<1>6. PICK s \in Screens : s = f[n] /\ BlankAfter(s)
  BY <1>2, <1>5
<1>7. PICK r \in Rows, c \in Columns : r = s.row /\ c = s.col
  BY DEF Screens
<1>8. ASSUME NEW col \in c..(SCREEN_WIDTH - 1)
      PROVE  s.video[Position(r, col)] = Blank
  <2>1. col \in Columns
    BY VgaAssumption DEF Columns
  <2>2. PICK b \in Nat : b = Position(r, 0)
    BY CellOf, Coordinates
  <2>3. Position(r, col) = b + col /\ Position(r, c) = b + c /\ Position(r, col) \in ScreenCells
    BY <2>1, <2>2, CellOf
  <2>4. b + col >= b + c
    BY <2>1, <2>2 DEF Columns
  <2> QED
    BY <1>6, <1>7, <2>3, <2>4 DEF BlankAfter
<1> QED
  BY <1>2, <1>6, <1>7, <1>8 DEF BlankBehind

(* The strings the console puts together are strings of glyphs.            *)
LEMMA GlyphStrings ==
  /\ Prompt \in Seq(Glyphs)
  /\ \A command \in DOMAIN Output : Output[command] \in Seq(Glyphs)
  /\ \A t \in Seq(Chars) : t \in Seq(Glyphs)
  /\ <<>> \in Seq(Glyphs) /\ <<Newline>> \in Seq(Glyphs) /\ <<Blank>> \in Seq(Glyphs)
  /\ <<Blank, Blank>> \in Seq(Glyphs) /\ <<Newline, Newline>> \in Seq(Glyphs)
<1>1. /\ Chars \subseteq Glyphs /\ Range(Prompt) \subseteq Glyphs
      /\ \A command \in DOMAIN Output : Range(Output[command]) \subseteq Glyphs
      /\ Newline \in Glyphs /\ Blank \in Glyphs
  BY DEF Glyphs
<1>2. ASSUME NEW A, A \subseteq Glyphs, NEW t \in Seq(A)
      PROVE  t \in Seq(Glyphs)
  <2>1. t \in [1..Len(t) -> A] /\ Len(t) \in Nat
    OBVIOUS
  <2>2. t \in [1..Len(t) -> Glyphs]
    BY <1>2, <2>1
  <2> QED
    BY <2>1, <2>2
<1>3. Prompt \in Seq(Glyphs)
  BY <1>1, <1>2, ConsoleAssumption
<1>4. \A command \in DOMAIN Output : Output[command] \in Seq(Glyphs)
  BY <1>1, <1>2, ConsoleAssumption
<1>5. \A t \in Seq(Chars) : t \in Seq(Glyphs)
  BY <1>1, <1>2
<1>6. /\ <<>> \in Seq(Glyphs) /\ <<Newline>> \in Seq(Glyphs) /\ <<Blank>> \in Seq(Glyphs)
      /\ <<Blank, Blank>> \in Seq(Glyphs) /\ <<Newline, Newline>> \in Seq(Glyphs)
  BY <1>1
<1> QED
  BY <1>3, <1>4, <1>5, <1>6

(* Two strings of glyphs joined are one.                                   *)
LEMMA JoinedGlyphs ==
  ASSUME NEW a \in Seq(Glyphs), NEW b \in Seq(Glyphs)
  PROVE  a \o b \in Seq(Glyphs)
  BY Joined

(* The list of matches, in the form of the definition.                     *)
ListBody(M, before, second, f) ==
  [i \in 0..Len(available_commands) |->
     IF i = 0 THEN <<Newline>> \o available_commands[before]
     ELSE IF i \in M /\ i >= second THEN f[i - 1] \o <<Blank, Blank>> \o available_commands[i]
     ELSE f[i - 1]]

(* The list of matches is a string of glyphs.                              *)
LEMMA ListedTyped ==
  ASSUME ShellInv, Cardinality(Matching) > 1
  PROVE  Listed \in Seq(Glyphs)
<1>1. PICK M : M = Matching
  OBVIOUS
<1>2. PICK first, second, before :
        /\ first = Min(M) /\ second = Min(M \ {first}) /\ before = second - 1
        /\ before \in DOMAIN available_commands
  BY <1>1, FirstMatches
<1>3. PICK n \in Nat : n = Len(available_commands)
  BY ShellSizes
<1>4. \A i \in 1..n : available_commands[i] \in Seq(Glyphs)
  BY <1>3, ShellSizes, GlyphStrings
<1>5. PICK base : base = <<Newline>> \o available_commands[before]
  OBVIOUS
<1>6. base \in Seq(Glyphs)
  BY <1>2, <1>5, ShellSizes, GlyphStrings, JoinedGlyphs
<1> DEFINE More(i, l) == IF i \in M /\ i >= second THEN l \o <<Blank, Blank>> \o available_commands[i]
                         ELSE l
<1>7. ASSUME NEW i \in 1..n, NEW l \in Seq(Glyphs)
      PROVE  More(i, l) \in Seq(Glyphs)
  <2>1. l \o <<Blank, Blank>> \in Seq(Glyphs)
    BY GlyphStrings, JoinedGlyphs
  <2>2. (l \o <<Blank, Blank>>) \o available_commands[i] \in Seq(Glyphs)
    BY <1>4, <2>1, JoinedGlyphs
  <2> QED
    BY <2>2
<1>8. PICK T : T = Seq(Glyphs)
  OBVIOUS
<1>9. PICK step : step = [p \in (1..n) \X T |-> More(p[1], p[2])]
  OBVIOUS
<1> HIDE DEF More
<1>10. step \in Steppings(n, T)
  <2>1. ASSUME NEW p \in (1..n) \X T
        PROVE  More(p[1], p[2]) \in T
    <3>1. p[1] \in 1..n /\ p[2] \in Seq(Glyphs)
      BY <1>8
    <3> QED
      BY <1>7, <1>8, <3>1
  <2> QED
    BY <1>9, <2>1 DEF Steppings
<1>11. PICK g \in [0..n -> T] : g[0] = base /\ \A k \in 1..n : g[k] = step[<<k, g[k - 1]>>]
  <2>1. base \in T
    BY <1>6, <1>8
  <2> QED
    BY <1>10, <2>1, WalkExists
<1>12. ASSUME NEW k \in 1..n
       PROVE  g[k] = More(k, g[k - 1])
  <2>1. PICK p : p = <<k, g[k - 1]>>
    OBVIOUS
  <2>2. p \in (1..n) \X T /\ p[1] = k /\ p[2] = g[k - 1]
    BY <1>11, <2>1
  <2> QED
    BY <1>9, <1>11, <2>1, <2>2
<1>13. g = ListBody(M, before, second, g)
  <2>1. ASSUME NEW k \in 0..n
        PROVE  g[k] = IF k = 0 THEN base ELSE More(k, g[k - 1])
    <3>1. k = 0 \/ k \in 1..n
      OBVIOUS
    <3> QED
      BY <1>11, <1>12, <3>1
  <2>2. g = [k \in 0..n |-> IF k = 0 THEN base ELSE More(k, g[k - 1])]
    BY <1>11, <2>1
  <2> QED
    BY <1>3, <1>5, <2>2, Zenon DEF ListBody, More
<1>14. PICK f : f = CHOOSE h : h = ListBody(M, before, second, h)
  OBVIOUS
<1>15. f = ListBody(M, before, second, f)
  BY <1>13, <1>14, Zenon
<1>16. Listed = f[n]
  BY <1>1, <1>2, <1>3, <1>14, Zenon DEF Listed, ListBody
<1>17. f = [k \in 0..n |-> IF k = 0 THEN base ELSE More(k, f[k - 1])]
  BY <1>3, <1>5, <1>15, Zenon DEF ListBody, More
<1> DEFINE S == {k \in 0..n : f[k] \in Seq(Glyphs)}
<1>18. 0 \in S
  BY <1>6, <1>17
<1>19. ASSUME NEW k \in 0..(n - 1), k \in S
       PROVE  k + 1 \in S
  <2>1. PICK l : l = k + 1
    OBVIOUS
  <2>2. l \in 1..n /\ l \in 0..n /\ l # 0 /\ l - 1 = k
    BY <2>1
  <2>3. f[l] = More(l, f[k])
    BY <1>17, <2>2
  <2>4. f[k] \in Seq(Glyphs)
    BY <1>19
  <2>5. More(l, f[k]) \in Seq(Glyphs)
    BY <1>7, <2>2, <2>4
  <2> QED
    BY <2>1, <2>2, <2>3, <2>5
<1>20. n \in S
  <2> HIDE DEF S
  <2>1. \A k \in 0..n : k \in S
    BY <1>18, <1>19, Upward
  <2> QED
    BY <2>1
<1> QED
  BY <1>16, <1>20

(* The command's name and its arguments are parts of the line.             *)
LEMMA SplitTyped ==
  ASSUME NEW line \in Seq(Chars)
  PROVE  cmd(line) \in Seq(Chars) /\ full_args(line) \in Seq(Chars)
<1>1. PICK n \in Nat : n = Len(line)
  OBVIOUS
<1>2. PICK t : t = TokenLength(line)
  OBVIOUS
<1>3. t \in 0..n
  <2> DEFINE S == {k \in 0..n : \A i \in 1..k : line[i] # Space}
  <2>1. 0 \in S /\ S \subseteq 0..n
    OBVIOUS
  <2>2. Max(S) \in S
    <3> HIDE DEF S
    <3> QED
      BY <2>1, MaxExists
  <2>3. t = Max(S)
    BY <1>1, <1>2 DEF TokenLength
  <2> QED
    BY <2>1, <2>2, <2>3
<1>4. cmd(line) \in Seq(Chars)
  <2>1. 1 \in 1..(Len(line) + 1) /\ t \in (1 - 1)..Len(line)
    BY <1>1, <1>3
  <2>2. SubSeq(line, 1, t) \in Seq(Chars)
    BY <2>1, Part
  <2> QED
    BY <1>2, <2>2 DEF cmd
<1>5. full_args(line) \in Seq(Chars)
  <2>1. PICK ink : ink = {i \in (t + 1)..n : line[i] # Space}
    OBVIOUS
  <2>2. full_args(line) = IF ink = {} THEN <<>> ELSE SubSeq(line, Min(ink), n)
    BY <1>1, <1>2, <2>1 DEF full_args
  <2>3. CASE ink = {}
    <3>1. <<>> \in Seq(Chars)
      OBVIOUS
    <3> QED
      BY <2>2, <2>3, <3>1
  <2>4. CASE ink # {}
    <3>1. PICK m : m = Min(ink)
      OBVIOUS
    <3>2. m \in ink
      <4>1. ink \subseteq Nat
        BY <1>3, <2>1
      <4> QED
        BY <2>4, <3>1, <4>1, MinExists
    <3>3. m \in 1..(Len(line) + 1) /\ n \in (m - 1)..Len(line)
      BY <1>1, <1>3, <2>1, <3>2
    <3>4. SubSeq(line, m, n) \in Seq(Chars)
      BY <3>3, Part
    <3> QED
      BY <2>2, <2>4, <3>1, <3>4
  <2> QED
    BY <2>3, <2>4
<1> QED
  BY <1>4, <1>5

(* A command leaves a screen a screen.                                     *)
LEMMA ExecutedTyped ==
  ASSUME NEW s \in Screens, NEW line \in Seq(Chars)
  PROVE  Executed(s, line) \in Screens
<1>1. PICK c, a : c = cmd(line) /\ a = full_args(line)
  OBVIOUS
<1>2. c \in Seq(Glyphs) /\ a \in Seq(Glyphs)
  BY <1>1, SplitTyped, GlyphStrings
<1>3. PutChar(s, Newline) \in Screens
  <2>1. Newline \in Glyphs
    BY DEF Glyphs
  <2> QED
    BY <2>1, PutCharTyped
<1>4. Written(s, <<Newline>> \o a \o <<Newline>>) \in Screens
  <2>1. <<Newline>> \o a \in Seq(Glyphs)
    BY <1>2, GlyphStrings, JoinedGlyphs
  <2>2. (<<Newline>> \o a) \o <<Newline>> \in Seq(Glyphs)
    BY <2>1, GlyphStrings, JoinedGlyphs
  <2> QED
    BY <2>2, WrittenTyped
<1>5. Written(s, <<Newline>> \o c \o <<Newline, Newline>>) \in Screens
  <2>1. <<Newline>> \o c \in Seq(Glyphs)
    BY <1>2, GlyphStrings, JoinedGlyphs
  <2>2. (<<Newline>> \o c) \o <<Newline, Newline>> \in Seq(Glyphs)
    BY <2>1, GlyphStrings, JoinedGlyphs
  <2> QED
    BY <2>2, WrittenTyped
<1>6. c \in DOMAIN Output => Written(s, Output[c]) \in Screens
  BY GlyphStrings, WrittenTyped
<1> QED
  BY <1>1, <1>3, <1>4, <1>5, <1>6, ClearTyped DEF Executed

(* The inductive invariant of module Console: LineShown needs that the     *)
(* line in sight ends before the edge, and that the screen is one.         *)
ConsoleTypeOK ==
  /\ screen \in Screens
  /\ start_row \in Rows
  /\ start_col \in Columns
  /\ drawn \in BOOLEAN

LineInRow == drawn => start_col + length < SCREEN_WIDTH

ConsoleInv == ShellInv /\ ConsoleTypeOK /\ LineInRow /\ LineShown

(* What the screen shows of a line of n characters txt with the cursor at  *)
(* p: LineShown of values.                                                 *)
Shown(s, r, c, txt, n, p) ==
  /\ s.row = r /\ s.col = c + p
  /\ \A col \in c..(SCREEN_WIDTH - 1) :
       s.video[Position(r, col)] = IF col < c + n THEN txt[col - c + 1] ELSE Blank

(* A redraw: the line and pad over the old line, which is no longer.       *)
LEMMA RedrawnShows ==
  ASSUME NEW s \in Screens, NEW r \in Rows, NEW c \in Columns, NEW old, NEW m \in Nat, NEW q,
         Shown(s, r, c, old, m, q), NEW txt \in Seq(Chars), NEW pad \in {<<>>, <<Blank>>},
         NEW p \in 0..Len(txt), m <= Len(txt) + Len(pad), c + Len(txt) + Len(pad) < SCREEN_WIDTH
  PROVE  Shown(CursorSet(Written(CursorSet(s, r, c), txt \o pad), r, c + p), r, c, txt, Len(txt), p)
<1>1. PICK s1 : s1 = CursorSet(s, r, c)
  OBVIOUS
<1>2. PICK v \in [ScreenCells -> Glyphs] : v = s.video
  BY DEF Screens
<1>3. s1 \in Screens /\ s1 = [row |-> r, col |-> c, video |-> v]
  BY <1>1, <1>2, CursorSetIs
<1>4. PICK str : str = txt \o pad
  OBVIOUS
<1>5. PICK n \in Nat, l \in 0..1 : n = Len(txt) /\ l = Len(pad)
  OBVIOUS
<1>6. /\ str \in Seq(Glyphs) /\ Len(str) = n + l
      /\ \A i \in 1..n : str[i] = txt[i]
      /\ \A i \in (n + 1)..(n + l) : str[i] = Blank
  <2>1. txt \in Seq(Glyphs) /\ pad \in Seq(Glyphs)
    BY GlyphStrings
  <2>2. /\ txt \o pad \in Seq(Glyphs) /\ Len(txt \o pad) = Len(txt) + Len(pad)
        /\ \A i \in 1..Len(txt) : (txt \o pad)[i] = txt[i]
        /\ \A i \in 1..Len(pad) : (txt \o pad)[Len(txt) + i] = pad[i]
    BY ONLY <2>1, Joined
  <2>3. \A i \in 1..l : pad[i] = Blank
    BY <1>5
  <2>4. \A i \in (n + 1)..(n + l) : i - n \in 1..l /\ n + (i - n) = i
    BY <1>5
  <2> QED
    BY <1>4, <1>5, <2>2, <2>3, <2>4
<1>7. \A i \in 1..Len(str) : str[i] # Newline
  <2>1. \A i \in 1..n : txt[i] \in Chars
    BY <1>5
  <2>2. Newline \notin Chars /\ Blank # Newline
    BY ConsoleAssumption DEF Blank, Newline
  <2>3. \A i \in 1..Len(str) : i \in 1..n \/ i \in (n + 1)..(n + l)
    BY <1>5, <1>6
  <2> QED
    BY <1>6, <2>1, <2>2, <2>3
<1>8. PICK s2 : s2 = Written(s1, str)
  OBVIOUS
<1>9. c \in Nat /\ SCREEN_WIDTH \in Nat /\ c + (n + l) < SCREEN_WIDTH /\ p \in Nat /\ p <= n
  BY <1>5, VgaAssumption DEF Columns
<1>10. s2 \in Screens /\ ShowsPart(s1, str, n + l, s2)
  BY <1>3, <1>6, <1>7, <1>8, <1>9, WrittenInRow
<1>11. PICK s3 : s3 = CursorSet(s2, r, c + p)
  OBVIOUS
<1>12. s3 = [row |-> r, col |-> c + p, video |-> s2.video]
  <2>1. c + p \in Columns
    BY <1>5, <1>9 DEF Columns
  <2> QED
    BY <1>10, <1>11, <2>1, CursorSetIs
<1>13. ASSUME NEW col \in c..(SCREEN_WIDTH - 1)
       PROVE  s2.video[Position(r, col)] = IF col < c + n THEN txt[col - c + 1] ELSE Blank
  <2>1. col \in Columns /\ col \in Nat /\ c <= col
    BY <1>9 DEF Columns
  <2>2. s2.video[Position(r, col)] =
          IF col \in c..(c + (n + l) - 1) THEN str[col - c + 1] ELSE v[Position(r, col)]
    BY <1>3, <1>10, <2>1 DEF ShowsPart
  <2>3. CASE col < c + n
    <3>1. col \in c..(c + (n + l) - 1) /\ col - c + 1 \in 1..n
      BY <1>5, <1>9, <2>1, <2>3
    <3> QED
      BY <1>6, <2>2, <2>3, <3>1
  <2>4. CASE ~(col < c + n) /\ col < c + (n + l)
    <3>1. col \in c..(c + (n + l) - 1) /\ col - c + 1 \in (n + 1)..(n + l)
      BY <1>5, <1>9, <2>1, <2>4
    <3> QED
      BY <1>6, <2>2, <2>4, <3>1
  <2>5. CASE ~(col < c + (n + l))
    <3>1. ~(col \in c..(c + (n + l) - 1)) /\ ~(col < c + m) /\ ~(col < c + n)
      BY <1>5, <1>9, <2>1, <2>5
    <3>2. v[Position(r, col)] = Blank
      BY <1>2, <3>1 DEF Shown
    <3> QED
      BY <2>2, <3>1, <3>2
  <2> QED
    BY <2>3, <2>4, <2>5
<1>14. Shown(s3, r, c, txt, n, p)
  BY <1>12, <1>13 DEF Shown
<1> QED
  BY <1>1, <1>4, <1>5, <1>8, <1>11, <1>14

(* A key that edits the line.                                              *)
LEMMA RedrawStep ==
  ASSUME ConsoleInv, ShellInv', NEW pad \in {<<>>, <<Blank>>}, Redraw(pad),
         length <= length' + Len(pad),
         drawn /\ start_col + length' < SCREEN_WIDTH =>
           start_col + length' + Len(pad) < SCREEN_WIDTH
  PROVE  ConsoleInv'
<1>1. PICK s, r, c : s = screen /\ r = start_row /\ c = start_col
  OBVIOUS
<1>2. PICK txt, p, m : txt = Text' /\ p = cursor_pos' /\ m = length
  OBVIOUS
<1>3. s \in Screens /\ r \in Rows /\ c \in Columns /\ drawn \in BOOLEAN
  BY <1>1 DEF ConsoleInv, ConsoleTypeOK
<1>4. txt \in Seq(Chars) /\ Len(txt) = length' /\ p \in 0..Len(txt) /\ m \in Nat
  <2>1. cursor_pos' \in 0..length'
    BY DEF ShellInv, TypeOK
  <2> QED
    BY <1>2, <2>1, TextAfter, ShellTypes DEF ConsoleInv
<1>5. PICK s3 : s3 = CursorSet(Written(CursorSet(s, r, c), txt \o pad), r, c + p)
  OBVIOUS
<1>6. /\ screen' = s3 /\ start_row' = r /\ start_col' = c
      /\ drawn' = (drawn /\ c + length' < SCREEN_WIDTH)
  BY <1>1, <1>2, <1>5 DEF Redraw, ToCursor
<1>7. s3 \in Screens
  <2>1. txt \o pad \in Seq(Glyphs)
    BY <1>4, GlyphStrings, JoinedGlyphs
  <2>2. CursorSet(s, r, c) \in Screens
    BY <1>3, CursorSetIs
  <2>3. Written(CursorSet(s, r, c), txt \o pad) \in Screens
    BY <2>1, <2>2, WrittenTyped
  <2> QED
    BY <1>5, <2>3, CursorSetIs
<1>8. ConsoleTypeOK' /\ LineInRow'
  BY <1>3, <1>6, <1>7 DEF ConsoleTypeOK, LineInRow
<1>9. ASSUME drawn' PROVE Shown(s3, r, c, txt, Len(txt), p)
  <2>1. drawn /\ c + length' < SCREEN_WIDTH
    BY <1>6, <1>9
  <2>2. Shown(s, r, c, Text, m, cursor_pos)
    BY <1>1, <1>2, <2>1 DEF ConsoleInv, LineShown, Shown
  <2>3. c + Len(txt) + Len(pad) < SCREEN_WIDTH /\ m <= Len(txt) + Len(pad)
    BY <1>1, <1>2, <1>4, <2>1
  <2> QED
    BY <1>3, <1>4, <1>5, <2>2, <2>3, RedrawnShows
<1>10. LineShown'
  <2>1. drawn' => Shown(screen', start_row', start_col', Text', length', cursor_pos')
    BY <1>2, <1>4, <1>6, <1>9
  <2> QED
    BY <2>1 DEF LineShown, Shown
<1> QED
  BY <1>8, <1>10 DEF ConsoleInv

(* A key that moves the cursor.                                            *)
LEMMA DrawMoveStep ==
  ASSUME ConsoleInv, DrawMove
  PROVE  ConsoleInv'
<1>1. PICK s, r, c, p : s = screen /\ r = start_row /\ c = start_col /\ p = cursor_pos'
  OBVIOUS
<1>2. s \in Screens /\ r \in Rows /\ c \in Columns /\ drawn \in BOOLEAN
  BY <1>1 DEF ConsoleInv, ConsoleTypeOK
<1>3. ShellInv'
  BY CursorKeys DEF ConsoleInv, DrawMove
<1>4. length' = length /\ command_buffer' = command_buffer
  BY DEF DrawMove, Left, Right, Home, End, MoveTo
<1>5. Text' = Text
  BY <1>4 DEF Text
<1>6. screen' = CursorSet(s, r, c + p) /\ start_row' = r /\ start_col' = c /\ drawn' = drawn
  BY <1>1 DEF DrawMove, ToCursor
<1>7. ConsoleTypeOK' /\ LineInRow'
  <2>1. CursorSet(s, r, c + p) \in Screens
    BY <1>2, CursorSetIs
  <2> QED
    BY <1>1, <1>2, <1>4, <1>6, <2>1 DEF ConsoleInv, ConsoleTypeOK, LineInRow
<1>8. LineShown'
  <2>1. ASSUME drawn'
        PROVE  /\ screen'.row = r /\ screen'.col = c + p
               /\ screen'.video = s.video
    <3>1. c + length < SCREEN_WIDTH
      BY <1>1, <1>6, <2>1 DEF ConsoleInv, LineInRow
    <3>2. p \in Nat /\ p <= length /\ length \in Nat
      <4>1. p \in 0..length
        BY <1>1, <1>3, <1>4 DEF ShellInv, TypeOK
      <4> QED
        BY <4>1, ShellTypes DEF ConsoleInv
    <3>3. c + p \in Columns
      BY <1>2, <3>1, <3>2, VgaAssumption DEF Columns
    <3> QED
      BY <1>2, <1>6, <3>3, CursorSetIs
  <2> QED
    BY <1>1, <1>4, <1>5, <1>6, <2>1 DEF ConsoleInv, LineShown
<1> QED
  BY <1>3, <1>7, <1>8 DEF ConsoleInv

(* A Tab.                                                                  *)
LEMMA DrawTabStep ==
  ASSUME ConsoleInv, DrawTabNone \/ DrawTabOne \/ DrawTabSeveral
  PROVE  ConsoleInv'
<1>1. screen \in Screens /\ ShellInv /\ start_row \in Rows /\ start_col \in Columns
  BY DEF ConsoleInv, ConsoleTypeOK
<1>2. ShellInv'
  BY <1>1, TabStep DEF Tab, DrawTabNone, DrawTabOne, DrawTabSeveral
<1>3. PICK txt : txt = Text'
  OBVIOUS
<1>4. txt \in Seq(Chars) /\ txt \in Seq(Glyphs) /\ Len(txt) = length' /\ length' \in Nat
  BY <1>2, <1>3, TextAfter, GlyphStrings
<1>5. ASSUME NEW s \in Screens, AfterTab(s)
      PROVE  ConsoleInv'
  <2>1. s.row \in Rows /\ s.col \in Columns
    BY DEF Screens
  <2>2. screen' = s /\ start_row' = s.row /\ start_col' = s.col /\ drawn' = FALSE
    BY <1>5 DEF AfterTab
  <2> QED
    BY <1>2, <2>1, <2>2 DEF ConsoleInv, ConsoleTypeOK, LineInRow, LineShown
<1>6. CASE DrawTabNone
  BY <1>1, <1>5, <1>6 DEF DrawTabNone
<1>7. CASE DrawTabOne
  <2>1. PICK n : n = length
    OBVIOUS
  <2>2. n \in Nat
    BY <1>1, <2>1, ShellTypes
  <2>3. SubSeq(txt, n + 1, length') \in Seq(Chars)
    <3>1. PICK k \in Nat : k = length' /\ k = Len(txt)
      BY <1>4
    <3>2. n <= k
      <4>1. PICK i \in Matching :
              \/ Completed(Append(available_commands[i], Space), Len(available_commands[i]) + 1)
              \/ Completed(<<>>, length)
        BY <1>7 DEF DrawTabOne, TabOne
      <4>2. i \in DOMAIN available_commands /\ length <= Len(available_commands[i])
        BY <1>1, LineBeginsMatch, MatchIs
      <4>3. Len(available_commands[i]) \in Nat
        BY <4>2, ShellSizes
      <4>4. k = Len(available_commands[i]) + 1 \/ k = length
        BY <3>1, <4>1 DEF Completed
      <4> QED
        BY <2>1, <2>2, <4>2, <4>3, <4>4
    <3>3. n + 1 \in 1..(Len(txt) + 1) /\ k \in ((n + 1) - 1)..Len(txt)
      BY <2>2, <3>1, <3>2
    <3>4. SubSeq(txt, n + 1, k) \in Seq(Chars)
      BY <1>4, <3>3, Part
    <3> QED
      BY <3>1, <3>4
  <2>4. Written(screen, SubSeq(txt, n + 1, length')) \in Screens
    BY <1>1, <2>3, GlyphStrings, WrittenTyped
  <2>5. AfterTab(Written(screen, SubSeq(txt, n + 1, length')))
    BY <1>3, <1>7, <2>1 DEF DrawTabOne
  <2> QED
    BY <1>5, <2>4, <2>5
<1>8. CASE DrawTabSeveral
  <2>1. Cardinality(Matching) > 1
    BY <1>8 DEF DrawTabSeveral, TabSeveral
  <2>2. PICK l : l = Listed
    OBVIOUS
  <2>3. l \in Seq(Glyphs)
    BY <1>1, <2>1, <2>2, ListedTyped
  <2>4. l \o <<Newline>> \in Seq(Glyphs)
    BY <2>3, GlyphStrings, JoinedGlyphs
  <2>5. (l \o <<Newline>>) \o Prompt \in Seq(Glyphs)
    BY <2>4, GlyphStrings, JoinedGlyphs
  <2>6. ((l \o <<Newline>>) \o Prompt) \o txt \in Seq(Glyphs)
    BY <1>4, <2>5, JoinedGlyphs
  <2>7. Written(screen, ((l \o <<Newline>>) \o Prompt) \o txt) \in Screens
    BY <1>1, <2>6, WrittenTyped
  <2>8. AfterTab(Written(screen, ((l \o <<Newline>>) \o Prompt) \o txt))
    BY <1>3, <1>8, <2>2 DEF DrawTabSeveral
  <2> QED
    BY <1>5, <2>7, <2>8
<1> QED
  BY <1>6, <1>7, <1>8

(* A prompt starts an empty line.                                          *)
LEMMA PromptedShows ==
  ASSUME NEW s \in Screens, BlankBehind(s), NEW txt
  PROVE  Shown(s, s.row, s.col, txt, 0, 0)
<1>1. s.col \in Nat /\ s.row \in Rows
  BY DEF Screens, Columns
<1>2. s.col + 0 = s.col /\ \A col \in s.col..(SCREEN_WIDTH - 1) : ~(col < s.col + 0)
  BY <1>1, VgaAssumption
<1> QED
  BY <1>1, <1>2 DEF Shown, BlankBehind

(* Enter.                                                                  *)
LEMMA DrawEnterStep ==
  ASSUME ConsoleInv, DrawEnter
  PROVE  ConsoleInv'
<1>1. screen \in Screens /\ ShellInv /\ str_trim \in Seq(Chars) /\ Newline \in Glyphs
  BY TrimIs DEF ConsoleInv, ConsoleTypeOK, Glyphs
<1>2. ShellInv' /\ length' = 0 /\ cursor_pos' = 0
  BY <1>1, EnterStep DEF DrawEnter, Enter
<1>3. PICK s : s = Written(Executed(PutChar(screen, Newline), str_trim), Prompt)
  OBVIOUS
<1>4. s \in Screens
  <2>1. PutChar(screen, Newline) \in Screens
    BY <1>1, PutCharTyped
  <2>2. Executed(PutChar(screen, Newline), str_trim) \in Screens
    BY <1>1, <2>1, ExecutedTyped
  <2> QED
    BY <1>3, <2>2, WrittenTyped, GlyphStrings
<1>5. screen' = s /\ start_row' = s.row /\ start_col' = s.col /\ drawn' = BlankBehind(s)
  BY <1>3 DEF DrawEnter, Prompted
<1>6. s.row \in Rows /\ s.col \in Columns
  BY <1>4 DEF Screens
<1>7. ConsoleTypeOK'
  BY <1>4, <1>5, <1>6 DEF ConsoleTypeOK, BlankBehind
<1>8. LineInRow'
  BY <1>2, <1>5, <1>6, VgaAssumption DEF LineInRow, Columns
<1>9. LineShown'
  <2>1. drawn' => Shown(screen', start_row', start_col', Text', length', cursor_pos')
    BY <1>2, <1>4, <1>5, PromptedShows
  <2> QED
    BY <2>1 DEF LineShown, Shown
<1> QED
  BY <1>2, <1>7, <1>8, <1>9 DEF ConsoleInv

(* Every key.                                                              *)
LEMMA ConsoleStep ==
  ASSUME ConsoleInv, ConsoleNext
  PROVE  ConsoleInv'
<1>1. ShellInv /\ length \in Nat /\ start_col \in Nat /\ SCREEN_WIDTH \in Nat
  BY ShellTypes, VgaAssumption DEF ConsoleInv, ConsoleTypeOK, Columns
<1>2. Len(<<>>) = 0 /\ Len(<<Blank>>) = 1
  OBVIOUS
<1>3. ASSUME NEW ch \in Chars, DrawInsert(ch)
      PROVE  ConsoleInv'
  <2>1. ShellInv' /\ length' = length + 1 /\ Redraw(<<>>)
    BY <1>1, <1>3, InsertStep DEF DrawInsert, Insert
  <2>2. /\ length <= length' + Len(<<>>)
        /\ start_col + length' < SCREEN_WIDTH => start_col + length' + Len(<<>>) < SCREEN_WIDTH
    BY <1>1, <1>2, <2>1
  <2> QED
    BY <2>1, <2>2, RedrawStep
<1>4. ASSUME DrawBackspace \/ DrawDelete
      PROVE  ConsoleInv'
  <2>1. ShellInv' /\ length' = length - 1 /\ Redraw(<<Blank>>)
    <3>1. CASE DrawBackspace
      BY <1>1, <3>1, BackspaceStep DEF DrawBackspace, Backspace
    <3>2. CASE DrawDelete
      BY <1>1, <3>2, DeleteStep DEF DrawDelete, Delete
    <3> QED
      BY <1>4, <3>1, <3>2
  <2>2. drawn => start_col + length < SCREEN_WIDTH
    BY DEF ConsoleInv, LineInRow
  <2>3. /\ length <= length' + Len(<<Blank>>)
        /\ drawn => start_col + length' + Len(<<Blank>>) < SCREEN_WIDTH
    BY <1>1, <1>2, <2>1, <2>2
  <2> QED
    BY <2>1, <2>3, RedrawStep
<1> QED
  BY <1>3, <1>4, DrawMoveStep, DrawTabStep, DrawEnterStep DEF ConsoleNext

(* The first prompt, on a cleared screen.                                  *)
LEMMA ConsoleStart == ConsoleInit => ConsoleInv
<1> SUFFICES ASSUME ConsoleInit PROVE ConsoleInv
  OBVIOUS
<1>1. PICK s : s = Written(screen_clear, Prompt)
  OBVIOUS
<1>2. s \in Screens /\ BlankBehind(s)
  BY <1>1, ClearTyped, WrittenTyped, GlyphStrings, BlankAfterClear
<1>3. screen = s /\ start_row = s.row /\ start_col = s.col /\ drawn = TRUE
  BY <1>1 DEF ConsoleInit
<1>4. s.row \in Rows /\ s.col \in Columns
  BY <1>2 DEF Screens
<1>5. ShellInv /\ length = 0 /\ cursor_pos = 0
  BY ShellStart DEF ConsoleInit, Init
<1>6. ConsoleTypeOK /\ LineInRow
  BY <1>2, <1>3, <1>4, <1>5, VgaAssumption DEF ConsoleTypeOK, LineInRow, Columns
<1>7. LineShown
  <2>1. Shown(screen, start_row, start_col, Text, length, cursor_pos)
    BY <1>2, <1>3, <1>5, PromptedShows
  <2> QED
    BY <2>1 DEF LineShown, Shown
<1> QED
  BY <1>5, <1>6, <1>7 DEF ConsoleInv

(* The invariant of the prompt and its screen, for any prompt, commands    *)
(* and output, and any size of the screen, the line and the history.       *)
THEOREM ConsoleInvariance == ConsoleSpec => []ConsoleInv
<1>1. ConsoleInv /\ [ConsoleNext]_<<vars, screenVars>> => ConsoleInv'
  <2> SUFFICES ASSUME ConsoleInv, [ConsoleNext]_<<vars, screenVars>> PROVE ConsoleInv'
    OBVIOUS
  <2>1. CASE UNCHANGED <<vars, screenVars>>
    BY <2>1 DEF vars, screenVars, ConsoleInv, ConsoleTypeOK, LineInRow, LineShown, Text,
                ShellInv, TypeOK, LineOfChars
  <2> QED
    BY <2>1, ConsoleStep
<1> QED
  BY <1>1, ConsoleStart, PTL DEF ConsoleSpec

(* Until the first Tab the screen shows the line the buffer holds, with    *)
(* the cursor where the next key acts, wherever the prompt is.             *)
THEOREM LineIsShown == ConsoleSpec => []LineShown
<1>1. ConsoleInv => LineShown
  BY DEF ConsoleInv
<1> QED
  BY <1>1, ConsoleInvariance, PTL

(* Drawing changes nothing of the line: every behaviour of the console is  *)
(* one of the line editor, and has its properties.                         *)
THEOREM ConsoleIsShell == ConsoleSpec => Spec
<1>1. ConsoleInit => Init
  BY DEF ConsoleInit
<1>2. [ConsoleNext]_<<vars, screenVars>> => [Next]_vars
  BY DEF ConsoleNext, DrawInsert, DrawBackspace, DrawDelete, DrawMove, DrawTabNone, DrawTabOne,
         DrawTabSeveral, DrawEnter, Next, Tab
<1> QED
  BY <1>1, <1>2, PTL DEF ConsoleSpec, Spec

(* On the screen, too, the line never fills its buffer's last cell and the *)
(* cursor stays on it, whatever Tab found behind the line.                 *)
THEOREM ConsoleLineFits == ConsoleSpec => []TypeOK
  BY ConsoleIsShell, LineFits, PTL

(* On the screen, too, the prompt implements a line of text.               *)
THEOREM ConsoleImplementsCommandLine == ConsoleSpec => ImplementsCommandLine
  BY ConsoleIsShell, PromptImplementsCommandLine, PTL
=============================================================================
