-------------------------------- MODULE Screen --------------------------------
(***************************************************************************)
(* The screen driver shared by the shell and the processes                 *)
(* (kernel/screen.c, kernel/kprintf.c).  The shell draws with interrupts   *)
(* enabled and the driver has no lock: a timer interrupt can fall between  *)
(* any two loads and stores of its calls, and processes then make calls of *)
(* their own before the shell goes on.  A process is not interrupted (the  *)
(* PIC waits for its EOI, see module Process), so its calls are one step   *)
(* per character.  The kernel is built without optimisation: each          *)
(* statement loads and stores the variables it names, in their order.      *)
(*                                                                         *)
(* Which characters the cells hold is left out; where the driver writes is *)
(* not.  The strings of kprintf and screen_write are any sequence of       *)
(* printing characters and newlines.                                       *)
(***************************************************************************)
EXTENDS Vga

CONSTANTS
  Colors,         \* attributes
  DEFAULT_COLOR,
  ByteSize        \* values of a byte of the cursor's position (256)

ASSUME ScreenAssumption ==
  /\ DEFAULT_COLOR \in Colors
  /\ "plain" \notin Colors
  /\ ByteSize \in Nat \ {0}

VARIABLES
  cursor_row,
  cursor_col,
  current_color,
  vga,       \* the cursor registers: which one is selected, and both bytes
  last,      \* the position the driver last wrote a character to
  pc,        \* where the shell is in its call
  local,     \* the shell's locals: old_color, position, a loaded row or column
  overtaken  \* a process has drawn since the shell last read the cursor to show it

cursor == <<cursor_row, cursor_col>>
driverVars == <<cursor, current_color, vga, last, pc, local, overtaken>>

Printing == "printing"
Registers == {"high", "low"}
Plain == "plain"   \* the call does not change the colour
NoLocals == [color |-> Plain, row |-> 0, col |-> 0]

ScreenInit ==
  /\ cursor_row = 0
  /\ cursor_col = 0
  /\ current_color = DEFAULT_COLOR
  /\ vga = [selected |-> "low", high |-> 0, low |-> 0]
  /\ last = 0
  /\ pc = "idle"
  /\ local = NoLocals
  /\ overtaken = FALSE

Goto(from, to) == pc = from /\ pc' = to

-----------------------------------------------------------------------------
(* A call of screen_write, screen_putchar, screen_write_hex,               *)
(* screen_write_dec or kprintf, ...                                        *)
BeginPlain ==
  /\ Goto("idle", "char")
  /\ local' = NoLocals
  /\ UNCHANGED <<cursor, current_color, vga, last, overtaken>>

(* ... or of screen_write_color or kprintf_color, which saves the colour,  *)
BeginColored ==
  /\ Goto("idle", "set color")
  /\ local' = [NoLocals EXCEPT !.color = current_color]
  /\ UNCHANGED <<cursor, current_color, vga, last, overtaken>>

SetColor ==
  /\ Goto("set color", "char")
  /\ current_color' \in Colors
  /\ UNCHANGED <<cursor, vga, last, local, overtaken>>

EndOfString_KeepsColor ==
  /\ Goto("char", "update")
  /\ UNCHANGED <<cursor, current_color, vga, last, local, overtaken>>

(* puts it back after the last character, and updates the cursor.          *)
EndOfString ==
  /\ Goto("char", "update")
  /\ current_color' = IF local.color = Plain THEN current_color ELSE local.color
  /\ UNCHANGED <<cursor, vga, last, local, overtaken>>

-----------------------------------------------------------------------------
(* screen_putchar_internal in the shell.                                   *)

NewlineColumn ==
  /\ Goto("char", "newline load")
  /\ cursor_col' = 0
  /\ UNCHANGED <<cursor_row, current_color, vga, last, local, overtaken>>

(* A printing character goes to the position row and column give, ...      *)
PositionRow ==
  /\ Goto("char", "position")
  /\ local' = [local EXCEPT !.row = cursor_row]
  /\ UNCHANGED <<cursor, current_color, vga, last, overtaken>>

PositionColumn ==
  /\ Goto("position", "store char")
  /\ local' = [local EXCEPT !.col = cursor_col]
  /\ UNCHANGED <<cursor, current_color, vga, last, overtaken>>

StoreChar ==
  /\ Goto("store char", "load column")
  /\ last' = Position(local.row, local.col)
  /\ UNCHANGED <<cursor, current_color, vga, local, overtaken>>

(* ... and cursor_col++ is a load and a store.                             *)
LoadColumn ==
  /\ Goto("load column", "store column")
  /\ local' = [local EXCEPT !.col = cursor_col]
  /\ UNCHANGED <<cursor, current_color, vga, last, overtaken>>

StoreColumn ==
  /\ Goto("store column", "wrap")
  /\ cursor_col' = local.col + 1
  /\ UNCHANGED <<cursor_row, current_color, vga, last, local, overtaken>>

WrapTest ==
  /\ pc = "wrap"
  /\ pc' = IF cursor_col >= SCREEN_WIDTH THEN "wrap column" ELSE "scroll"
  /\ UNCHANGED <<cursor, current_color, vga, last, local, overtaken>>

WrapColumn_NoReset ==
  /\ Goto("wrap column", "wrap load")
  /\ UNCHANGED <<cursor, current_color, vga, last, local, overtaken>>

WrapColumn ==
  /\ Goto("wrap column", "wrap load")
  /\ cursor_col' = 0
  /\ UNCHANGED <<cursor_row, current_color, vga, last, local, overtaken>>

(* cursor_row++ of a newline, before the test for a wrap, and of a wrap.   *)
RowSteps == {<<"newline load", "newline store", "wrap">>, <<"wrap load", "wrap store", "scroll">>}

LoadRow ==
  /\ \E at \in RowSteps : Goto(at[1], at[2])
  /\ local' = [local EXCEPT !.row = cursor_row]
  /\ UNCHANGED <<cursor, current_color, vga, last, overtaken>>

StoreRow ==
  /\ \E at \in RowSteps : Goto(at[2], at[3])
  /\ cursor_row' = local.row + 1
  /\ UNCHANGED <<cursor_col, current_color, vga, last, local, overtaken>>

ScrollTest ==
  /\ pc = "scroll"
  /\ pc' = IF MustScroll(cursor_row) THEN "scroll row" ELSE "char"
  /\ UNCHANGED <<cursor, current_color, vga, last, local, overtaken>>

(* screen_scroll, after it has moved the cells.                            *)
ScrollRow ==
  /\ Goto("scroll row", "scroll column")
  /\ cursor_row' = SCREEN_HEIGHT - 1
  /\ UNCHANGED <<cursor_col, current_color, vga, last, local, overtaken>>

ScrollColumn ==
  /\ Goto("scroll column", "char")
  /\ cursor_col' = 0
  /\ UNCHANGED <<cursor_row, current_color, vga, last, local, overtaken>>

-----------------------------------------------------------------------------
(* screen_set_cursor to a position on the screen; screen_clear, after it   *)
(* has blanked the cells, is the case <<0, 0>>.                            *)
BeginSetCursor ==
  /\ Goto("idle", "set row")
  /\ \E row \in 0..(SCREEN_HEIGHT - 1), col \in 0..(SCREEN_WIDTH - 1) :
       local' = [NoLocals EXCEPT !.row = row, !.col = col]
  /\ UNCHANGED <<cursor, current_color, vga, last, overtaken>>

SetRow ==
  /\ Goto("set row", "set column")
  /\ cursor_row' = local.row
  /\ UNCHANGED <<cursor_col, current_color, vga, last, local, overtaken>>

SetColumn ==
  /\ Goto("set column", "update")
  /\ cursor_col' = local.col
  /\ UNCHANGED <<cursor_row, current_color, vga, last, local, overtaken>>

-----------------------------------------------------------------------------
(* screen_update_cursor in the shell: the position, then a pair of outb    *)
(* for each of its bytes.                                                  *)

UpdateRow ==
  /\ Goto("update", "update column")
  /\ local' = [local EXCEPT !.row = cursor_row]
  /\ overtaken' = FALSE
  /\ UNCHANGED <<cursor, current_color, vga, last>>

UpdateColumn ==
  /\ Goto("update column", "select high")
  /\ local' = [local EXCEPT !.col = cursor_col]
  /\ UNCHANGED <<cursor, current_color, vga, last, overtaken>>

High(position) == position \div ByteSize
Low(position) == position % ByteSize

Select(register, from, to) ==
  /\ Goto(from, to)
  /\ vga' = [vga EXCEPT !.selected = register]
  /\ UNCHANGED <<cursor, current_color, last, local, overtaken>>

Send_ToLow(byte, from, to) ==
  /\ Goto(from, to)
  /\ vga' = [vga EXCEPT !.low = byte]
  /\ UNCHANGED <<cursor, current_color, last, local, overtaken>>

(* The byte goes to whichever register is selected by then.                *)
Send(byte, from, to) ==
  /\ Goto(from, to)
  /\ vga' = [vga EXCEPT ![vga.selected] = byte]
  /\ UNCHANGED <<cursor, current_color, last, local, overtaken>>

UpdateRegisters ==
  LET position == Position(local.row, local.col)
  IN  \/ Select("high", "select high", "send high")
      \/ Send(High(position), "send high", "select low")
      \/ Select("low", "select low", "send low")
      \/ Send(Low(position), "send low", "idle")

Updating == {"update column", "select high", "send high", "select low", "send low"}

-----------------------------------------------------------------------------
(* A process draws a character; the colour it sets, it has put back when   *)
(* it returns.                                                             *)
ProcessDraws(ch) ==
  LET next == CursorAfter([row |-> cursor_row, col |-> cursor_col], ch)
      position == Position(next.row, next.col)
  IN  /\ cursor_row' = next.row
      /\ cursor_col' = next.col
      /\ last' = IF ch = Newline THEN last ELSE Position(cursor_row, cursor_col)
      /\ vga' = [selected |-> "low", high |-> High(position), low |-> Low(position)]
      /\ overtaken' = (overtaken \/ pc \in Updating)
      /\ UNCHANGED <<current_color, pc, local>>

ShellDraws ==
  \/ BeginPlain \/ BeginColored \/ SetColor \/ EndOfString
  \/ NewlineColumn \/ PositionRow \/ PositionColumn \/ StoreChar \/ LoadColumn \/ StoreColumn
  \/ WrapTest \/ WrapColumn \/ LoadRow \/ StoreRow \/ ScrollTest \/ ScrollRow \/ ScrollColumn
  \/ BeginSetCursor \/ SetRow \/ SetColumn
  \/ UpdateRow \/ UpdateColumn \/ UpdateRegisters

ScreenNext ==
  \/ ShellDraws
  \/ \E ch \in {Printing, Newline} : ProcessDraws(ch)

ScreenSpec == ScreenInit /\ [][ScreenNext]_driverVars
-----------------------------------------------------------------------------
(* Properties.                                                             *)

(* Wherever processes drew in between, a call of the shell leaves the      *)
(* cursor on the screen.                                                   *)
CursorOnScreen ==
  pc = "idle" => cursor_row \in 0..(SCREEN_HEIGHT - 1) /\ cursor_col \in 0..(SCREEN_WIDTH - 1)

(* The driver writes to the screen or to the row behind it: a process that *)
(* draws between the shell's increment and its test for a wrap or a scroll *)
(* finds the cursor in that row, and never further.                        *)
WritesOnScreen == last \in 0..(SCREEN_WIDTH * (SCREEN_HEIGHT + 1) - 1)

(* The shell's colour is back after each call, also when a process saved   *)
(* and restored it in the middle.                                          *)
ColorRestored == pc = "idle" => current_color = DEFAULT_COLOR

(* The cursor that is shown is where the next character goes, unless a     *)
(* process drew while the shell was sending the position: then the         *)
(* registers may hold one byte of each, until the next call.               *)
CursorShown ==
  pc = "idle" /\ ~overtaken =>
    vga.high * ByteSize + vga.low = Position(cursor_row, cursor_col)
=============================================================================
