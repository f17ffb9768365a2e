------------------------------- MODULE Console -------------------------------
(***************************************************************************)
(* What the user sees at the prompt: the line editor of module Shell with  *)
(* the calls of the screen driver that draw its effects (shell_prompt,     *)
(* shell_get_line, handle_tab_completion).  A key is one step, and no      *)
(* other process draws meanwhile; module Screen is about those that do.    *)
(***************************************************************************)
EXTENDS Shell, Vga

CONSTANTS
  Prompt,         \* the characters of shell_prompt
  ClearCommands,  \* "clear" and "cls"
  EchoCommand,    \* "echo"
  Output          \* what each other command prints, with a newline at its end

(* The prompt and what the commands print are sequences of characters, and *)
(* no key of the line editor is the newline.                               *)
ASSUME ConsoleAssumption ==
  /\ Newline \notin Chars
  /\ Prompt \in Seq(Range(Prompt))
  /\ \A command \in DOMAIN Output : Output[command] \in Seq(Range(Output[command]))

VARIABLES
  screen,     \* rows and columns of module Vga
  start_row,
  start_col,
  drawn       \* the line is in sight: see LineShown

screenVars == <<screen, start_row, start_col, drawn>>

Text == [i \in 1..length |-> command_buffer[i - 1]]

(* The row the cursor is in, from the cursor on, is blank.                 *)
BlankBehind(s) ==
  \A col \in s.col..(SCREEN_WIDTH - 1) : s.video[Position(s.row, col)] = Blank

(* shell_prompt, then shell_get_line notes where the line starts.          *)
Prompted(s) ==
  LET after == Written(s, Prompt)
  IN  /\ screen' = after
      /\ start_row' = after.row
      /\ start_col' = after.col
      /\ drawn' = BlankBehind(after)

ConsoleInit ==
  LET after == Written(screen_clear, Prompt)
  IN  /\ Init
      /\ screen = after
      /\ start_row = after.row
      /\ start_col = after.col
      /\ drawn = TRUE

-----------------------------------------------------------------------------
(* Editing.                                                                *)

ToCursor(s) == CursorSet(s, start_row, start_col + cursor_pos')

Redraw_NoPad(pad) ==
  /\ screen' = ToCursor(Written(CursorSet(screen, start_row, start_col), Text'))
  /\ drawn' = (drawn /\ start_col + length' < SCREEN_WIDTH)
  /\ UNCHANGED <<start_row, start_col>>

(* The line is drawn over the old one, with the characters in pad behind.  *)
Redraw(pad) ==
  /\ screen' = ToCursor(Written(CursorSet(screen, start_row, start_col), Text' \o pad))
  /\ drawn' = (drawn /\ start_col + length' < SCREEN_WIDTH)
  /\ UNCHANGED <<start_row, start_col>>

DrawInsert(ch) == Insert(ch) /\ Redraw(<<>>)
DrawBackspace == Backspace /\ Redraw(<<Blank>>)
DrawDelete == Delete /\ Redraw(<<Blank>>)

DrawMove ==
  /\ Left \/ Right \/ Home \/ End
  /\ screen' = ToCursor(screen)
  /\ UNCHANGED <<start_row, start_col, drawn>>

-----------------------------------------------------------------------------
(* Tab.  The line is taken to start where the completion leaves the        *)
(* cursor, so it is drawn a second time from then on.                      *)
AfterTab(s) ==
  /\ screen' = s
  /\ start_row' = s.row
  /\ start_col' = s.col
  /\ drawn' = FALSE

DrawTabNone == TabNone /\ AfterTab(screen)

DrawTabOne == TabOne /\ AfterTab(Written(screen, SubSeq(Text', length + 1, length')))

(* The matches in a row of their own.                                      *)
Listed ==
  LET name(i) == available_commands[i]
      second == Min(Matching \ {Min(Matching)})
      upto[i \in 0..Len(available_commands)] ==
        IF i = 0 THEN <<Newline>> \o name(second - 1)
        ELSE IF i \in Matching /\ i >= second THEN upto[i - 1] \o <<Blank, Blank>> \o name(i)
        ELSE upto[i - 1]
  IN  upto[Len(available_commands)]

DrawTabSeveral ==
  /\ TabSeveral
  /\ AfterTab(Written(screen, Listed \o <<Newline>> \o Prompt \o Text'))

-----------------------------------------------------------------------------
(* Enter: the newline, the command's output, and the next prompt.          *)

(* tokens[0] of str_split, and full_args: what follows it and its spaces.  *)
TokenLength(line) == Max({n \in 0..Len(line) : \A i \in 1..n : line[i] # Space})
cmd(line) == SubSeq(line, 1, TokenLength(line))
full_args(line) ==
  LET ink == {i \in (TokenLength(line) + 1)..Len(line) : line[i] # Space}
  IN  IF ink = {} THEN <<>> ELSE SubSeq(line, Min(ink), Len(line))

(* shell_process_command of a trimmed line.  The message for an unknown    *)
(* command is a line with the command's name in it.                        *)
Executed(s, line) ==
  CASE line = <<>> -> PutChar(s, Newline)
    [] cmd(line) \in ClearCommands -> screen_clear
    [] cmd(line) = EchoCommand -> Written(s, <<Newline>> \o full_args(line) \o <<Newline>>)
    [] cmd(line) \in DOMAIN Output -> Written(s, Output[cmd(line)])
    [] OTHER -> Written(s, <<Newline>> \o cmd(line) \o <<Newline, Newline>>)

DrawEnter == Enter /\ Prompted(Executed(PutChar(screen, Newline), str_trim))

ConsoleNext ==
  \/ \E ch \in Chars : DrawInsert(ch)
  \/ DrawBackspace \/ DrawDelete \/ DrawMove
  \/ DrawTabNone \/ DrawTabOne \/ DrawTabSeveral
  \/ DrawEnter

ConsoleSpec == ConsoleInit /\ [][ConsoleNext]_<<vars, screenVars>>
-----------------------------------------------------------------------------
(* Properties.                                                             *)

(* While the line fits behind its prompt and until the first Tab, the      *)
(* screen shows the line as it is in command_buffer, blanks behind it, and *)
(* the cursor on the character the next key acts on: after every redraw at *)
(* a noted position, for a prompt in any row, the last one included.       *)
LineShown ==
  drawn =>
    /\ screen.row = start_row
    /\ screen.col = start_col + cursor_pos
    /\ \A col \in start_col..(SCREEN_WIDTH - 1) :
         screen.video[Position(start_row, col)] =
           IF col < start_col + length THEN Text[col - start_col + 1] ELSE Blank
=============================================================================
