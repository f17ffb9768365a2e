-------------------------------- MODULE Shell --------------------------------
(***************************************************************************)
(* The prompt of Wittche's shell (kernel/shell.c): the line editor with    *)
(* tab completion, and the command history.  One step is one key taken     *)
(* from the keyboard; the keys come in any order.  Keys that change        *)
(* nothing are left out; what is drawn is in module Console.               *)
(*                                                                         *)
(* command_buffer is one array for all lines: a new line starts over the   *)
(* old one's characters, and the first over whatever the stack held.  It   *)
(* is terminated when Enter is pressed, not while it is edited, but tab    *)
(* completion reads it as a terminated string.                             *)
(***************************************************************************)
EXTENDS Integers, Sequences, FiniteSets, FiniteSetsExt

CONSTANTS
  MAX_CMD_LENGTH,      \* size of command_buffer (256)
  MAX_HISTORY,         \* commands remembered (10)
  Chars,               \* printable characters, the space included
  Space,
  available_commands,  \* sequence of commands, each a sequence of characters
  Garbage              \* what the stack may hold in command_buffer at first

NUL == "NUL"
Cells == 0..(MAX_CMD_LENGTH - 1)

ASSUME ShellAssumption ==
  /\ MAX_CMD_LENGTH \in Nat \ {0}
  /\ MAX_HISTORY \in Nat \ {0}
  /\ Space \in Chars
  /\ NUL \notin Chars
  /\ available_commands \in Seq(Seq(Chars))
  /\ \A i \in DOMAIN available_commands : Len(available_commands[i]) < MAX_CMD_LENGTH
  /\ \A i, j \in DOMAIN available_commands :
       available_commands[i] = available_commands[j] => i = j
  /\ Garbage \subseteq Chars \union {NUL}

VARIABLES
  command_buffer,
  length,
  cursor_pos,
  command_history  \* its first history_count entries

vars == <<command_buffer, length, cursor_pos, command_history>>

Init ==
  /\ command_buffer \in [Cells -> Garbage]
  /\ length = 0
  /\ cursor_pos = 0
  /\ command_history = <<>>

-----------------------------------------------------------------------------
(* Editing.                                                                *)

Roomy_ToTheEnd == length < MAX_CMD_LENGTH
Roomy == length < MAX_CMD_LENGTH - 1

Insert(ch) ==
  /\ Roomy
  /\ command_buffer' = [i \in Cells |->
       IF i = cursor_pos THEN ch
       ELSE IF i \in (cursor_pos + 1)..length THEN command_buffer[i - 1] ELSE command_buffer[i]]
  /\ length' = length + 1
  /\ cursor_pos' = cursor_pos + 1
  /\ UNCHANGED command_history

CloseGap_OffByOne(from) ==
  command_buffer' = [i \in Cells |->
    IF i \in (from + 1)..(length - 2) THEN command_buffer[i + 1] ELSE command_buffer[i]]

(* The characters behind position from move left; the last one stays where *)
(* it was, too.                                                            *)
CloseGap(from) ==
  command_buffer' = [i \in Cells |->
    IF i \in from..(length - 2) THEN command_buffer[i + 1] ELSE command_buffer[i]]

Backspace ==
  /\ cursor_pos > 0
  /\ CloseGap(cursor_pos - 1)
  /\ length' = length - 1
  /\ cursor_pos' = cursor_pos - 1
  /\ UNCHANGED command_history

Delete ==
  /\ cursor_pos < length
  /\ CloseGap(cursor_pos)
  /\ length' = length - 1
  /\ UNCHANGED <<cursor_pos, command_history>>

MoveTo(p) ==
  /\ cursor_pos' = p
  /\ UNCHANGED <<command_buffer, length, command_history>>

Left == cursor_pos > 0 /\ MoveTo(cursor_pos - 1)
Right == cursor_pos < length /\ MoveTo(cursor_pos + 1)
Home == MoveTo(0)
End == MoveTo(length)

-----------------------------------------------------------------------------
(* Tab completion.                                                         *)

(* str_starts_with(command, command_buffer).                               *)
StartsWith(command) ==
  \E n \in 0..Len(command) :
    /\ command_buffer[n] = NUL
    /\ \A i \in 0..(n - 1) : command_buffer[i] = command[i + 1]

Matching == {i \in DOMAIN available_commands : StartsWith(available_commands[i])}

(* The length of what two commands begin with in common.                   *)
Common(s, t) ==
  Max({n \in 0..Len(s) : n <= Len(t) /\ \A i \in 1..n : s[i] = t[i]})

(* The loop compares the second match with the command before it in the    *)
(* list, and does not go on with further matches.                          *)
common_len ==
  LET second == Min(Matching \ {Min(Matching)})
  IN  Common(available_commands[second - 1], available_commands[second])

Completed(new, n) ==
  /\ command_buffer' = [i \in Cells |-> IF i < Len(new) THEN new[i + 1] ELSE command_buffer[i]]
  /\ length' = n
  /\ cursor_pos' = n
  /\ UNCHANGED command_history

TabNone == Matching = {} /\ Completed(<<>>, 0)

TabOne ==
  \E i \in Matching :
    LET match == available_commands[i]
    IN  /\ Matching = {i}
        /\ IF Len(match) < MAX_CMD_LENGTH - 1
             THEN Completed(Append(match, Space), Len(match) + 1)
             ELSE Completed(<<>>, length)

TabSeveral ==
  /\ Cardinality(Matching) > 1
  /\ IF common_len > length /\ common_len < MAX_CMD_LENGTH - 1
       THEN Completed(SubSeq(available_commands[Min(Matching)], 1, common_len), common_len)
       ELSE Completed(<<>>, length)

Tab == TabNone \/ TabOne \/ TabSeveral

-----------------------------------------------------------------------------
(* Enter: shell_process_command, then shell_run prompts for the next line. *)

Ink == {i \in 0..(length - 1) : command_buffer[i] # Space}

(* str_trim of the terminated line: what it leaves of it.                  *)
str_trim ==
  IF Ink = {} THEN <<>>
  ELSE [i \in 1..(Max(Ink) - Min(Ink) + 1) |-> command_buffer[Min(Ink) + i - 1]]

shell_add_history(command) ==
  LET n == Len(command_history)
  IN  command_history' =
        IF command = <<>> \/ (n > 0 /\ command_history[n] = command) THEN command_history
        ELSE Append(IF n >= MAX_HISTORY THEN Tail(command_history) ELSE command_history, command)

Enter ==
  /\ command_buffer' = [i \in Cells |->
       IF i < Len(str_trim) THEN str_trim[i + 1]
       ELSE IF i \in {Len(str_trim), length} THEN NUL ELSE command_buffer[i]]
  /\ shell_add_history(str_trim)
  /\ length' = 0
  /\ cursor_pos' = 0

Next ==
  \/ \E ch \in Chars : Insert(ch)
  \/ Backspace \/ Delete
  \/ Left \/ Right \/ Home \/ End
  \/ Tab
  \/ Enter

Spec == Init /\ [][Next]_vars
-----------------------------------------------------------------------------
(* Properties.                                                             *)

(* The line always leaves a cell for the terminator Enter writes, and the  *)
(* cursor stays on it.                                                     *)
TypeOK ==
  /\ command_buffer \in [Cells -> Chars \union {NUL}]
  /\ length \in 0..(MAX_CMD_LENGTH - 1)
  /\ cursor_pos \in 0..length
  /\ Len(command_history) \in 0..MAX_HISTORY

(* Where the string that starts the buffer ends, behind the line.          *)
Terminator ==
  LET ends == {n \in length..(MAX_CMD_LENGTH - 1) : command_buffer[n] = NUL}
  IN  IF ends = {} THEN MAX_CMD_LENGTH ELSE Min(ends)

Line == INSTANCE CommandLine
  WITH text <- [p \in 1..length |-> command_buffer[p - 1]],
       cursor <- cursor_pos,
       log <- command_history,
       behind <- [p \in 1..(Terminator - length) |-> command_buffer[length + p - 1]],
       Commands <- {available_commands[i] : i \in DOMAIN available_commands},
       MaxText <- MAX_CMD_LENGTH - 1,
       MaxLog <- MAX_HISTORY

(* The moves inside the array are insertions and deletions at the cursor;  *)
(* Tab completes the line with the stale characters behind it to the one   *)
(* command that begins so, or to what two such commands share, although    *)
(* the loop looks at the command before the second match, and drops the    *)
(* line only if there is none; the history is that of the lines entered.   *)
ImplementsCommandLine == Line!Spec
=============================================================================
