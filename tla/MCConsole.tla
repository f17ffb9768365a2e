----------------------------- MODULE MCConsole -----------------------------
(* A screen of two rows; lines may reach its right edge.  Two letters.     *)
(* The commands have a single match, matches beside and away from each     *)
(* other, a third match that shares less with the first two, and one that  *)
(* does not fit with its space.                                            *)
EXTENDS Console, TLC

MCChars == {"c", "l", " "}
MCCommands == << <<"c", "l">>, <<"c", "l", "l">>, <<"l">>, <<"c">>, <<"l", "c">> >>
MCGarbage == {"l", NUL}
MCPrompt == <<">">>
MCClear == {<<"l">>}
MCEcho == <<"c">>
MCOutput == << "c", "l" >> :> <<Newline, "c", Newline>>

(* What a cell holds is read again only while the line is in sight; later, *)
(* a prompt asks whether the cells behind it are blank.  Rows above the    *)
(* one the line starts in are never read again.                            *)
MCView ==
  <<vars, screen.row, screen.col, start_row, start_col, drawn,
    [i \in Position(start_row, 0)..(SCREEN_WIDTH * SCREEN_HEIGHT - 1) |->
       IF drawn THEN screen.video[i] ELSE screen.video[i] = Blank]>>

(* What the screen looks like after a completion does not depend on the    *)
(* history: it is followed up while the history is not full.               *)
MCBound == drawn \/ Len(command_history) < MAX_HISTORY
============================================================================
