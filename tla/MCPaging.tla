------------------------------ MODULE MCPaging ------------------------------
(* A memory in which one user process fits and a second one runs out of    *)
(* pages at every step of its set-up.  The two are interchangeable.        *)
EXTENDS Paging, TLC

CONSTANTS p1, p2
MCProcs == {p1, p2}
MCTouched == {10, 14, 20}
MCSymmetry == Permutations(MCProcs)

(* What a free page still contains tells no two states apart: paging.c     *)
(* clears a page before it reads it as a directory or a table.             *)
MCView == <<vars, [p \in Taken |-> memory[p]], current_directory, cr3, page_directory,
            stage, running, call, others, lost, torn>>

(* Nothing but the bitmap is promised once the shell lost the CPU inside   *)
(* paging_map_user_code, or to a process whose pages it was giving back:   *)
(* such a state is checked and not continued.                              *)
MCUntorn == ~torn
=============================================================================
