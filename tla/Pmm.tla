--------------------------------- MODULE Pmm ---------------------------------
(***************************************************************************)
(* The physical memory manager of Wittche OS (kernel/pmm.c): one bit per   *)
(* page, a counter of used pages, first-fit search for one page or for a   *)
(* run of pages.  The code that calls it (memtest, the paging code, the    *)
(* creation of user processes) is a client that gives back each page it    *)
(* holds at most once; it may also pass addresses the manager refuses.     *)
(* In this tree only the shell's context calls it, so a call is one step.  *)
(***************************************************************************)
EXTENDS Integers, FiniteSets, FiniteSetsExt

CONSTANTS
  TOTAL_PAGES,   \* pages of physical memory (4096)
  KERNEL_PAGES,  \* KERNEL_END / PAGE_SIZE (512)
  PAGE_SIZE,     \* bytes of a page (4096)
  MaxRun         \* bound: the longest run a client asks for

ASSUME PmmAssumption ==
  /\ TOTAL_PAGES \in Nat
  /\ KERNEL_PAGES \in 1..TOTAL_PAGES
  /\ PAGE_SIZE \in Nat \ {0}
  /\ MaxRun \in 1..TOTAL_PAGES

VARIABLES
  page_bitmap,  \* TRUE: the page is taken
  used_pages,
  held          \* pages clients were given and have not given back

vars == <<page_bitmap, used_pages, held>>

Pages == 0..(TOTAL_PAGES - 1)
Kernel == 0..(KERNEL_PAGES - 1)
Taken == {p \in Pages : page_bitmap[p]}
Run(i, n) == i..(i + n - 1)

(* pmm_init: the kernel's pages are reserved.                              *)
Init ==
  /\ page_bitmap = [p \in Pages |-> p \in Kernel]
  /\ used_pages = KERNEL_PAGES
  /\ held = {}

(* Where find_free_pages may find n contiguous free pages; it takes the    *)
(* first.  (For n > TOTAL_PAGES its bound TOTAL_PAGES - n wraps around and *)
(* the search leaves the bitmap: clients do not ask for that.)             *)
FreeRuns(n) == {i \in 0..(TOTAL_PAGES - n) : Run(i, n) \cap Taken = {}}

Search_SkipsWindow(n) ==
  LET from[i \in 0..TOTAL_PAGES] ==
        IF i > TOTAL_PAGES - n THEN TOTAL_PAGES
        ELSE IF Run(i, n) \cap Taken = {} THEN i ELSE from[i + n]
  IN  from[0]

(* The search as the loop runs it: at the first taken page of the window,  *)
(* it goes on behind that page.  TOTAL_PAGES stands for "not found".       *)
Search(n) ==
  LET from[i \in 0..TOTAL_PAGES] ==
        IF i > TOTAL_PAGES - n THEN TOTAL_PAGES
        ELSE LET blocked == Run(i, n) \cap Taken
             IN  IF blocked = {} THEN i ELSE from[Min(blocked) + 1]
  IN  from[0]

(* pmm_alloc_page is the case n = 1 of pmm_alloc_pages.  When there is no  *)
(* such run the call returns 0 and changes nothing.                        *)
AllocPages(n) ==
  /\ FreeRuns(n) # {}
  /\ LET run == Run(Min(FreeRuns(n)), n)
     IN  /\ page_bitmap' = [p \in Pages |-> p \in run \/ page_bitmap[p]]
         /\ held' = held \union run
  /\ used_pages' = used_pages + n

(* Addresses pmm_free_page refuses: outside memory, not on a page          *)
(* boundary, or the kernel's own.                                          *)
Refused_KernelToo(addr) == addr >= TOTAL_PAGES * PAGE_SIZE \/ addr % PAGE_SIZE # 0
Refused(addr) ==
  \/ addr >= TOTAL_PAGES * PAGE_SIZE
  \/ addr % PAGE_SIZE # 0
  \/ addr < KERNEL_PAGES * PAGE_SIZE

FreePage_CountsTwice(addr) ==
  /\ Refused(addr) \/ addr \div PAGE_SIZE \in Pages
  /\ IF Refused(addr) THEN UNCHANGED vars
     ELSE /\ page_bitmap' = [page_bitmap EXCEPT ![addr \div PAGE_SIZE] = FALSE]
          /\ used_pages' = used_pages - 1
          /\ held' = held \ {addr \div PAGE_SIZE}

(* pmm_free_page; freeing a page that is already free changes nothing.     *)
FreePage(addr) ==
  /\ Refused(addr) \/ addr \div PAGE_SIZE \in Pages
  /\ IF Refused(addr) \/ ~page_bitmap[addr \div PAGE_SIZE] THEN UNCHANGED vars
     ELSE /\ page_bitmap' = [page_bitmap EXCEPT ![addr \div PAGE_SIZE] = FALSE]
          /\ used_pages' = used_pages - 1
          /\ held' = held \ {addr \div PAGE_SIZE}

(* pmm_free_pages on a run the client holds.                               *)
FreePages(i, n) ==
  /\ Run(i, n) \subseteq held
  /\ page_bitmap' = [p \in Pages |-> page_bitmap[p] /\ p \notin Run(i, n)]
  /\ used_pages' = used_pages - n
  /\ held' = held \ Run(i, n)

Addresses == 0..(TOTAL_PAGES * PAGE_SIZE + 1)

Next ==
  \/ \E n \in 1..MaxRun : AllocPages(n)
  \/ \E addr \in Addresses : FreePage(addr)
  \/ \E i \in Pages, n \in 2..MaxRun : FreePages(i, n)

Spec == Init /\ [][Next]_vars

-----------------------------------------------------------------------------
(* Properties.                                                             *)

TypeOK ==
  /\ page_bitmap \in [Pages -> BOOLEAN]
  /\ used_pages \in 0..TOTAL_PAGES
  /\ held \subseteq Pages

(* The counter that pmm_get_free_pages reports from is the number of bits  *)
(* set, through allocations of runs, refused frees and double frees.       *)
CounterIsExact == used_pages = Cardinality(Taken)

(* A page is marked exactly when it is the kernel's or a client's, and     *)
(* never both: nothing leaks, no page is handed out twice, and no free     *)
(* touches the kernel's pages.                                             *)
Accounted ==
  /\ Taken = Kernel \union held
  /\ Kernel \cap held = {}

(* The loop with its skip finds a run exactly when there is one, and finds *)
(* the first.                                                              *)
SearchIsFirstFit ==
  \A n \in 1..MaxRun :
    Search(n) = IF FreeRuns(n) = {} THEN TOTAL_PAGES ELSE Min(FreeRuns(n))
=============================================================================
