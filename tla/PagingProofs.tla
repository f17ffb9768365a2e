----------------------------- MODULE PagingProofs -----------------------------
(***************************************************************************)
(* Proofs about modules Pmm and Paging.  First the page allocator: the     *)
(* page counter and the bitmap never disagree, every page is the kernel's, *)
(* a client's or free, and the search finds the first run.  Then page      *)
(* directories and user processes as its clients.  All of it for every     *)
(* size of memory and of the tables, every layout and every number of      *)
(* processes.                                                              *)
(***************************************************************************)
EXTENDS Paging, KernelLemmas, FiniteSetTheorems, TLAPS

-----------------------------------------------------------------------------
(* The page allocator.                                                     *)

(* The inductive invariant: what is marked is known exactly, and counted.  *)
PmmInv == TypeOK /\ CounterIsExact /\ Accounted

(* The number of pages in a run, and in the whole memory.                  *)
LEMMA RunSize ==
  ASSUME NEW i \in Nat, NEW n \in Nat
  PROVE  IsFiniteSet(Run(i, n)) /\ Cardinality(Run(i, n)) = n
<1>1. i \in Int /\ i + n - 1 \in Int
  OBVIOUS
<1>2. /\ IsFiniteSet(i..(i + n - 1))
      /\ Cardinality(i..(i + n - 1)) = IF i > i + n - 1 THEN 0 ELSE (i + n - 1) - i + 1
  BY <1>1, FS_Interval
<1> QED
  BY <1>2 DEF Run

(* Memory is finite.                                                       *)
LEMMA PagesFinite ==
  IsFiniteSet(Pages) /\ Cardinality(Pages) = TOTAL_PAGES
<1>1. TOTAL_PAGES \in Nat
  BY PmmAssumption
<1>2. Pages = Run(0, TOTAL_PAGES)
  BY <1>1 DEF Pages, Run
<1> QED
  BY <1>1, <1>2, RunSize

(* So is the set of taken pages, and its size is in the counter's range.   *)
LEMMA TakenFinite ==
  /\ IsFiniteSet(Taken)
  /\ Cardinality(Taken) \in 0..TOTAL_PAGES
<1>1. Taken \in SUBSET Pages
  BY DEF Taken
<1>2. IsFiniteSet(Taken) /\ Cardinality(Taken) <= TOTAL_PAGES
  BY <1>1, PagesFinite, FS_Subset
<1>3. Cardinality(Taken) \in Nat
  BY <1>2, FS_CardinalityType
<1> QED
  BY <1>2, <1>3, PmmAssumption

(* What first fit selects lies inside the memory and is free.              *)
LEMMA FirstFitIsFree ==
  ASSUME NEW n \in 1..MaxRun, FreeRuns(n) # {}
  PROVE  LET i == Min(FreeRuns(n))
         IN  /\ i \in Nat
             /\ Run(i, n) \subseteq Pages
             /\ Run(i, n) \cap Taken = {}
<1> DEFINE i == Min(FreeRuns(n))
<1>1. n \in Nat /\ TOTAL_PAGES \in Nat
  BY PmmAssumption
<1>2. FreeRuns(n) \subseteq Nat
  BY <1>1 DEF FreeRuns
<1>3. i \in FreeRuns(n)
  BY <1>2, MinExists
<1> HIDE DEF i
<1>4. i \in 0..(TOTAL_PAGES - n) /\ Run(i, n) \cap Taken = {}
  BY <1>3 DEF FreeRuns
<1>5. Run(i, n) \subseteq Pages
  BY <1>1, <1>4 DEF Run, Pages
<1> QED
  BY <1>4, <1>5 DEF i

(* pmm_alloc_pages marks and counts exactly the run it returns.            *)
LEMMA AllocPreserves ==
  ASSUME PmmInv, NEW n \in 1..MaxRun, AllocPages(n)
  PROVE  PmmInv'
<1> DEFINE run == Run(Min(FreeRuns(n)), n)
<1>1. n \in Nat
  BY PmmAssumption
<1>2. Min(FreeRuns(n)) \in Nat /\ run \subseteq Pages /\ run \cap Taken = {}
  BY FirstFitIsFree DEF AllocPages
<1>3. IsFiniteSet(run) /\ Cardinality(run) = n
  BY <1>1, <1>2, RunSize
<1>4. /\ page_bitmap' = [p \in Pages |-> p \in run \/ page_bitmap[p]]
      /\ held' = held \union run
      /\ used_pages' = used_pages + n
  BY DEF AllocPages
<1> HIDE DEF run
<1>5. Taken' = Taken \union run
  BY <1>2, <1>4 DEF Taken
<1>6. Cardinality(Taken') = Cardinality(Taken) + n
  <2>1. Cardinality(Taken \union run)
          = Cardinality(Taken) + Cardinality(run) - Cardinality(Taken \cap run)
    BY <1>3, TakenFinite, FS_Union
  <2>2. Cardinality(Taken \cap run) = 0
    BY <1>2, FS_EmptySet
  <2> QED
    BY <2>1, <2>2, <1>1, <1>3, <1>5, TakenFinite
<1>7. CounterIsExact'
  BY <1>4, <1>6 DEF PmmInv, CounterIsExact
<1>8. Cardinality(Taken') \in 0..TOTAL_PAGES
  <2>1. Taken' \in SUBSET Pages
    BY DEF Taken
  <2>2. Cardinality(Taken') <= TOTAL_PAGES /\ IsFiniteSet(Taken')
    BY <2>1, PagesFinite, FS_Subset
  <2> QED
    BY <2>2, PmmAssumption, FS_CardinalityType
<1>9. TypeOK'
  <2>1. page_bitmap' \in [Pages -> BOOLEAN]
    BY <1>4
  <2>2. held' \subseteq Pages
    BY <1>2, <1>4 DEF PmmInv, TypeOK
  <2> QED
    BY <2>1, <2>2, <1>7, <1>8 DEF TypeOK, CounterIsExact
<1>10. Accounted'
  <2>1. Kernel \cap run = {}
    BY <1>2 DEF PmmInv, Accounted
  <2> QED
    BY <2>1, <1>4, <1>5 DEF PmmInv, Accounted, Kernel
<1> QED
  BY <1>7, <1>9, <1>10 DEF PmmInv

(* Giving back a set F of held pages.                                      *)
LEMMA ReleasePreserves ==
  ASSUME PmmInv, NEW F \in SUBSET held,
         page_bitmap' = [p \in Pages |-> page_bitmap[p] /\ p \notin F],
         used_pages' = used_pages - Cardinality(F),
         held' = held \ F
  PROVE  PmmInv'
<1>1. F \subseteq Taken
  BY DEF PmmInv, Accounted
<1>2. Taken' = Taken \ F
  BY DEF Taken
<1>3. IsFiniteSet(Taken') /\ Cardinality(Taken') = Cardinality(Taken) - Cardinality(F)
  <2>1. Taken \cap F = F
    BY <1>1
  <2>2. /\ IsFiniteSet(Taken \ F)
        /\ Cardinality(Taken \ F) = Cardinality(Taken) - Cardinality(Taken \cap F)
    BY TakenFinite, FS_Difference
  <2> QED
    BY <2>1, <2>2, <1>2
<1>4. CounterIsExact'
  BY <1>3 DEF PmmInv, CounterIsExact
<1>5. Cardinality(Taken') \in 0..TOTAL_PAGES
  <2>1. Cardinality(Taken \ F) <= Cardinality(Taken)
    BY TakenFinite, FS_Subset
  <2>2. Cardinality(Taken') \in Nat
    BY <1>3, FS_CardinalityType
  <2> QED
    BY <2>1, <2>2, <1>2, TakenFinite, PmmAssumption
<1>6. TypeOK'
  <2>1. page_bitmap' \in [Pages -> BOOLEAN]
    BY DEF PmmInv, TypeOK
  <2>2. held' \subseteq Pages
    BY DEF PmmInv, TypeOK
  <2> QED
    BY <2>1, <2>2, <1>4, <1>5 DEF TypeOK, CounterIsExact
<1>7. Accounted'
  BY <1>2 DEF PmmInv, Accounted, Kernel
<1> QED
  BY <1>4, <1>6, <1>7 DEF PmmInv

(* pmm_free_page: an address it does not refuse is a page's, and not the   *)
(* kernel's; if the page is marked, a client held it.                      *)
LEMMA FreePagePreserves ==
  ASSUME PmmInv, NEW addr \in Addresses, FreePage(addr)
  PROVE  PmmInv'
<1> DEFINE q == addr \div PAGE_SIZE
<1>1. CASE UNCHANGED vars
  BY <1>1 DEF vars, PmmInv, TypeOK, CounterIsExact, Accounted, Taken
<1>2. CASE ~UNCHANGED vars
  <2>1. /\ ~Refused(addr) /\ page_bitmap[q] /\ q \in Pages
        /\ page_bitmap' = [page_bitmap EXCEPT ![q] = FALSE]
        /\ used_pages' = used_pages - 1
        /\ held' = held \ {q}
    BY <1>2 DEF FreePage
  <2>2. q \notin Kernel
    <3>1. /\ addr \in Nat /\ PAGE_SIZE \in Nat /\ PAGE_SIZE > 0 /\ KERNEL_PAGES \in Nat
          /\ addr >= KERNEL_PAGES * PAGE_SIZE
      BY <2>1, PmmAssumption DEF Addresses, Refused
    <3>2. q >= KERNEL_PAGES
      BY <3>1, SMTT(30)
    <3> QED
      BY <3>1, <3>2 DEF Kernel
  <2> HIDE DEF q
  <2>3. {q} \in SUBSET held
    BY <2>1, <2>2 DEF PmmInv, Accounted, Taken
  <2>4. page_bitmap' = [p \in Pages |-> page_bitmap[p] /\ p \notin {q}]
    BY <2>1 DEF PmmInv, TypeOK
  <2>5. used_pages' = used_pages - Cardinality({q})
    BY <2>1, FS_Singleton
  <2> QED
    BY <2>1, <2>3, <2>4, <2>5, ReleasePreserves
<1> QED
  BY <1>1, <1>2

(* pmm_free_pages clears and counts exactly the run given back.            *)
LEMMA FreePagesPreserves ==
  ASSUME PmmInv, NEW i \in Pages, NEW n \in 2..MaxRun, FreePages(i, n)
  PROVE  PmmInv'
<1>1. i \in Nat /\ n \in Nat
  BY PmmAssumption DEF Pages
<1>2. Cardinality(Run(i, n)) = n
  BY <1>1, RunSize
<1> QED
  BY <1>2, ReleasePreserves DEF FreePages

(* pmm_init reserves and counts the kernel's pages.                        *)
LEMMA InitPmmInv ==
  ASSUME Init
  PROVE  PmmInv
<1>1. KERNEL_PAGES \in Nat /\ KERNEL_PAGES <= TOTAL_PAGES /\ TOTAL_PAGES \in Nat
  BY PmmAssumption
<1>2. Kernel \subseteq Pages
  BY <1>1 DEF Kernel, Pages
<1>3. Taken = Kernel
  BY <1>2 DEF Init, Taken
<1>4. Cardinality(Kernel) = KERNEL_PAGES
  <2>1. Kernel = Run(0, KERNEL_PAGES)
    BY <1>1 DEF Kernel, Run
  <2> QED
    BY <2>1, <1>1, RunSize
<1>5. TypeOK
  BY <1>1 DEF Init, TypeOK
<1> QED
  BY <1>3, <1>4, <1>5 DEF Init, PmmInv, CounterIsExact, Accounted

(* Bitmap, counter and owners agree in every reachable state.              *)
THEOREM PmmInvariance == Spec => []PmmInv
<1>1. Init => PmmInv
  BY InitPmmInv
<1>2. PmmInv /\ [Next]_vars => PmmInv'
  <2>1. PmmInv /\ UNCHANGED vars => PmmInv'
    BY DEF vars, PmmInv, TypeOK, CounterIsExact, Accounted, Taken
  <2> QED
    BY <2>1, AllocPreserves, FreePagePreserves, FreePagesPreserves DEF Next
<1> QED
  BY <1>1, <1>2, PTL DEF Spec

(* The bitmap and the counter stay in range: used_pages never underflows.  *)
THEOREM PmmTypeCorrect == Spec => []TypeOK
<1>1. PmmInv => TypeOK
  BY DEF PmmInv
<1> QED
  BY <1>1, PmmInvariance, PTL

(* used_pages is the number of bits set.                                   *)
THEOREM ExactUsage == Spec => []CounterIsExact
<1>1. PmmInv => CounterIsExact
  BY DEF PmmInv
<1> QED
  BY <1>1, PmmInvariance, PTL

(* No page is handed out twice, leaked, or taken from the kernel.          *)
THEOREM NoPageLost == Spec => []Accounted
<1>1. PmmInv => Accounted
  BY DEF PmmInv
<1> QED
  BY <1>1, PmmInvariance, PTL

-----------------------------------------------------------------------------
(* The search of find_free_pages.  Its loop is a recursive definition; the *)
(* proof gives a function that satisfies it, and shows that no other does. *)

(* The loop's body, when f is what the loop finds from each page on.       *)
Body(n, f) ==
  [i \in 0..TOTAL_PAGES |->
     IF i > TOTAL_PAGES - n THEN TOTAL_PAGES
     ELSE LET blocked == Run(i, n) \cap Taken
          IN  IF blocked = {} THEN i ELSE f[Min(blocked) + 1]]

(* The free runs from a page on, and the first of them.                    *)
From(n, i) == {r \in FreeRuns(n) : r >= i}
FirstFrom(n) ==
  [i \in 0..TOTAL_PAGES |-> IF From(n, i) = {} THEN TOTAL_PAGES ELSE Min(From(n, i))]

(* Pages of a run that are taken: the search goes on behind the first, and *)
(* passes over no free run.                                                *)
LEMMA SkipIsSafe ==
  ASSUME NEW n \in 1..TOTAL_PAGES, NEW i \in 0..(TOTAL_PAGES - n), Run(i, n) \cap Taken # {}
  PROVE  /\ Min(Run(i, n) \cap Taken) + 1 \in (i + 1)..TOTAL_PAGES
         /\ From(n, Min(Run(i, n) \cap Taken) + 1) = From(n, i)
<1>1. TOTAL_PAGES \in Nat /\ n \in Nat /\ n >= 1 /\ i \in Nat /\ i <= TOTAL_PAGES - n
  BY PmmAssumption
<1>2. PICK m : m = Min(Run(i, n) \cap Taken)
  OBVIOUS
<1>3. Run(i, n) \cap Taken \subseteq Nat
  BY <1>1 DEF Run
<1>4. m \in Run(i, n) /\ m \in Taken
  BY <1>2, <1>3, LeastIs
<1>5. m \in Nat /\ i <= m /\ m <= i + n - 1 /\ m < TOTAL_PAGES
  BY <1>1, <1>4 DEF Run, Taken, Pages
<1>6. ASSUME NEW r \in FreeRuns(n), r >= i PROVE r >= m + 1
  <2>1. r \in Nat /\ Run(r, n) \cap Taken = {}
    BY <1>1, <1>6 DEF FreeRuns
  <2>2. m \notin Run(r, n)
    BY <1>4, <2>1
  <2> QED
    BY <1>1, <1>5, <1>6, <2>1, <2>2 DEF Run
<1>7. \A r \in FreeRuns(n) : r \in Nat
  BY <1>1 DEF FreeRuns
<1>8. From(n, m + 1) = From(n, i)
  BY <1>1, <1>5, <1>6, <1>7 DEF From
<1> QED
  BY <1>1, <1>2, <1>5, <1>8

(* The first free run from each page on is what the loop computes.         *)
LEMMA FirstFromLoops ==
  ASSUME NEW n \in 1..TOTAL_PAGES
  PROVE  FirstFrom(n) = Body(n, FirstFrom(n))
<1>1. TOTAL_PAGES \in Nat /\ n \in Nat /\ n >= 1 /\ n <= TOTAL_PAGES
  BY PmmAssumption
<1>2. \A r \in FreeRuns(n) : r \in Nat /\ r <= TOTAL_PAGES - n
  BY <1>1 DEF FreeRuns
<1>3. PICK f : f = FirstFrom(n)
  OBVIOUS
<1>4. ASSUME NEW i \in 0..TOTAL_PAGES PROVE f[i] = Body(n, f)[i]
  <2>1. f[i] = IF From(n, i) = {} THEN TOTAL_PAGES ELSE Min(From(n, i))
    BY <1>3 DEF FirstFrom
  <2>2. CASE i > TOTAL_PAGES - n
    <3>1. From(n, i) = {}
      BY <1>1, <1>2, <2>2 DEF From
    <3> QED
      BY <2>1, <2>2, <3>1 DEF Body
  <2>3. CASE i <= TOTAL_PAGES - n /\ Run(i, n) \cap Taken = {}
    <3>1. i \in From(n, i)
      BY <1>1, <2>3 DEF From, FreeRuns
    <3>2. From(n, i) \subseteq Nat /\ \A r \in From(n, i) : i <= r
      BY <1>2 DEF From
    <3>3. Min(From(n, i)) = i
      BY <3>1, <3>2, LeastIs
    <3>4. Body(n, f)[i] = i
      BY <1>1, <2>3 DEF Body
    <3> QED
      BY <2>1, <3>1, <3>3, <3>4
  <2>4. CASE i <= TOTAL_PAGES - n /\ Run(i, n) \cap Taken # {}
    <3>1. PICK m : m = Min(Run(i, n) \cap Taken) + 1
      OBVIOUS
    <3>2. i \in 0..(TOTAL_PAGES - n)
      BY <1>1, <2>4
    <3>3. m \in (i + 1)..TOTAL_PAGES /\ From(n, m) = From(n, i)
      BY <2>4, <3>1, <3>2, SkipIsSafe
    <3>4. m \in 0..TOTAL_PAGES
      BY <1>1, <3>3
    <3>5. f[m] = f[i]
      BY <1>3, <3>3, <3>4 DEF FirstFrom
    <3>6. Body(n, f)[i] = f[m]
      BY <1>1, <2>4, <3>1 DEF Body
    <3> QED
      BY <3>5, <3>6
  <2> QED
    BY <1>1, <2>2, <2>3, <2>4
<1>5. f = [i \in 0..TOTAL_PAGES |-> f[i]] /\ Body(n, f) = [i \in 0..TOTAL_PAGES |-> Body(n, f)[i]]
  BY <1>3 DEF FirstFrom, Body
<1>6. f = Body(n, f)
  BY <1>4, <1>5
<1> QED
  BY <1>3, <1>6

(* Whatever satisfies the loop's definition finds the first free run.      *)
LEMMA LoopIsUnique ==
  ASSUME NEW n \in 1..TOTAL_PAGES, NEW f, f = Body(n, f)
  PROVE  \A i \in 0..TOTAL_PAGES : f[i] = FirstFrom(n)[i]
<1>1. TOTAL_PAGES \in Nat /\ n \in Nat /\ n >= 1 /\ n <= TOTAL_PAGES
  BY PmmAssumption
<1>2. PICK g : g = FirstFrom(n)
  OBVIOUS
<1>3. g = Body(n, g)
  BY <1>2, FirstFromLoops
<1> DEFINE Bad == {i \in 0..TOTAL_PAGES : f[i] # g[i]}
<1>4. ASSUME Bad # {} PROVE FALSE
  <2>1. PICK i \in Bad : \A j \in Bad : i >= j
    <3>1. Bad \subseteq 0..TOTAL_PAGES
      OBVIOUS
    <3> HIDE DEF Bad
    <3> QED
      BY <1>1, <1>4, <3>1, MaxExists
  <2>2. i \in 0..TOTAL_PAGES /\ f[i] # g[i] /\ f[i] = Body(n, f)[i] /\ g[i] = Body(n, g)[i]
    BY <1>3
  <2>3. CASE i > TOTAL_PAGES - n \/ Run(i, n) \cap Taken = {}
    BY <2>2, <2>3 DEF Body
  <2>4. CASE ~(i > TOTAL_PAGES - n \/ Run(i, n) \cap Taken = {})
    <3>1. PICK m : m = Min(Run(i, n) \cap Taken) + 1
      OBVIOUS
    <3>2. i \in 0..(TOTAL_PAGES - n)
      BY <1>1, <2>2, <2>4
    <3>3. m \in (i + 1)..TOTAL_PAGES
      BY <2>4, <3>1, <3>2, SkipIsSafe
    <3>4. m \in 0..TOTAL_PAGES /\ m > i
      BY <1>1, <2>2, <3>3
    <3>5. f[m] = g[m]
      BY <2>1, <2>2, <3>4
    <3>6. Body(n, f)[i] = f[m] /\ Body(n, g)[i] = g[m]
      BY <2>2, <2>4, <3>1 DEF Body
    <3> QED
      BY <2>2, <3>5, <3>6
  <2> QED
    BY <2>3, <2>4
<1> QED
  BY <1>2, <1>4

(* The search with its skip finds a run exactly when there is one, and the *)
(* first: in every state, for every length a client may ask for.           *)
LEMMA SearchFinds == SearchIsFirstFit
<1> SUFFICES ASSUME NEW n \in 1..MaxRun
             PROVE  Search(n) = IF FreeRuns(n) = {} THEN TOTAL_PAGES ELSE Min(FreeRuns(n))
  BY DEF SearchIsFirstFit
<1>1. n \in 1..TOTAL_PAGES /\ 0 \in 0..TOTAL_PAGES
  BY PmmAssumption
<1>2. PICK f : f = CHOOSE g : g = Body(n, g)
  OBVIOUS
<1>3. Search(n) = f[0]
  BY <1>2, Zenon DEF Search, Body
<1>4. f = Body(n, f)
  BY <1>1, <1>2, FirstFromLoops
<1>5. f[0] = FirstFrom(n)[0]
  BY <1>1, <1>4, LoopIsUnique
<1>6. From(n, 0) = FreeRuns(n)
  BY <1>1, PmmAssumption DEF From, FreeRuns
<1>7. FirstFrom(n)[0] = IF From(n, 0) = {} THEN TOTAL_PAGES ELSE Min(From(n, 0))
  BY <1>1 DEF FirstFrom
<1> QED
  BY <1>3, <1>5, <1>6, <1>7

(* pmm_alloc_pages never misses a run of free pages, and takes the first.  *)
THEOREM SearchIsExact == Spec => []SearchIsFirstFit
  BY SearchFinds, PTL

-----------------------------------------------------------------------------
(* Paging and user processes.                                              *)

MaybePage == Pages \union {NONE}
Stages == {"none", "created", "setup", "ready", "dead"}

(* What is left to map: code and stack, or the stack.                      *)
Both == {<< <<USER_CODE_BASE, code>>, <<USER_STACK_BASE - 1, stack>> >> : code, stack \in Pages}
StackOnly == {<< <<USER_STACK_BASE - 1, stack>> >> : stack \in Pages}

(* How far a kill may have come.                                           *)
Progress == Places \union {Begin}

CallOk ==
  \/ call = Idle
  \/ call \in [step : {"mark", "stack"}, proc : Procs]
  \/ call \in [step : {"kill"}, proc : Procs, at : Progress]
  \/ call \in [step : {"directory", "code"}, proc : Procs, stack : Pages]
  \/ call \in [step : {"map"}, proc : Procs, todo : Both \union StackOnly]
  \/ call \in [step : {"mapping"}, proc : Procs, todo : Both \union StackOnly, old_dir : Pages]

(* Types, torn or not: a process that is ready, or whose set-up has come   *)
(* to its pages, has a directory.                                          *)
PagingTypeOK ==
  /\ memory \in [Pages -> [Entries -> MaybePage]]
  /\ current_directory \in Pages
  /\ cr3 \in Pages
  /\ page_directory \in [Procs -> MaybePage]
  /\ stage \in [Procs -> Stages]
  /\ running \in Procs \union {"shell", "halted"}
  /\ CallOk
  /\ torn \in BOOLEAN
  /\ \A p \in Procs : stage[p] = "ready" => page_directory[p] # NONE
  /\ running \in Procs => stage[running] = "ready"
  /\ call.step \in {"code", "map", "mapping"} => page_directory[call.proc] # NONE
  /\ call.step \notin {"idle", "kill"} => stage[call.proc] # "ready"

OwnDirectory(p) == page_directory[p] \notin {NONE, kernel_directory}

(* The kernel's directory and tables are as paging_init left them.         *)
KernelPart == \A k \in 0..KERNEL_ENTRIES : memory[k] = paging_init[k]

(* A process's own directory, until a kill has freed it, shares the        *)
(* kernel's tables; and no page is in two of the places still to free, so  *)
(* that none is freed twice or before its turn.                            *)
WellFormed(p) ==
  OwnDirectory(p) /\ FreedUpTo(p) # Last =>
    LET dir == page_directory[p]
    IN  /\ \A i \in 0..(KERNEL_ENTRIES - 1) : memory[dir][i] = early_page_table(i)
        /\ \A a, b \in ToFree(dir, FreedUpTo(p)) : PageAt(dir, a) = PageAt(dir, b) => a = b

Proper == \A p \in Procs : WellFormed(p)

(* Where the CPU is, and which directory is loaded and current.  What is   *)
(* loaded has not been freed in any part.                                  *)
Control ==
  /\ running = "shell" =>
       /\ cr3 = kernel_directory
       /\ IF call.step = "mapping"
          THEN current_directory = page_directory[call.proc] /\ call.old_dir = kernel_directory
          ELSE current_directory = kernel_directory
  /\ running # "shell" => call.step # "mapping"
  /\ running \in Procs => cr3 = page_directory[running] /\ FreedUpTo(running) = Begin
  /\ \/ cr3 = kernel_directory
     \/ \E p \in Procs : cr3 = page_directory[p] /\ FreedUpTo(p) = Begin

(* The pages still to map, and that their addresses are not mapped yet.    *)
ToMap(p) ==
  \/ /\ call.todo \in Both
     /\ call.todo[1][2] # call.todo[2][2]
     /\ Tables(page_directory[p]) = {}
  \/ /\ call.todo \in StackOnly
     /\ paging_get_physical_address(page_directory[p], USER_STACK_BASE - 1) = NONE

(* How far the set-up in progress has come.                                *)
SetUp ==
  /\ call.step \in {"mark", "stack", "directory"} => page_directory[call.proc] = kernel_directory
  /\ call.step \in {"code", "map", "mapping"} => OwnDirectory(call.proc)
  /\ call.step = "code" => Tables(page_directory[call.proc]) = {}
  /\ call.step \in {"map", "mapping"} => ToMap(call.proc)

(* Which processes have a directory of their own.                          *)
StageFits(p) ==
  /\ stage[p] = "none" => page_directory[p] = NONE
  /\ stage[p] = "ready" => OwnDirectory(p)

(* A ledger of pages: H is what clients hold, O what the other clients     *)
(* have, L what is lost, I what the set-up in progress has in hand, and    *)
(* own[p] what process p owns.  Every page held is in exactly one of them. *)
Ledger(H, O, L, I, own) ==
  /\ \A p, q \in Procs : p # q => own[p] \cap own[q] = {}
  /\ \A p \in Procs : own[p] \cap (O \union L \union I) = {}
  /\ O \cap L = {} /\ O \cap I = {} /\ L \cap I = {}
  /\ H = O \union L \union I \union UNION {own[p] : p \in Procs}

Own == [p \in Procs |-> Owned(p)]

Books == Ledger(held, others, lost, InHand, Own)

Sound ==
  /\ KernelPart /\ Proper /\ Control /\ SetUp /\ Books
  /\ \A p \in Procs : StageFits(p)

PagingInv == PmmInv /\ PagingTypeOK /\ (~torn => Sound)

-----------------------------------------------------------------------------
(* Sizes and indices.                                                      *)

(* The constants, as the proofs use them.                                  *)
LEMMA Sizes ==
  /\ PAGE_DIRECTORY_ENTRIES \in Nat \ {0} /\ PAGE_TABLE_ENTRIES \in Nat \ {0}
  /\ KERNEL_ENTRIES \in Nat \ {0} /\ KERNEL_ENTRIES < KERNEL_PAGES
  /\ USER_CODE_BASE \in Nat /\ USER_STACK_BASE \in Nat /\ CODE_MAX \in Nat \ {0}
  /\ TOTAL_PAGES \in Nat /\ KERNEL_PAGES \in Nat /\ KERNEL_PAGES <= TOTAL_PAGES
  /\ PAGE_SIZE \in Nat \ {0}
  /\ "shell" \notin Procs /\ "halted" \notin Procs
  BY PagingAssumption, PmmAssumption

(* The kernel's directory and tables lie in the kernel's pages.            *)
LEMMA KernelPages ==
  /\ Kernel \subseteq Pages /\ 0..KERNEL_ENTRIES \subseteq Kernel
  /\ kernel_directory \in Kernel /\ kernel_directory \in Pages
  /\ NONE \notin Pages
  BY Sizes DEF Kernel, Pages, kernel_directory, NONE

(* A page has an entry for every index of a directory and of a table.      *)
LEMMA EntriesHold ==
  /\ 0..(PAGE_DIRECTORY_ENTRIES - 1) \subseteq Entries
  /\ 0..(PAGE_TABLE_ENTRIES - 1) \subseteq Entries
<1> DEFINE S == {PAGE_DIRECTORY_ENTRIES, PAGE_TABLE_ENTRIES}
           n == PAGE_DIRECTORY_ENTRIES + PAGE_TABLE_ENTRIES
<1>1. n \in Nat /\ S \subseteq 0..n /\ S # {}
  BY Sizes
<1> HIDE DEF n
<1>2. \E x \in S : \A y \in S : x >= y
  BY <1>1, MaxExists
<1>3. /\ Max(S) \in S
      /\ \A y \in S : Max(S) >= y
  BY <1>2 DEF Max
<1> DEFINE m == Max(S)
<1>4. m \in Nat /\ m >= PAGE_DIRECTORY_ENTRIES /\ m >= PAGE_TABLE_ENTRIES
  BY <1>3, Sizes
<1>5. Entries = 0..(m - 1)
  BY DEF Entries
<1> HIDE DEF m
<1> QED
  BY <1>4, <1>5, Sizes

(* User addresses lie behind the kernel's entries of a directory.          *)
LEMMA UserIndex ==
  ASSUME NEW v \in USER_CODE_BASE..(USER_STACK_BASE - 1)
  PROVE  /\ get_page_dir_index(v) \in KERNEL_ENTRIES..(PAGE_DIRECTORY_ENTRIES - 1)
         /\ get_page_dir_index(v) \in Entries
         /\ get_page_table_index(v) \in 0..(PAGE_TABLE_ENTRIES - 1)
         /\ get_page_table_index(v) \in Entries
<1>1. v \in Nat /\ v < PAGE_DIRECTORY_ENTRIES * PAGE_TABLE_ENTRIES
      /\ KERNEL_ENTRIES * PAGE_TABLE_ENTRIES <= v
  BY Sizes, PagingAssumption
<1>2. /\ v \div PAGE_TABLE_ENTRIES \in Nat
      /\ v % PAGE_TABLE_ENTRIES \in 0..(PAGE_TABLE_ENTRIES - 1)
      /\ v \div PAGE_TABLE_ENTRIES < PAGE_DIRECTORY_ENTRIES
      /\ KERNEL_ENTRIES <= v \div PAGE_TABLE_ENTRIES
  BY <1>1, Sizes, DivisionBounds
<1> QED
  BY <1>2, Sizes, EntriesHold DEF get_page_dir_index, get_page_table_index

(* Code, stack and what processes touch are user addresses.                *)
LEMMA UserBases ==
  /\ USER_CODE_BASE \in USER_CODE_BASE..(USER_STACK_BASE - 1)
  /\ USER_STACK_BASE - 1 \in USER_CODE_BASE..(USER_STACK_BASE - 1)
  /\ USER_CODE_BASE # USER_STACK_BASE - 1
  /\ Touched \subseteq USER_CODE_BASE..(USER_STACK_BASE - 1)
  BY Sizes, PagingAssumption

(* The first free page is free.                                            *)
LEMMA FirstFree ==
  ASSUME NEW F \in SUBSET Pages, F # {}
  PROVE  Min(F) \in F
<1>1. F \subseteq Nat
  BY Sizes DEF Pages
<1> QED
  BY <1>1, MinExists

-----------------------------------------------------------------------------
(* What paging_free_directory visits, in a memory m.                       *)

UserEntries == KERNEL_ENTRIES..(PAGE_DIRECTORY_ENTRIES - 1)

PageIn(m, dir, place) ==
  IF place = Last THEN dir
  ELSE LET table == m[dir][place[1]]
       IN  IF table = NONE \/ place[2] = PAGE_TABLE_ENTRIES THEN table
           ELSE m[table][place[2]]

Rest(m, dir, at) == {place \in Places : Before(at, place) /\ PageIn(m, dir, place) # NONE}

OwnedIn(m, dir, at) ==
  IF dir \in {NONE, kernel_directory} THEN {} ELSE {PageIn(m, dir, place) : place \in Rest(m, dir, at)}

Distinct(m, dir, at) ==
  \A a, b \in Rest(m, dir, at) : PageIn(m, dir, a) = PageIn(m, dir, b) => a = b

(* How far the kill that the shell is in has come with a process.          *)
UpTo(c, p) == IF c.step = "kill" /\ c.proc = p THEN c.at ELSE Begin

(* The state's side of these definitions, before and after a step.         *)
LEMMA InState ==
  ASSUME NEW p
  PROVE  /\ FreedUpTo(p) = UpTo(call, p) /\ FreedUpTo(p)' = UpTo(call', p)
         /\ Owned(p) = OwnedIn(memory, page_directory[p], FreedUpTo(p))
         /\ Owned(p)' = OwnedIn(memory', page_directory'[p], FreedUpTo(p)')
         /\ WellFormed(p) <=>
              (OwnDirectory(p) /\ FreedUpTo(p) # Last =>
                 /\ \A i \in 0..(KERNEL_ENTRIES - 1) :
                      memory[page_directory[p]][i] = early_page_table(i)
                 /\ Distinct(memory, page_directory[p], FreedUpTo(p)))
         /\ WellFormed(p)' <=>
              (OwnDirectory(p)' /\ FreedUpTo(p)' # Last =>
                 /\ \A i \in 0..(KERNEL_ENTRIES - 1) :
                      memory'[page_directory'[p]][i] = early_page_table(i)
                 /\ Distinct(memory', page_directory'[p], FreedUpTo(p)'))
         /\ OwnDirectory(p) <=> page_directory[p] \notin {NONE, kernel_directory}
         /\ OwnDirectory(p)' <=> page_directory'[p] \notin {NONE, kernel_directory}
<1>1. FreedUpTo(p) = UpTo(call, p) /\ FreedUpTo(p)' = UpTo(call', p)
  BY DEF FreedUpTo, UpTo, Begin
<1>2. /\ OwnDirectory(p) <=> page_directory[p] \notin {NONE, kernel_directory}
      /\ OwnDirectory(p)' <=> page_directory'[p] \notin {NONE, kernel_directory}
  BY DEF OwnDirectory, NONE, kernel_directory
<1>3. /\ Owned(p) = OwnedIn(memory, page_directory[p], FreedUpTo(p))
      /\ Owned(p)' = OwnedIn(memory', page_directory'[p], FreedUpTo(p)')
  BY DEF Owned, OwnedIn, ToFree, Rest, PageAt, PageIn, FreedUpTo, Begin, Last, Places, Before,
         NONE, kernel_directory
<1>4. /\ WellFormed(p) <=>
           (OwnDirectory(p) /\ FreedUpTo(p) # Last =>
              /\ \A i \in 0..(KERNEL_ENTRIES - 1) :
                   memory[page_directory[p]][i] = early_page_table(i)
              /\ Distinct(memory, page_directory[p], FreedUpTo(p)))
      /\ WellFormed(p)' <=>
           (OwnDirectory(p)' /\ FreedUpTo(p)' # Last =>
              /\ \A i \in 0..(KERNEL_ENTRIES - 1) :
                   memory'[page_directory'[p]][i] = early_page_table(i)
              /\ Distinct(memory', page_directory'[p], FreedUpTo(p)'))
  BY Zenon DEF WellFormed, Distinct, ToFree, Rest, PageAt, PageIn, OwnDirectory, FreedUpTo,
               Begin, Last, Places, Before, NONE, kernel_directory, early_page_table
<1> QED
  BY <1>1, <1>2, <1>3, <1>4

(* A place is the last, or an entry of a table that a user entry of the    *)
(* directory points to, or that table.                                     *)
LEMMA PlaceForms ==
  /\ Last \in Places /\ Begin \in Progress /\ Begin # Last
  /\ \A i \in UserEntries, j \in 0..PAGE_TABLE_ENTRIES :
       <<i, j>> \in Places /\ <<i, j>> # Last
  /\ \A place \in Places : place # Last =>
       \E i \in UserEntries, j \in 0..PAGE_TABLE_ENTRIES : place = <<i, j>>
<1>1. KERNEL_ENTRIES \in Nat /\ PAGE_DIRECTORY_ENTRIES \in Nat /\ PAGE_DIRECTORY_ENTRIES > 0
  BY Sizes
<1>2. Last \in Places /\ Begin \in Progress
  BY DEF Places, Progress
<1>3. Begin # Last
  BY <1>1 DEF Begin, Last
<1>4. ASSUME NEW i \in UserEntries, NEW j \in 0..PAGE_TABLE_ENTRIES
      PROVE  <<i, j>> \in Places /\ <<i, j>> # Last
  <2>1. i # PAGE_DIRECTORY_ENTRIES
    BY <1>1 DEF UserEntries
  <2> QED
    BY <2>1 DEF Places, UserEntries, Last
<1>5. ASSUME NEW place \in Places, place # Last
      PROVE  \E i \in UserEntries, j \in 0..PAGE_TABLE_ENTRIES : place = <<i, j>>
  BY <1>5 DEF Places, UserEntries
<1> QED
  BY <1>2, <1>3, <1>4, <1>5

(* The coordinates of a place.                                             *)
LEMMA Coordinates ==
  /\ \A place \in Progress : place[1] \in Int /\ place[2] \in Int
  /\ \A place \in Places : place[1] > 0
  /\ Begin[1] = 0 /\ Begin[2] = 0
  /\ Last[1] = PAGE_DIRECTORY_ENTRIES /\ Last[2] = 0
  /\ \A place \in Places : place # Last => place[1] < PAGE_DIRECTORY_ENTRIES
  /\ \A a, b \in Progress : a[1] = b[1] /\ a[2] = b[2] => a = b
<1>1. /\ KERNEL_ENTRIES \in Nat /\ KERNEL_ENTRIES > 0 /\ PAGE_TABLE_ENTRIES \in Nat
      /\ PAGE_DIRECTORY_ENTRIES \in Nat /\ PAGE_DIRECTORY_ENTRIES > 0
  BY Sizes
<1>2. /\ Begin = <<0, 0>> /\ Begin[1] = 0 /\ Begin[2] = 0
      /\ Last = <<PAGE_DIRECTORY_ENTRIES, 0>> /\ Last[1] = PAGE_DIRECTORY_ENTRIES /\ Last[2] = 0
  BY DEF Begin, Last
<1>3. ASSUME NEW place \in Places, place # Last
      PROVE  /\ place[1] \in Int /\ place[2] \in Int /\ place[1] > 0
             /\ place[1] < PAGE_DIRECTORY_ENTRIES /\ place = <<place[1], place[2]>>
  <2>1. PICK i \in UserEntries, j \in 0..PAGE_TABLE_ENTRIES : place = <<i, j>>
    BY <1>3, PlaceForms
  <2> QED
    BY <1>1, <2>1 DEF UserEntries
<1>4. \A place \in Progress : /\ place[1] \in Int /\ place[2] \in Int
                              /\ place = <<place[1], place[2]>>
  BY <1>1, <1>2, <1>3 DEF Progress
<1>5. \A a, b \in Progress : a[1] = b[1] /\ a[2] = b[2] => a = b
  BY <1>4
<1> QED
  BY <1>1, <1>2, <1>3, <1>4, <1>5

(* paging_free_directory comes to each place once, the directory last, and *)
(* to a table after its entries.                                           *)
LEMMA PlaceOrder ==
  /\ \A place \in Places : Before(Begin, place) /\ ~Before(Last, place) /\ ~Before(place, place)
  /\ \A at \in Progress : at # Last => Before(at, Last)
  /\ \A at \in Progress, a, b \in Places : Before(at, a) /\ Before(a, b) => Before(at, b)
  /\ \A at \in Progress, i \in UserEntries, j \in 0..PAGE_TABLE_ENTRIES :
       Before(at, <<i, j>>) => Before(at, <<i, PAGE_TABLE_ENTRIES>>)
<1>1. Places \subseteq Progress /\ PAGE_DIRECTORY_ENTRIES \in Nat /\ PAGE_TABLE_ENTRIES \in Nat
      /\ PAGE_DIRECTORY_ENTRIES > 0
  BY Sizes DEF Progress
<1>2. \A place \in Places : Before(Begin, place) /\ ~Before(place, place)
  BY <1>1, Coordinates DEF Before
<1>3. \A place \in Places : ~Before(Last, place)
  BY <1>1, Coordinates DEF Before
<1>4. \A at \in Progress : at # Last => Before(at, Last)
  BY <1>1, Coordinates DEF Before, Progress
<1>5. \A at \in Progress, a, b \in Places : Before(at, a) /\ Before(a, b) => Before(at, b)
  BY <1>1, Coordinates DEF Before
<1>6. ASSUME NEW at \in Progress, NEW i \in UserEntries, NEW j \in 0..PAGE_TABLE_ENTRIES,
             Before(at, <<i, j>>)
      PROVE  Before(at, <<i, PAGE_TABLE_ENTRIES>>)
  BY <1>1, <1>6, Coordinates, Sizes DEF Before, UserEntries
<1> QED
  BY <1>2, <1>3, <1>4, <1>5, <1>6

(* What is at each place: the entries of a table, ...                      *)
LEMMA EntryForm ==
  ASSUME NEW m, NEW d, NEW i \in UserEntries, NEW j \in 0..(PAGE_TABLE_ENTRIES - 1)
  PROVE  /\ m[d][i] = NONE => PageIn(m, d, <<i, j>>) = NONE
         /\ m[d][i] # NONE => PageIn(m, d, <<i, j>>) = m[m[d][i]][j]
<1>1. PAGE_TABLE_ENTRIES \in Nat
  BY Sizes
<1>2. j # PAGE_TABLE_ENTRIES /\ j \in 0..PAGE_TABLE_ENTRIES
  BY <1>1
<1>3. <<i, j>> # Last
  BY <1>2, PlaceForms
<1>4. <<i, j>>[1] = i /\ <<i, j>>[2] = j
  OBVIOUS
<1> QED
  BY <1>2, <1>3, <1>4 DEF PageIn

(* ... the table itself, and the directory.                                *)
LEMMA PageForms ==
  ASSUME NEW m, NEW d
  PROVE  /\ PageIn(m, d, Last) = d
         /\ \A i \in UserEntries : PageIn(m, d, <<i, PAGE_TABLE_ENTRIES>>) = m[d][i]
<1>1. PageIn(m, d, Last) = d
  BY DEF PageIn
<1>2. ASSUME NEW i \in UserEntries PROVE PageIn(m, d, <<i, PAGE_TABLE_ENTRIES>>) = m[d][i]
  <2>1. PAGE_TABLE_ENTRIES \in 0..PAGE_TABLE_ENTRIES
    BY Sizes
  <2>2. <<i, PAGE_TABLE_ENTRIES>> # Last
    BY <2>1, PlaceForms
  <2>3. <<i, PAGE_TABLE_ENTRIES>>[1] = i /\ <<i, PAGE_TABLE_ENTRIES>>[2] = PAGE_TABLE_ENTRIES
    OBVIOUS
  <2> QED
    BY <2>2, <2>3 DEF PageIn
<1> QED
  BY <1>1, <1>2

(* Memory m2 has in the pages S what m has.                                *)
Unwritten(m, m2, S) == \A x \in S : m2[x] = m[x]

(* A place behind the one freed last keeps what is there when no page that *)
(* is still owned is written.                                              *)
LEMMA PlaceKept ==
  ASSUME NEW m, NEW m2, NEW d, NEW at \in Progress, NEW place \in Places,
         d \notin {NONE, kernel_directory}, Before(at, place),
         Unwritten(m, m2, OwnedIn(m, d, at))
  PROVE  m2[d] = m[d] /\ PageIn(m2, d, place) = PageIn(m, d, place)
<1>1. /\ OwnedIn(m, d, at) = {PageIn(m, d, other) : other \in Rest(m, d, at)}
      /\ \A x \in OwnedIn(m, d, at) : m2[x] = m[x]
  BY DEF OwnedIn, Unwritten
<1>2. at # Last
  BY PlaceOrder
<1>3. m2[d] = m[d]
  <2>1. Last \in Rest(m, d, at)
    BY <1>2, PlaceOrder, PlaceForms, PageForms DEF Rest
  <2> QED
    BY <1>1, <2>1, PageForms
<1>4. CASE place = Last
  BY <1>3, <1>4, PageForms
<1>5. CASE place # Last
  <2>1. PICK i \in UserEntries, j \in 0..PAGE_TABLE_ENTRIES : place = <<i, j>>
    BY <1>5, PlaceForms
  <2>2. m2[d][i] = m[d][i]
    BY <1>3
  <2>3. CASE j = PAGE_TABLE_ENTRIES
    BY <1>3, <2>1, <2>2, <2>3, PageForms
  <2>4. CASE j # PAGE_TABLE_ENTRIES
    <3>1. j \in 0..(PAGE_TABLE_ENTRIES - 1) /\ PAGE_TABLE_ENTRIES \in 0..PAGE_TABLE_ENTRIES
      BY <2>4, Sizes
    <3>2. m[d][i] # NONE => <<i, PAGE_TABLE_ENTRIES>> \in Rest(m, d, at)
      BY <2>1, <3>1, PlaceOrder, PlaceForms, PageForms DEF Rest
    <3>3. m[d][i] # NONE => m[d][i] \in OwnedIn(m, d, at)
      BY <1>1, <3>2, PageForms
    <3>4. m[d][i] # NONE => m2[m[d][i]] = m[m[d][i]]
      BY <1>1, <3>3
    <3>5. /\ PageIn(m, d, <<i, j>>) = IF m[d][i] = NONE THEN NONE ELSE m[m[d][i]][j]
          /\ PageIn(m2, d, <<i, j>>) = IF m2[d][i] = NONE THEN NONE ELSE m2[m2[d][i]][j]
      BY <3>1, EntryForm
    <3> QED
      BY <1>3, <2>1, <2>2, <3>4, <3>5
  <2> QED
    BY <2>3, <2>4
<1> QED
  BY <1>4, <1>5

(* So do the places still to free, and their pages.                        *)
LEMMA PlacesKept ==
  ASSUME NEW m, NEW m2, NEW d, NEW at \in Progress, d \notin {NONE, kernel_directory},
         \A x \in OwnedIn(m, d, at) : m2[x] = m[x]
  PROVE  /\ at # Last => m2[d] = m[d]
         /\ Rest(m2, d, at) = Rest(m, d, at)
         /\ OwnedIn(m2, d, at) = OwnedIn(m, d, at)
         /\ Distinct(m, d, at) => Distinct(m2, d, at)
<1>1. OwnedIn(m, d, at) = {PageIn(m, d, place) : place \in Rest(m, d, at)}
      /\ OwnedIn(m2, d, at) = {PageIn(m2, d, place) : place \in Rest(m2, d, at)}
  BY DEF OwnedIn
<1>2. ASSUME NEW place \in Places, Before(at, place)
      PROVE  m2[d] = m[d] /\ PageIn(m2, d, place) = PageIn(m, d, place)
  <2>1. Unwritten(m, m2, OwnedIn(m, d, at))
    BY DEF Unwritten
  <2> QED
    BY <1>2, <2>1, PlaceKept
<1>3. at # Last => m2[d] = m[d]
  BY <1>2, PlaceOrder, PlaceForms
<1>4. Rest(m2, d, at) = Rest(m, d, at)
  BY <1>2 DEF Rest
<1>5. \A place \in Rest(m, d, at) : PageIn(m2, d, place) = PageIn(m, d, place)
  BY <1>2 DEF Rest
<1>6. OwnedIn(m2, d, at) = OwnedIn(m, d, at)
  BY <1>1, <1>4, <1>5
<1>7. Distinct(m, d, at) => Distinct(m2, d, at)
  BY <1>4, <1>5 DEF Distinct
<1> QED
  BY <1>2, <1>3, <1>4, <1>6, <1>7

-----------------------------------------------------------------------------
(* The manager's side.                                                     *)

(* pmm_alloc_page on free pages.                                           *)
LEMMA TakePreserves ==
  ASSUME PmmInv, NEW S \in SUBSET Free, Take(S)
  PROVE  PmmInv' /\ held' = held \union S /\ Free' = Free \ S /\ S \cap held = {}
<1>1. S \subseteq Pages /\ S \cap Taken = {} /\ S \cap Kernel = {} /\ S \cap held = {}
  BY DEF Free, PmmInv, Accounted
<1>2. Taken' = Taken \union S
  BY <1>1 DEF Take, Taken
<1>3. IsFiniteSet(S)
  BY <1>1, PagesFinite, FS_Subset
<1>4. Cardinality(Taken') = Cardinality(Taken) + Cardinality(S)
  <2>1. Cardinality(Taken \union S)
          = Cardinality(Taken) + Cardinality(S) - Cardinality(Taken \cap S)
    BY <1>3, TakenFinite, FS_Union
  <2>2. Cardinality(Taken \cap S) = 0
    BY <1>1, FS_EmptySet
  <2>3. Cardinality(S) \in Nat
    BY <1>3, FS_CardinalityType
  <2> QED
    BY <1>2, <2>1, <2>2, <2>3, TakenFinite
<1>5. CounterIsExact'
  BY <1>4 DEF Take, PmmInv, CounterIsExact
<1>6. Cardinality(Taken') \in 0..TOTAL_PAGES
  <2>1. Taken' \in SUBSET Pages
    BY DEF Taken
  <2>2. Cardinality(Taken') <= TOTAL_PAGES /\ IsFiniteSet(Taken')
    BY <2>1, PagesFinite, FS_Subset
  <2> QED
    BY <2>2, PmmAssumption, FS_CardinalityType
<1>7. TypeOK'
  <2>1. page_bitmap' \in [Pages -> BOOLEAN]
    BY DEF Take
  <2>2. held' \subseteq Pages
    BY <1>1 DEF Take, PmmInv, TypeOK
  <2> QED
    BY <2>1, <2>2, <1>5, <1>6 DEF TypeOK, CounterIsExact
<1>8. Accounted'
  BY <1>1, <1>2 DEF Take, PmmInv, Accounted, Kernel
<1>9. Free' = Free \ S
  BY <1>2 DEF Free
<1> QED
  BY <1>1, <1>5, <1>7, <1>8, <1>9 DEF PmmInv, Take

(* pmm_free_page refuses of all pages the kernel's.                        *)
LEMMA RefusedPages ==
  ASSUME NEW p \in Pages
  PROVE  Refused(p * PAGE_SIZE) <=> p \in Kernel
<1>1. /\ p \in Nat /\ PAGE_SIZE \in Nat /\ PAGE_SIZE > 0 /\ p < TOTAL_PAGES
      /\ TOTAL_PAGES \in Nat /\ KERNEL_PAGES \in Nat
  BY Sizes DEF Pages
<1>2. p * PAGE_SIZE < TOTAL_PAGES * PAGE_SIZE
  BY <1>1
<1>3. (p * PAGE_SIZE) % PAGE_SIZE = 0
  BY <1>1
<1>4. p * PAGE_SIZE < KERNEL_PAGES * PAGE_SIZE <=> p < KERNEL_PAGES
  BY <1>1
<1> QED
  BY <1>1, <1>2, <1>3, <1>4 DEF Refused, Kernel

(* pmm_free_page, given the address of a page: the kernel's are refused,   *)
(* and a page that was held is held no longer.                             *)
LEMMA FreeGivesBack ==
  ASSUME PmmInv, NEW p \in Pages, FreePage(p * PAGE_SIZE)
  PROVE  /\ PmmInv'
         /\ p \in Kernel => held' = held
         /\ p \in held => held' = held \ {p}
<1>1. /\ p \in Nat /\ PAGE_SIZE \in Nat /\ PAGE_SIZE > 0 /\ p < TOTAL_PAGES
      /\ TOTAL_PAGES \in Nat
  BY Sizes DEF Pages
<1>2. p * PAGE_SIZE \in Addresses
  <2>1. p * PAGE_SIZE < TOTAL_PAGES * PAGE_SIZE /\ p * PAGE_SIZE \in Nat
        /\ TOTAL_PAGES * PAGE_SIZE \in Nat
    BY <1>1
  <2> QED
    BY <2>1 DEF Addresses
<1>3. (p * PAGE_SIZE) \div PAGE_SIZE = p
  BY <1>1
<1>4. PmmInv'
  BY <1>2, FreePagePreserves
<1>5. p \in Kernel => held' = held
  BY RefusedPages DEF FreePage, vars
<1>6. ASSUME p \in held PROVE held' = held \ {p}
  <2>1. ~Refused(p * PAGE_SIZE) /\ page_bitmap[p]
    BY <1>6, RefusedPages DEF PmmInv, Accounted, Taken
  <2> QED
    BY <1>3, <2>1 DEF FreePage
<1> QED
  BY <1>4, <1>5, <1>6

-----------------------------------------------------------------------------
(* Types.                                                                  *)

(* The locals a step of the set-up uses have been set.                     *)
LEMMA CallFields ==
  ASSUME CallOk
  PROVE  /\ call.step = "idle" => call = Idle
         /\ call.step # "idle" => call.proc \in Procs
         /\ call.step \in {"directory", "code"} => call.stack \in Pages
         /\ call.step \in {"map", "mapping"} => call.todo \in Both \union StackOnly
         /\ call.step = "mapping" => call.old_dir \in Pages
         /\ call.step = "kill" => call.at \in Progress
  BY DEF CallOk, Idle

(* What a list of pages to map is made of.                                 *)
LEMMA TodoParts ==
  ASSUME NEW todo \in Both \union StackOnly
  PROVE  /\ todo[1][1] \in USER_CODE_BASE..(USER_STACK_BASE - 1)
         /\ todo[1][2] \in Pages
         /\ todo \in Both =>
              /\ Len(todo) = 2 /\ DOMAIN todo = {1, 2}
              /\ todo[1][1] = USER_CODE_BASE
              /\ todo[2][2] \in Pages
              /\ Tail(todo) = << <<USER_STACK_BASE - 1, todo[2][2]>> >>
              /\ Tail(todo) \in StackOnly
         /\ todo \in StackOnly =>
              /\ Len(todo) = 1 /\ DOMAIN todo = {1}
              /\ todo[1][1] = USER_STACK_BASE - 1
<1>1. CASE todo \in Both
  <2>1. PICK a \in Pages, b \in Pages :
          todo = << <<USER_CODE_BASE, a>>, <<USER_STACK_BASE - 1, b>> >>
    BY <1>1 DEF Both
  <2>2. /\ Len(todo) = 2 /\ DOMAIN todo = {1, 2}
        /\ todo[1][1] = USER_CODE_BASE /\ todo[1][2] = a /\ todo[2][2] = b
        /\ Tail(todo) = << <<USER_STACK_BASE - 1, b>> >>
    BY <2>1
  <2>3. Tail(todo) \in StackOnly
    BY <2>2 DEF StackOnly
  <2>4. todo \notin StackOnly
    BY <2>2 DEF StackOnly
  <2> QED
    BY <2>2, <2>3, <2>4, UserBases
<1>2. CASE todo \in StackOnly
  <2>1. PICK b \in Pages : todo = << <<USER_STACK_BASE - 1, b>> >>
    BY <1>2 DEF StackOnly
  <2>2. Len(todo) = 1 /\ DOMAIN todo = {1} /\ todo[1][1] = USER_STACK_BASE - 1 /\ todo[1][2] = b
    BY <2>1
  <2>3. todo \notin Both
    BY <2>2 DEF Both
  <2> QED
    BY <2>2, <2>3, UserBases
<1> QED
  BY <1>1, <1>2

MemoryOk == memory \in [Pages -> [Entries -> MaybePage]]

(* Free pages are pages.                                                   *)
LEMMA FreeIsPages == Free \in SUBSET Pages
  BY DEF Free

(* The table paging_map_page uses is a page: the present one, or a free    *)
(* one when there was none.                                                *)
LEMMA TablePage ==
  ASSUME MemoryOk, NEW dir \in Pages, NEW v \in USER_CODE_BASE..(USER_STACK_BASE - 1),
         NEW F \in SUBSET Pages
  PROVE  /\ memory[dir][get_page_dir_index(v)] \in MaybePage
         /\ TableFor(dir, v, F) \in MaybePage
         /\ memory[dir][get_page_dir_index(v)] # NONE =>
              TableFor(dir, v, F) = memory[dir][get_page_dir_index(v)]
         /\ memory[dir][get_page_dir_index(v)] = NONE /\ TableFor(dir, v, F) # NONE =>
              TableFor(dir, v, F) \in F
<1>1. memory[dir][get_page_dir_index(v)] \in MaybePage
  BY UserIndex DEF MemoryOk
<1>2. F # {} => Min(F) \in F
  BY FirstFree
<1> QED
  BY <1>1, <1>2 DEF TableFor, MaybePage

(* paging_map_page writes page numbers into pages.                         *)
LEMMA MappingTyped ==
  ASSUME MemoryOk, NEW dir \in Pages, NEW v \in USER_CODE_BASE..(USER_STACK_BASE - 1),
         NEW frame \in Pages, NEW table \in MaybePage
  PROVE  Mapping(dir, v, frame, table) \in [Pages -> [Entries -> MaybePage]]
<1> DEFINE i == get_page_dir_index(v)
           j == get_page_table_index(v)
<1>1. i \in Entries /\ j \in Entries
  BY UserIndex
<1> HIDE DEF i, j
<1>2. CASE table = NONE
  BY <1>2 DEF Mapping, MemoryOk
<1>3. CASE table # NONE /\ memory[dir][i] # NONE
  <2>1. table \in Pages /\ frame \in MaybePage
    BY <1>3 DEF MaybePage
  <2>2. Mapping(dir, v, frame, table) = [memory EXCEPT ![table][j] = frame]
    BY <1>3 DEF Mapping, i, j
  <2> QED
    BY <1>1, <2>1, <2>2 DEF MemoryOk
<1>4. CASE table # NONE /\ memory[dir][i] = NONE
  <2>1. table \in Pages /\ frame \in MaybePage /\ table \in MaybePage
    BY <1>4 DEF MaybePage
  <2> DEFINE new == [Cleared EXCEPT ![j] = frame]
  <2>2. new \in [Entries -> MaybePage]
    BY <1>1, <2>1 DEF Cleared, MaybePage
  <2>3. Mapping(dir, v, frame, table) = [memory EXCEPT ![table] = new, ![dir][i] = table]
    BY <1>4 DEF Mapping, i, j
  <2> HIDE DEF new
  <2> QED
    BY <1>1, <2>1, <2>2, <2>3 DEF MemoryOk
<1> QED
  BY <1>2, <1>3, <1>4

(* A new directory consists of entries.                                    *)
LEMMA NewDirectoryTyped ==
  ASSUME MemoryOk
  PROVE  NewDirectory \in [Entries -> MaybePage]
  BY KernelPages DEF MemoryOk, NewDirectory, MaybePage

(* paging_init and pmm_init establish the types and the bookkeeping.       *)
LEMMA InitTyped == PagingInit => PmmInv /\ PagingTypeOK
<1> SUFFICES ASSUME PagingInit PROVE PmmInv /\ PagingTypeOK
  OBVIOUS
<1>1. PmmInv
  BY InitPmmInv DEF PagingInit
<1>2. \A p \in Pages, i \in Entries : paging_init[p][i] \in MaybePage
  <2> TAKE p \in Pages, i \in Entries
  <2>1. CASE p = kernel_directory /\ i < KERNEL_ENTRIES
    <3>1. paging_init[p][i] = i + 1
      BY <2>1 DEF paging_init, early_page_table
    <3>2. i \in Nat
      BY DEF Entries
    <3> QED
      BY <2>1, <3>1, <3>2, Sizes DEF MaybePage, Pages
  <2>2. CASE /\ ~(p = kernel_directory /\ i < KERNEL_ENTRIES)
             /\ p \in 1..KERNEL_ENTRIES /\ (p - 1) * PAGE_TABLE_ENTRIES + i < TOTAL_PAGES
             /\ i < PAGE_TABLE_ENTRIES
    <3>1. paging_init[p][i] = (p - 1) * PAGE_TABLE_ENTRIES + i
      BY <2>2 DEF paging_init
    <3>2. i \in Nat /\ p - 1 \in Nat
      BY <2>2, Sizes DEF Entries
    <3>3. (p - 1) * PAGE_TABLE_ENTRIES \in Nat
      BY <3>2, Sizes
    <3> QED
      BY <2>2, <3>1, <3>2, <3>3, Sizes DEF MaybePage, Pages
  <2>3. CASE /\ ~(p = kernel_directory /\ i < KERNEL_ENTRIES)
             /\ ~(/\ p \in 1..KERNEL_ENTRIES /\ (p - 1) * PAGE_TABLE_ENTRIES + i < TOTAL_PAGES
                  /\ i < PAGE_TABLE_ENTRIES)
    BY <2>3 DEF paging_init, MaybePage
  <2> QED
    BY <2>1, <2>2, <2>3
<1>3. paging_init \in [Pages -> [Entries -> MaybePage]]
  <2>1. /\ DOMAIN paging_init = Pages
        /\ \A p \in Pages : DOMAIN paging_init[p] = Entries
        /\ paging_init = [p \in Pages |-> paging_init[p]]
        /\ \A p \in Pages : paging_init[p] = [i \in Entries |-> paging_init[p][i]]
    BY DEF paging_init
  <2> QED
    BY <1>2, <2>1
<1>4. CallOk
  BY DEF PagingInit, CallOk
<1> QED
  BY <1>1, <1>3, <1>4, KernelPages, Sizes
     DEF PagingInit, PagingTypeOK, Stages, MaybePage, Idle

-----------------------------------------------------------------------------
(* Every step keeps the types and the manager's bookkeeping, torn or not.  *)

Typed == PmmInv /\ PagingTypeOK

(* Steps that leave the manager alone leave its invariant alone.           *)
LEMMA PmmUnchanged ==
  ASSUME PmmInv, UNCHANGED vars
  PROVE  PmmInv'
  BY DEF vars, PmmInv, TypeOK, CounterIsExact, Accounted, Taken

(* Advanced marks the process it is about, unless it is dead.              *)
LEMMA AdvancedTyped ==
  ASSUME stage \in [Procs -> Stages], NEW p \in Procs, NEW to \in Stages
  PROVE  /\ Advanced(p, to) \in [Procs -> Stages]
         /\ Advanced(p, to)[p] \in {"dead", to}
         /\ \A q \in Procs : q # p => Advanced(p, to)[q] = stage[q]
  BY DEF Advanced, Stages

(* process_create keeps types and bookkeeping.                             *)
LEMMA CreateTyped ==
  ASSUME Typed, NEW p \in Procs, process_create(p)
  PROVE  Typed'
<1>1. PmmInv'
  BY PmmUnchanged DEF Typed, process_create
<1>2. call' \in [step : {"mark", "stack"}, proc : Procs]
      /\ call'.step = "mark" /\ call'.proc = p
  BY DEF process_create
<1>3. CallOk'
  BY <1>2 DEF CallOk
<1>4. stage' \in [Procs -> Stages] /\ stage'[p] = "created"
      /\ page_directory' \in [Procs -> MaybePage] /\ running = "shell"
      /\ \A q \in Procs : q # p => page_directory'[q] = page_directory[q] /\ stage'[q] = stage[q]
  BY DEF process_create, Typed, PagingTypeOK, Stages, MaybePage, At
<1> QED
  BY <1>1, <1>2, <1>3, <1>4, Sizes DEF Typed, PagingTypeOK, process_create

(* Setting is_user_mode keeps types and bookkeeping.                       *)
LEMMA MarkTyped ==
  ASSUME Typed, MarkUserMode
  PROVE  Typed'
<1>1. PmmInv'
  BY PmmUnchanged DEF Typed, MarkUserMode
<1>2. call.proc \in Procs /\ running = "shell"
  BY CallFields DEF Typed, PagingTypeOK, MarkUserMode, At
<1>3. call' \in [step : {"mark", "stack"}, proc : Procs]
      /\ call'.step = "stack" /\ call'.proc = call.proc
  BY <1>2 DEF MarkUserMode
<1>4. CallOk'
  BY <1>3 DEF CallOk
<1>5. stage' \in [Procs -> Stages] /\ stage'[call.proc] # "ready"
      /\ \A q \in Procs : q # call.proc => stage'[q] = stage[q]
  <2> DEFINE p == call.proc
  <2>1. p \in Procs /\ stage \in [Procs -> Stages] /\ "setup" \in Stages
    BY <1>2 DEF Typed, PagingTypeOK, Stages
  <2>2. stage' = Advanced(p, "setup")
    BY DEF MarkUserMode
  <2> HIDE DEF p
  <2>3. /\ stage' \in [Procs -> Stages] /\ stage'[p] # "ready"
        /\ \A q \in Procs : q # p => stage'[q] = stage[q]
    BY <2>1, <2>2, AdvancedTyped
  <2> QED
    BY <2>3 DEF p
<1> QED
  BY <1>1, <1>2, <1>3, <1>4, <1>5, Sizes DEF Typed, PagingTypeOK, MarkUserMode

(* Taking the stack page, or failing to, keeps types and bookkeeping.      *)
LEMMA StackTyped ==
  ASSUME Typed, AllocStack
  PROVE  Typed'
<1>1. call.proc \in Procs /\ running = "shell"
  BY CallFields DEF Typed, PagingTypeOK, AllocStack, At
<1>2. CASE /\ Free # {} /\ Take({Min(Free)})
           /\ call' = [step |-> "directory", proc |-> call.proc, stack |-> Min(Free)]
  <2>1. Min(Free) \in Free /\ Min(Free) \in Pages
    BY <1>2, FreeIsPages, FirstFree
  <2>2. PmmInv'
    BY <1>2, <2>1, TakePreserves DEF Typed
  <2>3. call' \in [step : {"directory", "code"}, proc : Procs, stack : Pages]
        /\ call'.step = "directory" /\ call'.proc = call.proc
    BY <1>1, <1>2, <2>1
  <2>4. CallOk'
    BY <2>3 DEF CallOk
  <2> QED
    BY <1>1, <2>2, <2>3, <2>4, CallFields DEF Typed, PagingTypeOK, AllocStack, At
<1>3. CASE Free = {} /\ call' = Killing(call.proc) /\ UNCHANGED vars
  <2>1. call' \in [step : {"kill"}, proc : Procs, at : Progress]
        /\ call'.step = "kill" /\ call'.proc = call.proc
    BY <1>1, <1>3, PlaceForms DEF Killing
  <2>2. CallOk'
    BY <2>1 DEF CallOk
  <2> QED
    BY <1>1, <1>3, <2>1, <2>2, PmmUnchanged DEF Typed, PagingTypeOK, AllocStack, At
<1> QED
  BY <1>2, <1>3 DEF AllocStack

(* paging_create_user_directory keeps types and bookkeeping.               *)
LEMMA DirectoryTyped ==
  ASSUME Typed, CreateDirectory
  PROVE  Typed'
<1>1. call.proc \in Procs /\ running = "shell" /\ call.stack \in Pages
  BY CallFields DEF Typed, PagingTypeOK, CreateDirectory, At
<1>2. CASE /\ Free # {} /\ Take({Min(Free)})
           /\ memory' = [memory EXCEPT ![Min(Free)] = NewDirectory]
           /\ page_directory' = [page_directory EXCEPT ![call.proc] = Min(Free)]
           /\ call' = [call EXCEPT !.step = "code"]
  <2>1. Min(Free) \in Free /\ Min(Free) \in Pages
    BY <1>2, FreeIsPages, FirstFree
  <2>2. PmmInv'
    BY <1>2, <2>1, TakePreserves DEF Typed
  <2>3. call \in [step : {"directory", "code"}, proc : Procs, stack : Pages]
    BY DEF Typed, PagingTypeOK, CreateDirectory, At, CallOk, Idle
  <2>4. call' \in [step : {"directory", "code"}, proc : Procs, stack : Pages]
        /\ call'.step = "code" /\ call'.proc = call.proc
    BY <1>2, <2>3
  <2>5. CallOk'
    BY <2>4 DEF CallOk
  <2>6. memory' \in [Pages -> [Entries -> MaybePage]]
    BY <1>2, <2>1, NewDirectoryTyped DEF Typed, PagingTypeOK, MemoryOk
  <2>7. page_directory' \in [Procs -> MaybePage] /\ page_directory'[call.proc] \in Pages
        /\ \A q \in Procs : q # call.proc => page_directory'[q] = page_directory[q]
    BY <1>1, <1>2, <2>1 DEF Typed, PagingTypeOK, MaybePage
  <2> QED
    BY <1>1, <2>2, <2>4, <2>5, <2>6, <2>7, KernelPages
       DEF Typed, PagingTypeOK, CreateDirectory, At
<1>3. CASE /\ page_directory' = [page_directory EXCEPT ![call.proc] = NONE]
           /\ call' = Killing(call.proc)
           /\ UNCHANGED <<vars, memory>>
  <2>1. call' \in [step : {"kill"}, proc : Procs, at : Progress]
        /\ call'.step = "kill" /\ call'.proc = call.proc
    BY <1>1, <1>3, PlaceForms DEF Killing
  <2>2. CallOk'
    BY <2>1 DEF CallOk
  <2>3. page_directory' \in [Procs -> MaybePage]
        /\ \A q \in Procs : q # call.proc => page_directory'[q] = page_directory[q]
    BY <1>1, <1>3 DEF Typed, PagingTypeOK, MaybePage
  <2> QED
    BY <1>1, <1>3, <2>1, <2>2, <2>3, PmmUnchanged, Sizes
       DEF Typed, PagingTypeOK, CreateDirectory, At
<1> QED
  BY <1>2, <1>3 DEF CreateDirectory

(* Taking the code page, or failing to, keeps types and bookkeeping.       *)
LEMMA CodeTyped ==
  ASSUME Typed, AllocCode
  PROVE  Typed'
<1>1. call.proc \in Procs /\ running = "shell" /\ call.stack \in Pages
  BY CallFields DEF Typed, PagingTypeOK, AllocCode, At
<1>2. CASE /\ Free # {} /\ Take({Min(Free)})
           /\ call' = [step |-> "map", proc |-> call.proc,
                 todo |-> << <<USER_CODE_BASE, Min(Free)>>, <<USER_STACK_BASE - 1, call.stack>> >>]
  <2>1. Min(Free) \in Free /\ Min(Free) \in Pages
    BY <1>2, FreeIsPages, FirstFree
  <2>2. PmmInv'
    BY <1>2, <2>1, TakePreserves DEF Typed
  <2> DEFINE todo == << <<USER_CODE_BASE, Min(Free)>>, <<USER_STACK_BASE - 1, call.stack>> >>
  <2>3. todo \in Both \union StackOnly
    BY <1>1, <2>1 DEF Both
  <2> HIDE DEF todo
  <2>4. call' = [step |-> "map", proc |-> call.proc, todo |-> todo]
    BY <1>2 DEF todo
  <2>5. call' \in [step : {"map"}, proc : Procs, todo : Both \union StackOnly]
        /\ call'.step = "map" /\ call'.proc = call.proc
    BY <1>1, <2>3, <2>4
  <2>6. CallOk'
    BY <2>5 DEF CallOk
  <2> QED
    BY <1>1, <2>2, <2>5, <2>6 DEF Typed, PagingTypeOK, AllocCode, At
<1>3. CASE call' = Killing(call.proc) /\ UNCHANGED vars
  <2>1. call' \in [step : {"kill"}, proc : Procs, at : Progress]
        /\ call'.step = "kill" /\ call'.proc = call.proc
    BY <1>1, <1>3, PlaceForms DEF Killing
  <2>2. CallOk'
    BY <2>1 DEF CallOk
  <2> QED
    BY <1>1, <1>3, <2>1, <2>2, PmmUnchanged, Sizes DEF Typed, PagingTypeOK, AllocCode, At
<1> QED
  BY <1>2, <1>3 DEF AllocCode

(* paging_map_user_code finds a directory to make current.                 *)
LEMMA EnterTyped ==
  ASSUME Typed, MapEnter
  PROVE  Typed'
<1>1. /\ call.proc \in Procs /\ running = "shell" /\ call.todo \in Both \union StackOnly
      /\ page_directory[call.proc] \in Pages /\ stage[call.proc] # "ready"
  BY CallFields DEF Typed, PagingTypeOK, MapEnter, At, MaybePage
<1>2. call' \in [step : {"mapping"}, proc : Procs, todo : Both \union StackOnly, old_dir : Pages]
      /\ call'.step = "mapping" /\ call'.proc = call.proc
  BY <1>1 DEF MapEnter, Typed, PagingTypeOK
<1>3. CallOk'
  BY <1>2 DEF CallOk
<1>4. PmmInv'
  BY PmmUnchanged DEF Typed, MapEnter
<1> QED
  BY <1>1, <1>2, <1>3, <1>4, Sizes, KernelPages DEF Typed, PagingTypeOK, MapEnter

(* The page mapped, where, and in which table.                             *)
LEMMA MapPageTaken ==
  ASSUME Typed, NEW dir \in Pages, NEW v \in USER_CODE_BASE..(USER_STACK_BASE - 1),
         NEW frame \in Pages, NEW F \in SUBSET Free
  PROVE  /\ Mapping(dir, v, frame, TableFor(dir, v, F)) \in [Pages -> [Entries -> MaybePage]]
         /\ {TableFor(dir, v, F)} \cap Free \subseteq Free
<1>1. F \in SUBSET Pages /\ MemoryOk
  BY FreeIsPages DEF Typed, PagingTypeOK, MemoryOk
<1>2. TableFor(dir, v, F) \in MaybePage
  BY <1>1, TablePage
<1> QED
  BY <1>1, <1>2, MappingTyped

(* paging_map_page keeps types and bookkeeping, whichever directory is     *)
(* current.                                                                *)
LEMMA MapTyped ==
  ASSUME Typed, MapPage
  PROVE  Typed'
<1> DEFINE p == call.proc
           todo == call.todo
           v == call.todo[1][1]
           frame == call.todo[1][2]
           table == TableFor(current_directory, v, Free)
<1>1. /\ p \in Procs /\ running = "shell" /\ todo \in Both \union StackOnly
      /\ call.old_dir \in Pages /\ page_directory[p] # NONE
      /\ current_directory \in Pages /\ stage[p] # "ready"
  BY CallFields DEF Typed, PagingTypeOK, MapPage, At
<1>2. v \in USER_CODE_BASE..(USER_STACK_BASE - 1) /\ frame \in Pages
      /\ (Len(todo) # 1 => Tail(todo) \in StackOnly)
  BY <1>1, TodoParts
<1>3. /\ memory' = Mapping(current_directory, v, frame, table)
      /\ Take({table} \cap Free)
      /\ current_directory' = call.old_dir
      /\ call' = IF Len(todo) = 1 THEN Idle
                 ELSE [step |-> "map", proc |-> p, todo |-> Tail(todo)]
      /\ stage' = IF Len(todo) = 1 THEN Advanced(p, "ready") ELSE stage
      /\ UNCHANGED <<cr3, page_directory, running, others, torn>>
  BY DEF MapPage
<1> HIDE DEF p, v, frame, todo
<1>4. memory' \in [Pages -> [Entries -> MaybePage]]
  BY <1>1, <1>2, <1>3, MapPageTaken
<1>5. PmmInv'
  BY <1>3, TakePreserves DEF Typed
<1>6. stage \in [Procs -> Stages] /\ "ready" \in Stages
  BY DEF Typed, PagingTypeOK, Stages
<1>7. stage' \in [Procs -> Stages] /\ \A q \in Procs : q # p => stage'[q] = stage[q]
  BY <1>1, <1>3, <1>6, AdvancedTyped
<1>8. CallOk' /\ (call'.step # "idle" => call'.step = "map" /\ call'.proc = p /\ stage' = stage)
  <2>1. CASE Len(todo) = 1
    BY <1>3, <2>1 DEF CallOk, Idle
  <2>2. CASE Len(todo) # 1
    <3> DEFINE rest == Tail(todo)
    <3>1. rest \in Both \union StackOnly
      BY <1>2, <2>2
    <3> HIDE DEF rest
    <3>2. call' = [step |-> "map", proc |-> p, todo |-> rest]
      BY <1>3, <2>2 DEF rest
    <3>3. call' \in [step : {"map"}, proc : Procs, todo : Both \union StackOnly]
          /\ call'.step = "map" /\ call'.proc = p
      BY <1>1, <3>1, <3>2
    <3>4. stage' = stage
      BY <1>3, <2>2
    <3> QED
      BY <3>3, <3>4 DEF CallOk
  <2> QED
    BY <2>1, <2>2
<1>9. \A q \in Procs : stage'[q] = "ready" => page_directory'[q] # NONE
  BY <1>1, <1>3, <1>7 DEF Typed, PagingTypeOK
<1>10. running' = "shell" /\ current_directory' \in Pages /\ cr3' \in Pages
       /\ page_directory' \in [Procs -> MaybePage] /\ torn' \in BOOLEAN
       /\ page_directory'[p] # NONE
  BY <1>1, <1>3 DEF Typed, PagingTypeOK
<1> QED
  BY <1>1, <1>4, <1>5, <1>7, <1>8, <1>9, <1>10, Sizes DEF Typed, PagingTypeOK

(* The start of a kill keeps types and bookkeeping.                        *)
LEMMA KillTyped ==
  ASSUME Typed, NEW p \in Procs, process_kill(p)
  PROVE  Typed'
<1>1. PmmInv'
  BY PmmUnchanged DEF Typed, process_kill
<1>2. call' \in [step : {"kill"}, proc : Procs, at : Progress] /\ call'.step = "kill"
  BY PlaceForms DEF process_kill, Killing
<1>3. CallOk'
  BY <1>2 DEF CallOk
<1> QED
  BY <1>1, <1>2, <1>3 DEF Typed, PagingTypeOK, process_kill

(* What paging_free_directory comes to is a page or nothing.               *)
LEMMA PagesTyped ==
  ASSUME MemoryOk, NEW dir \in Pages, NEW place \in Places
  PROVE  PageIn(memory, dir, place) \in MaybePage
<1>1. CASE place = Last
  BY <1>1, PageForms DEF MaybePage
<1>2. CASE place # Last
  <2>1. PICK i \in UserEntries, j \in 0..PAGE_TABLE_ENTRIES : place = <<i, j>>
    BY <1>2, PlaceForms
  <2>2. i \in Entries /\ PAGE_TABLE_ENTRIES \in Nat
    BY EntriesHold, Sizes DEF UserEntries
  <2>3. memory[dir][i] \in MaybePage
    BY <2>2 DEF MemoryOk
  <2>4. CASE j = PAGE_TABLE_ENTRIES
    BY <2>1, <2>3, <2>4, PageForms
  <2>5. CASE j # PAGE_TABLE_ENTRIES
    <3>1. j \in 0..(PAGE_TABLE_ENTRIES - 1) /\ j \in Entries
      BY <2>2, <2>5, EntriesHold
    <3>2. PageIn(memory, dir, place)
            = IF memory[dir][i] = NONE THEN NONE ELSE memory[memory[dir][i]][j]
      BY <2>1, <3>1, EntryForm
    <3> QED
      BY <2>3, <3>1, <3>2 DEF MemoryOk, MaybePage
  <2> QED
    BY <2>4, <2>5
<1> QED
  BY <1>1, <1>2

(* The parts of a turn of paging_free_directory.                           *)
LEMMA FreeNextParts ==
  ASSUME Typed, FreeNext
  PROVE  \E p \in Procs, d \in Pages, at \in Progress, place \in Places, page \in Pages :
           /\ running = "shell" /\ call.step = "kill"
           /\ p = call.proc /\ d = page_directory[p] /\ at = FreedUpTo(p)
           /\ place \in Rest(memory, d, at)
           /\ \A other \in Rest(memory, d, at) : other = place \/ Before(place, other)
           /\ page = PageIn(memory, d, place)
           /\ FreePage(page * PAGE_SIZE)
           /\ call' \in [step : {"kill"}, proc : Procs, at : Progress]
           /\ call'.step = "kill" /\ call'.proc = p /\ call'.at = place
<1>1. /\ running = "shell" /\ call.step = "kill" /\ page_directory[call.proc] # NONE
      /\ call \in [step : {"kill"}, proc : Procs, at : Progress]
  BY DEF FreeNext, At, Typed, PagingTypeOK, CallOk, Idle
<1>2. PICK p \in Procs, d \in Pages, at \in Progress :
        p = call.proc /\ d = page_directory[p] /\ at = call.at
  BY <1>1 DEF Typed, PagingTypeOK, MaybePage
<1>3. at = FreedUpTo(p)
  BY <1>1, <1>2 DEF FreedUpTo
<1>4. PICK place \in ToFree(d, at) :
        /\ \A other \in ToFree(d, at) : other = place \/ Before(place, other)
        /\ FreePage(PageAt(d, place) * PAGE_SIZE)
        /\ call' = [call EXCEPT !.at = place]
  BY <1>2 DEF FreeNext
<1>5. ToFree(d, at) = Rest(memory, d, at) /\ PageAt(d, place) = PageIn(memory, d, place)
  BY DEF ToFree, Rest, PageAt, PageIn
<1>6. place \in Places /\ PageIn(memory, d, place) # NONE
  BY <1>4, <1>5 DEF Rest
<1>7. PageIn(memory, d, place) \in Pages
  BY <1>6, PagesTyped DEF Typed, PagingTypeOK, MemoryOk, MaybePage
<1>8. /\ call' \in [step : {"kill"}, proc : Procs, at : Progress]
      /\ call'.step = "kill" /\ call'.proc = p /\ call'.at = place
  BY <1>1, <1>2, <1>4, <1>6 DEF Progress
<1> QED
  BY <1>1, <1>2, <1>3, <1>4, <1>5, <1>6, <1>7, <1>8

(* A turn of paging_free_directory keeps types and bookkeeping, whatever   *)
(* the directory holds.                                                    *)
LEMMA FreeNextTyped ==
  ASSUME Typed, FreeNext
  PROVE  Typed'
<1>1. PICK page \in Pages :
        /\ FreePage(page * PAGE_SIZE)
        /\ call' \in [step : {"kill"}, proc : Procs, at : Progress] /\ call'.step = "kill"
  BY FreeNextParts
<1>2. PmmInv'
  BY <1>1, FreeGivesBack DEF Typed
<1>3. CallOk'
  BY <1>1 DEF CallOk
<1> QED
  BY <1>1, <1>2, <1>3 DEF Typed, PagingTypeOK, FreeNext

(* Clearing the table's entry keeps types and bookkeeping.                 *)
LEMMA KillClearsTyped ==
  ASSUME Typed, KillClears
  PROVE  Typed'
<1>1. PmmInv'
  BY PmmUnchanged DEF Typed, KillClears
<1>2. PICK p \in Procs : p = call.proc
  BY CallFields DEF KillClears, At, Typed, PagingTypeOK
<1>3. call' = Idle /\ running = "shell" /\ call'.step = "idle"
  BY DEF KillClears, At, Idle
<1>4. CallOk'
  BY <1>3 DEF CallOk
<1>5. /\ page_directory' \in [Procs -> MaybePage] /\ stage' \in [Procs -> Stages]
      /\ stage'[p] = "none"
      /\ \A q \in Procs : q # p => page_directory'[q] = page_directory[q] /\ stage'[q] = stage[q]
  BY <1>2 DEF KillClears, Typed, PagingTypeOK, Stages, MaybePage
<1> QED
  BY <1>1, <1>3, <1>4, <1>5, Sizes DEF Typed, PagingTypeOK, KillClears

(* A switch loads a page.                                                  *)
LEMMA SwitchTyped ==
  ASSUME Typed, NEW p \in Procs, SwitchTo(p)
  PROVE  Typed'
<1>1. PmmInv'
  BY PmmUnchanged DEF Typed, SwitchTo
<1>2. running' \in Procs \union {"shell", "halted"} /\ (running' \in Procs => stage[running'] = "ready")
  BY Sizes DEF SwitchTo
<1>3. current_directory' \in Pages /\ cr3' \in Pages
  BY DEF SwitchTo, paging_switch_directory, Typed, PagingTypeOK, MaybePage
<1>4. torn' \in BOOLEAN
  BY DEF SwitchTo, Typed, PagingTypeOK
<1>5. CallOk'
  BY DEF SwitchTo, Typed, PagingTypeOK, CallOk
<1> QED
  BY <1>1, <1>2, <1>3, <1>4, <1>5 DEF Typed, PagingTypeOK, SwitchTo

(* A process that exits in its wrapper was not ready.                      *)
LEMMA WrapperTyped ==
  ASSUME Typed, NEW p \in Procs, WrapperExits(p)
  PROVE  Typed'
<1>1. PmmInv'
  BY PmmUnchanged DEF Typed, WrapperExits
<1>2. /\ stage' \in [Procs -> Stages] /\ stage'[p] = "dead"
      /\ \A q \in Procs : q # p => stage'[q] = stage[q]
  BY DEF WrapperExits, Typed, PagingTypeOK, Stages
<1>3. CallOk'
  BY DEF WrapperExits, Typed, PagingTypeOK, CallOk
<1> QED
  BY <1>1, <1>2, <1>3, CallFields, Sizes DEF Typed, PagingTypeOK, WrapperExits

(* The switch back to the shell loads the kernel's directory.              *)
LEMMA BackTyped ==
  ASSUME Typed, SwitchBack
  PROVE  Typed'
<1>1. PmmInv'
  BY PmmUnchanged DEF Typed, SwitchBack
<1>2. running \in Procs /\ running' = "shell"
  BY DEF SwitchBack
<1>3. /\ stage' \in [Procs -> Stages]
      /\ \A q \in Procs : stage'[q] = stage[q] \/ stage'[q] = "dead"
  BY <1>2 DEF SwitchBack, Typed, PagingTypeOK, Stages
<1>4. CallOk'
  BY DEF SwitchBack, Typed, PagingTypeOK, CallOk
<1>5. current_directory' \in Pages /\ cr3' \in Pages
  BY KernelPages DEF SwitchBack, paging_switch_directory
<1> QED
  BY <1>1, <1>2, <1>3, <1>4, <1>5, CallFields, Sizes DEF Typed, PagingTypeOK, SwitchBack

(* page_fault_handler keeps types and bookkeeping.                         *)
LEMMA DemandTyped ==
  ASSUME Typed, NEW v \in Touched, DemandPage(v)
  PROVE  Typed'
<1> DEFINE page == Min(Free)
           dir == page_directory[running]
           table == TableFor(dir, v, Free \ {page})
<1>1. running \in Procs /\ dir \in Pages /\ v \in USER_CODE_BASE..(USER_STACK_BASE - 1)
  BY UserBases DEF DemandPage, NotPresent, Typed, PagingTypeOK, MaybePage
<1>2. page \in Free /\ page \in Pages
  BY FreeIsPages, FirstFree DEF DemandPage
<1>3. /\ Take({page} \union ({table} \cap Free))
      /\ memory' = Mapping(dir, v, page, table)
      /\ UNCHANGED <<current_directory, cr3, page_directory, stage, running, call, others, torn>>
  BY DEF DemandPage
<1> HIDE DEF page, dir
<1>4. memory' \in [Pages -> [Entries -> MaybePage]]
  BY <1>1, <1>2, <1>3, MapPageTaken
<1>5. {page} \union ({table} \cap Free) \in SUBSET Free
  BY <1>2
<1>6. PmmInv'
  BY <1>3, <1>5, TakePreserves DEF Typed
<1>7. CallOk'
  BY <1>3 DEF Typed, PagingTypeOK, CallOk
<1> QED
  BY <1>3, <1>4, <1>6, <1>7 DEF Typed, PagingTypeOK

(* A fault that halts changes nothing but who runs.                        *)
LEMMA HaltTyped ==
  ASSUME Typed, NEW v \in Touched, FaultHalts(v)
  PROVE  Typed'
<1>1. PmmInv'
  BY PmmUnchanged DEF Typed, FaultHalts
<1>2. CallOk'
  BY DEF FaultHalts, Typed, PagingTypeOK, CallOk
<1> QED
  BY <1>1, <1>2, Sizes DEF Typed, PagingTypeOK, FaultHalts

(* The other clients keep the bookkeeping.                                 *)
LEMMA ClientTyped ==
  ASSUME Typed, Client
  PROVE  Typed'
<1>1. PmmInv'
  BY AllocPreserves, FreePagePreserves, FreePagesPreserves DEF Typed, Client
<1>2. CallOk'
  BY DEF Client, Typed, PagingTypeOK, CallOk
<1> QED
  BY <1>1, <1>2 DEF Typed, PagingTypeOK, Client

(* cmd_memtest that keeps its pages keeps the bookkeeping.                 *)
LEMMA MemtestTyped ==
  ASSUME Typed, MemtestFails
  PROVE  Typed'
<1>1. PmmInv'
  BY TakePreserves DEF Typed, MemtestFails
<1>2. CallOk'
  BY DEF MemtestFails, Typed, PagingTypeOK, CallOk
<1> QED
  BY <1>1, <1>2 DEF Typed, PagingTypeOK, MemtestFails

-----------------------------------------------------------------------------
(* What a process owns.                                                    *)

(* What the set-up in progress has in hand, by its step.                   *)
Hand(c) ==
  CASE c.step \in {"directory", "code"} -> {c.stack}
    [] c.step \in {"map", "mapping"} -> {c.todo[i][2] : i \in DOMAIN c.todo}
    [] OTHER -> {}

(* A kill has come to a place or has not begun.                            *)
LEMMA ProgressIs ==
  ASSUME CallOk, NEW p
  PROVE  FreedUpTo(p) \in Progress
  BY CallFields, PlaceForms DEF FreedUpTo

(* Before and after a step that is not of a kill, or that begins one, the  *)
(* processes' directories are whole.                                       *)
LEMMA NotFreeing ==
  ASSUME NEW p
  PROVE  /\ call.step # "kill" \/ call.at = Begin => FreedUpTo(p) = Begin
         /\ call'.step # "kill" \/ call'.at = Begin => FreedUpTo(p)' = Begin
  BY DEF FreedUpTo, Begin

(* A kill begins before the first place.                                   *)
LEMMA KillBegins ==
  ASSUME NEW p
  PROVE  /\ Killing(p).step = "kill" /\ Killing(p).proc = p /\ Killing(p).at = Begin
         /\ Hand(Killing(p)) = {}
  BY DEF Killing, Hand

(* What a process owns is held by clients of the manager: neither free nor *)
(* the kernel's.                                                           *)
LEMMA OwnedHeld ==
  ASSUME Typed, Books, NEW p \in Procs
  PROVE  /\ Owned(p) \subseteq held
         /\ Owned(p) \cap Free = {}
         /\ Owned(p) \cap Kernel = {}
         /\ Owned(p) \subseteq Pages
<1>1. Owned(p) \subseteq held
  BY DEF Books, Ledger, Own
<1>2. held \subseteq Pages /\ held \subseteq Taken /\ Kernel \cap held = {}
  BY DEF Typed, PmmInv, TypeOK, Accounted
<1> QED
  BY <1>1, <1>2 DEF Free

(* The frame of what a process owns: its directory, tables and mappings    *)
(* are untouched by a step that writes to none of its pages.               *)
LEMMA OwnedKept ==
  ASSUME CallOk, NEW p \in Procs, page_directory'[p] = page_directory[p],
         FreedUpTo(p)' = FreedUpTo(p),
         \A x \in Owned(p) : memory'[x] = memory[x]
  PROVE  /\ OwnDirectory(p)' = OwnDirectory(p)
         /\ Owned(p)' = Owned(p)
         /\ OwnDirectory(p) /\ FreedUpTo(p) # Last =>
              memory'[page_directory[p]] = memory[page_directory[p]]
         /\ WellFormed(p) => WellFormed(p)'
<1>0. PICK d : d = page_directory[p]
  OBVIOUS
<1>1. PICK at \in Progress : d = page_directory[p] /\ at = FreedUpTo(p)
  BY <1>0, ProgressIs
<1>2. /\ Owned(p) = OwnedIn(memory, d, at) /\ Owned(p)' = OwnedIn(memory', d, at)
      /\ OwnDirectory(p) <=> d \notin {NONE, kernel_directory}
      /\ OwnDirectory(p)' <=> d \notin {NONE, kernel_directory}
  BY <1>1, InState
<1>3. OwnDirectory(p)' = OwnDirectory(p)
  BY DEF OwnDirectory, NONE, kernel_directory
<1>4. CASE d \in {NONE, kernel_directory}
  <2>1. Owned(p)' = Owned(p)
    BY <1>2, <1>4 DEF OwnedIn
  <2> QED
    BY <1>2, <1>3, <1>4, <2>1, InState
<1>5. CASE d \notin {NONE, kernel_directory}
  <2>1. /\ at # Last => memory'[d] = memory[d]
        /\ OwnedIn(memory', d, at) = OwnedIn(memory, d, at)
        /\ Distinct(memory, d, at) => Distinct(memory', d, at)
    BY <1>2, <1>5, PlacesKept
  <2>2. WellFormed(p) => WellFormed(p)'
    <3>1. /\ WellFormed(p) <=>
               (at # Last => /\ \A i \in 0..(KERNEL_ENTRIES - 1) : memory[d][i] = early_page_table(i)
                             /\ Distinct(memory, d, at))
          /\ WellFormed(p)' <=>
               (at # Last => /\ \A i \in 0..(KERNEL_ENTRIES - 1) : memory'[d][i] = early_page_table(i)
                             /\ Distinct(memory', d, at))
      BY <1>1, <1>2, <1>5, InState
    <3> QED
      BY <2>1, <3>1
  <2> QED
    BY <1>1, <1>2, <1>3, <2>1, <2>2
<1> QED
  BY <1>4, <1>5

(* Where an address is mapped is one of the places of its directory.       *)
LEMMA AddressForm ==
  ASSUME NEW d, NEW v \in USER_CODE_BASE..(USER_STACK_BASE - 1)
  PROVE  /\ paging_get_physical_address(d, v)
              = PageIn(memory, d, <<get_page_dir_index(v), get_page_table_index(v)>>)
         /\ paging_get_physical_address(d, v)'
              = PageIn(memory', d, <<get_page_dir_index(v), get_page_table_index(v)>>)
<1>1. PICK i \in UserEntries, j \in 0..(PAGE_TABLE_ENTRIES - 1) :
        i = get_page_dir_index(v) /\ j = get_page_table_index(v)
  BY UserIndex DEF UserEntries
<1>2. paging_get_physical_address(d, v)
        = IF memory[d][i] = NONE THEN NONE ELSE memory[memory[d][i]][j]
  BY <1>1 DEF paging_get_physical_address
<1>3. paging_get_physical_address(d, v)'
        = IF memory'[d][i] = NONE THEN NONE ELSE memory'[memory'[d][i]][j]
  BY <1>1 DEF paging_get_physical_address, get_page_dir_index, get_page_table_index, NONE
<1> QED
  BY <1>1, <1>2, <1>3, EntryForm

(* A user address stays mapped where it was, with what its owner owns.     *)
LEMMA AddressKept ==
  ASSUME CallOk, NEW p \in Procs, page_directory'[p] = page_directory[p],
         FreedUpTo(p) = Begin,
         \A x \in Owned(p) : memory'[x] = memory[x],
         OwnDirectory(p), NEW v \in USER_CODE_BASE..(USER_STACK_BASE - 1)
  PROVE  paging_get_physical_address(page_directory[p], v)'
           = paging_get_physical_address(page_directory[p], v)
<1>1. PICK d : d = page_directory[p] /\ d \notin {NONE, kernel_directory}
  BY DEF OwnDirectory
<1>2. PICK i \in UserEntries, j \in 0..PAGE_TABLE_ENTRIES :
        i = get_page_dir_index(v) /\ j = get_page_table_index(v)
  <2>1. get_page_dir_index(v) \in UserEntries /\ get_page_table_index(v) \in 0..(PAGE_TABLE_ENTRIES - 1)
    BY UserIndex DEF UserEntries
  <2>2. 0..(PAGE_TABLE_ENTRIES - 1) \subseteq 0..PAGE_TABLE_ENTRIES
    BY Sizes
  <2> QED
    BY <2>1, <2>2
<1>3. Unwritten(memory, memory', OwnedIn(memory, d, Begin))
  BY <1>1, InState DEF Unwritten
<1>4. <<i, j>> \in Places /\ Before(Begin, <<i, j>>) /\ Begin \in Progress
  BY PlaceForms, PlaceOrder
<1>5. PageIn(memory', d, <<i, j>>) = PageIn(memory, d, <<i, j>>)
  BY <1>1, <1>3, <1>4, PlaceKept
<1>6. paging_get_physical_address(d, v)' = paging_get_physical_address(d, v)
  BY <1>2, <1>5, AddressForm
<1>7. paging_get_physical_address(page_directory[p], v)' = paging_get_physical_address(d, v)'
  BY <1>1 DEF paging_get_physical_address
<1> QED
  BY <1>1, <1>6, <1>7

-----------------------------------------------------------------------------
(* Entries in the ledger.                                                  *)

(* Pages nobody held go to other clients, to the lost ones or in hand.     *)
LEMMA LedgerTake ==
  ASSUME NEW H, NEW O, NEW L, NEW I, NEW own, Ledger(H, O, L, I, own),
         NEW S, S \cap H = {}
  PROVE  /\ Ledger(H \union S, O \union S, L, I, own)
         /\ Ledger(H \union S, O, L \union S, I, own)
         /\ Ledger(H \union S, O, L, I \union S, own)
  BY DEF Ledger

(* Pages in hand are forgotten.                                            *)
LEMMA LedgerForget ==
  ASSUME NEW H, NEW O, NEW L, NEW I, NEW own, Ledger(H, O, L, I, own),
         NEW S \in SUBSET I
  PROVE  Ledger(H, O, L \union S, I \ S, own)
  BY DEF Ledger

(* Pages in hand become a process's.                                       *)
LEMMA LedgerOwn ==
  ASSUME NEW H, NEW O, NEW L, NEW I, NEW own, NEW own2, Ledger(H, O, L, I, own),
         NEW S \in SUBSET I, NEW p \in Procs,
         own2[p] = own[p] \union S,
         \A q \in Procs : q # p => own2[q] = own[q]
  PROVE  Ledger(H, O, L, I \ S, own2)
<1>1. \A q \in Procs : own[q] \subseteq own2[q] /\ own2[q] \subseteq own[q] \union S
  OBVIOUS
<1>2. \A q, r \in Procs : q # r => own2[q] \cap own2[r] = {}
  BY DEF Ledger
<1>3. \A q \in Procs : own2[q] \cap (O \union L \union (I \ S)) = {}
  BY DEF Ledger
<1>4. H = O \union L \union (I \ S) \union UNION {own2[q] : q \in Procs}
  BY <1>1 DEF Ledger
<1> QED
  BY <1>2, <1>3, <1>4 DEF Ledger

(* Some of a process's pages are given back.                               *)
LEMMA LedgerReturn ==
  ASSUME NEW H, NEW O, NEW L, NEW I, NEW own, NEW own2, Ledger(H, O, L, I, own),
         NEW p \in Procs, NEW S \in SUBSET own[p], own2[p] = own[p] \ S,
         \A q \in Procs : q # p => own2[q] = own[q]
  PROVE  Ledger(H \ S, O, L, I, own2)
<1>1. \A q, r \in Procs : q # r => own2[q] \cap own2[r] = {}
  BY DEF Ledger
<1>2. \A q \in Procs : own2[q] \cap (O \union L \union I) = {}
  BY DEF Ledger
<1>3. H \ S = O \union L \union I \union UNION {own2[q] : q \in Procs}
  <2>1. \A q \in Procs : own2[q] = own[q] \ S
    BY DEF Ledger
  <2>2. S \cap (O \union L \union I) = {}
    BY DEF Ledger
  <2> QED
    BY <2>1, <2>2 DEF Ledger
<1> QED
  BY <1>1, <1>2, <1>3 DEF Ledger

(* The other clients give back some of their pages, or take new ones.      *)
LEMMA LedgerClient ==
  ASSUME NEW H, NEW O, NEW L, NEW I, NEW own, Ledger(H, O, L, I, own),
         NEW H2, H \ H2 \subseteq O
  PROVE  Ledger(H2, (O \cap H2) \union (H2 \ H), L, I, own)
  BY DEF Ledger

(* Nothing moves between owners while what they own is the same.           *)
LEMMA OwnKept ==
  ASSUME \A p \in Procs : Owned(p)' = Owned(p)
  PROVE  Own' = Own
  BY DEF Own

(* The same for the books of a step that takes pages nobody held.          *)
LEMMA BooksTake ==
  ASSUME Books, Own' = Own, NEW S, S \cap held = {}, held' = held \union S
  PROVE  /\ (lost' = lost \union S /\ others' = others /\ InHand' = InHand) => Books'
         /\ (lost' = lost /\ others' = others /\ InHand' = InHand \union S) => Books'
<1>1. /\ Ledger(held \union S, others, lost \union S, InHand, Own)
      /\ Ledger(held \union S, others, lost, InHand \union S, Own)
  BY LedgerTake DEF Books
<1> QED
  BY <1>1 DEF Books

(* A step that leaves memory and the processes' directories alone, and     *)
(* frees nothing of them, leaves alone what is in them.                    *)
LEMMA DirectoriesKept ==
  ASSUME Typed, UNCHANGED <<memory, page_directory>>,
         \A q \in Procs : FreedUpTo(q)' = FreedUpTo(q)
  PROVE  /\ Own' = Own
         /\ KernelPart => KernelPart'
         /\ Proper => Proper'
         /\ \A p \in Procs :
              /\ OwnDirectory(p)' = OwnDirectory(p)
              /\ Tables(page_directory[p])' = Tables(page_directory[p])
              /\ paging_get_physical_address(page_directory[p], USER_STACK_BASE - 1)'
                   = paging_get_physical_address(page_directory[p], USER_STACK_BASE - 1)
<1>1. KernelPart => KernelPart'
  BY DEF KernelPart, paging_init
<1>2. \A p \in Procs : Owned(p)' = Owned(p) /\ (WellFormed(p) => WellFormed(p)')
                       /\ OwnDirectory(p)' = OwnDirectory(p)
  BY OwnedKept DEF Typed, PagingTypeOK
<1>3. \A p \in Procs : Tables(page_directory[p])' = Tables(page_directory[p])
  BY DEF Tables
<1>4. \A p \in Procs : paging_get_physical_address(page_directory[p], USER_STACK_BASE - 1)'
                   = paging_get_physical_address(page_directory[p], USER_STACK_BASE - 1)
  BY DEF paging_get_physical_address, get_page_dir_index, get_page_table_index
<1> QED
  BY <1>1, <1>2, <1>3, <1>4, OwnKept DEF Proper

(* What is in hand depends on the call only.                               *)
LEMMA HandNow == InHand = Hand(call) /\ InHand' = Hand(call')
  BY DEF InHand, Hand

(* The pages in hand at each step of the set-up.                           *)
LEMMA HandParts ==
  ASSUME NEW c
  PROVE  /\ c.step \in {"directory", "code"} => Hand(c) = {c.stack}
         /\ c.step \in {"map", "mapping"} =>
              /\ Hand(c) = {c.todo[i][2] : i \in DOMAIN c.todo}
              /\ c.todo \in Both => Hand(c) = {c.todo[1][2], c.todo[2][2]}
              /\ c.todo \in StackOnly => Hand(c) = {c.todo[1][2]}
         /\ c.step \notin {"directory", "code", "map", "mapping"} => Hand(c) = {}
<1>1. /\ c.step \in {"directory", "code"} => Hand(c) = {c.stack}
      /\ c.step \in {"map", "mapping"} => Hand(c) = {c.todo[i][2] : i \in DOMAIN c.todo}
      /\ c.step \notin {"directory", "code", "map", "mapping"} => Hand(c) = {}
  BY DEF Hand
<1>2. c.todo \in Both => DOMAIN c.todo = {1, 2}
  BY TodoParts
<1>3. c.todo \in StackOnly => DOMAIN c.todo = {1}
  BY TodoParts
<1> QED
  BY <1>1, <1>2, <1>3

-----------------------------------------------------------------------------
(* Every step that does not tear the mapping keeps the directories sound.  *)

(* A process starts with the kernel's directory and owns nothing.          *)
LEMMA CreateSound ==
  ASSUME Typed, Sound, NEW p \in Procs, process_create(p)
  PROVE  Sound'
<1>1. /\ running = "shell" /\ call.step = "idle" /\ stage[p] = "none"
      /\ call' = [step |-> "mark", proc |-> p] /\ current_directory = kernel_directory
      /\ UNCHANGED <<vars, memory, current_directory, cr3, running, others, lost, torn>>
  BY DEF process_create, At, Sound, Control
<1>2. page_directory[p] = NONE
  BY <1>1 DEF Sound, StageFits
<1>3. /\ page_directory'[p] = kernel_directory /\ stage'[p] = "created"
      /\ \A q \in Procs : q # p => page_directory'[q] = page_directory[q] /\ stage'[q] = stage[q]
  BY <1>1 DEF process_create, Typed, PagingTypeOK
<1>4. Owned(p) = {} /\ Owned(p)' = {} /\ WellFormed(p)' /\ ~OwnDirectory(p)'
  BY <1>2, <1>3 DEF Owned, NONE, kernel_directory, OwnDirectory, WellFormed
<1>5. \A q \in Procs \ {p} : /\ Owned(q)' = Owned(q) /\ (WellFormed(q) => WellFormed(q)')
                             /\ OwnDirectory(q)' = OwnDirectory(q)
  <2>1. \A q \in Procs : FreedUpTo(q)' = FreedUpTo(q)
    BY <1>1, NotFreeing
  <2> QED
    BY <1>1, <1>3, <2>1, OwnedKept DEF Typed, PagingTypeOK
<1>6. Own' = Own
  BY <1>4, <1>5, OwnKept
<1>7. InHand = {} /\ InHand' = {}
  BY <1>1, HandNow, HandParts
<1>8. Books'
  BY <1>1, <1>6, <1>7 DEF Sound, Books, vars
<1>9. KernelPart' /\ Proper'
  BY <1>1, <1>4, <1>5 DEF Sound, KernelPart, Proper, paging_init
<1>10. SetUp'
  BY <1>1, <1>3 DEF SetUp
<1>11. \A q \in Procs : StageFits(q)'
  <2>1. StageFits(p)'
    BY <1>3 DEF StageFits
  <2>2. ASSUME NEW q \in Procs \ {p} PROVE StageFits(q)'
    BY <1>3, <1>5 DEF StageFits, Sound
  <2> QED
    BY <2>1, <2>2
<1>12. Control'
  BY <1>1, Sizes DEF Control, Sound, kernel_directory
<1> QED
  BY <1>8, <1>9, <1>10, <1>11, <1>12 DEF Sound

(* Setting is_user_mode moves no page.                                     *)
LEMMA MarkSound ==
  ASSUME Typed, Sound, MarkUserMode
  PROVE  Sound'
<1> DEFINE p == call.proc
<1>1. /\ running = "shell" /\ call.step = "mark" /\ p \in Procs
      /\ call' = [step |-> "stack", proc |-> p]
      /\ stage' = Advanced(p, "setup")
      /\ UNCHANGED <<vars, memory, current_directory, cr3, page_directory, running, others,
                     lost, torn>>
  BY CallFields DEF MarkUserMode, At, Typed, PagingTypeOK
<1>2. page_directory[p] = kernel_directory
  BY <1>1 DEF Sound, SetUp
<1> HIDE DEF p
<1>3. stage \in [Procs -> Stages] /\ "setup" \in Stages
  BY DEF Typed, PagingTypeOK, Stages
<1>4. stage'[p] \in {"dead", "setup"} /\ \A q \in Procs : q # p => stage'[q] = stage[q]
  BY <1>1, <1>3, AdvancedTyped
<1>5. Own' = Own /\ KernelPart' /\ Proper' /\ \A q \in Procs : OwnDirectory(q)' = OwnDirectory(q)
  <2>1. \A q \in Procs : FreedUpTo(q)' = FreedUpTo(q)
    BY <1>1, NotFreeing
  <2> QED
    BY <1>1, <2>1, DirectoriesKept DEF Sound
<1>6. InHand' = InHand
  BY <1>1, HandNow, HandParts
<1>7. Books'
  BY <1>1, <1>5, <1>6 DEF Sound, Books, vars
<1>8. SetUp'
  BY <1>1, <1>2 DEF SetUp
<1>9. \A q \in Procs : StageFits(q)'
  BY <1>1, <1>4, <1>5 DEF StageFits, Sound
<1>10. Control'
  BY <1>1, Sizes DEF Control, Sound
<1> QED
  BY <1>5, <1>7, <1>8, <1>9, <1>10 DEF Sound

(* The stack page goes from free to in hand.                               *)
LEMMA StackSound ==
  ASSUME Typed, Sound, AllocStack
  PROVE  Sound'
<1> DEFINE p == call.proc
<1>1. /\ running = "shell" /\ call.step = "stack" /\ p \in Procs
      /\ UNCHANGED <<memory, current_directory, cr3, page_directory, stage, running, others,
                     lost, torn>>
  BY CallFields DEF AllocStack, At, Typed, PagingTypeOK
<1>2. page_directory[p] = kernel_directory
  BY <1>1 DEF Sound, SetUp
<1>3. Own' = Own /\ KernelPart' /\ Proper' /\ \A q \in Procs : OwnDirectory(q)' = OwnDirectory(q)
  <2>1. \A q \in Procs : FreedUpTo(q)' = FreedUpTo(q)
    BY <1>1, NotFreeing, KillBegins DEF AllocStack
  <2> QED
    BY <1>1, <2>1, DirectoriesKept DEF Sound
<1>4. InHand = {}
  BY <1>1, HandNow, HandParts
<1>5. \A q \in Procs : StageFits(q)'
  BY <1>1, <1>3 DEF StageFits, Sound
<1>6. CASE /\ Free # {} /\ Take({Min(Free)})
           /\ call' = [step |-> "directory", proc |-> p, stack |-> Min(Free)]
  <2> DEFINE f == Min(Free)
  <2>1. f \in Free
    BY <1>6, FreeIsPages, FirstFree
  <2>2. held' = held \union {f} /\ {f} \cap held = {}
    BY <1>6, <2>1, TakePreserves DEF Typed
  <2>3. call' = [step |-> "directory", proc |-> p, stack |-> f]
    BY <1>6
  <2> HIDE DEF f
  <2>4. InHand' = {f}
    BY <2>3, HandNow, HandParts
  <2>5. Books'
    <3>1. InHand' = InHand \union {f} /\ lost' = lost /\ others' = others /\ Books
      BY <1>1, <1>4, <2>4 DEF Sound
    <3> QED
      BY <1>3, <2>2, <3>1, BooksTake
  <2>6. SetUp' /\ Control'
    BY <1>1, <1>2, <2>3, Sizes DEF SetUp, Control, Sound, kernel_directory
  <2> QED
    BY <1>3, <1>5, <2>5, <2>6 DEF Sound
<1>7. CASE call' = Killing(p) /\ UNCHANGED vars
  <2>1. InHand' = {} /\ call'.step = "kill"
    BY <1>7, HandNow, KillBegins
  <2>2. Books'
    BY <1>1, <1>3, <1>4, <1>7, <2>1 DEF Sound, Books, vars
  <2>3. SetUp' /\ Control'
    BY <1>1, <2>1, Sizes DEF SetUp, Control, Sound, kernel_directory
  <2> QED
    BY <1>3, <1>5, <2>2, <2>3 DEF Sound
<1> QED
  BY <1>6, <1>7 DEF AllocStack

(* The code page goes in hand, or the stack page is forgotten.             *)
LEMMA CodeSound ==
  ASSUME Typed, Sound, AllocCode
  PROVE  Sound'
<1> DEFINE p == call.proc
           stack == call.stack
<1>1. /\ running = "shell" /\ call.step = "code" /\ p \in Procs /\ stack \in Pages
      /\ UNCHANGED <<memory, current_directory, cr3, page_directory, stage, running, others, torn>>
  BY CallFields DEF AllocCode, At, Typed, PagingTypeOK
<1>2. OwnDirectory(p) /\ Tables(page_directory[p]) = {}
  BY <1>1 DEF Sound, SetUp
<1>3. /\ Own' = Own /\ KernelPart' /\ Proper'
      /\ \A q \in Procs : OwnDirectory(q)' = OwnDirectory(q)
      /\ \A q \in Procs : Tables(page_directory[q])' = Tables(page_directory[q])
  <2>1. \A q \in Procs : FreedUpTo(q)' = FreedUpTo(q)
    BY <1>1, NotFreeing, KillBegins DEF AllocCode
  <2> QED
    BY <1>1, <2>1, DirectoriesKept DEF Sound
<1>4. InHand = {stack}
  BY <1>1, HandNow, HandParts
<1>5. \A q \in Procs : StageFits(q)'
  BY <1>1, <1>3 DEF StageFits, Sound
<1>6. CASE /\ Free # {} /\ Take({Min(Free)}) /\ lost' = lost
           /\ call' = [step |-> "map", proc |-> p,
                 todo |-> << <<USER_CODE_BASE, Min(Free)>>, <<USER_STACK_BASE - 1, stack>> >>]
  <2> DEFINE f == Min(Free)
             todo == << <<USER_CODE_BASE, f>>, <<USER_STACK_BASE - 1, stack>> >>
  <2>1. f \in Free /\ f \in Pages
    BY <1>6, FreeIsPages, FirstFree
  <2>2. held' = held \union {f} /\ {f} \cap held = {}
    BY <1>6, <2>1, TakePreserves DEF Typed
  <2>3. call' = [step |-> "map", proc |-> p, todo |-> todo]
    BY <1>6
  <2> HIDE DEF f, stack
  <2>4. todo \in Both /\ todo[1][2] = f /\ todo[2][2] = stack
    BY <1>1, <2>1 DEF Both
  <2>5. f # stack
    BY <1>4, <2>2 DEF Sound, Books, Ledger
  <2> HIDE DEF todo
  <2>6. call'.step = "map" /\ call'.proc = p /\ call'.todo = todo
    BY <2>3
  <2>7. InHand' = InHand \union {f}
    BY <1>4, <2>4, <2>6, HandNow, HandParts
  <2>8. Books'
    BY <1>1, <1>3, <1>6, <2>2, <2>7, BooksTake DEF Sound
  <2>9. ToMap(p)'
    BY <1>1, <1>2, <1>3, <2>4, <2>5, <2>6 DEF ToMap, Both
  <2>10. SetUp'
    BY <1>1, <1>2, <1>3, <2>6, <2>9 DEF SetUp
  <2>11. Control'
    BY <1>1, <2>6, Sizes DEF Control, Sound, kernel_directory
  <2> QED
    BY <1>3, <1>5, <2>8, <2>10, <2>11 DEF Sound
<1>7. CASE call' = Killing(p) /\ UNCHANGED vars /\ lost' = lost \union {stack}
  <2>1. InHand' = {} /\ call'.step = "kill"
    BY <1>7, HandNow, KillBegins
  <2>2. Books'
    <3>1. Ledger(held, others, lost \union {stack}, InHand \ {stack}, Own)
      BY <1>4, LedgerForget DEF Sound, Books
    <3>2. InHand \ {stack} = InHand'
      BY <1>4, <2>1
    <3> QED
      BY <1>1, <1>3, <1>7, <3>1, <3>2 DEF Books, vars
  <2>3. SetUp' /\ Control'
    BY <1>1, <2>1, Sizes DEF SetUp, Control, Sound, kernel_directory
  <2> QED
    BY <1>3, <1>5, <2>2, <2>3 DEF Sound
<1> QED
  BY <1>6, <1>7 DEF AllocCode

(* current_directory becomes the new process's, and only then.             *)
LEMMA EnterSound ==
  ASSUME Typed, Sound, MapEnter
  PROVE  Sound'
<1> DEFINE p == call.proc
           todo == call.todo
<1>1. /\ running = "shell" /\ call.step = "map" /\ p \in Procs /\ todo \in Both \union StackOnly
      /\ current_directory = kernel_directory
      /\ current_directory' = page_directory[p]
      /\ call' = [step |-> "mapping", proc |-> p, todo |-> todo, old_dir |-> kernel_directory]
      /\ UNCHANGED <<vars, memory, cr3, page_directory, stage, running, others, lost, torn>>
  BY CallFields DEF MapEnter, At, Typed, PagingTypeOK, Sound, Control
<1>2. OwnDirectory(p) /\ ToMap(p)
  BY <1>1 DEF Sound, SetUp
<1>3. Own' = Own /\ KernelPart' /\ Proper' /\ \A q \in Procs : OwnDirectory(q)' = OwnDirectory(q)
  <2>1. \A q \in Procs : FreedUpTo(q)' = FreedUpTo(q)
    BY <1>1, NotFreeing
  <2> QED
    BY <1>1, <2>1, DirectoriesKept DEF Sound
<1>4. /\ Tables(page_directory[p])' = Tables(page_directory[p])
      /\ paging_get_physical_address(page_directory[p], USER_STACK_BASE - 1)'
           = paging_get_physical_address(page_directory[p], USER_STACK_BASE - 1)
  BY <1>1 DEF Tables, paging_get_physical_address, get_page_dir_index, get_page_table_index
<1>5. /\ call'.step = "mapping" /\ call'.proc = p /\ call'.todo = todo
      /\ call'.old_dir = kernel_directory
  BY <1>1
<1>6. InHand' = InHand
  BY <1>1, <1>5, HandNow, HandParts
<1>7. Books'
  BY <1>1, <1>3, <1>6 DEF Sound, Books, vars
<1>8. ToMap(p)'
  BY <1>1, <1>2, <1>4, <1>5 DEF ToMap, Both, StackOnly
<1>9. SetUp'
  BY <1>1, <1>2, <1>3, <1>5, <1>8 DEF SetUp
<1>10. \A q \in Procs : StageFits(q)'
  BY <1>1, <1>3 DEF StageFits, Sound
<1>11. Control'
  BY <1>1, <1>5, Sizes DEF Control, Sound, kernel_directory
<1> QED
  BY <1>3, <1>7, <1>9, <1>10, <1>11 DEF Sound

(* A step that leaves the directories and the set-up alone leaves alone    *)
(* what the set-up promises.                                               *)
LEMMA SetUpKept ==
  ASSUME Typed, Sound, UNCHANGED <<memory, page_directory, call>>
  PROVE  SetUp' /\ InHand' = InHand
<1>1. InHand' = InHand
  BY HandNow
<1>2. CASE call.step = "idle"
  BY <1>1, <1>2 DEF SetUp
<1>3. CASE call.step # "idle"
  <2> DEFINE p == call.proc
  <2>1. p \in Procs /\ p' = p
    BY <1>3, CallFields DEF Typed, PagingTypeOK
  <2>2. /\ Tables(page_directory[p])' = Tables(page_directory[p])
        /\ OwnDirectory(p)' = OwnDirectory(p)
        /\ paging_get_physical_address(page_directory[p], USER_STACK_BASE - 1)'
             = paging_get_physical_address(page_directory[p], USER_STACK_BASE - 1)
    BY <2>1 DEF Tables, OwnDirectory, paging_get_physical_address, get_page_dir_index,
                 get_page_table_index
  <2>3. ToMap(p) => ToMap(p)'
    BY <2>1, <2>2 DEF ToMap, Both, StackOnly
  <2> QED
    BY <1>1, <2>1, <2>2, <2>3 DEF SetUp, Sound
<1> QED
  BY <1>2, <1>3

(* A switch outside paging_map_user_code loads the directory of the        *)
(* process that runs.                                                      *)
LEMMA SwitchSound ==
  ASSUME Typed, Sound, NEW p \in Procs, SwitchTo(p), ~torn'
  PROVE  Sound'
<1>1. /\ running = "shell" /\ call.step # "mapping" /\ FreedUpTo(p) = Begin
      /\ stage[p] \in {"setup", "ready"}
      /\ running' = IF stage[p] = "ready" THEN p ELSE "halted"
      /\ cr3' = IF page_directory[p] = NONE THEN cr3 ELSE page_directory[p]
      /\ UNCHANGED <<vars, memory, page_directory, stage, call, others, lost>>
  BY DEF SwitchTo, paging_switch_directory
<1>2. Own' = Own /\ KernelPart' /\ Proper' /\ \A q \in Procs : OwnDirectory(q)' = OwnDirectory(q)
  <2>1. \A q \in Procs : FreedUpTo(q)' = FreedUpTo(q)
    BY <1>1 DEF FreedUpTo, Begin
  <2> QED
    BY <1>1, <2>1, DirectoriesKept DEF Sound
<1>3. SetUp' /\ InHand' = InHand
  BY <1>1, SetUpKept
<1>4. Books'
  BY <1>1, <1>2, <1>3 DEF Sound, Books, vars
<1>5. \A q \in Procs : StageFits(q)'
  BY <1>1, <1>2 DEF StageFits, Sound
<1>6. cr3 = kernel_directory /\ StageFits(p)
  BY <1>1 DEF Sound, Control
<1>7. Control'
  <2>1. FreedUpTo(p)' = Begin
    BY <1>1 DEF FreedUpTo, Begin
  <2>2. CASE stage[p] = "ready"
    <3>1. running' = p /\ cr3' = page_directory'[p] /\ FreedUpTo(running)' = Begin
      BY <1>1, <1>6, <2>1, <2>2 DEF StageFits, OwnDirectory, FreedUpTo, Begin
    <3> QED
      BY <1>1, <2>1, <3>1, Sizes DEF Control, Begin
  <2>3. CASE stage[p] # "ready"
    <3>1. running' = "halted" /\ (cr3' = kernel_directory \/ cr3' = page_directory'[p])
      BY <1>1, <1>6, <2>3
    <3> QED
      BY <1>1, <2>1, <3>1, Sizes DEF Control, kernel_directory, Begin
  <2> QED
    BY <2>2, <2>3
<1> QED
  BY <1>2, <1>3, <1>4, <1>5, <1>7 DEF Sound

(* A process that exits in its wrapper keeps what it owns.                 *)
LEMMA WrapperSound ==
  ASSUME Typed, Sound, NEW p \in Procs, WrapperExits(p)
  PROVE  Sound'
<1>1. /\ UNCHANGED <<vars, memory, current_directory, cr3, page_directory, running, call,
                     others, lost, torn>>
      /\ stage'[p] = "dead" /\ \A q \in Procs : q # p => stage'[q] = stage[q]
  BY DEF WrapperExits, Typed, PagingTypeOK
<1>2. Own' = Own /\ KernelPart' /\ Proper' /\ \A q \in Procs : OwnDirectory(q)' = OwnDirectory(q)
  <2>1. \A q \in Procs : FreedUpTo(q)' = FreedUpTo(q)
    BY <1>1 DEF FreedUpTo, Begin
  <2> QED
    BY <1>1, <2>1, DirectoriesKept DEF Sound
<1>3. SetUp' /\ InHand' = InHand
  BY <1>1, SetUpKept
<1>4. Books'
  BY <1>1, <1>2, <1>3 DEF Sound, Books, vars
<1>5. \A q \in Procs : StageFits(q)'
  BY <1>1, <1>2 DEF StageFits, Sound
<1>6. Control'
  BY <1>1 DEF Control, Sound, kernel_directory, FreedUpTo, Begin
<1> QED
  BY <1>2, <1>3, <1>4, <1>5, <1>6 DEF Sound

(* A process that exits or is switched away from keeps what it owns.       *)
LEMMA BackSound ==
  ASSUME Typed, Sound, SwitchBack
  PROVE  Sound'
<1>1. /\ running \in Procs /\ running' = "shell"
      /\ current_directory' = kernel_directory /\ cr3' = kernel_directory
      /\ UNCHANGED <<vars, memory, page_directory, call, others, lost, torn>>
  BY DEF SwitchBack, paging_switch_directory, kernel_directory, NONE
<1>2. \A q \in Procs : stage'[q] = stage[q] \/ stage'[q] = "dead"
  BY <1>1 DEF SwitchBack, Typed, PagingTypeOK
<1>3. Own' = Own /\ KernelPart' /\ Proper' /\ \A q \in Procs : OwnDirectory(q)' = OwnDirectory(q)
  <2>1. \A q \in Procs : FreedUpTo(q)' = FreedUpTo(q)
    BY <1>1 DEF FreedUpTo, Begin
  <2> QED
    BY <1>1, <2>1, DirectoriesKept DEF Sound
<1>4. SetUp' /\ InHand' = InHand
  BY <1>1, SetUpKept
<1>5. Books'
  BY <1>1, <1>3, <1>4 DEF Sound, Books, vars
<1>6. \A q \in Procs : StageFits(q)'
  BY <1>1, <1>2, <1>3 DEF StageFits, Sound
<1>7. call.step # "mapping"
  BY <1>1, Sizes DEF Sound, Control
<1>8. Control'
  BY <1>1, <1>7, Sizes DEF Control, kernel_directory
<1> QED
  BY <1>3, <1>4, <1>5, <1>6, <1>8 DEF Sound

(* A halted machine keeps its directories.                                 *)
LEMMA HaltSound ==
  ASSUME Typed, Sound, NEW v \in Touched, FaultHalts(v)
  PROVE  Sound'
<1>1. /\ running \in Procs /\ running' = "halted"
      /\ UNCHANGED <<vars, memory, current_directory, cr3, page_directory, stage, call, others,
                     lost, torn>>
  BY DEF FaultHalts, NotPresent
<1>2. Own' = Own /\ KernelPart' /\ Proper' /\ \A q \in Procs : OwnDirectory(q)' = OwnDirectory(q)
  <2>1. \A q \in Procs : FreedUpTo(q)' = FreedUpTo(q)
    BY <1>1 DEF FreedUpTo, Begin
  <2> QED
    BY <1>1, <2>1, DirectoriesKept DEF Sound
<1>3. SetUp' /\ InHand' = InHand
  BY <1>1, SetUpKept
<1>4. Books'
  BY <1>1, <1>2, <1>3 DEF Sound, Books, vars
<1>5. \A q \in Procs : StageFits(q)'
  BY <1>1, <1>2 DEF StageFits, Sound
<1>6. Control'
  BY <1>1, Sizes DEF Control, Sound, kernel_directory, FreedUpTo, Begin
<1> QED
  BY <1>2, <1>3, <1>4, <1>5, <1>6 DEF Sound

(* The other clients give back only pages of their own.                    *)
LEMMA ClientGivesOwn ==
  ASSUME Client
  PROVE  held \ held' \subseteq others
<1>1. ASSUME NEW n \in 1..MaxRun, AllocPages(n) PROVE held \ held' \subseteq others
  BY <1>1 DEF AllocPages
<1>2. ASSUME NEW addr \in Addresses, addr \div PAGE_SIZE \notin held \ others, FreePage(addr)
      PROVE  held \ held' \subseteq others
  BY <1>2 DEF FreePage, vars
<1>3. ASSUME NEW i \in Pages, NEW n \in 2..MaxRun, Run(i, n) \subseteq others, FreePages(i, n)
      PROVE  held \ held' \subseteq others
  BY <1>3 DEF FreePages
<1> QED
  BY <1>1, <1>2, <1>3 DEF Client

(* The other clients only take free pages and give back their own.         *)
LEMMA ClientSound ==
  ASSUME Typed, Sound, Client
  PROVE  Sound'
<1>1. /\ others' = (others \cap held') \union (held' \ held)
      /\ UNCHANGED <<memory, current_directory, cr3, page_directory, stage, running, call, lost,
                     torn>>
  BY DEF Client
<1>2. Own' = Own /\ KernelPart' /\ Proper' /\ \A q \in Procs : OwnDirectory(q)' = OwnDirectory(q)
  <2>1. \A q \in Procs : FreedUpTo(q)' = FreedUpTo(q)
    BY <1>1 DEF FreedUpTo, Begin
  <2> QED
    BY <1>1, <2>1, DirectoriesKept DEF Sound
<1>3. SetUp' /\ InHand' = InHand
  BY <1>1, SetUpKept
<1>4. Books'
  <2>1. Ledger(held', (others \cap held') \union (held' \ held), lost, InHand, Own)
    BY ClientGivesOwn, LedgerClient DEF Sound, Books
  <2> QED
    BY <1>1, <1>2, <1>3, <2>1 DEF Books
<1>5. \A q \in Procs : StageFits(q)'
  BY <1>1, <1>2 DEF StageFits, Sound
<1>6. Control'
  BY <1>1 DEF Control, Sound, kernel_directory, FreedUpTo, Begin
<1> QED
  BY <1>2, <1>3, <1>4, <1>5, <1>6 DEF Sound

(* cmd_memtest forgets pages nobody else had.                              *)
LEMMA MemtestSound ==
  ASSUME Typed, Sound, MemtestFails
  PROVE  Sound'
<1>1. /\ Take(Free) /\ lost' = lost \union Free
      /\ UNCHANGED <<memory, current_directory, cr3, page_directory, stage, running, call,
                     others, torn>>
  BY DEF MemtestFails
<1>2. Own' = Own /\ KernelPart' /\ Proper' /\ \A q \in Procs : OwnDirectory(q)' = OwnDirectory(q)
  <2>1. \A q \in Procs : FreedUpTo(q)' = FreedUpTo(q)
    BY <1>1 DEF FreedUpTo, Begin
  <2> QED
    BY <1>1, <2>1, DirectoriesKept DEF Sound
<1>3. SetUp' /\ InHand' = InHand
  BY <1>1, SetUpKept
<1>4. held' = held \union Free /\ Free \cap held = {}
  BY <1>1, TakePreserves DEF Typed
<1>5. Books'
  BY <1>1, <1>2, <1>3, <1>4, BooksTake DEF Sound
<1>6. \A q \in Procs : StageFits(q)'
  BY <1>1, <1>2 DEF StageFits, Sound
<1>7. Control'
  BY <1>1 DEF Control, Sound, kernel_directory, FreedUpTo, Begin
<1> QED
  BY <1>2, <1>3, <1>5, <1>6, <1>7 DEF Sound

(* The kernel's entries of a directory.                                    *)
LEMMA KernelEntries ==
  /\ KERNEL_ENTRIES < PAGE_DIRECTORY_ENTRIES
  /\ 0..(KERNEL_ENTRIES - 1) \subseteq Entries
  /\ \A i \in Entries : i \in Int /\ i >= 0
<1>1. KERNEL_ENTRIES < PAGE_DIRECTORY_ENTRIES
  BY UserBases, UserIndex, Sizes
<1>2. \A i \in Entries : i \in Int /\ i >= 0
  BY DEF Entries
<1> QED
  BY <1>1, <1>2, EntriesHold, Sizes

(* The kernel's directory maps nothing but the kernel's part.              *)
LEMMA KernelTables ==
  ASSUME KernelPart
  PROVE  /\ Tables(kernel_directory) = {}
         /\ \A i \in 0..(KERNEL_ENTRIES - 1) : memory[kernel_directory][i] = early_page_table(i)
<1>1. memory[kernel_directory] = paging_init[kernel_directory]
  BY Sizes DEF KernelPart, kernel_directory
<1>2. \A i \in Entries :
        paging_init[kernel_directory][i] = IF i < KERNEL_ENTRIES THEN early_page_table(i) ELSE NONE
  BY KernelPages DEF paging_init, kernel_directory
<1>3. \A i \in KERNEL_ENTRIES..(PAGE_DIRECTORY_ENTRIES - 1) : i \in Entries /\ ~(i < KERNEL_ENTRIES)
  BY EntriesHold, Sizes
<1>4. \A i \in 0..(KERNEL_ENTRIES - 1) : i \in Entries /\ i < KERNEL_ENTRIES
  BY KernelEntries, Sizes
<1>5. Tables(kernel_directory) = {}
  BY <1>1, <1>2, <1>3 DEF Tables
<1> QED
  BY <1>1, <1>2, <1>4, <1>5

(* A step that writes only to free pages and to pages of process p keeps   *)
(* the kernel's part, and what the other processes own.                    *)
LEMMA OthersKept ==
  ASSUME Typed, Sound, NEW p \in Procs,
         \A q \in Procs : q # p =>
            page_directory'[q] = page_directory[q] /\ FreedUpTo(q)' = FreedUpTo(q),
         \A x \in Pages : x \notin Owned(p) \union Free => memory'[x] = memory[x]
  PROVE  /\ KernelPart'
         /\ \A q \in Procs : q # p =>
              /\ Owned(q)' = Owned(q) /\ WellFormed(q)'
              /\ OwnDirectory(q)' = OwnDirectory(q)
<1>1. Books /\ KernelPart /\ Proper
  BY DEF Sound
<1>2. \A k \in 0..KERNEL_ENTRIES : k \in Pages /\ k \notin Owned(p) \union Free
  <2>1. Owned(p) \cap Kernel = {} /\ Kernel \cap Free = {}
    BY <1>1, OwnedHeld DEF Typed, PmmInv, Accounted, Free
  <2> QED
    BY <2>1, KernelPages
<1>3. KernelPart'
  BY <1>1, <1>2 DEF KernelPart, paging_init
<1>4. ASSUME NEW q \in Procs, q # p
      PROVE  /\ Owned(q)' = Owned(q) /\ WellFormed(q)'
             /\ OwnDirectory(q)' = OwnDirectory(q)
  <2>1. Owned(q) \cap (Owned(p) \union Free) = {} /\ Owned(q) \subseteq Pages
    BY <1>1, <1>4, OwnedHeld DEF Books, Ledger, Own
  <2>2. \A x \in Owned(q) : memory'[x] = memory[x]
    BY <2>1
  <2> QED
    BY <1>1, <1>4, <2>2, OwnedKept DEF Proper, Typed, PagingTypeOK
<1> QED
  BY <1>3, <1>4

(* The new directory is a free page that shares the kernel's tables and    *)
(* has no others; without a page, the stack page is forgotten.             *)
LEMMA DirectorySound ==
  ASSUME Typed, Sound, CreateDirectory
  PROVE  Sound'
<1>0. PICK p \in Procs, stack \in Pages : p = call.proc /\ stack = call.stack
  BY CallFields DEF CreateDirectory, At, Typed, PagingTypeOK
<1>1. /\ running = "shell" /\ call.step = "directory" /\ call.proc = p /\ call.stack = stack
      /\ stage[p] # "ready"
      /\ UNCHANGED <<current_directory, cr3, stage, running, others, torn>>
  BY <1>0, CallFields DEF CreateDirectory, At, Typed, PagingTypeOK
<1>2. page_directory[p] = kernel_directory
  BY <1>1 DEF Sound, SetUp
<1>3. Owned(p) = {} /\ stage[p] # "none" /\ InHand = {stack}
  <2>1. Owned(p) = {}
    BY <1>2 DEF Owned
  <2>2. stage[p] # "none"
    BY <1>1, <1>2 DEF Sound, StageFits, kernel_directory, NONE
  <2> QED
    BY <1>1, <2>1, <2>2, HandNow, HandParts
<1>4. CASE /\ Free # {} /\ Take({Min(Free)})
           /\ memory' = [memory EXCEPT ![Min(Free)] = NewDirectory]
           /\ page_directory' = [page_directory EXCEPT ![p] = Min(Free)]
           /\ call' = [call EXCEPT !.step = "code"]
           /\ lost' = lost
  <2> DEFINE f == Min(Free)
  <2>1. f \in Free /\ f \in Pages /\ f \notin Kernel /\ f # NONE /\ f # kernel_directory
    <3>1. f \in Free /\ f \in Pages
      BY <1>4, FreeIsPages, FirstFree
    <3> QED
      BY <3>1, KernelPages DEF Free, Typed, PmmInv, Accounted
  <2>2. held' = held \union {f} /\ {f} \cap held = {}
    BY <1>4, <2>1, TakePreserves DEF Typed
  <2>3. memory' = [memory EXCEPT ![f] = NewDirectory]
        /\ page_directory' = [page_directory EXCEPT ![p] = f]
    BY <1>4
  <2>4. call'.step = "code" /\ call'.proc = p /\ call'.stack = stack
    BY <1>1, <1>4 DEF Typed, PagingTypeOK, CallOk, Idle
  <2> HIDE DEF f
  <2>5. page_directory'[p] = f /\ \A q \in Procs : q # p => page_directory'[q] = page_directory[q]
    BY <1>1, <2>3 DEF Typed, PagingTypeOK
  <2>6. memory'[f] = NewDirectory /\ \A x \in Pages : x # f => memory'[x] = memory[x]
    BY <2>1, <2>3 DEF Typed, PagingTypeOK
  <2>whole. \A q \in Procs : FreedUpTo(q)' = FreedUpTo(q) /\ FreedUpTo(q)' = Begin
    BY <1>1, <2>4, NotFreeing
  <2>7. KernelPart' /\ \A q \in Procs : q # p =>
              /\ Owned(q)' = Owned(q) /\ WellFormed(q)'
              /\ OwnDirectory(q)' = OwnDirectory(q)
    BY <1>1, <2>1, <2>5, <2>6, <2>whole, OthersKept
  <2>8. OwnDirectory(p)'
    BY <2>1, <2>5 DEF OwnDirectory, NONE, kernel_directory
  <2>9. \A i \in KERNEL_ENTRIES..(PAGE_DIRECTORY_ENTRIES - 1) : NewDirectory[i] = NONE
    BY EntriesHold, Sizes DEF NewDirectory
  <2>10. Tables(page_directory[p])' = {}
    BY <2>5, <2>6, <2>9 DEF Tables, NONE
  <2>11. /\ Rest(memory', f, Begin) = {Last} /\ PageIn(memory', f, Last) = f
         /\ Owned(p)' = {f}
    <3>1. ASSUME NEW place \in Places, place # Last PROVE PageIn(memory', f, place) = NONE
      <4>1. PICK i \in UserEntries, j \in 0..PAGE_TABLE_ENTRIES : place = <<i, j>>
        BY <3>1, PlaceForms
      <4>2. memory'[f][i] = NONE
        BY <2>6, <2>9 DEF UserEntries
      <4>3. j = PAGE_TABLE_ENTRIES \/ j \in 0..(PAGE_TABLE_ENTRIES - 1)
        BY Sizes
      <4> QED
        BY <4>1, <4>2, <4>3, PageForms, EntryForm
    <3>2. PageIn(memory', f, Last) = f
      BY PageForms
    <3>3. Rest(memory', f, Begin) = {Last}
      BY <2>1, <3>1, <3>2, PlaceForms, PlaceOrder DEF Rest
    <3>4. Owned(p)' = OwnedIn(memory', f, Begin)
      BY <2>5, <2>whole, InState
    <3>5. OwnedIn(memory', f, Begin) = {PageIn(memory', f, place) : place \in Rest(memory', f, Begin)}
      BY <2>1 DEF OwnedIn
    <3> QED
      BY <3>2, <3>3, <3>4, <3>5
  <2>12. \A i \in 0..(KERNEL_ENTRIES - 1) : NewDirectory[i] = early_page_table(i)
    BY KernelTables, KernelEntries, Sizes DEF NewDirectory, Sound
  <2>13. WellFormed(p)'
    <3>1. Distinct(memory', f, Begin)
      BY <2>11 DEF Distinct
    <3> QED
      BY <2>5, <2>6, <2>whole, <2>12, <3>1, InState
  <2>14. InHand' = InHand
    BY <1>3, <2>4, HandNow, HandParts
  <2>15. Books'
    <3>1. Ledger(held \union {f}, others, lost, InHand \union {f}, Own)
      BY <2>2, LedgerTake DEF Sound, Books
    <3>2. Own'[p] = Own[p] \union {f} /\ \A q \in Procs : q # p => Own'[q] = Own[q]
      BY <1>1, <1>3, <2>7, <2>11 DEF Own
    <3> DEFINE I == InHand \union {f}
               S == {f}
               H == held \union {f}
    <3>3. S \in SUBSET I /\ Ledger(H, others, lost, I, Own)
      BY <3>1
    <3>4. Own'[p] = Own[p] \union S
      BY <3>2
    <3> HIDE DEF I, S, H
    <3>5. Ledger(H, others, lost, I \ S, Own')
      BY <1>1, <3>2, <3>3, <3>4, LedgerOwn
    <3>6. I \ S = InHand'
      BY <2>2, <2>14 DEF I, S, Sound, Books, Ledger
    <3> QED
      BY <1>1, <1>4, <2>2, <3>5, <3>6 DEF Books, H
  <2>16. SetUp'
    BY <2>4, <2>8, <2>10 DEF SetUp
  <2>17. Control'
    BY <1>1, <2>4, Sizes DEF Control, Sound, kernel_directory
  <2>18. \A q \in Procs : StageFits(q)'
    BY <1>1, <1>3, <2>5, <2>7, <2>8 DEF StageFits, Sound, NONE
  <2> QED
    BY <2>7, <2>13, <2>15, <2>16, <2>17, <2>18 DEF Sound, Proper
<1>5. CASE /\ page_directory' = [page_directory EXCEPT ![p] = NONE]
           /\ call' = Killing(p)
           /\ lost' = lost \union {stack}
           /\ UNCHANGED <<vars, memory>>
  <2>1. page_directory'[p] = NONE /\ \A q \in Procs : q # p => page_directory'[q] = page_directory[q]
    BY <1>1, <1>5 DEF Typed, PagingTypeOK
  <2>begun. call'.step = "kill" /\ InHand' = {} /\ \A q \in Procs : FreedUpTo(q)' = FreedUpTo(q)
    BY <1>1, <1>5, NotFreeing, KillBegins, HandNow
  <2>2. KernelPart' /\ \A q \in Procs : q # p =>
              /\ Owned(q)' = Owned(q) /\ WellFormed(q)'
              /\ OwnDirectory(q)' = OwnDirectory(q)
    BY <1>1, <1>5, <2>1, <2>begun, OthersKept
  <2>3. Owned(p)' = {} /\ WellFormed(p)'
    BY <2>1 DEF Owned, WellFormed, OwnDirectory, NONE, kernel_directory
  <2>4. Own' = Own
    BY <1>3, <2>2, <2>3, OwnKept
  <2>5. InHand' = {}
    BY <2>begun
  <2>6. Books'
    <3>1. Ledger(held, others, lost \union {stack}, InHand \ {stack}, Own)
      BY <1>3, LedgerForget DEF Sound, Books
    <3>2. InHand \ {stack} = InHand'
      BY <1>3, <2>5
    <3> QED
      BY <1>1, <1>5, <2>4, <3>1, <3>2 DEF Books, vars
  <2>7. SetUp' /\ Control'
    BY <1>1, <2>begun, Sizes DEF SetUp, Control, Sound, kernel_directory
  <2>8. \A q \in Procs : StageFits(q)'
    BY <1>1, <1>3, <2>1, <2>2 DEF StageFits, Sound
  <2> QED
    BY <2>2, <2>3, <2>6, <2>7, <2>8 DEF Sound, Proper
<1> QED
  BY <1>1, <1>4, <1>5 DEF CreateDirectory

(* The start of a kill moves no page.                                      *)
LEMMA KillSound ==
  ASSUME Typed, Sound, NEW p \in Procs, process_kill(p)
  PROVE  Sound'
<1>1. /\ running = "shell" /\ call.step = "idle" /\ call' = Killing(p)
      /\ UNCHANGED <<vars, memory, current_directory, cr3, page_directory, stage, running,
                     others, lost, torn>>
  BY DEF process_kill, At
<1>2. call'.step = "kill" /\ InHand = {} /\ InHand' = {}
  BY <1>1, HandNow, HandParts, KillBegins
<1>3. Own' = Own /\ KernelPart' /\ Proper' /\ \A q \in Procs : OwnDirectory(q)' = OwnDirectory(q)
  <2>1. \A q \in Procs : FreedUpTo(q)' = FreedUpTo(q)
    BY <1>1, NotFreeing, KillBegins
  <2> QED
    BY <1>1, <2>1, DirectoriesKept DEF Sound
<1>4. Books'
  BY <1>1, <1>2, <1>3 DEF Sound, Books, vars
<1>5. SetUp' /\ Control'
  BY <1>1, <1>2, Sizes DEF SetUp, Control, Sound, kernel_directory
<1>6. \A q \in Procs : StageFits(q)'
  BY <1>1, <1>3 DEF StageFits, Sound
<1> QED
  BY <1>3, <1>4, <1>5, <1>6 DEF Sound

(* A turn of paging_free_directory moves the first of the places left to   *)
(* free behind.                                                            *)
LEMMA RestNext ==
  ASSUME NEW m, NEW d, NEW at \in Progress, NEW place \in Rest(m, d, at),
         \A other \in Rest(m, d, at) : other = place \/ Before(place, other)
  PROVE  Rest(m, d, place) = Rest(m, d, at) \ {place} /\ at # Last
<1>1. place \in Places /\ Before(at, place)
  BY DEF Rest
<1>2. ASSUME NEW a \in Rest(m, d, place) PROVE a \in Rest(m, d, at) \ {place}
  BY <1>1, PlaceOrder DEF Rest
<1>3. ASSUME NEW a \in Rest(m, d, at) \ {place} PROVE a \in Rest(m, d, place)
  BY DEF Rest
<1> QED
  BY <1>1, <1>2, <1>3, PlaceOrder

(* A turn of paging_free_directory gives back a page that the process owns *)
(* and has in no other place.  The kernel's directory, which a process has *)
(* until it gets its own, is refused.                                      *)
LEMMA FreeNextSound ==
  ASSUME Typed, Sound, FreeNext
  PROVE  Sound'
<1>1. PICK p \in Procs, d \in Pages, at \in Progress, place \in Places, page \in Pages :
           /\ running = "shell" /\ call.step = "kill"
           /\ p = call.proc /\ d = page_directory[p] /\ at = FreedUpTo(p)
           /\ place \in Rest(memory, d, at)
           /\ \A other \in Rest(memory, d, at) : other = place \/ Before(place, other)
           /\ page = PageIn(memory, d, place)
           /\ FreePage(page * PAGE_SIZE)
           /\ call'.step = "kill" /\ call'.proc = p /\ call'.at = place
  BY FreeNextParts
<1>2. UNCHANGED <<memory, current_directory, cr3, page_directory, stage, running, others, lost, torn>>
  BY DEF FreeNext
<1>3. FreedUpTo(p)' = place /\ \A q \in Procs : q # p => FreedUpTo(q)' = FreedUpTo(q)
  BY <1>1 DEF FreedUpTo, Begin
<1>4. KernelPart' /\ \A q \in Procs : q # p =>
              /\ Owned(q)' = Owned(q) /\ WellFormed(q)'
              /\ OwnDirectory(q)' = OwnDirectory(q)
  BY <1>2, <1>3, OthersKept
<1>5. InHand = {} /\ InHand' = {}
  BY <1>1, HandNow, HandParts
<1>6. SetUp' /\ Control'
  BY <1>1, <1>2, Sizes DEF SetUp, Control, Sound, kernel_directory
<1>7. OwnDirectory(p)' = OwnDirectory(p) /\ \A q \in Procs : StageFits(q)'
  BY <1>2, <1>4 DEF StageFits, Sound, OwnDirectory, NONE, kernel_directory
<1>8. /\ Owned(p) = OwnedIn(memory, d, at) /\ Owned(p)' = OwnedIn(memory, d, place)
      /\ OwnDirectory(p) <=> d \notin {NONE, kernel_directory}
  BY <1>1, <1>2, <1>3, InState
<1>9. CASE d = kernel_directory
  <2>1. Owned(p) = {} /\ Owned(p)' = {} /\ WellFormed(p)'
    BY <1>7, <1>8, <1>9, InState DEF OwnedIn
  <2>2. place = Last
    <3> SUFFICES ASSUME place # Last PROVE FALSE
      OBVIOUS
    <3>1. PICK i \in UserEntries, j \in 0..PAGE_TABLE_ENTRIES : place = <<i, j>>
      BY PlaceForms
    <3>2. memory[d][i] = NONE
      BY <1>9, KernelTables DEF Sound, Tables, UserEntries
    <3>3. j = PAGE_TABLE_ENTRIES \/ j \in 0..(PAGE_TABLE_ENTRIES - 1)
      BY Sizes
    <3>4. PageIn(memory, d, place) = NONE
      BY <3>1, <3>2, <3>3, PageForms, EntryForm
    <3> QED
      BY <1>1, <3>4, KernelPages
  <2>3. page \in Kernel
    BY <1>1, <1>9, <2>2, PageForms, KernelPages
  <2>4. held' = held
    BY <1>1, <2>3, FreeGivesBack DEF Typed
  <2>5. Own' = Own
    BY <1>4, <2>1, OwnKept
  <2>6. Books'
    BY <1>2, <1>5, <2>4, <2>5 DEF Sound, Books
  <2> QED
    BY <1>4, <1>6, <1>7, <2>1, <2>6 DEF Sound, Proper
<1>10. CASE d # kernel_directory
  <2>1. d \notin {NONE, kernel_directory}
    BY <1>10, KernelPages
  <2>2. /\ OwnedIn(memory, d, at) = {PageIn(memory, d, a) : a \in Rest(memory, d, at)}
        /\ OwnedIn(memory, d, place) = {PageIn(memory, d, a) : a \in Rest(memory, d, place)}
    BY <2>1 DEF OwnedIn
  <2>3. Rest(memory, d, place) = Rest(memory, d, at) \ {place} /\ at # Last
    BY <1>1, RestNext
  <2>4. /\ Distinct(memory, d, at)
        /\ \A i \in 0..(KERNEL_ENTRIES - 1) : memory[d][i] = early_page_table(i)
    BY <1>1, <1>8, <2>1, <2>3, InState DEF Sound, Proper
  <2>5. page \in Owned(p) /\ Owned(p)' = Owned(p) \ {page}
    BY <1>1, <1>8, <2>2, <2>3, <2>4 DEF Distinct
  <2>6. held' = held \ {page}
    <3>1. page \in held
      BY <2>5, OwnedHeld DEF Sound
    <3> QED
      BY <1>1, <3>1, FreeGivesBack DEF Typed
  <2>7. WellFormed(p)'
    <3>1. Distinct(memory, d, place)
      BY <2>3, <2>4 DEF Distinct
    <3> QED
      BY <1>1, <1>2, <1>3, <2>4, <3>1, InState
  <2>8. Books'
    <3>1. Own'[p] = Own[p] \ {page} /\ {page} \in SUBSET Own[p]
          /\ \A q \in Procs : q # p => Own'[q] = Own[q]
      BY <1>4, <2>5 DEF Own
    <3>2. Ledger(held \ {page}, others, lost, InHand, Own')
      BY <3>1, LedgerReturn DEF Sound, Books
    <3> QED
      BY <1>2, <1>5, <2>6, <3>2 DEF Books
  <2> QED
    BY <1>4, <1>6, <1>7, <2>7, <2>8 DEF Sound, Proper
<1> QED
  BY <1>9, <1>10

(* When the table's entry is cleared, the process owns nothing any more.   *)
LEMMA KillClearsSound ==
  ASSUME Typed, Sound, KillClears
  PROVE  Sound'
<1>1. PICK p \in Procs : p = call.proc
  BY CallFields DEF KillClears, At, Typed, PagingTypeOK
<1>2. /\ running = "shell" /\ call.step = "kill" /\ call' = Idle /\ call'.step = "idle"
      /\ page_directory[p] = NONE \/ FreedUpTo(p) = Last
      /\ UNCHANGED <<vars, memory, current_directory, cr3, running, others, lost, torn>>
  BY <1>1 DEF KillClears, At, Idle, FreedUpTo
<1>3. /\ page_directory'[p] = NONE /\ stage'[p] = "none"
      /\ \A q \in Procs : q # p => page_directory'[q] = page_directory[q] /\ stage'[q] = stage[q]
  BY <1>1 DEF KillClears, Typed, PagingTypeOK
<1>4. \A q \in Procs : q # p => FreedUpTo(q)' = FreedUpTo(q)
  BY <1>1, <1>2 DEF FreedUpTo, Begin
<1>5. KernelPart' /\ \A q \in Procs : q # p =>
              /\ Owned(q)' = Owned(q) /\ WellFormed(q)'
              /\ OwnDirectory(q)' = OwnDirectory(q)
  BY <1>2, <1>3, <1>4, OthersKept
<1>6. Owned(p) = {}
  <2>1. Rest(memory, page_directory[p], Last) = {}
    BY PlaceOrder DEF Rest
  <2> QED
    BY <1>2, <2>1, InState DEF OwnedIn
<1>7. Owned(p)' = {} /\ WellFormed(p)'
  BY <1>3 DEF Owned, WellFormed, OwnDirectory, NONE, kernel_directory
<1>8. InHand = {} /\ InHand' = {}
  BY <1>2, HandNow, HandParts
<1>9. Own' = Own
  BY <1>5, <1>6, <1>7, OwnKept
<1>10. Books'
  BY <1>2, <1>8, <1>9 DEF Sound, Books, vars
<1>11. SetUp' /\ Control'
  BY <1>2, Sizes DEF SetUp, Control, Sound, kernel_directory
<1>12. \A q \in Procs : StageFits(q)'
  BY <1>3, <1>5 DEF StageFits, Sound
<1> QED
  BY <1>5, <1>7, <1>10, <1>11, <1>12 DEF Sound, Proper

-----------------------------------------------------------------------------
(* paging_map_page.                                                        *)

(* Two places come to hold a page: an entry of a table, which held none,   *)
(* and the table, unless it was there.                                     *)
LEMMA PlaceAdded ==
  ASSUME NEW m, NEW m2, NEW d, d \notin {NONE, kernel_directory},
         NEW i \in UserEntries, NEW j \in 0..(PAGE_TABLE_ENTRIES - 1),
         NEW frame, NEW table, frame # NONE, table # NONE, frame # table,
         frame \notin OwnedIn(m, d, Begin),
         PageIn(m, d, <<i, j>>) = NONE,
         m[d][i] = table \/ (m[d][i] = NONE /\ table \notin OwnedIn(m, d, Begin)),
         PageIn(m2, d, <<i, j>>) = frame,
         PageIn(m2, d, <<i, PAGE_TABLE_ENTRIES>>) = table,
         \A place \in Places : place \notin {<<i, j>>, <<i, PAGE_TABLE_ENTRIES>>} =>
            PageIn(m2, d, place) = PageIn(m, d, place)
  PROVE  /\ OwnedIn(m2, d, Begin) = OwnedIn(m, d, Begin) \union {frame, table}
         /\ Distinct(m, d, Begin) => Distinct(m2, d, Begin)
<1> DEFINE e == <<i, j>>
           t == <<i, PAGE_TABLE_ENTRIES>>
<1>1. /\ OwnedIn(m, d, Begin) = {PageIn(m, d, place) : place \in Rest(m, d, Begin)}
      /\ OwnedIn(m2, d, Begin) = {PageIn(m2, d, place) : place \in Rest(m2, d, Begin)}
  BY DEF OwnedIn
<1>2. /\ Rest(m, d, Begin) = {place \in Places : PageIn(m, d, place) # NONE}
      /\ Rest(m2, d, Begin) = {place \in Places : PageIn(m2, d, place) # NONE}
  BY PlaceOrder DEF Rest
<1>3. e \in Places /\ t \in Places /\ e # t
  <2>1. j \in 0..PAGE_TABLE_ENTRIES /\ PAGE_TABLE_ENTRIES \in 0..PAGE_TABLE_ENTRIES
        /\ j # PAGE_TABLE_ENTRIES
    BY Sizes
  <2>2. e \in Places /\ t \in Places
    BY <2>1, PlaceForms
  <2> QED
    BY <2>1, <2>2
<1>4. PageIn(m, d, t) = m[d][i]
  BY PageForms
<1> HIDE DEF e, t
<1>5. PageIn(m, d, e) = NONE /\ PageIn(m2, d, e) = frame /\ PageIn(m2, d, t) = table
      /\ \A place \in Places : place # e /\ place # t => PageIn(m2, d, place) = PageIn(m, d, place)
  BY DEF e, t
<1>6. Rest(m2, d, Begin) = Rest(m, d, Begin) \union {e, t}
  BY <1>2, <1>3, <1>5
<1>7. \A place \in Rest(m, d, Begin) : PageIn(m2, d, place) = PageIn(m, d, place)
  BY <1>2, <1>4, <1>5
<1>8. OwnedIn(m2, d, Begin) = OwnedIn(m, d, Begin) \union {frame, table}
  <2>1. OwnedIn(m, d, Begin) \subseteq OwnedIn(m2, d, Begin)
    BY <1>1, <1>6, <1>7
  <2>2. {frame, table} \subseteq OwnedIn(m2, d, Begin)
    BY <1>1, <1>5, <1>6
  <2>3. OwnedIn(m2, d, Begin) \subseteq OwnedIn(m, d, Begin) \union {frame, table}
    BY <1>1, <1>5, <1>6, <1>7
  <2> QED
    BY <2>1, <2>2, <2>3
<1>9. ASSUME Distinct(m, d, Begin) PROVE Distinct(m2, d, Begin)
  <2> SUFFICES ASSUME NEW a \in Rest(m2, d, Begin), NEW b \in Rest(m2, d, Begin),
                      PageIn(m2, d, a) = PageIn(m2, d, b)
               PROVE  a = b
    BY DEF Distinct
  <2>1. \A x \in Rest(m, d, Begin) : PageIn(m2, d, x) \in OwnedIn(m, d, Begin)
    BY <1>1, <1>7
  <2>2. e \notin Rest(m, d, Begin) /\ (t \notin Rest(m, d, Begin) => table \notin OwnedIn(m, d, Begin))
    BY <1>2, <1>3, <1>4, <1>5
  <2>3. CASE a \in Rest(m, d, Begin) /\ b \in Rest(m, d, Begin)
    BY <1>7, <1>9, <2>3 DEF Distinct
  <2>4. CASE a = e \/ b = e
    BY <1>5, <1>6, <2>1, <2>4
  <2>5. CASE t \notin Rest(m, d, Begin) /\ (a = t \/ b = t)
    BY <1>5, <1>6, <2>1, <2>2, <2>5
  <2> QED
    BY <1>6, <2>3, <2>4, <2>5
<1> QED
  BY <1>8, <1>9

(* A step that maps a page at an unmapped address of process p.            *)
MapsPage(p, d, v, frame, table) ==
  /\ OwnDirectory(p) /\ d = page_directory[p] /\ page_directory' = page_directory
  /\ \A q \in Procs : FreedUpTo(q)' = FreedUpTo(q)
  /\ FreedUpTo(p) = Begin
  /\ paging_get_physical_address(d, v) = NONE
  /\ frame \notin Owned(p) /\ frame # table
  /\ \E F \in SUBSET Free : table = TableFor(d, v, F)
  /\ memory' = Mapping(d, v, frame, table)

(* paging_map_page, for a user address that was not mapped: the process    *)
(* owns the page and, if one had to be taken, the table, in addition to    *)
(* what it owned; nothing else changes.  In a directory without tables     *)
(* every other user address stays unmapped.                                *)
LEMMA MappingOwns ==
  ASSUME Typed, Sound, NEW p \in Procs, NEW d \in Pages,
         NEW v \in USER_CODE_BASE..(USER_STACK_BASE - 1), NEW frame \in Pages,
         NEW table \in Pages, MapsPage(p, d, v, frame, table)
  PROVE  /\ Owned(p)' = Owned(p) \union {frame} \union ({table} \cap Free)
         /\ OwnDirectory(p)' /\ WellFormed(p)'
         /\ \A x \in Pages : x \notin Owned(p) \union Free => memory'[x] = memory[x]
         /\ Tables(d) = {} =>
              \A w \in USER_CODE_BASE..(USER_STACK_BASE - 1) :
                w # v => paging_get_physical_address(d, w)' = NONE
<1>0. PICK F \in SUBSET Free : table = TableFor(d, v, F)
  BY DEF MapsPage
<1> USE DEF MapsPage
<1>1. PICK i \in UserEntries, j \in 0..(PAGE_TABLE_ENTRIES - 1) :
        i = get_page_dir_index(v) /\ j = get_page_table_index(v) /\ i \in Entries /\ j \in Entries
  BY UserIndex DEF UserEntries
<1>2. /\ memory \in [Pages -> [Entries -> MaybePage]] /\ F \in SUBSET Pages /\ MemoryOk
      /\ frame # NONE /\ table # NONE
  BY KernelPages, FreeIsPages DEF Typed, PagingTypeOK, MemoryOk
<1>3. /\ d \notin {NONE, kernel_directory} /\ page_directory'[p] = d
      /\ Owned(p) = OwnedIn(memory, d, Begin) /\ Owned(p)' = OwnedIn(memory', d, Begin)
      /\ OwnDirectory(p)'
      /\ Owned(p) \cap Free = {} /\ Owned(p) \subseteq Pages
  BY OwnedHeld, InState DEF Sound
<1>4. /\ Distinct(memory, d, Begin)
      /\ \A k \in 0..(KERNEL_ENTRIES - 1) : memory[d][k] = early_page_table(k)
  BY PlaceForms, InState DEF Sound, Proper
<1>5. /\ \A a \in Places : Before(Begin, a)
      /\ \A a \in Places : PageIn(memory, d, a) # NONE =>
           a \in Rest(memory, d, Begin) /\ PageIn(memory, d, a) \in Owned(p)
  <2>1. \A a \in Places : PageIn(memory, d, a) # NONE => a \in Rest(memory, d, Begin)
    BY PlaceOrder DEF Rest
  <2> QED
    BY <1>3, <2>1, PlaceOrder DEF OwnedIn
<1>6. \A k \in UserEntries : <<k, PAGE_TABLE_ENTRIES>> \in Places /\ k \in Entries
      /\ PageIn(memory, d, <<k, PAGE_TABLE_ENTRIES>>) = memory[d][k]
      /\ <<k, PAGE_TABLE_ENTRIES>> # Last
  <2>1. PAGE_TABLE_ENTRIES \in 0..PAGE_TABLE_ENTRIES
    BY Sizes
  <2>2. UserEntries \subseteq Entries
    BY EntriesHold, Sizes DEF UserEntries
  <2> QED
    BY <2>1, <2>2, PlaceForms, PageForms
<1>tables. ASSUME NEW k \in UserEntries, memory[d][k] # NONE
           PROVE  /\ <<k, PAGE_TABLE_ENTRIES>> \in Rest(memory, d, Begin)
                  /\ memory[d][k] \in Owned(p)
  <2>1. PageIn(memory, d, <<k, PAGE_TABLE_ENTRIES>>) = memory[d][k] /\ <<k, PAGE_TABLE_ENTRIES>> \in Places
    BY <1>6
  <2> QED
    BY <1>5, <1>tables, <2>1
<1>7. d \in Owned(p) /\ \A k \in UserEntries : memory[d][k] # d
  <2>1. PageIn(memory, d, Last) = d /\ Last \in Places /\ Last \in Rest(memory, d, Begin)
    BY <1>3, <1>5, PageForms, PlaceForms
  <2>2. d \in Owned(p)
    BY <1>3, <1>5, <2>1
  <2>3. ASSUME NEW k \in UserEntries, memory[d][k] = d PROVE FALSE
    <3>1. <<k, PAGE_TABLE_ENTRIES>> \in Rest(memory, d, Begin)
          /\ PageIn(memory, d, <<k, PAGE_TABLE_ENTRIES>>) = PageIn(memory, d, Last)
      BY <1>3, <1>5, <1>6, <2>1, <2>3
    <3> QED
      BY <1>4, <1>6, <2>1, <3>1 DEF Distinct
  <2> QED
    BY <2>2, <2>3
<1>8. \A k, l \in UserEntries : memory[d][k] # NONE /\ memory[d][k] = memory[d][l] => k = l
  <2> SUFFICES ASSUME NEW k \in UserEntries, NEW l \in UserEntries,
                      memory[d][k] # NONE, memory[d][k] = memory[d][l]
               PROVE  k = l
    OBVIOUS
  <2>1. /\ <<k, PAGE_TABLE_ENTRIES>> \in Rest(memory, d, Begin)
        /\ <<l, PAGE_TABLE_ENTRIES>> \in Rest(memory, d, Begin)
        /\ PageIn(memory, d, <<k, PAGE_TABLE_ENTRIES>>) = PageIn(memory, d, <<l, PAGE_TABLE_ENTRIES>>)
    BY <1>6, <1>tables
  <2>2. <<k, PAGE_TABLE_ENTRIES>> = <<l, PAGE_TABLE_ENTRIES>>
    BY <1>4, <2>1 DEF Distinct
  <2> QED
    BY <2>2
<1>9. PageIn(memory, d, <<i, j>>) = NONE
  BY <1>1, AddressForm
<1>10. ASSUME /\ memory'[d][i] = table /\ memory'[table][j] = frame
              /\ \A k \in Entries : k # i => memory'[d][k] = memory[d][k]
              /\ \A k \in UserEntries : k # i /\ memory[d][k] # NONE =>
                   memory'[memory[d][k]] = memory[memory[d][k]]
              /\ \A l \in 0..(PAGE_TABLE_ENTRIES - 1) : l # j =>
                   memory'[table][l] = PageIn(memory, d, <<i, l>>),
              memory[d][i] = table \/ (memory[d][i] = NONE /\ table \in Free)
       PROVE  Owned(p)' = Owned(p) \union {frame} \union ({table} \cap Free) /\ WellFormed(p)'
  <2>1. PageIn(memory', d, <<i, j>>) = frame /\ PageIn(memory', d, <<i, PAGE_TABLE_ENTRIES>>) = table
    BY <1>2, <1>10, EntryForm, PageForms
  <2>2. ASSUME NEW a \in Places, a \notin {<<i, j>>, <<i, PAGE_TABLE_ENTRIES>>}
        PROVE  PageIn(memory', d, a) = PageIn(memory, d, a)
    <3>1. CASE a = Last
      BY <3>1, PageForms
    <3>2. CASE a # Last
      <4>1. PICK k \in UserEntries, l \in 0..PAGE_TABLE_ENTRIES : a = <<k, l>>
        BY <3>2, PlaceForms
      <4>2. l = PAGE_TABLE_ENTRIES \/ l \in 0..(PAGE_TABLE_ENTRIES - 1)
        BY Sizes
      <4>3. CASE l = PAGE_TABLE_ENTRIES
        <5>1. k # i
          BY <2>2, <4>1, <4>3
        <5> QED
          BY <1>6, <1>10, <4>1, <4>3, <5>1, PageForms
      <4>4. CASE l \in 0..(PAGE_TABLE_ENTRIES - 1) /\ k = i
        <5>1. l # j
          BY <2>2, <4>1, <4>4
        <5>2. PageIn(memory', d, <<i, l>>) = memory'[table][l]
          BY <1>2, <1>10, <4>4, EntryForm
        <5> QED
          BY <1>10, <4>1, <4>4, <5>1, <5>2
      <4>5. CASE l \in 0..(PAGE_TABLE_ENTRIES - 1) /\ k # i
        <5>1. memory'[d][k] = memory[d][k]
          BY <1>6, <1>10, <4>5
        <5>2. memory[d][k] # NONE => memory'[memory[d][k]] = memory[memory[d][k]]
          BY <1>10, <4>5
        <5>3. /\ memory[d][k] = NONE => PageIn(memory, d, <<k, l>>) = NONE
              /\ memory[d][k] # NONE => PageIn(memory, d, <<k, l>>) = memory[memory[d][k]][l]
              /\ memory'[d][k] = NONE => PageIn(memory', d, <<k, l>>) = NONE
              /\ memory'[d][k] # NONE => PageIn(memory', d, <<k, l>>) = memory'[memory'[d][k]][l]
          BY <4>5, EntryForm
        <5> QED
          BY <4>1, <5>1, <5>2, <5>3
      <4> QED
        BY <4>2, <4>3, <4>4, <4>5
    <3> QED
      BY <3>1, <3>2
  <2>3. memory[d][i] = table \/ (memory[d][i] = NONE /\ table \notin OwnedIn(memory, d, Begin))
    BY <1>3, <1>10
  <2>4. /\ OwnedIn(memory', d, Begin) = OwnedIn(memory, d, Begin) \union {frame, table}
        /\ Distinct(memory', d, Begin)
    <3>1. frame # table /\ frame \notin OwnedIn(memory, d, Begin)
      BY <1>3
    <3> QED
      BY <1>2, <1>3, <1>4, <1>9, <2>1, <2>2, <2>3, <3>1, PlaceAdded
  <2>5. table \in Owned(p) \/ table \in Free
    BY <1>2, <1>10, <1>tables
  <2>6. \A k \in 0..(KERNEL_ENTRIES - 1) : memory'[d][k] = early_page_table(k)
    <3>1. \A k \in 0..(KERNEL_ENTRIES - 1) : k \in Entries /\ k # i
      BY KernelEntries, Sizes DEF UserEntries
    <3> QED
      BY <1>4, <1>10, <3>1
  <2> QED
    BY <1>3, <2>4, <2>5, <2>6, InState
<1>11. CASE memory[d][i] # NONE
  <2>1. table = memory[d][i] /\ memory' = [memory EXCEPT ![table][j] = frame]
    BY <1>0, <1>1, <1>2, <1>11, TablePage DEF Mapping
  <2>2. table \in Owned(p) /\ table # d /\ table \in Tables(d)
    <3>1. table \in Owned(p) /\ table # d
      BY <1>7, <1>11, <1>tables, <2>1
    <3> QED
      BY <1>11, <2>1, <3>1 DEF Tables, UserEntries
  <2>3. /\ memory'[table] = [memory[table] EXCEPT ![j] = frame]
        /\ \A x \in Pages : x # table => memory'[x] = memory[x]
    BY <1>2, <2>1
  <2>4. /\ memory'[table][j] = frame
        /\ \A l \in 0..(PAGE_TABLE_ENTRIES - 1) : l # j => memory'[table][l] = memory[table][l]
    BY <1>1, <1>2, <2>3, EntriesHold
  <2>5. \A l \in 0..(PAGE_TABLE_ENTRIES - 1) : l # j => memory'[table][l] = PageIn(memory, d, <<i, l>>)
    BY <1>2, <2>1, <2>4, EntryForm
  <2>6. \A k \in UserEntries : k # i /\ memory[d][k] # NONE => memory'[memory[d][k]] = memory[memory[d][k]]
    <3>1. \A k \in UserEntries : memory[d][k] \in MaybePage
      BY <1>2, <1>6
    <3> QED
      BY <1>8, <2>1, <2>3, <3>1 DEF MaybePage
  <2>7. Owned(p)' = Owned(p) \union {frame} \union ({table} \cap Free) /\ WellFormed(p)'
    BY <1>10, <2>1, <2>2, <2>3, <2>4, <2>5, <2>6
  <2>8. \A x \in Pages : x \notin Owned(p) \union Free => memory'[x] = memory[x]
    BY <2>2, <2>3
  <2> QED
    BY <1>3, <2>2, <2>7, <2>8
<1>12. CASE memory[d][i] = NONE
  <2>1. table \in Free
    BY <1>0, <1>1, <1>2, <1>12, TablePage
  <2>2. table # d /\ table \notin Owned(p)
    BY <1>3, <1>7, <2>1
  <2> DEFINE new == [Cleared EXCEPT ![j] = frame]
  <2>3. memory' = [memory EXCEPT ![table] = new, ![d][i] = table]
    BY <1>1, <1>2, <1>12 DEF Mapping
  <2>4. \A k \in 0..(PAGE_TABLE_ENTRIES - 1) : new[k] = IF k = j THEN frame ELSE NONE
    BY <1>1, EntriesHold DEF Cleared
  <2> HIDE DEF new
  <2>5. /\ memory'[table] = new
        /\ memory'[d] = [memory[d] EXCEPT ![i] = table]
        /\ \A x \in Pages : x # table /\ x # d => memory'[x] = memory[x]
    BY <1>2, <2>2, <2>3
  <2>6. memory'[d][i] = table /\ \A k \in Entries : k # i => memory'[d][k] = memory[d][k]
    BY <1>1, <1>2, <2>5
  <2>7. \A k \in UserEntries : k # i /\ memory[d][k] # NONE => memory'[memory[d][k]] = memory[memory[d][k]]
    <3>1. \A k \in UserEntries : memory[d][k] # NONE => memory[d][k] \in Owned(p)
      BY <1>5, <1>6
    <3> QED
      BY <1>3, <1>7, <2>2, <2>5, <3>1
  <2>8. /\ memory'[table][j] = frame
        /\ \A l \in 0..(PAGE_TABLE_ENTRIES - 1) : l # j => memory'[table][l] = NONE
    BY <2>4, <2>5
  <2>9. \A l \in 0..(PAGE_TABLE_ENTRIES - 1) : l # j => memory'[table][l] = PageIn(memory, d, <<i, l>>)
    BY <1>12, <2>8, EntryForm
  <2>10. Owned(p)' = Owned(p) \union {frame} \union ({table} \cap Free) /\ WellFormed(p)'
    BY <1>10, <1>12, <2>1, <2>6, <2>7, <2>8, <2>9
  <2>11. \A x \in Pages : x \notin Owned(p) \union Free => memory'[x] = memory[x]
    BY <1>7, <2>1, <2>5
  <2>12. ASSUME Tables(d) = {}, NEW w \in USER_CODE_BASE..(USER_STACK_BASE - 1), w # v
         PROVE  paging_get_physical_address(d, w)' = NONE
    <3>1. PICK k \in UserEntries, l \in 0..(PAGE_TABLE_ENTRIES - 1) :
            k = get_page_dir_index(w) /\ l = get_page_table_index(w)
      BY UserIndex DEF UserEntries
    <3>2. paging_get_physical_address(d, w)' =
            IF memory'[d][k] = NONE THEN NONE ELSE memory'[memory'[d][k]][l]
      BY <3>1 DEF paging_get_physical_address, get_page_dir_index, get_page_table_index, NONE
    <3>3. CASE k # i
      <4>1. memory[d][k] = NONE
        BY <2>12, <3>1 DEF Tables, UserEntries
      <4> QED
        BY <1>6, <2>6, <3>1, <3>2, <3>3, <4>1
    <3>4. CASE k = i
      <4>1. l # j
        <5>1. v \in Nat /\ w \in Nat /\ PAGE_TABLE_ENTRIES \in Nat \ {0}
          BY Sizes
        <5>2. /\ v = (v \div PAGE_TABLE_ENTRIES) * PAGE_TABLE_ENTRIES + (v % PAGE_TABLE_ENTRIES)
              /\ w = (w \div PAGE_TABLE_ENTRIES) * PAGE_TABLE_ENTRIES + (w % PAGE_TABLE_ENTRIES)
          BY <5>1, DivisionBounds
        <5>3. v = i * PAGE_TABLE_ENTRIES + j /\ w = k * PAGE_TABLE_ENTRIES + l
          BY <1>1, <3>1, <5>2 DEF get_page_dir_index, get_page_table_index
        <5> QED
          BY <2>12, <3>4, <5>3
      <4> QED
        BY <1>2, <2>6, <2>8, <3>1, <3>2, <3>4, <4>1
    <3> QED
      BY <3>3, <3>4
  <2> QED
    BY <1>3, <2>10, <2>11, <2>12
<1> QED
  BY <1>11, <1>12

(* The tables of a whole directory are its process's.                      *)
LEMMA TableOwned ==
  ASSUME NEW p \in Procs, OwnDirectory(p), FreedUpTo(p) = Begin, NEW i \in UserEntries,
         memory[page_directory[p]][i] # NONE
  PROVE  memory[page_directory[p]][i] \in Owned(p)
<1>1. PICK d : d = page_directory[p] /\ d \notin {NONE, kernel_directory}
  BY DEF OwnDirectory
<1>2. PAGE_TABLE_ENTRIES \in 0..PAGE_TABLE_ENTRIES
  BY Sizes
<1>3. <<i, PAGE_TABLE_ENTRIES>> \in Places /\ Before(Begin, <<i, PAGE_TABLE_ENTRIES>>)
      /\ PageIn(memory, d, <<i, PAGE_TABLE_ENTRIES>>) = memory[d][i]
  BY <1>2, PlaceForms, PlaceOrder, PageForms
<1>4. <<i, PAGE_TABLE_ENTRIES>> \in Rest(memory, d, Begin)
  BY <1>1, <1>3 DEF Rest
<1>5. memory[d][i] \in OwnedIn(memory, d, Begin)
  BY <1>1, <1>3, <1>4 DEF OwnedIn
<1> QED
  BY <1>1, <1>5, InState

(* The books of a step in which a process comes to own pages that were in  *)
(* hand and pages that were free.                                          *)
LEMMA BooksOwn ==
  ASSUME Books, NEW p \in Procs, NEW S, S \cap held = {}, held' = held \union S,
         NEW K \in SUBSET InHand, InHand' = InHand \ K,
         Owned(p)' = Owned(p) \union K \union S,
         \A q \in Procs : q # p => Owned(q)' = Owned(q),
         others' = others, lost' = lost
  PROVE  Books'
<1> DEFINE H == held \union S
           I == InHand \union S
           M == K \union S
<1>1. Ledger(H, others, lost, I, Own)
  BY LedgerTake DEF Books
<1>2. Own'[p] = Own[p] \union M /\ \A q \in Procs : q # p => Own'[q] = Own[q]
  BY DEF Own
<1>3. M \in SUBSET I
  OBVIOUS
<1>4. I \ M = InHand'
  <2>1. InHand \subseteq held
    BY DEF Books, Ledger
  <2> QED
    BY <2>1
<1> HIDE DEF H, I, M
<1>5. Ledger(H, others, lost, I \ M, Own')
  BY <1>1, <1>2, <1>3, LedgerOwn
<1> QED
  BY <1>4, <1>5 DEF Books, H

(* The set-up in progress does not notice what another process does with   *)
(* its own pages.                                                          *)
LEMMA SetUpOther ==
  ASSUME Typed, Sound, NEW p \in Procs, UNCHANGED <<call, page_directory>>,
         call.step \notin {"idle", "kill"} => call.proc # p,
         \A x \in Pages : x \notin Owned(p) \union Free => memory'[x] = memory[x]
  PROVE  SetUp' /\ InHand' = InHand
<1>1. InHand' = InHand
  BY HandNow
<1>2. CASE call.step \in {"idle", "kill"}
  BY <1>1, <1>2 DEF SetUp
<1>3. CASE call.step \notin {"idle", "kill"}
  <2>1. PICK r \in Procs : r = call.proc
    BY <1>3, CallFields DEF Typed, PagingTypeOK
  <2>2. /\ r # p /\ call'.proc = r /\ page_directory'[r] = page_directory[r]
        /\ FreedUpTo(r) = Begin /\ FreedUpTo(r)' = FreedUpTo(r) /\ CallOk /\ Begin # Last
    BY <1>3, <2>1, NotFreeing, PlaceForms DEF Typed, PagingTypeOK
  <2>3. \A x \in Owned(r) : memory'[x] = memory[x]
    <3>1. Owned(r) \cap (Owned(p) \union Free) = {} /\ Owned(r) \subseteq Pages
      BY <2>2, OwnedHeld DEF Sound, Books, Ledger, Own
    <3> QED
      BY <3>1
  <2>4. /\ OwnDirectory(r)' = OwnDirectory(r)
        /\ OwnDirectory(r) => Tables(page_directory[r])' = Tables(page_directory[r])
    <3>1. /\ OwnDirectory(r)' = OwnDirectory(r)
          /\ OwnDirectory(r) => memory'[page_directory[r]] = memory[page_directory[r]]
      BY <2>2, <2>3, OwnedKept
    <3> QED
      BY <2>2, <3>1 DEF Tables, NONE
  <2>5. OwnDirectory(r) => paging_get_physical_address(page_directory[r], USER_STACK_BASE - 1)'
             = paging_get_physical_address(page_directory[r], USER_STACK_BASE - 1)
    BY <2>2, <2>3, AddressKept, UserBases
  <2>6. OwnDirectory(r) /\ ToMap(r) => ToMap(r)'
    BY <2>4, <2>5 DEF ToMap, Both, StackOnly
  <2> QED
    BY <1>1, <2>1, <2>2, <2>4, <2>6 DEF SetUp, Sound, kernel_directory
<1> QED
  BY <1>2, <1>3

(* A page fault gives the process that runs a free page, and a free table  *)
(* if it needs one; without a table, the page is forgotten.                *)
LEMMA DemandSound ==
  ASSUME Typed, Sound, NEW v \in Touched, DemandPage(v)
  PROVE  Sound'
<1>1. PICK p \in Procs : p = running
  BY DEF DemandPage, NotPresent
<1>2. stage[p] = "ready" /\ OwnDirectory(p) /\ cr3 = page_directory[p] /\ FreedUpTo(p) = Begin
  BY <1>1 DEF Typed, PagingTypeOK, Sound, StageFits, Control
<1>3. PICK d \in Pages : d = page_directory[p]
  BY <1>2 DEF OwnDirectory, Typed, PagingTypeOK, MaybePage
<1>4. PICK f \in Free : f = Min(Free) /\ f \in Pages
  BY FreeIsPages, FirstFree DEF DemandPage
<1>5. PICK table \in MaybePage : table = TableFor(d, v, Free \ {f})
  <2>1. Free \ {f} \in SUBSET Pages /\ v \in USER_CODE_BASE..(USER_STACK_BASE - 1) /\ MemoryOk
    BY FreeIsPages, UserBases DEF Typed, PagingTypeOK, MemoryOk
  <2> QED
    BY <2>1, TablePage
<1>6. /\ Take({f} \union ({table} \cap Free))
      /\ memory' = Mapping(d, v, f, table)
      /\ lost' = IF table = NONE THEN lost \union {f} ELSE lost
      /\ UNCHANGED <<current_directory, cr3, page_directory, stage, running, call, others, torn>>
      /\ paging_get_physical_address(d, v) = NONE
  BY <1>1, <1>2, <1>3, <1>4, <1>5 DEF DemandPage, NotPresent
<1> DEFINE S == {f} \union ({table} \cap Free)
<1>7. held' = held \union S /\ S \cap held = {}
  <2>1. S \in SUBSET Free
    BY <1>4
  <2> QED
    BY <1>6, <2>1, TakePreserves DEF Typed
<1>8. Control' /\ \A q \in Procs : FreedUpTo(q)' = FreedUpTo(q)
  BY <1>6 DEF Control, Sound, kernel_directory, FreedUpTo, Begin
<1>9. CASE table = NONE
  <2>1. memory' = memory /\ lost' = lost \union S
    <3>1. NONE \notin Free
      BY FreeIsPages, KernelPages
    <3> QED
      BY <1>6, <1>9, <3>1 DEF Mapping
  <2>2. Own' = Own /\ KernelPart' /\ Proper' /\ \A q \in Procs : OwnDirectory(q)' = OwnDirectory(q)
    BY <1>6, <1>8, <2>1, DirectoriesKept DEF Sound
  <2>3. SetUp' /\ InHand' = InHand
    BY <1>6, <2>1, SetUpKept
  <2>4. Books'
    BY <1>6, <1>7, <2>1, <2>2, <2>3, BooksTake DEF Sound
  <2>5. \A q \in Procs : StageFits(q)'
    BY <1>6, <2>2 DEF StageFits, Sound
  <2> QED
    BY <1>8, <2>2, <2>3, <2>4, <2>5 DEF Sound
<1>10. CASE table # NONE
  <2>1. table \in Pages /\ Free \ {f} \in SUBSET Free /\ lost' = lost
        /\ v \in USER_CODE_BASE..(USER_STACK_BASE - 1)
    BY <1>6, <1>10, UserBases DEF MaybePage
  <2>2. /\ Owned(p)' = Owned(p) \union {f} \union ({table} \cap Free)
        /\ OwnDirectory(p)' /\ WellFormed(p)'
        /\ \A x \in Pages : x \notin Owned(p) \union Free => memory'[x] = memory[x]
    <3>1. PICK F \in SUBSET Free : F = Free \ {f}
      BY <2>1
    <3>2. f \notin Owned(p)
      BY <1>4, OwnedHeld DEF Sound
    <3>3. f # table
      <4>1. MemoryOk /\ Free \ {f} \in SUBSET Pages
        BY FreeIsPages DEF Typed, PagingTypeOK, MemoryOk
      <4>2. \/ table \in Free \ {f}
            \/ /\ memory[d][get_page_dir_index(v)] # NONE
               /\ table = memory[d][get_page_dir_index(v)]
        BY <1>5, <1>10, <2>1, <4>1, TablePage
      <4>3. get_page_dir_index(v) \in UserEntries
        BY <2>1, UserIndex DEF UserEntries
      <4>4. memory[d][get_page_dir_index(v)] # NONE => memory[d][get_page_dir_index(v)] \in Owned(p)
        BY <1>2, <1>3, <4>3, TableOwned
      <4> QED
        BY <3>2, <4>2, <4>4
    <3>4. MapsPage(p, d, v, f, table)
      BY <1>2, <1>3, <1>5, <1>6, <1>8, <3>1, <3>2, <3>3 DEF MapsPage
    <3> QED
      BY <1>4, <2>1, <3>4, MappingOwns
  <2>3. KernelPart' /\ \A q \in Procs : q # p =>
              /\ Owned(q)' = Owned(q) /\ WellFormed(q)'
              /\ OwnDirectory(q)' = OwnDirectory(q)
    BY <1>6, <1>8, <2>2, OthersKept
  <2>4. call.step \notin {"idle", "kill"} => call.proc # p
    BY <1>2 DEF Typed, PagingTypeOK
  <2>5. SetUp' /\ InHand' = InHand
    BY <1>6, <2>2, <2>4, SetUpOther
  <2>6. Books'
    <3>1. Owned(p)' = Owned(p) \union {} \union S /\ InHand' = InHand \ {}
      BY <2>2, <2>5
    <3> HIDE DEF S
    <3> QED
      BY <1>6, <1>7, <2>1, <2>3, <3>1, BooksOwn DEF Sound
  <2>7. \A q \in Procs : StageFits(q)'
    BY <1>2, <1>6, <2>2, <2>3 DEF StageFits, Sound
  <2> QED
    BY <1>8, <2>2, <2>3, <2>5, <2>6, <2>7 DEF Sound, Proper
<1> QED
  BY <1>9, <1>10

(* The page in hand becomes the new process's, with a free table if it     *)
(* needs one; without a table, the page is forgotten.                      *)
LEMMA MapSound ==
  ASSUME Typed, Sound, MapPage
  PROVE  Sound'
<1>1. PICK p \in Procs, todo \in Both \union StackOnly : p = call.proc /\ todo = call.todo
  BY CallFields DEF Typed, PagingTypeOK, MapPage, At
<1>2. /\ running = "shell" /\ call.step = "mapping"
      /\ OwnDirectory(p) /\ ToMap(p)
      /\ current_directory = page_directory[p] /\ call.old_dir = kernel_directory
      /\ cr3 = kernel_directory
  BY <1>1 DEF MapPage, At, Sound, Control, SetUp
<1>3. PICK d \in Pages : d = page_directory[p]
  BY <1>2 DEF OwnDirectory, Typed, PagingTypeOK, MaybePage
<1>4. PICK v \in USER_CODE_BASE..(USER_STACK_BASE - 1), frame \in Pages :
        v = todo[1][1] /\ frame = todo[1][2]
  BY <1>1, TodoParts
<1>5. PICK table \in MaybePage : table = TableFor(d, v, Free)
  <2>1. Free \in SUBSET Pages /\ MemoryOk
    BY FreeIsPages DEF Typed, PagingTypeOK, MemoryOk
  <2> QED
    BY <2>1, TablePage
<1>6. /\ memory' = Mapping(d, v, frame, table)
      /\ Take({table} \cap Free)
      /\ lost' = IF table = NONE THEN lost \union {frame} ELSE lost
      /\ current_directory' = kernel_directory
      /\ call' = IF Len(todo) = 1 THEN Idle
                 ELSE [step |-> "map", proc |-> p, todo |-> Tail(todo)]
      /\ stage' = IF Len(todo) = 1 THEN Advanced(p, "ready") ELSE stage
      /\ UNCHANGED <<cr3, page_directory, running, others, torn>>
  BY <1>1, <1>2, <1>3, <1>4, <1>5 DEF MapPage
<1> DEFINE S == {table} \cap Free
<1>7. held' = held \union S /\ S \cap held = {}
  <2>1. S \in SUBSET Free
    OBVIOUS
  <2> QED
    BY <1>6, <2>1, TakePreserves DEF Typed
<1>8. frame \in InHand /\ InHand' = InHand \ {frame}
  <2>1. CASE todo \in Both
    <3>1. /\ Len(todo) = 2 /\ todo[2][2] \in Pages
          /\ Tail(todo) = << <<USER_STACK_BASE - 1, todo[2][2]>> >>
          /\ Tail(todo) \in StackOnly
      BY <2>1, TodoParts
    <3>2. frame # todo[2][2]
      BY <1>1, <1>2, <1>4, <2>1, <3>1, TodoParts DEF ToMap
    <3>3. InHand = {frame, todo[2][2]}
      BY <1>1, <1>2, <1>4, <2>1, HandNow, HandParts
    <3> DEFINE rest == Tail(todo)
               last == todo[2][2]
    <3>4. rest[1][2] = last /\ rest \in StackOnly
      <4>1. rest = << <<USER_STACK_BASE - 1, last>> >> /\ rest \in StackOnly
        BY <3>1
      <4> HIDE DEF rest, last
      <4> QED
        BY <4>1
    <3> HIDE DEF rest
    <3>5. call'.step = "map" /\ call'.todo = rest
      BY <1>6, <3>1 DEF rest
    <3>6. InHand' = {todo[2][2]}
      BY <3>4, <3>5, HandNow, HandParts
    <3> QED
      BY <3>2, <3>3, <3>6
  <2>2. CASE todo \in StackOnly
    <3>1. Len(todo) = 1
      BY <2>2, TodoParts
    <3>2. InHand = {frame}
      BY <1>1, <1>2, <1>4, <2>2, HandNow, HandParts
    <3>3. call'.step = "idle"
      BY <1>6, <3>1 DEF Idle
    <3>4. InHand' = {}
      BY <3>3, HandNow, HandParts
    <3> QED
      BY <3>2, <3>4
  <2> QED
    BY <2>1, <2>2
<1>9. paging_get_physical_address(d, v) = NONE
  <2>1. CASE todo \in Both /\ Tables(d) = {}
    <3>1. get_page_dir_index(v) \in KERNEL_ENTRIES..(PAGE_DIRECTORY_ENTRIES - 1)
      BY UserIndex
    <3>2. memory[d][get_page_dir_index(v)] = NONE
      BY <2>1, <3>1 DEF Tables
    <3> QED
      BY <3>2 DEF paging_get_physical_address
  <2>2. CASE todo \in StackOnly /\ paging_get_physical_address(d, USER_STACK_BASE - 1) = NONE
    BY <1>4, <2>2, TodoParts
  <2> QED
    BY <1>1, <1>2, <1>3, <2>1, <2>2 DEF ToMap
<1>10. /\ \A q \in Procs : q # p => stage'[q] = stage[q]
       /\ stage[p] # "none" /\ stage'[p] # "none"
  <2>1. stage \in [Procs -> Stages] /\ "ready" \in Stages /\ stage[p] # "none"
    BY <1>2 DEF Typed, PagingTypeOK, Stages, Sound, StageFits, OwnDirectory
  <2> QED
    BY <1>6, <2>1, AdvancedTyped
<1>11. /\ Control'
       /\ \A q \in Procs : FreedUpTo(q)' = FreedUpTo(q) /\ FreedUpTo(q) = Begin
  <2>1. call'.step \in {"idle", "map"}
    BY <1>6 DEF Idle
  <2>2. \A q \in Procs : FreedUpTo(q)' = FreedUpTo(q) /\ FreedUpTo(q) = Begin
    BY <1>2, <2>1, NotFreeing
  <2> QED
    BY <1>2, <1>6, <2>1, <2>2, Sizes DEF Control, kernel_directory
<1>12. /\ call'.step = "idle" \/ (call'.step = "map" /\ call'.proc = p /\ call'.todo \in StackOnly)
       /\ call'.step # "idle" => todo \in Both
  <2>1. CASE Len(todo) = 1
    BY <1>6, <2>1 DEF Idle
  <2>2. CASE Len(todo) # 1
    <3>1. todo \in Both /\ Tail(todo) \in StackOnly
      BY <1>1, <2>2, TodoParts
    <3> QED
      BY <1>6, <2>2, <3>1
  <2> QED
    BY <2>1, <2>2
<1>13. ASSUME /\ KernelPart' /\ OwnDirectory(p)' /\ WellFormed(p)' /\ Books'
              /\ \A q \in Procs : q # p => WellFormed(q)' /\ OwnDirectory(q)' = OwnDirectory(q),
              todo \in Both => paging_get_physical_address(d, USER_STACK_BASE - 1)' = NONE
       PROVE  Sound'
  <2>1. page_directory'[p] = d
    BY <1>3, <1>6
  <2>2. call'.step # "idle" => ToMap(p)'
    BY <1>12, <1>13, <2>1 DEF ToMap, StackOnly, paging_get_physical_address, get_page_dir_index,
                             get_page_table_index, NONE
  <2>3. SetUp'
    BY <1>12, <1>13, <2>2 DEF SetUp
  <2>4. \A q \in Procs : StageFits(q)'
    BY <1>6, <1>10, <1>13 DEF StageFits, Sound
  <2> QED
    BY <1>11, <1>13, <2>3, <2>4 DEF Sound, Proper
<1>14. CASE table = NONE
  <2>1. memory' = memory /\ lost' = lost \union {frame} /\ held' = held
    <3>1. NONE \notin Free
      BY FreeIsPages, KernelPages
    <3> QED
      BY <1>6, <1>7, <1>14, <3>1 DEF Mapping
  <2>2. Own' = Own /\ KernelPart' /\ Proper' /\ \A q \in Procs : OwnDirectory(q)' = OwnDirectory(q)
    BY <1>6, <1>11, <2>1, DirectoriesKept DEF Sound
  <2>3. Books'
    <3>1. Ledger(held, others, lost \union {frame}, InHand \ {frame}, Own)
      BY <1>8, LedgerForget DEF Sound, Books
    <3> QED
      BY <1>6, <1>8, <2>1, <2>2, <3>1 DEF Books
  <2>4. todo \in Both => paging_get_physical_address(d, USER_STACK_BASE - 1)' = NONE
    <3> SUFFICES ASSUME todo \in Both
                 PROVE  paging_get_physical_address(d, USER_STACK_BASE - 1)' = NONE
      OBVIOUS
    <3>1. Tables(d) = {}
      BY <1>1, <1>2, <1>3, TodoParts DEF ToMap
    <3>2. memory[d][get_page_dir_index(USER_STACK_BASE - 1)] = NONE
      BY <3>1, UserIndex, UserBases DEF Tables
    <3> QED
      BY <2>1, <3>2 DEF paging_get_physical_address, get_page_dir_index, NONE
  <2> QED
    BY <1>2, <1>13, <2>2, <2>3, <2>4 DEF Proper
<1>15. CASE table # NONE
  <2>1. table \in Pages /\ lost' = lost /\ page_directory' = page_directory /\ others' = others
    BY <1>5, <1>6, <1>15 DEF MaybePage
  <2>2. /\ Owned(p)' = Owned(p) \union {frame} \union ({table} \cap Free)
        /\ OwnDirectory(p)' /\ WellFormed(p)'
        /\ \A x \in Pages : x \notin Owned(p) \union Free => memory'[x] = memory[x]
        /\ Tables(d) = {} =>
              \A w \in USER_CODE_BASE..(USER_STACK_BASE - 1) :
                w # v => paging_get_physical_address(d, w)' = NONE
    <3>1. frame \notin Owned(p) /\ frame \notin Free
      <4>1. frame \in held
        BY <1>8 DEF Sound, Books, Ledger
      <4> QED
        BY <1>8, <4>1 DEF Sound, Books, Ledger, Own, Typed, PmmInv, Accounted, Free
    <3>2. frame # table
      <4>1. MemoryOk /\ Free \in SUBSET Pages
        BY FreeIsPages DEF Typed, PagingTypeOK, MemoryOk
      <4>2. \/ table \in Free
            \/ /\ memory[d][get_page_dir_index(v)] # NONE
               /\ table = memory[d][get_page_dir_index(v)]
        BY <1>5, <1>15, <4>1, TablePage
      <4>3. get_page_dir_index(v) \in UserEntries
        BY UserIndex DEF UserEntries
      <4>4. memory[d][get_page_dir_index(v)] # NONE => memory[d][get_page_dir_index(v)] \in Owned(p)
        BY <1>2, <1>3, <1>11, <4>3, TableOwned
      <4> QED
        BY <3>1, <4>2, <4>4
    <3>3. MapsPage(p, d, v, frame, table)
      BY <1>2, <1>3, <1>5, <1>6, <1>9, <1>11, <2>1, <3>1, <3>2 DEF MapsPage
    <3> QED
      BY <2>1, <3>3, MappingOwns
  <2>3. KernelPart' /\ \A q \in Procs : q # p =>
              /\ Owned(q)' = Owned(q) /\ WellFormed(q)'
              /\ OwnDirectory(q)' = OwnDirectory(q)
    BY <1>11, <2>1, <2>2, OthersKept
  <2>4. Books'
    <3>1. {frame} \in SUBSET InHand /\ Owned(p)' = Owned(p) \union {frame} \union S
      BY <1>8, <2>2
    <3> HIDE DEF S
    <3> QED
      BY <1>7, <1>8, <2>1, <2>3, <3>1, BooksOwn DEF Sound
  <2>5. todo \in Both => paging_get_physical_address(d, USER_STACK_BASE - 1)' = NONE
    <3> SUFFICES ASSUME todo \in Both
                 PROVE  paging_get_physical_address(d, USER_STACK_BASE - 1)' = NONE
      OBVIOUS
    <3>1. Tables(d) = {} /\ v = USER_CODE_BASE
      BY <1>1, <1>2, <1>3, <1>4, TodoParts DEF ToMap
    <3>2. PICK w \in USER_CODE_BASE..(USER_STACK_BASE - 1) : w = USER_STACK_BASE - 1
      BY UserBases
    <3>3. paging_get_physical_address(d, w)' = NONE
      BY <2>2, <3>1, <3>2, UserBases
    <3> QED
      BY <3>2, <3>3 DEF paging_get_physical_address, get_page_dir_index, get_page_table_index
  <2> QED
    BY <1>13, <2>2, <2>3, <2>4, <2>5
<1> QED
  BY <1>14, <1>15

-----------------------------------------------------------------------------
(* The inductive invariant.                                                *)

(* After boot the invariant holds.                                         *)
LEMMA InitSound ==
  ASSUME PagingInit
  PROVE  PagingInv
<1>1. Typed
  BY InitTyped DEF Typed
<1>2. /\ \A p \in Procs : page_directory[p] = NONE /\ stage[p] = "none"
      /\ call.step = "idle" /\ running = "shell" /\ cr3 = kernel_directory
      /\ current_directory = kernel_directory
      /\ memory = paging_init /\ others = {} /\ lost = {} /\ held = {}
  BY DEF PagingInit, Init, Idle
<1>3. \A p \in Procs : Owned(p) = {} /\ WellFormed(p) /\ StageFits(p)
  BY <1>2 DEF Owned, WellFormed, OwnDirectory, StageFits, NONE, kernel_directory
<1>4. InHand = {}
  BY <1>2, HandNow, HandParts
<1>5. Books
  BY <1>2, <1>3, <1>4 DEF Books, Ledger, Own
<1>6. KernelPart /\ Proper /\ Control /\ SetUp
  BY <1>2, <1>3, Sizes DEF KernelPart, Proper, Control, SetUp
<1> QED
  BY <1>1, <1>3, <1>5, <1>6 DEF PagingInv, Typed, Sound

(* Every step keeps the types and the manager's invariant.                 *)
LEMMA NextTyped ==
  ASSUME Typed, PagingNext
  PROVE  Typed'
  BY CreateTyped, KillTyped, FreeNextTyped, KillClearsTyped, SwitchTyped, WrapperTyped, MarkTyped,
     StackTyped, DirectoryTyped, CodeTyped, EnterTyped, MapTyped, BackTyped, DemandTyped, HaltTyped, ClientTyped, MemtestTyped
     DEF PagingNext

(* Once torn, for ever torn.                                               *)
LEMMA TornStays ==
  ASSUME Typed, PagingNext, ~torn'
  PROVE  ~torn
  BY DEF PagingNext, process_create, process_kill, FreeNext, KillClears, SwitchTo, WrapperExits,
         MarkUserMode, AllocStack, CreateDirectory, AllocCode, MapEnter, MapPage, SwitchBack, DemandPage,
         FaultHalts, Client, MemtestFails

(* Every step that does not tear keeps the directories sound.              *)
LEMMA NextSound ==
  ASSUME Typed, Sound, PagingNext, ~torn'
  PROVE  Sound'
  BY CreateSound, KillSound, FreeNextSound, KillClearsSound, SwitchSound, WrapperSound, MarkSound,
     StackSound, DirectorySound, CodeSound, EnterSound, MapSound, BackSound, DemandSound, HaltSound, ClientSound, MemtestSound
     DEF PagingNext

(* The invariant is about these variables and no others.                   *)
LEMMA StutterKeeps ==
  ASSUME PagingInv, UNCHANGED <<vars, pagingVars>>
  PROVE  PagingInv'
<1>1. /\ UNCHANGED <<vars, memory, current_directory, cr3, page_directory, stage, running, call,
                     others, lost, torn>>
      /\ Typed
  BY DEF pagingVars, PagingInv, Typed
<1>2. PmmInv'
  BY <1>1, PmmUnchanged DEF PagingInv
<1>3. CallOk'
  BY <1>1 DEF CallOk, PagingInv, PagingTypeOK
<1>4. PagingTypeOK'
  BY <1>1, <1>3 DEF PagingTypeOK, PagingInv
<1>5. ASSUME Sound PROVE Sound'
  <2>1. Own' = Own /\ KernelPart' /\ Proper' /\ \A q \in Procs : OwnDirectory(q)' = OwnDirectory(q)
    <3>1. \A q \in Procs : FreedUpTo(q)' = FreedUpTo(q)
      BY <1>1 DEF FreedUpTo, Begin
    <3> QED
      BY <1>1, <1>5, <3>1, DirectoriesKept DEF Sound
  <2>2. SetUp' /\ InHand' = InHand
    BY <1>1, <1>5, SetUpKept
  <2>3. Books'
    BY <1>1, <1>5, <2>1, <2>2 DEF Sound, Books, vars
  <2>4. \A q \in Procs : StageFits(q)'
    BY <1>1, <1>5, <2>1 DEF StageFits, Sound
  <2>5. Control'
    BY <1>1, <1>5 DEF Control, Sound, kernel_directory, FreedUpTo, Begin
  <2> QED
    BY <2>1, <2>2, <2>3, <2>4, <2>5 DEF Sound
<1> QED
  BY <1>1, <1>2, <1>4, <1>5 DEF PagingInv

(* Through every set-up, page fault, switch and turn of a kill the         *)
(* manager's bookkeeping is exact and the types hold.  The directories are *)
(* sound, and no page is freed twice, with ticks between any two turns, as *)
(* long as none comes inside paging_map_user_code and no process runs once *)
(* its own kill has come to its pages.                                     *)
THEOREM PagingInvariance == PagingSpec => []PagingInv
<1>1. PagingInit => PagingInv
  BY InitSound
<1>2. PagingInv /\ [PagingNext]_<<vars, pagingVars>> => PagingInv'
  <2> SUFFICES ASSUME PagingInv, [PagingNext]_<<vars, pagingVars>> PROVE PagingInv'
    OBVIOUS
  <2>1. CASE PagingNext
    <3>1. Typed
      BY DEF PagingInv, Typed
    <3>2. Typed'
      BY <2>1, <3>1, NextTyped
    <3>3. ~torn' => Sound'
      BY <2>1, <3>1, TornStays, NextSound DEF PagingInv
    <3> QED
      BY <3>2, <3>3 DEF PagingInv, Typed
  <2>2. CASE UNCHANGED <<vars, pagingVars>>
    BY <2>2, StutterKeeps
  <2> QED
    BY <2>1, <2>2
<1> QED
  BY <1>1, <1>2, PTL DEF PagingSpec

(* used_pages and the bitmap stay exact with the paging code as a client:  *)
(* torn or not, no page is handed out twice and the kernel's are kept.     *)
THEOREM PagesAccounted == PagingSpec => [](CounterIsExact /\ Accounted)
<1>1. PagingInv => CounterIsExact /\ Accounted
  BY DEF PagingInv, PmmInv
<1> QED
  BY <1>1, PagingInvariance, PTL

(* No page is two processes', or a process's and anybody else's: what a    *)
(* kill in progress has given back may be taken by others at once, what it *)
(* has not is still the victim's alone.  The assumption is as above: the   *)
(* shell keeps the CPU inside paging_map_user_code, and the victim does    *)
(* not run once its kill has come to its pages.                            *)
THEOREM ProcessesIsolated == PagingSpec => []Isolated
<1>1. ASSUME PagingInv PROVE Isolated
  <2> SUFFICES ASSUME ~torn
               PROVE  /\ Tables(kernel_directory) = {}
                      /\ \A p, q \in Procs : p # q => Owned(p) \cap Owned(q) = {}
                      /\ \A p \in Procs :
                           Owned(p) \cap (Kernel \union others \union lost \union InHand) = {}
    BY DEF Isolated
  <2>1. Typed /\ Sound
    BY <1>1 DEF PagingInv, Typed
  <2>2. Tables(kernel_directory) = {}
    BY <2>1, KernelTables DEF Sound
  <2>3. \A p \in Procs : Owned(p) \cap Kernel = {}
    BY <2>1, OwnedHeld DEF Sound
  <2>4. /\ \A p, q \in Procs : p # q => Owned(p) \cap Owned(q) = {}
        /\ \A p \in Procs : Owned(p) \cap (others \union lost \union InHand) = {}
    BY <2>1 DEF Sound, Books, Ledger, Own
  <2> QED
    BY <2>2, <2>3, <2>4
<1> QED
  BY <1>1, PagingInvariance, PTL

(* Every page taken has an owner, through failing set-ups, page faults and *)
(* the turns of a kill, faults of other processes between two of them      *)
(* included: what process_kill does not give back is what a failing path   *)
(* forgot, exactly.  The assumption is the same.                           *)
THEOREM EveryPageHasAnOwner == PagingSpec => []PagesReturned
<1>1. ASSUME PagingInv PROVE PagesReturned
  <2> SUFFICES ASSUME ~torn
               PROVE  held = others \union lost \union InHand \union UNION {Owned(p) : p \in Procs}
    BY DEF PagesReturned
  <2>1. Books
    BY <1>1 DEF PagingInv, Sound
  <2>2. {Own[p] : p \in Procs} = {Owned(p) : p \in Procs}
    BY DEF Own
  <2> QED
    BY <2>1, <2>2 DEF Books, Ledger
<1> QED
  BY <1>1, PagingInvariance, PTL

(* Whatever directory is loaded or owned, a victim's until it is freed,    *)
(* the kernel finds every page of memory at its own address.  The          *)
(* assumption is the same.                                                 *)
THEOREM KernelStaysMapped == PagingSpec => []KernelMapped
<1>1. ASSUME PagingInv PROVE KernelMapped
  <2> SUFFICES ASSUME ~torn, NEW dir \in Directories, NEW p \in Pages
               PROVE  paging_get_physical_address(dir, p) = p
    BY DEF KernelMapped
  <2>1. Sound
    BY <1>1 DEF PagingInv
  <2>2. p \in Nat /\ p < TOTAL_PAGES /\ PAGE_TABLE_ENTRIES \in Nat \ {0}
        /\ p < KERNEL_ENTRIES * PAGE_TABLE_ENTRIES /\ KERNEL_ENTRIES \in Nat
    <3>1. p \in Nat /\ p < TOTAL_PAGES
      BY Sizes DEF Pages
    <3>2. TOTAL_PAGES <= KERNEL_ENTRIES * PAGE_TABLE_ENTRIES /\ KERNEL_ENTRIES * PAGE_TABLE_ENTRIES \in Nat
      BY PagingAssumption, Sizes
    <3> QED
      BY <3>1, <3>2, Sizes
  <2>3. PICK q, r : q = p \div PAGE_TABLE_ENTRIES /\ r = p % PAGE_TABLE_ENTRIES
    OBVIOUS
  <2>4. /\ q \in 0..(KERNEL_ENTRIES - 1) /\ r \in 0..(PAGE_TABLE_ENTRIES - 1)
        /\ p = q * PAGE_TABLE_ENTRIES + r
    <3>1. /\ p \div PAGE_TABLE_ENTRIES \in Nat
          /\ p % PAGE_TABLE_ENTRIES \in 0..(PAGE_TABLE_ENTRIES - 1)
          /\ p = (p \div PAGE_TABLE_ENTRIES) * PAGE_TABLE_ENTRIES + (p % PAGE_TABLE_ENTRIES)
          /\ p \div PAGE_TABLE_ENTRIES < KERNEL_ENTRIES
      BY <2>2, DivisionBounds
    <3>2. q \in Nat /\ q < KERNEL_ENTRIES
      BY <2>3, <3>1
    <3> QED
      BY <2>2, <2>3, <3>1, <3>2
  <2>5. memory[dir][q] = early_page_table(q)
    <3>1. CASE dir = kernel_directory
      BY <2>1, <2>4, <3>1, KernelTables DEF Sound
    <3>2. CASE dir # kernel_directory
      <4>1. PICK x \in Procs : dir = page_directory[x] /\ OwnDirectory(x) /\ FreedUpTo(x) # Last
        <5>1. CASE dir = cr3
          <6>1. cr3 # NONE /\ \E x \in Procs : cr3 = page_directory[x] /\ FreedUpTo(x) = Begin
            BY <1>1, <2>1, <3>2, <5>1, KernelPages DEF Sound, Control, PagingInv, PagingTypeOK
          <6> QED
            BY <3>2, <5>1, <6>1, PlaceForms DEF OwnDirectory
        <5>2. CASE dir # cr3
          <6>1. PICK x \in Procs : dir = page_directory[x] /\ dir \in Owned(x)
            BY <3>2, <5>2 DEF Directories
          <6>2. Owned(x) = OwnedIn(memory, dir, FreedUpTo(x))
            BY <6>1, InState
          <6>3. dir \notin {NONE, kernel_directory}
            BY <6>1, <6>2 DEF OwnedIn
          <6>4. FreedUpTo(x) # Last
            <7>1. Rest(memory, dir, Last) = {}
              BY PlaceOrder DEF Rest
            <7> QED
              BY <6>1, <6>2, <6>3, <7>1 DEF OwnedIn
          <6> QED
            BY <6>1, <6>3, <6>4 DEF OwnDirectory
        <5> QED
          BY <5>1, <5>2
      <4> QED
        BY <2>1, <2>4, <4>1 DEF Sound, Proper, WellFormed
    <3> QED
      BY <3>1, <3>2
  <2>6. PICK k \in 1..KERNEL_ENTRIES : k = q + 1 /\ k \in 0..KERNEL_ENTRIES
    BY <2>4, Sizes
  <2>7. memory[dir][q] = k /\ k # NONE
    BY <2>5, <2>6 DEF early_page_table, NONE
  <2>8. memory[k][r] = p
    <3>1. memory[k] = paging_init[k]
      BY <2>1, <2>6 DEF Sound, KernelPart
    <3>2. k \in Pages /\ r \in Entries /\ k # kernel_directory
      BY <2>4, <2>6, KernelPages, EntriesHold DEF kernel_directory
    <3>3. (k - 1) * PAGE_TABLE_ENTRIES + r = p /\ r < PAGE_TABLE_ENTRIES
      BY <2>2, <2>4, <2>6
    <3>4. paging_init[k][r] = (k - 1) * PAGE_TABLE_ENTRIES + r
      BY <2>2, <2>6, <3>2, <3>3 DEF paging_init
    <3> QED
      BY <3>1, <3>3, <3>4
  <2> QED
    BY <2>3, <2>7, <2>8 DEF paging_get_physical_address, get_page_dir_index, get_page_table_index
<1> QED
  BY <1>1, PagingInvariance, PTL
=============================================================================
