------------------------------- MODULE Paging -------------------------------
(***************************************************************************)
(* Page directories and tables (kernel/paging.c) and the set-up of user    *)
(* processes (process_create_user_mode, process_kill), as clients of the   *)
(* physical memory manager, next to the clients module Pmm knows.          *)
(*                                                                         *)
(* A directory or table is a page of memory with an entry per index;       *)
(* virtual addresses are counted in pages.  The shell sets processes up    *)
(* and kills them with interrupts enabled, one step per call that takes or *)
(* gives back a page, so that it can lose the CPU in between.  A call of   *)
(* the manager is one step: a page fault inside one of the shell's calls   *)
(* is left out.                                                            *)
(*                                                                         *)
(* The module is about the page tables.  That the tree has no caller of    *)
(* process_create_user_mode, and what the CPU does with the segments and   *)
(* the privilege bits of a user process, is outside of it.                 *)
(***************************************************************************)
EXTENDS Pmm, Sequences

CONSTANTS
  PAGE_DIRECTORY_ENTRIES,  \* 1024
  PAGE_TABLE_ENTRIES,      \* 1024
  KERNEL_ENTRIES,          \* directory entries of the identity map (4)
  USER_CODE_BASE,          \* as a page number (0x40000)
  USER_STACK_BASE,         \* as a page number (0x80000)
  CODE_MAX,                \* pages kept for code (64)
  Procs,                   \* process table entries used for user processes
  Touched,                 \* virtual pages a user process accesses
  MEMTEST_PAGES            \* pages cmd_memtest asks for (5)

ASSUME PagingAssumption ==
  /\ {PAGE_DIRECTORY_ENTRIES, PAGE_TABLE_ENTRIES, CODE_MAX} \subseteq Nat \ {0}
  /\ {USER_CODE_BASE, USER_STACK_BASE, MEMTEST_PAGES} \subseteq Nat
  /\ {"shell", "halted"} \cap Procs = {}
  /\ KERNEL_ENTRIES \in 1..(KERNEL_PAGES - 1)
  /\ TOTAL_PAGES <= KERNEL_ENTRIES * PAGE_TABLE_ENTRIES
  /\ KERNEL_ENTRIES * PAGE_TABLE_ENTRIES <= USER_CODE_BASE
  /\ USER_CODE_BASE + CODE_MAX < USER_STACK_BASE
  /\ USER_STACK_BASE <= PAGE_DIRECTORY_ENTRIES * PAGE_TABLE_ENTRIES
  /\ Touched \subseteq USER_CODE_BASE..(USER_STACK_BASE - 1)

NONE == -1  \* an entry that is not present, a NULL pointer

VARIABLES
  memory,             \* memory[p][i]: entry i of page p, read as directory or table
  current_directory,
  cr3,
  page_directory,     \* of each process
  stage,              \* "none", "created", "setup": marked as user mode, "ready", "dead"
  running,            \* who has the CPU: "shell", a process, or "halted"
  call,               \* where the shell is in process_create_user_mode or process_kill
  others,             \* pages of the other clients
  lost,               \* pages a failing path has forgotten
  torn                \* the shell lost the CPU where the page tables do not bear it

pagingVars == <<memory, current_directory, cr3, page_directory, stage, running, call,
                others, lost, torn>>

Entries == 0..(Max({PAGE_DIRECTORY_ENTRIES, PAGE_TABLE_ENTRIES}) - 1)
Cleared == [i \in Entries |-> NONE]
Free == Pages \ Taken

get_page_dir_index(v) == v \div PAGE_TABLE_ENTRIES
get_page_table_index(v) == v % PAGE_TABLE_ENTRIES

(* The static kernel_directory and early_page_tables lie in kernel pages.  *)
kernel_directory == 0
early_page_table(i) == i + 1
Idle == [step |-> "idle"]

paging_init ==
  [p \in Pages |-> [i \in Entries |->
     IF p = kernel_directory /\ i < KERNEL_ENTRIES THEN early_page_table(i)
     ELSE IF p \in 1..KERNEL_ENTRIES /\ (p - 1) * PAGE_TABLE_ENTRIES + i < TOTAL_PAGES
               /\ i < PAGE_TABLE_ENTRIES
       THEN (p - 1) * PAGE_TABLE_ENTRIES + i
     ELSE NONE]]

PagingInit ==
  /\ Init
  /\ memory = paging_init
  /\ current_directory = kernel_directory
  /\ cr3 = kernel_directory
  /\ page_directory = [p \in Procs |-> NONE]
  /\ stage = [p \in Procs |-> "none"]
  /\ running = "shell"
  /\ call = Idle
  /\ others = {}
  /\ lost = {}
  /\ torn = FALSE

-----------------------------------------------------------------------------
(* The manager's side.                                                     *)

(* Pages taken one by one with pmm_alloc_page.                             *)
Take(S) ==
  /\ page_bitmap' = [p \in Pages |-> p \in S \/ page_bitmap[p]]
  /\ used_pages' = used_pages + Cardinality(S)
  /\ held' = held \union S

-----------------------------------------------------------------------------
(* Page tables.                                                            *)

paging_get_physical_address(dir, v) ==
  LET table == memory[dir][get_page_dir_index(v)]
  IN  IF table = NONE THEN NONE ELSE memory[table][get_page_table_index(v)]

(* The table paging_map_page writes to: the present one, or the first of   *)
(* the free pages; NONE if there is no page.                               *)
TableFor(dir, v, free) ==
  IF memory[dir][get_page_dir_index(v)] # NONE THEN memory[dir][get_page_dir_index(v)]
  ELSE IF free = {} THEN NONE ELSE Min(free)

(* Memory after paging_map_page; without a table it returns silently.      *)
Mapping(dir, v, frame, table) ==
  IF table = NONE THEN memory
  ELSE IF memory[dir][get_page_dir_index(v)] # NONE
    THEN [memory EXCEPT ![table][get_page_table_index(v)] = frame]
  ELSE [memory EXCEPT ![table] = [Cleared EXCEPT ![get_page_table_index(v)] = frame],
                      ![dir][get_page_dir_index(v)] = table]

Tables(dir) ==
  {memory[dir][i] : i \in KERNEL_ENTRIES..(PAGE_DIRECTORY_ENTRIES - 1)} \ {NONE}

(* What paging_free_directory visits: entry place[2] of the table in       *)
(* directory entry place[1], then the table itself, and the directory      *)
(* last; Begin is before all of them.                                      *)
Begin == <<0, 0>>
Last == <<PAGE_DIRECTORY_ENTRIES, 0>>
Places ==
  ((KERNEL_ENTRIES..(PAGE_DIRECTORY_ENTRIES - 1)) \X (0..PAGE_TABLE_ENTRIES)) \union {Last}

Before(a, b) == a[1] < b[1] \/ (a[1] = b[1] /\ a[2] < b[2])

PageAt(dir, place) ==
  IF place = Last THEN dir
  ELSE LET table == memory[dir][place[1]]
       IN  IF table = NONE \/ place[2] = PAGE_TABLE_ENTRIES THEN table
           ELSE memory[table][place[2]]

(* The places it has yet to free, behind the one it freed last.            *)
ToFree(dir, at) == {place \in Places : Before(at, place) /\ PageAt(dir, place) # NONE}

NewDirectory_EntryShort ==
  [i \in Entries |-> IF i < KERNEL_ENTRIES - 1 THEN memory[kernel_directory][i] ELSE NONE]

(* paging_create_user_directory: a cleared page with the kernel's entries. *)
NewDirectory ==
  [i \in Entries |-> IF i < KERNEL_ENTRIES THEN memory[kernel_directory][i] ELSE NONE]

-----------------------------------------------------------------------------
(* process_create_user_mode, in the shell.                                 *)

At(step) == running = "shell" /\ call.step = step
Killing(p) == [step |-> "kill", proc |-> p, at |-> Begin]

process_create(p) ==
  /\ At("idle")
  /\ stage[p] = "none"
  /\ stage' = [stage EXCEPT ![p] = "created"]
  /\ page_directory' = [page_directory EXCEPT ![p] = current_directory]
  /\ call' = [step |-> "mark", proc |-> p]
  /\ UNCHANGED <<vars, memory, current_directory, cr3, running, others, lost, torn>>

(* A process that has run meanwhile is dead and stays so.                  *)
Advanced(p, to) == [stage EXCEPT ![p] = IF stage[p] = "dead" THEN "dead" ELSE to]

(* is_user_mode is set.                                                    *)
MarkUserMode ==
  /\ At("mark")
  /\ stage' = Advanced(call.proc, "setup")
  /\ call' = [step |-> "stack", proc |-> call.proc]
  /\ UNCHANGED <<vars, memory, current_directory, cr3, page_directory, running, others, lost, torn>>

AllocStack ==
  /\ At("stack")
  /\ \/ /\ Free # {}
        /\ Take({Min(Free)})
        /\ call' = [step |-> "directory", proc |-> call.proc, stack |-> Min(Free)]
     \/ /\ Free = {}
        /\ call' = Killing(call.proc)
        /\ UNCHANGED vars
  /\ UNCHANGED <<memory, current_directory, cr3, page_directory, stage, running, others, lost, torn>>

CreateDirectory ==
  /\ At("directory")
  /\ \/ /\ Free # {}
        /\ Take({Min(Free)})
        /\ memory' = [memory EXCEPT ![Min(Free)] = NewDirectory]
        /\ page_directory' = [page_directory EXCEPT ![call.proc] = Min(Free)]
        /\ call' = [call EXCEPT !.step = "code"]
        /\ UNCHANGED lost
     \/ /\ Free = {}
        /\ page_directory' = [page_directory EXCEPT ![call.proc] = NONE]
        /\ call' = Killing(call.proc)
        /\ lost' = lost \union {call.stack}
        /\ UNCHANGED <<vars, memory>>
  /\ UNCHANGED <<current_directory, cr3, stage, running, others, torn>>

AllocCode ==
  /\ At("code")
  /\ \/ /\ Free # {}
        /\ Take({Min(Free)})
        /\ call' = [step |-> "map", proc |-> call.proc,
                    todo |-> << <<USER_CODE_BASE, Min(Free)>>, <<USER_STACK_BASE - 1, call.stack>> >>]
        /\ UNCHANGED lost
     \/ /\ Free = {}
        /\ call' = Killing(call.proc)
        /\ lost' = lost \union {call.stack}
        /\ UNCHANGED vars
  /\ UNCHANGED <<memory, current_directory, cr3, page_directory, stage, running, others, torn>>

(* paging_map_user_code sets current_directory, ...                        *)
MapEnter ==
  /\ At("map")
  /\ current_directory' = page_directory[call.proc]
  /\ call' = [step |-> "mapping", proc |-> call.proc, todo |-> call.todo,
              old_dir |-> current_directory]
  /\ UNCHANGED <<vars, memory, cr3, page_directory, stage, running, others, lost, torn>>

MapPage_LeavesDirectory ==
  /\ At("mapping")
  /\ LET v == call.todo[1][1]
         frame == call.todo[1][2]
         table == TableFor(current_directory, v, Free)
     IN  /\ memory' = Mapping(current_directory, v, frame, table)
         /\ Take({table} \cap Free)
         /\ lost' = IF table = NONE THEN lost \union {frame} ELSE lost
  /\ call' = IF Len(call.todo) = 1 THEN Idle
             ELSE [step |-> "map", proc |-> call.proc, todo |-> Tail(call.todo)]
  /\ stage' = IF Len(call.todo) = 1 THEN Advanced(call.proc, "ready") ELSE stage
  /\ UNCHANGED <<current_directory, cr3, page_directory, running, others, torn>>

(* ... paging_map_page maps the page in what is then current_directory,    *)
(* and the old value is put back.  After the stack the process is set up.  *)
MapPage ==
  /\ At("mapping")
  /\ LET v == call.todo[1][1]
         frame == call.todo[1][2]
         table == TableFor(current_directory, v, Free)
     IN  /\ memory' = Mapping(current_directory, v, frame, table)
         /\ Take({table} \cap Free)
         /\ lost' = IF table = NONE THEN lost \union {frame} ELSE lost
  /\ current_directory' = call.old_dir
  /\ call' = IF Len(call.todo) = 1 THEN Idle
             ELSE [step |-> "map", proc |-> call.proc, todo |-> Tail(call.todo)]
  /\ stage' = IF Len(call.todo) = 1 THEN Advanced(call.proc, "ready") ELSE stage
  /\ UNCHANGED <<cr3, page_directory, running, others, torn>>

-----------------------------------------------------------------------------
(* process_kill, in the shell: its command, or a set-up that failed.       *)

process_kill(p) ==
  /\ At("idle")
  /\ stage[p] # "none"
  /\ call' = Killing(p)
  /\ UNCHANGED <<vars, memory, current_directory, cr3, page_directory, stage, running, others,
                 lost, torn>>

(* A turn of paging_free_directory, which reads the entries as it comes to *)
(* them, up to the next page present.                                      *)
FreeNext ==
  /\ At("kill")
  /\ LET dir == page_directory[call.proc]
     IN  /\ dir # NONE
         /\ \E place \in ToFree(dir, call.at) :
              /\ \A other \in ToFree(dir, call.at) : other = place \/ Before(place, other)
              /\ FreePage(PageAt(dir, place) * PAGE_SIZE)
              /\ call' = [call EXCEPT !.at = place]
  /\ UNCHANGED <<memory, current_directory, cr3, page_directory, stage, running, others, lost, torn>>

KillClears_Early ==
  /\ At("kill")
  /\ page_directory' = [page_directory EXCEPT ![call.proc] = NONE]
  /\ stage' = [stage EXCEPT ![call.proc] = "none"]
  /\ call' = Idle
  /\ UNCHANGED <<vars, memory, current_directory, cr3, running, others, lost, torn>>

(* Only then are the PCB freed and the table's entry cleared.              *)
KillClears ==
  /\ At("kill")
  /\ page_directory[call.proc] = NONE \/ call.at = Last
  /\ page_directory' = [page_directory EXCEPT ![call.proc] = NONE]
  /\ stage' = [stage EXCEPT ![call.proc] = "none"]
  /\ call' = Idle
  /\ UNCHANGED <<vars, memory, current_directory, cr3, running, others, lost, torn>>

(* How far paging_free_directory has come with a process.                  *)
FreedUpTo(p) == IF call.step = "kill" /\ call.proc = p THEN call.at ELSE Begin

-----------------------------------------------------------------------------
(* Switches and page faults.                                               *)

paging_switch_directory(dir) ==
  /\ current_directory' = IF dir = NONE THEN current_directory ELSE dir
  /\ cr3' = IF dir = NONE THEN cr3 ELSE dir

(* A tick takes the CPU from the shell.  A process that is not set up yet  *)
(* starts at the kernel's own address of its wrapper, which user mode must *)
(* not fetch from: page_fault_handler halts.  The page tables bear it but  *)
(* inside paging_map_user_code, whose mapping then goes elsewhere, and if  *)
(* the process is being killed and has lost pages, which it still reaches. *)
SwitchTo(p) ==
  /\ running = "shell"
  /\ stage[p] \in {"setup", "ready"}
  /\ running' = IF stage[p] = "ready" THEN p ELSE "halted"
  /\ paging_switch_directory(page_directory[p])
  /\ torn' = (torn \/ call.step = "mapping" \/ FreedUpTo(p) # Begin)
  /\ UNCHANGED <<vars, memory, page_directory, stage, call, others, lost>>

(* user_mode_entry_wrapper of a process not yet marked calls process_exit, *)
(* which leaves the entry in the table and gives the CPU away.             *)
WrapperExits(p) ==
  /\ running = "shell"
  /\ stage[p] = "created"
  /\ stage' = [stage EXCEPT ![p] = "dead"]
  /\ UNCHANGED <<vars, memory, current_directory, cr3, page_directory, running, call,
                 others, lost, torn>>

SwitchBack ==
  /\ running \in Procs
  /\ running' = "shell"
  /\ paging_switch_directory(kernel_directory)
  /\ stage' \in {stage, [stage EXCEPT ![running] = "dead"]}  \* SYS_EXIT
  /\ UNCHANGED <<vars, memory, page_directory, call, others, lost, torn>>

NotPresent(v) == running \in Procs /\ paging_get_physical_address(cr3, v) = NONE
OnDemand(v) == v \in (USER_CODE_BASE + CODE_MAX)..(USER_STACK_BASE - 1)

(* page_fault_handler gives the process a page and maps it in its          *)
(* directory.  When there is no page for the table, the instruction        *)
(* faults again.                                                           *)
DemandPage(v) ==
  /\ NotPresent(v)
  /\ OnDemand(v)
  /\ Free # {}
  /\ LET page == Min(Free)
         table == TableFor(page_directory[running], v, Free \ {page})
     IN  /\ Take({page} \union ({table} \cap Free))
         /\ memory' = Mapping(page_directory[running], v, page, table)
         /\ lost' = IF table = NONE THEN lost \union {page} ELSE lost
  /\ UNCHANGED <<current_directory, cr3, page_directory, stage, running, call, others, torn>>

FaultHalts(v) ==
  /\ NotPresent(v)
  /\ ~OnDemand(v) \/ Free = {}
  /\ running' = "halted"
  /\ UNCHANGED <<vars, memory, current_directory, cr3, page_directory, stage, call, others, lost, torn>>

-----------------------------------------------------------------------------
(* The other clients, in the shell: calls of module Pmm on pages of their  *)
(* own, and cmd_memtest, which keeps what it got when a page is refused.   *)

Client ==
  /\ At("idle")
  /\ \/ \E n \in 1..MaxRun : AllocPages(n)
     \/ \E addr \in Addresses :
          /\ addr \div PAGE_SIZE \notin held \ others
          /\ FreePage(addr)
     \/ \E i \in Pages, n \in 2..MaxRun : Run(i, n) \subseteq others /\ FreePages(i, n)
  /\ others' = (others \cap held') \union (held' \ held)
  /\ UNCHANGED <<memory, current_directory, cr3, page_directory, stage, running, call, lost, torn>>

MemtestFails ==
  /\ At("idle")
  /\ Free # {}
  /\ Cardinality(Free) < MEMTEST_PAGES
  /\ Take(Free)
  /\ lost' = lost \union Free
  /\ UNCHANGED <<memory, current_directory, cr3, page_directory, stage, running, call, others, torn>>

PagingNext ==
  \/ \E p \in Procs : process_create(p) \/ process_kill(p) \/ SwitchTo(p) \/ WrapperExits(p)
  \/ MarkUserMode \/ AllocStack \/ CreateDirectory \/ AllocCode \/ MapEnter \/ MapPage
  \/ FreeNext \/ KillClears
  \/ SwitchBack
  \/ \E v \in Touched : DemandPage(v) \/ FaultHalts(v)
  \/ Client
  \/ MemtestFails

PagingSpec == PagingInit /\ [][PagingNext]_<<vars, pagingVars>>

-----------------------------------------------------------------------------
(* Properties.                                                             *)

(* Pages a process's own directory reaches outside the kernel's part, as   *)
(* far as a kill in progress has not given them back.                      *)
Owned(p) ==
  LET dir == page_directory[p]
  IN  IF dir \in {NONE, kernel_directory} THEN {}
      ELSE {PageAt(dir, place) : place \in ToFree(dir, FreedUpTo(p))}

(* Directories in use: the kernel's, the loaded one, and those processes   *)
(* own.                                                                    *)
Directories ==
  {kernel_directory, cr3} \union
  {page_directory[p] : p \in {q \in Procs : page_directory[q] \in Owned(q)}}

(* Whoever runs, the kernel finds all of memory at its own address: in     *)
(* every directory in use, page p is mapped to p.  paging.c writes new     *)
(* tables at their physical address under whatever directory is loaded.    *)
(* After a tear it need not: a process that runs while it is killed may    *)
(* run on a directory that is another's page by then, and after two tears  *)
(* a kill frees a table the kernel directory still uses.                   *)
KernelMapped ==
  ~torn => \A dir \in Directories, p \in Pages : paging_get_physical_address(dir, p) = p

(* Pages the set-up in progress holds in local variables.                  *)
InHand ==
  CASE call.step \in {"directory", "code"} -> {call.stack}
    [] call.step \in {"map", "mapping"} -> {call.todo[i][2] : i \in DOMAIN call.todo}
    [] OTHER -> {}

(* Isolation: no page belongs to two processes, or to a process and to     *)
(* anybody else, and the kernel's directory has no user pages.  Others may *)
(* run, and take what a kill in progress gives back, at every point of it; *)
(* it rests on the shell keeping the CPU inside paging_map_user_code, and  *)
(* on the process not running once its kill has come to its pages.         *)
Isolated ==
  ~torn =>
    /\ Tables(kernel_directory) = {}
    /\ \A p, q \in Procs : p # q => Owned(p) \cap Owned(q) = {}
    /\ \A p \in Procs : Owned(p) \cap (Kernel \union others \union lost \union InHand) = {}

(* Every page taken has an owner, through all failing set-ups, page faults *)
(* and turns of a kill, faults of others in the middle of it included;     *)
(* only the failing paths lose pages, and those exactly.                   *)
PagesReturned ==
  ~torn => held = others \union lost \union InHand \union UNION {Owned(p) : p \in Procs}
=============================================================================
