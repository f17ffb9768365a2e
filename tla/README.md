# Wittche OS: a TLA+ verification project

Wittche is a small 32-bit x86 kernel written in C: a priority scheduler driven
by the timer interrupt, message queues between processes, a page allocator, a
kernel heap, paging with a first user process, a file system on a RAM disk, and
a shell.  This directory models its core logic in TLA+, checks the models with
TLC on small instances, and proves the most important results with TLAPS for
every value of the parameters.  Paths are relative to the repository, line
numbers refer to the commit the models were written from; `PROJECT.json` maps
every definition to its lines.

## 1. The system

### 1.1 Who runs, and when

There is one CPU.  After boot, `kernel_main` goes on as the shell; because
`process_init` makes the idle entry `current_process` without switching to it,
the shell *is* PID 0, and the idle loop prepared for PID 0 never executes.
Other processes exist only after shell commands create them (`testproc`,
`sleeptest`, `ipctest`, `syscalltest`, `usermodetest`; the last one creates a
kernel process too: nothing in the tree calls `process_create_user_mode`).

Interrupts stay enabled inside the kernel.  `irq_handler` (kernel/isr.c) calls
the device's handler and sends the end-of-interrupt afterwards.  The timer
handler wakes sleepers and, every tenth tick, calls `process_schedule`, which
switches *inside* the handler.  The EOI of a tick that switched away from PID 0
is therefore sent only when PID 0 is scheduled again.  In between, IRQ0 stays
in service, and with it all lower-priority lines (the keyboard too).  The
consequences shape the whole project:

* while a process other than the shell runs, it is never interrupted: its
  kernel calls are atomic (`InServiceOutsideShell`, proved);
* the shell can be interrupted between any two instructions, so its table
  updates (`process_create`, `process_kill`) are not atomic;
* the scheduler is cooperative for everything but PID 0.

### 1.2 Components

| component | state | operations | hard behaviours |
|---|---|---|---|
| processes and scheduler (process.c, switch.asm) | `process_table`, `current_process`, `next_pid`, `process_count_val`; per PCB state, priority, `wake_time`, saved context | create, kill, exit, yield, sleep, wake, set priority, schedule, check sleeping | a tick in the middle of kill/create; exit switching away before it frees; sleep at the wrap of the tick counter; starvation by priority |
| timer and PIC (timer.c, isr.c, pic) | `system_ticks`, IRQ0 in service | tick, EOI | the EOI that comes late |
| message queues (process.c, syscall.c) | ring of 8 messages per PCB | send, receive | full and empty ring, wrap, dead receivers, truncation |
| page allocator (pmm.c) | bitmap, used-page counter | alloc/free one or many pages | double free, refused addresses, skipping search |
| heap (heap.c) | block list with headers | kmalloc, kcalloc, krealloc, kfree | split, coalescing, the smallest rest, krealloc's order |
| system calls (syscall.c) | none of their own | exit, write, read, getpid, sleep, yield, send, recv | argument checks before the call |
| paging, user mode (paging.c, process.c) | page directories and tables, `current_directory`, CR3 | map, translate, user directories, demand paging, switch, free | a failing step in the middle of a set-up; `current_directory` borrowed with interrupts enabled; a process scheduled before it is set up |
| WitFS (fs.c) and RAM disk (ramdisk.c) | superblock, two bitmaps, inode table, directory entries, open-file table; the block array | format, mount, create, open, read, write, close, unlink, list | one step of several failing, unlink of an open file, block 0 as "no block" |
| keyboard (keyboard.c) | 256-byte ring, shift/ctrl/caps flags | interrupt handler, getchar, line editing | handler against reader, full ring |
| shell (shell.c) | command line, history, completion | 30 commands, line editor | commands run with interrupts enabled |
| screen and formatted output (screen.c, kprintf.c) | cursor, colour, text memory, the cursor registers | putchar, write, scroll, set cursor, printf | no lock: processes draw inside the shell's calls |
| strings (string.c) | none | trim, split, compare, convert | none concurrent |
| boot, GDT, IDT, TSS | descriptor tables | written once at boot | none |

Interaction: the shell calls everything; the timer interrupt calls the
scheduler; processes call the scheduler and the queues, directly or through
`INT 0x80`; the process code takes its memory from the heap; paging and user
processes take pages from the page allocator; the file system is a client of
the RAM disk and the heap.

### 1.3 What correctness means here

* Scheduler: one process runs, and it is the one the table says; the highest
  priority wins; a dead process never comes back; a sleeper wakes; the shell
  always gets the CPU back; PIDs stay unique; the count and the memory of the
  table entries are exact whatever interrupts the shell.
* Queues: bounded FIFO with whole messages; a refused call changes nothing.
* Page allocator: a page belongs to the kernel, to one client, or is free, and
  the counter says how many; first fit is found exactly when it exists.
* Heap: the blocks tile the heap, every pointer has a block large enough, free
  memory is always merged.
* File system: the bitmaps mark exactly what the directory reaches, through
  every failing step; no block is in two files; no inode lies behind the inode
  table; users see a map from names to contents.
* Paging: whatever directory is loaded, the kernel finds memory at its own
  address; a page belongs to one process only; every page comes back, except
  those the failing paths forget.
* Screen: whoever draws in between, the cursor and the colour come back, and
  nothing is written far outside the screen.
* Console: keys arrive in the order typed, none waits for the next; the line
  edited is the line run, whatever the buffer held before, and it is the line
  in sight.

`PROJECT.json` lists the hazards, each at the line where it bites, with the
properties that would catch it.

## 2. The modules

| module | models | extends / instantiates |
|---|---|---|
| `Process` | process table, scheduler, timer interrupt, EOI, shell's process commands | - |
| `MCProcess` | instances of it, and the documentation's claims about it | `Process` |
| `ProcessProofs` | theorems about `Process` | `Process`, `KernelLemmas`, TLAPS |
| `Ipc` | the message rings, `SYS_SEND`/`SYS_RECV` | instantiates `Fifo` |
| `Fifo` | abstract: bounded mailboxes | - |
| `MCIpc` | instance of `Ipc` | `Ipc` |
| `IpcProofs` | theorems about `Ipc`, the refinement among them | `Ipc`, `KernelLemmas`, TLAPS |
| `Pmm` | page allocator with a client | - |
| `MCPmm` | instance of it, and the heap's place in memory | `Pmm` |
| `Paging` | page directories and tables, user processes, memtest | `Pmm` |
| `MCPaging` | instance of it | `Paging` |
| `PagingProofs` | theorems about `Pmm` and `Paging` | `Paging`, `KernelLemmas`, TLAPS |
| `Heap`, `MCHeap` | kernel heap, and an instance | - |
| `HeapProofs` | theorems about `Heap` | `Heap`, `KernelLemmas`, TLAPS |
| `Fs` | WitFS, the RAM disk, the shell's file commands | instantiates `FileMap` |
| `FileMap` | abstract: a map from names to contents | - |
| `MCFs` | instance of `Fs`, and the documentation's claim about `cat` | `Fs` |
| `FsProofs` | theorems about `Fs`, the refinement among them | `Fs`, `KernelLemmas`, TLAPS |
| `Keyboard`, `MCKeyboard` | keyboard interrupt, key ring and its reader, and an instance | - |
| `KeyboardProofs` | theorems about `Keyboard` | `Keyboard`, `KernelLemmas`, TLAPS |
| `Shell` | the prompt: line editor, tab completion, history | instantiates `CommandLine` |
| `CommandLine` | abstract: a line of text with a cursor, and a log | - |
| `Vga` | the text screen as operators: cursor, cells, scrolling | - |
| `Console` | what the shell draws, and the dispatch of commands | `Shell`, `Vga` |
| `MCConsole` | instance of it | `Console` |
| `Screen` | the screen driver step by step, with processes drawing in between | `Vga` |
| `MCScreen` | instance of it | `Screen` |
| `ConsoleProofs` | theorems about `Screen`, `Shell` and `Console` | `Console`, `Screen`, `KernelLemmas`, TLAPS |
| `KernelLemmas` | facts several proofs share: least and greatest elements, what a ring buffer holds, division, parts of sequences, walks | TLAPS |

A definition whose name is another's with a suffix (`Due_OffByOne` before
`Due`) is a plausible bug in that code.  Replacing the second by the first must
break a property; the pairs are in `PROJECT.json` under `mutants`.

### 2.1 Process

A PCB is identified with its table slot.  `state`, `pid`, `prio`, `wake`,
`qcount` are fields of the PCB (`"FREE"` is a NULL entry); `mem` is which of
stack, queue and PCB of the slot has not been freed; `ctx` is where the slot's
saved context resumes: its entry point, a call it made, or the timer interrupt.
`in_service` is IRQ0's bit in the PIC.  `shell` is the shell's place inside
`process_create_with_priority` or `process_kill`.

* `Tick` is one timer interrupt, from `irq_handler` through `timer_handler`,
  `process_check_sleeping` and, every `SLICE` ticks, `process_schedule` with the
  switch.  It can happen between any two steps of the shell.
* `Schedule(st, caller)` is `process_schedule`.  `NextSlot` states declaratively
  what its scan selects, `Scan` is the loop.  The loop runs on the table after
  the caller was requeued (process.c:582) or has blocked or ended, and after a
  tick has woken sleepers; `Queued` are these tables, and `ScanAgrees` compares
  the two selections on all of them in every reachable state.
* `Sleep`, `Exit`, `Yield`, `Send`, `Receive`, `Wake` are the calls of a running
  process, `SYS_*` included.  `Exit` ends in the scheduler: the code behind the
  switch in `process_kill` is not reached.
* `Create`, `CreatePriority`, `CreateFails`, `Nice`, `Kill`, `KillFreeQueue`,
  `KillFreePcb`, `KillClearEntry` are the shell's commands, split where a timer
  interrupt can see the difference.  `PrioArgs` are the priorities the commands
  give.

`process_init` leaves two fields of PID 0 unset.  Its `wake_time` is never read,
because PID 0 never blocks.  Its `msg_queue` is taken to be NULL, so a message to
it is refused.

### 2.2 Ipc and Fifo

`Ipc` keeps the ring as the code does: entries, head, tail, count, with stale
entries left in place.  Refusals are disjuncts in the order of the code's
checks, with the code's return values in `result`.  The refinement mapping
(`Mailbox`) reads the ring's contents from the head; `Fifo` allows a refusal
only where the call cannot be served, so the refinement also shows that no call
is refused without a reason.  Wake-ups by messages are in `Process`.

### 2.3 Pmm, Paging and Heap

`Pmm` has the bitmap and the counter, and `held`, the pages clients were given.
Clients give back each page at most once, but may pass addresses the manager
must refuse and pages that are free already.

`Paging` adds the clients that are in the tree.  `memory` is every page read as
a directory or a table; `current_directory` is the variable paging.c maps into,
`cr3` the directory that translates, and the two differ inside
`paging_map_user_code`.  `process_create_user_mode` is one step per call that
takes a page (`process_create`, `MarkUserMode`, `AllocStack`, `CreateDirectory`,
`AllocCode`, and `MapEnter`/`MapPage` for the code and again for the stack), with
its failing branches, each of which ends in `process_kill`.  Between any two of
them a tick may run another process (`SwitchTo`, `SwitchBack`), or the one under
construction: before `is_user_mode` is set its wrapper exits (`WrapperExits`),
afterwards it faults and the machine halts.  `process_kill` runs in the shell
with interrupts enabled too: it begins, `paging_free_directory` gives back one
page per step (`FreeNext`: the entries of each table, the table, and the
directory last, each read when the loop comes to it), and only `KillClears`
removes the entry from the table.  In between, the process is still listed and
its directory still maps what was given back (`FreedUpTo` is how far it has
come); others may take those pages, fault on them, and run.  A running process touches pages:
`DemandPage` and `FaultHalts` are `page_fault_handler`.  `others` and `lost` are
history: pages of the other clients, and pages a failing path has forgotten
(the stack page when the directory or the code page cannot be had; a page whose
table cannot be had; what memtest holds when it gives up).

Three limits of this module.  Nothing in the tree calls
`process_create_user_mode`.  If something did, the first switch to such a
process would stop the machine for another reason: `process_switch` loads
SS = 0x23 at privilege level 0, and `paging_map_page` does not set the user bit
in the directory entry; the module leaves segments and protection bits out and
is about who owns which page.  And a call of the allocator is one step, while a
page fault of a user process could fall inside one of the shell's.

There are two places where the page tables do not bear the loss of the CPU, and
`torn` records that it was lost there.  When the tick falls inside
`paging_map_user_code`, the switch replaces `current_directory` and the page is
mapped in the kernel's directory instead: user pages of one process become
visible in, or are freed with, another.  When it runs the victim of a
`process_kill` that has come to its pages, the victim reads and writes pages that
are free or another's, may run on a directory that has been reused as a table,
and is given pages behind the place the kill has reached, which nobody gives
back.  (That a victim runs in the middle of its kill is the finding of
`process_kill_race`; there it is the stack that is gone.)  That is what the code
does; `Isolated`, `PagesReturned` and `KernelMapped` state what holds as long as
neither has happened, with every other process running and faulting at every
other point, the turns of a kill included.

`Heap` keeps each block's address
next to the list order, as the pointers do, so that tiling is a property and not
a representation.  Sizes are computed modulo `WORD`.

### 2.4 Fs and FileMap

The shell is the only caller of the file system (only PID 0 runs commands, and a
timer interrupt does not enter fs.c), so touch, mkdir, rm and the formats are one
step each.  `write` is split: `WriteOld` and `WriteNew` are `fs_open` with the
`fs_create` before it, `WriteBlock` is one turn of `fs_write`'s loop, `WriteEnd`
stores the inode and closes the file.  Between them `fd.copy` is the inode as
`fs_write` holds it in a local variable, ahead of the one on the disk; the
properties read it (`Current`), so they hold at every turn of the loop and not
only after the command.

`inode_bitmap`, `data_bitmap`, `free_inodes` and `free_blocks` are those in
memory; `inodes`, `dirent` and `bytes` are the disk.  A data block is kept in
two views, entries and bytes; the code clears a block when it hands it out, and
reads it only in the view of its owner.  Clearing is modelled where the code
clears, never where it does not: a block that is freed keeps its contents, and
`ImplementsFileMap` shows that they never come up in another file.

`Touch` and `Mkdir` are `Create`, or `CreateUndone` where `dir_add_entry` fails
and `fs_create` gives back what it took.  Modes are sets of bits: the permission
bit "write" is the type bit "directory", as in fs.h.  `Stored` is the name as
the directory keeps it, cut to 27 characters, while `path_lookup` compares with
the name as typed.  After `Rdformat` the root inode is zero and no directory;
`Mounted` excludes that state from the consistency properties, which have
nothing to compare there, but not from the refinement or the counters.

`FileMap` lets a write lay any prefix of its text over the old contents, because
the disk or the file's ten blocks may be exhausted on the way; the code reports
how much was written.

### 2.5 Keyboard, Shell and CommandLine

`Keyboard` is the path of a key from the scancode to the reader.
`keyboard_handler` is one step per scancode: an interrupt handler is not
interrupted by the reader.  The reader is four steps, `Test`, `Halt`, `Read` and
`Advance` (`keyboard_has_input`, `hlt`, and the two halves of
`keyboard_getchar`), with interrupts between any two.  `Tick` is the timer
interrupt as far as it ends the `hlt`.  The two shift keys are one, because the
handler has one flag for both.

`Shell` takes keys in any order (what `Keyboard` delivers) and edits
`command_buffer` cell by cell as the code does.  The array is not cleared
between lines nor terminated while it is edited, and its first contents are
those of the stack; since `str_starts_with` reads it up to a NUL, Tab may match
against characters behind the line.  `Init` therefore leaves the contents open,
and stale cells are kept.  `CommandLine` is the reference: sequences with
insertion and removal at the cursor, the last `MAX_HISTORY` commands without
repetitions, and a completion by what the line *and whatever lies behind it*
begin (`behind`, of which nothing is promised).  With one match Tab gives that
command and a space, or leaves the line if the two do not fit; with several the
new line extends the old one and begins at least two of the matches; with none,
and only then, it drops the line.  Two of these are less than the documentation
says (section 3).

### 2.6 Vga, Console and Screen

`Vga` has the screen driver's calls as functions of a screen: cursor and cells.
`Console` draws with them what `Shell` does to the line, key by key: the prompt,
the redraw at the remembered `start_row` and `start_col`, the list of matches
after Tab, and after Enter the command's output.  Command outputs are sequences
of characters given by constants; `echo`, `clear`, the empty line and the
unknown command are as in `shell_process_command`.  The other commands' effects
are in the other modules.

`LineShown` is stated while `drawn`: from a prompt with blanks behind it, until
the line reaches the right edge or Tab is pressed.  Outside of that the code
draws something else, which the model follows but no property describes: after
Tab, `start_col` is the column *behind* the completed line, so the next redraw
shows the line twice; a line that wraps in the last row scrolls the screen and
leaves `start_row` one too large; a Tab without a match empties the line and
leaves its characters on the screen.

`Screen` is the same driver where it is hard: the shell draws with interrupts
enabled and without a lock.  The kernel is compiled without optimisation, so
each statement loads and stores the variables it names; each load, store and
`outb` of the shell is a step, and between any two a process may draw.  A
process's own call is not interrupted (1.1), so each of its characters is one
step with `CursorAfter`.  Processes may draw in the row behind the screen when
they come between the shell's increment and its test; that is unused VGA memory.
`overtaken` is history: a process has drawn since the shell read the cursor to
send it.  Strings are any sequence of printing characters and newlines; no
caller prints a tab, a backspace or a carriage return.

## 3. Runs

Passing runs:

| run | bounds | what it shows |
|---|---|---|
| `process_safety` | 3 slots, 3 PIDs, priorities 0..2, ring of 1, slice of 2 ticks, 5-tick counter | all safety and action properties of the scheduler; 1.5 million states |
| `process_live` | 3 slots, 2 PIDs, priority 0 for PID 0 and 1 or 2 for processes, 3-tick counter | the shell resumes, timed sleepers wake, READY processes above PID 0 run, also below a third; 56,000 states |
| `ipc` | 2 processes, rings of 2, messages of 0..3 bytes with a limit of 2, buffers of 0..2 | the rings implement `Fifo` |
| `paging` | 9 pages, 2 the kernel's, 2-byte pages, runs up to 3, directories of 3 entries, 2 user processes touching 3 pages | exact counter, first fit, kernel mapped everywhere, isolation, every page accounted for; 600,000 states |
| `heap` | 48 bytes, header 4, minimum 8, up to 5 pointers | tiling, fit, coalescing |
| `fs` | 4 blocks of 2 bytes, 5 inodes of which 4 in the table, 2 blocks per inode, 1 entry per block, 3 names, one format | bitmaps, directory, inodes and counters agree; the disk implements `FileMap` |
| `keyboard` | ring of 4, one printing key, one special key | queue order, the oldest key is read, no key waits for another |
| `screen` | 3 rows of 3 cells, 2 colours, bytes of 4 values | cursor, writes, colour and the cursor shown, under any interleaving |
| `console` | 2 rows of 4 cells, a prompt of 1, buffer of 4 cells, 2 letters and the space, 5 commands, history of 2 | the prompt implements `CommandLine`; the line in the buffer is the line in sight |

Why the bounds are enough: three slots are the fewest with two processes beside
PID 0, so that one can be ahead of and one behind the current slot (the case
`NextSlot` distinguishes), and the fewest in which the table is full while an
entry is freed and reused; the third PID makes the reuse happen.  Three
priorities separate below, equal and above; in the run for liveness a process can
stand between PID 0 and another, which is the one that could starve.  The tick counter wraps inside the
behaviours.  A ring of two wraps, fills and drains; messages are shorter than,
equal to and longer than the buffers, empty, and above the limit.  Nine pages
hold a run of three in the middle, at the end, and split by single pages; pages
of two bytes give unaligned addresses.  One user process takes five of the seven
free pages (stack, directory, code and two tables), so a second one, memtest and
page faults run out of memory at every step; code and stack lie under different
directory entries, and the pages touched lie in the code region, in a table that
exists and in one that does not.  The heap's 48 bytes hold up to six
blocks and every case of the split (exact, rest below the minimum, rest above).
On the file system's four blocks the directory has to grow for its second entry,
the disk fills up inside a command and between two turns of a write, a text of
five bytes is longer than a file can be, and a directory that is full meets a
disk that is not and the other way round.  One more inode than the table holds
stands for the 128 the bitmap has too many.  With the code's constants the
directory holds 160 entries (16 in each of 10 blocks; the block 0 of the format
is replaced at the first use), so inode numbers stay at or below 161, and the
table holds 384 (6 of 80 bytes per block in 64 blocks); `FsAssumption` states
that relation.  The key ring of four fills and wraps with
the reader between its two steps.  A line of up to three characters is edited at
its start, middle and end; the five commands give no match, one, one that does
not fit with its space, several beside each other with a third that shares less,
and two that are apart in the list.  On two rows every prompt but the first is
in the last row, and a line can reach the right edge.  Three rows and columns
have a first, a middle and a last; positions on them take two bytes of four
values.  `MaxPid`, `CallBudget`, `MaxRun`, `MaxLive` and `MaxFormats` bound what is unbounded in
the code.

Symmetry is used in `fs`, between the two names that are stored as typed (the
code compares names for equality and nothing else), and in `paging`, between
the two processes, which the model never orders.  Elsewhere slots, pages and
addresses are ordered and PIDs are numbers.

Two runs use a VIEW.  In `paging` it leaves out what a free page contains: the
code clears a page before it reads it as a directory or a table.  In `console`
it leaves out rows above the line's, which are never read again, and, once the
line is out of sight, which character a cell holds.  Two use a CONSTRAINT:
`paging` does not continue behind a tear (2.3), where only the allocator's own
properties are promised, and `console` follows a screen out of sight only while
the history is not full.  `paging` and `ipc` may stop: a page fault halts the
machine, and all processes may be gone; the other runs check for deadlock.

Runs that find what the documentation says contradicted by the code:

| run | claim | what happens |
|---|---|---|
| `process_kill_race` | kill leads to TERMINATED, then resources are freed (RELEASE_v0.8.0) | a tick in the middle of `process_kill` runs the victim on freed memory |
| `fs_cat` | `cat hello.txt` prints the file (RELEASE_v0.9.0) | every file's mode carries the directory's bit, and `cat` refuses it as a directory |
| `heap_overlap` | heap at 2 MB to 6 MB, free memory behind it (README.md) | the page allocator hands out the heap's pages |

### Where the code departs from its documentation

More statements of the documentation do not hold and are visible in what the
passing runs and the proofs show.

* "Verified resource cleanup (no memory leaks)" (.github/RELEASE_v0.8.0.md:523).
  `Exit` ends in the scheduler, so stack, queue, PCB and table entry of a process
  that exits stay (process.c:353) until the shell kills the dead process;
  `CountMatches` and `MemoryOwned` count them.
* "Preemptive Multitasking" (README.md:58).  `InServiceOutsideShell`, proved, says
  that the timer interrupt stays unacknowledged while any process but PID 0
  executes, so none of them is ever preempted.
* "Sleep range: 1ms - 4,294,967,295ms" (.github/RELEASE_v0.8.0.md:120).
  `TimedSleeperWakes` is about sleepers with a wake-up time; when ticks + ms is
  exactly 2^32 the wake-up time is 0, which means none, and nobody wakes the
  sleeper.
* "If same priority, use round-robin (favor process with lower index)" (the comment
  at process.c:599), "Same-priority processes share CPU via round-robin" and "No
  Starvation" (.github/RELEASE_v0.8.0.md:26-27, and :48).
  `ScanAgrees` fixes what the loop does: of the READY processes of the highest
  priority it takes the *last* one behind the current entry, and the first only
  if there is none behind it.  Of three equals in the entries 1, 2 and 3 that
  only yield, 3 follows 1, 1 follows 3, and 2 does not run.  A process that
  sleeps or exits, as all of the tree do, makes room; `ReadyRuns` holds because
  of that and not because of the tie-break.
* "Receive message (blocking if no messages)" (include/process.h:111).
  `process_receive_message` returns -3 on an empty queue (process.c:520), and
  `Fifo` has that refusal; `ipc_consumer` tests `process_has_messages` first.
* "No matches - do nothing" (the comment at shell.c:1796).  The function returns
  length 0, so the line is dropped (`Drop` of `CommandLine`).
* Completion to the longest common prefix (.github/RELEASE_v0.5.0.md:44).
  `common_len` is set by the second match only, and compares it with the command
  before it in the list: with a third match that shares less, the line becomes a
  prefix of two matches and not of all (`m` gives `mem`, although `mkdir` matches
  too).
* "isolated page directory", "Proper cleanup of page directories on process
  termination" (RELEASE_NOTES_v0.9.md:17-21).  Neither holds when the shell loses
  the CPU at one of the two places of 2.3; memory is lost on the failing paths
  `lost` records.

### Fairness

`FairSpec` assumes weak fairness of `Tick` (the PIT interrupts for ever; a tick
that is deliverable is delivered) and of `Block` (a process that has the CPU
executes on; every process function of kernel.c reaches a sleep or its exit
after a few calls, `CallBudget`).  Nothing is assumed of the shell: its user may
never type again.  A process that never blocks starves the shell, which the
fairness excludes because no process of the tree does that.  In `Keyboard`, weak
fairness of `Tick` and of the reader's steps: the shell always gets the CPU back
(`ShellResumes`), and nobody has to press a key.

## 4. Proofs

All proofs are checked by tlapm to the last leaf, with no assumption but those
the modules state about their constants, which the passing runs evaluate and the
code's values satisfy:

* `ProcessAssumption`: at least two slots, a positive ring size, slice and
  counter modulus; the default priority and the shell's priorities in range.
* `PmmAssumption`: at least one kernel page, and runs no longer than memory.
* `PagingAssumption`: where things lie.  The kernel's tables are kernel pages
  and cover all of memory, user code begins behind them, the stack behind the
  code, both in reach of a directory; page faults are between the two.
* `IpcAssumption`: positive sizes, messages are sequences of bytes.
* `KeyboardAssumption`: a ring of two or more places; the two layouts give a
  character for each printing key.
* `VgaAssumption`, `ScreenAssumption`: a screen of at least one row of two
  columns; a default colour.
* `HeapAssumption`: a minimum block larger than its header, a heap smaller than
  2^32, and requests that leave room below 2^32 for the header and the rounding
  (the largest request in the tree is the RAM disk's 1 MB).
* `ShellAssumption`, `ConsoleAssumption`: commands are different strings of
  printable characters shorter than the buffer, NUL and newline are no printable
  characters, and the prompt and the outputs are strings; the stack's garbage
  is characters or NUL.
* `FsAssumption`: positive sizes, texts are sequences of numbers, and the inode
  table has room for the root, as many files as the directory has entries, and
  one more (384 against 162 with the code's constants); a smaller table than
  the bitmap is allowed.

**Process.**  `Invariance` proves `Spec => []IInv`.  The safety properties are
not inductive by themselves: `InServiceOutsideShell` needs `Contexts` (whenever
another process runs, PID 0 is suspended inside its timer interrupt, and it is
the only context that is, so switching back to it, and only that, sends the
EOI); `OneRunning` needs `IdleStays` (the fallback to PID 0 finds it runnable);
`MemoryOwned` and `CountMatches` need `KillProgress` (the entry process_kill
works on is in use, is not PID 0, and has lost exactly what kill has passed).
The argument: `KernelLemmas` gives minimum and maximum; `NextSlotIsTop` shows that
the slot selected is READY and of the highest priority (or PID 0);
`ScheduleStep` describes one switch; `SwitchPreserves`, `TickPreserves` and one
lemma per other action show that the action preserves `IInv`; `NextPreserves`
collects them.  From `IInv` follow `TypeCorrect`, `SingleRunner`,
`EoiOnlyInShell`, `UniquePids`, `ExactCount`, `NoStaleWakeTime`,
`KillFreesOnce`, and the action properties `DeadStayDead` and `HighestFirst`.

**The two loops.**  `Scan` and Pmm's `Search` are recursive functions, written
as the C loops run, and compared with a declarative definition by `ScanIsExact`
and `SearchIsExact`.  The library's induction theorems cannot be used, so the
proofs go another way round.  A closed form (`SeenTo`: what the scan has selected
after k entries; `FirstFrom`: the first free run from page i on) is shown to
satisfy the loop's equation (`SeenStep`, `FirstFromLoops`), hence such a function
exists; and two functions that satisfy it are equal, because the first entry (for
the search, the last page) at which they differed would depend only on one where
they agree (`ScanIsSeen`, `LoopIsUnique`).  For the scan the case that matters is
an entry as good as the best so far: it wins exactly when it is behind the
current slot, which makes it the last of the best; if it does not win, none of
the best is behind the current slot and the first stays selected.  `ScanSelects`
says this of any table, so `ScanIsExact` has it for every one of `Queued`.  For the search
it is the skip: a run that begins at or before a taken page of the run just tried
contains that page (`SkipIsSafe`).

**Pmm.**  `PmmInvariance` proves type correctness, `CounterIsExact` and
`Accounted` together: each is inductive only with the others (a free decrements
the counter rightly because the page is in the bitmap; the page is a client's
because it is taken and not the kernel's).  `RunSize` gives the cardinality of a
run, `FirstFitIsFree` that the run found is free.  The theorems are about
`Spec` of `Pmm`, any client; `PagesAccounted` says the same of the clients that
are in the tree.

**Paging.** `PagingInvariance` proves `PagingSpec => []PagingInv`. The invariant
has two parts. The allocator's bookkeeping (`PmmInv`) and the types
(`PagingTypeOK`) hold always, torn or not: a page that is mapped in the wrong
directory is still a page, and whatever a later kill frees, the bitmap and the
counter follow (`PagesAccounted`).  The rest, `Sound`, holds until the shell
loses the CPU at one of the two places of 2.3, and is what the three properties
need and do not say: `KernelPart` (the kernel's own directory and tables are
never written, since user addresses lie behind them), `Proper` (a process's
directory begins with the kernel's entries, and the places still to be freed
hold different pages), `Control` (whose directory is loaded, that no part of it
has been given back, and which is `current_directory`, by where the shell is),
`SetUp` (what the call in progress still has to map is not mapped yet),
`StageFits`, and the ledger `Books`: the pages held are the disjoint union of
what each process owns, what the call holds in local variables, what other
clients have and what failing paths forgot.

The kill needs the distinctness in `Proper`.  `paging_free_directory` reads the
tables of the victim while they are still its own, and each entry before the
page it stands in is given back, because a table comes behind its entries and
the directory behind its tables (`PlaceOrder`, `RestNext`); if one page stood in
two places, the second turn would free a page that somebody else may have by
then, or read entries from it.  With it, each turn takes exactly one page from
what the process owns (`FreeNextSound`), what others write meanwhile is not among
the places left (`PlacesKept`), and nothing is left when the entry is cleared
(`KillClearsSound`).

The proof keeps the two parts apart: a lemma `...Typed` and a lemma `...Sound`
per action.  The ledger has lemmas of its own for the moves that occur
(`LedgerTake`, `LedgerOwn`, `LedgerForget`, `LedgerReturn`, `LedgerClient`), and
`MappingOwns` says that `paging_map_page` adds to what the process owns the frame
and, when it makes one, the table, each in one place, and nothing else.  From
`PagingInv` follow `ProcessesIsolated`, `EveryPageHasAnOwner` and
`KernelStaysMapped`.

**Ipc.**  `RingShapeInvariance` proves the shape of the rings;
`QueuesImplementFifo` proves the refinement, `Spec => Mailbox!Spec`.  The lemmas
that carry it are `EnqueueAppends` and `DequeueDropsFirst`: on a ring in shape
the code's assignments to entries, tail or head, and count append to, or remove
the head of, the sequence the mapping reads, wherever the ring wraps.  Each
action then maps to an action of `Fifo` or to a stutter, the refusals with the
reasons `Fifo` demands.

**Keyboard.**  `KeyboardInv` says that between `Test` and `Advance` the ring is
not empty and that what was read is still where it was read: the handler writes
only behind the last key, and refuses when that would close the ring.  From it
follow `ReaderTakesOldest` and the action property `RingIsQueue`.

**Fs.** `FsInvariance` proves `Spec => []FsInv`. Besides the types (`FsTypes`):
`Reserved` holds with or without a mounted file system: the counters are exact,
and no more inodes are marked than the directory has entries, plus the root;
first fit therefore stays inside the inode table (`FirstInTable`). `Contiguous`
says that an inode's blocks have no holes, so that the loops that end at the
first 0 see all of them; `Writing` says that the file being written is linked
and that its copy of the inode, newer than the table's until the write ends, has
a block for every position already written, so the next block goes behind the
last. `Consistent` is the ledger of a mounted disk (`Tidy`): each linked inode
has one entry, each block at most one place, and the bitmaps are what is linked
and held. Like paging's, it is stated of the bitmaps, the blocks of each inode
and the entries as values, so that the lemmas `TidyGrow`, `TidyNewFile`,
`TidyDrop` and `TidySame` describe the moves and one lemma per command
(`CreateStep`, `WriteNewStep`, `WriteOldStep`, `UndoneStep`, `WriteBlockStep`,
`WriteEndStep`, `RmStep`, `FsformatStep`, `RdformatStep`) says which move it
makes. `OneLinkMore` relates a new entry, which may come with a new block of the
directory, to the links. From `FsInv` follow `NothingLeaks`, `NoBlockShared`,
`CountsRight`, `TableNotOverrun` and `FsTypeCorrect`.

`WitFSImplementsFileMap` proves the refinement on top of it.  `MapInv` adds to
`FsInv` that no two entries with a name users can type have the same one
(`Apart`), that a file has a block for every byte its size counts (`Covered`: a
new size never brings a byte into sight that no block holds), and that what lies
before `fs_write`'s position is the text (`Laid`).  TLC checked these three as
invariants of the `fs` instance before they were proved.  The contents are
treated as a function of the entries and of what each inode reads as
(`ViewOf`); `ViewAdd`, `ViewDrop`, `ViewWrite` and `ViewHidden` say what a move
of these does to the map, one lemma `...Shown` per command says which move it
makes, and `TurnOverlays` that one turn of `fs_write`'s loop lays its part of
the text behind the earlier ones and leaves all else as it was.  What a freed
block still holds does not come up, because the bytes of a file are those its
size counts.

The theorem has a hypothesis, `NamesKept`: no name users type is what
`dir_add_entry` stores of a longer one.  The `fs` instance satisfies it, with a
long name whose cut form nobody types.  Without it the promise fails: if the cut
form is itself typed, creating both names gives two entries of the same name,
and removing one of them brings the other's contents into sight; TLC refutes
`ImplementsFileMap` in seven steps for such a `Stored`.  The consistency theorems
above do not need the hypothesis.

**Screen.**  `CursorOnScreen` and `ColorRestored` speak of the moments between
calls and say nothing inside one.  `DriverInv` does: `CursorNear` says that the
column is one too large only before the test for a wrap, the row only between
the increment and the end of the test for a scroll, and never both, so that the
shell never *loads* a coordinate off the screen into its locals
(`ShellKeepsLocals`) and the position it writes to is on it; `ColorKept` says
that another colour is on only inside a call whose saved colour is the default.
A process that draws in the middle finds the cursor at most one too far, so it
writes no further than the row behind the screen (`PositionBound`) and leaves the
cursor on it (`CursorAfterOnScreen`, `ProcessStepKeeps`).  `CursorIsShown` adds
`SentInv`: what the registers hold at each `outb`, as long as no process has
drawn since the cursor was read.

**Heap.**  `HeapInvariance` proves `Spec => []HeapInv`: the list `Tiles` the
heap, it is `Merged`, and the allocated blocks `Serve` the pointers held, each
pointer by a block large enough and no block without a pointer.  The three go
together: `kfree` finds the pointer's block because it is served, and marking it
moves no other because the tiling makes addresses increase (`TilesInOrder`, by
the first block for which they would not).  The merging pass is a recursive
function over the list; `CoalesceWalks` shows that such a function exists and
`CoalesceKeeps` what it computes, both by looking at the first step that would
fail: the blocks passed so far tile what lies before the next one, are merged,
and take the same memory.  The step itself is `AbsorbStep`: the next block is
absorbed or appended.  `TakePart` and `TakeWhole` are the two cases of
`kmalloc`'s split, `TotalHolds` says that its arithmetic does not wrap under the
assumption on sizes, and `KreallocKeeps` has the case that matters: the block
taken for the copy is not the one released.

**The prompt.**  `ShellInvariance` proves `Spec => []ShellInv`: the types, and
that no cell of the line is a terminator (`LineOfChars`).  The second is what
Tab needs.  It reads the buffer up to the first NUL, which therefore lies at
some n at or behind the end of the line; the cells from the line's end up to n
are what `behind` stands for, and the matches are the commands that begin with
those n characters (`MatchesAre`).  With several matches the code compares the
second one with the command *before it in the list*, which need not be a match;
if it is none, the two differ within the first n characters, so what they have in
common is shorter than n and common to the first two matches all the same
(`CommonIsShared`).  So a completion never leaves a cell in the line that is no
character, nor a line that no two matches share.  The refinement,
`PromptImplementsCommandLine`, goes action by action; `Inserted` and `Removed`
of `KernelLemmas` turn the moves inside the array into insertions and removals
in the sequence.  `ConsoleIsShell` carries both over to `Console`
(`ConsoleLineFits`, `ConsoleImplementsCommandLine`).

**The line in sight.**  `ConsoleInvariance` proves `ConsoleSpec =>
[]ConsoleInv`: the screen is a screen, the line starts on it, while `drawn` the
line ends before the right edge, and `LineShown`.  `screen_write` is a recursive
function like the heap's pass; `WalkExists` and `Upward` of `KernelLemmas`, the
general form of the argument used there, give its steps (`WriteWalks`).
`WrittenInRow` says that a string without newlines that ends before the edge
lands in its row and nowhere else, `RedrawnShows` that a redraw leaves the line
and blanks: the characters of the old line are overwritten because the new one,
with the blank behind it after a removal, is at least as long.
`BlankAfterClear` is for the first prompt: on a cleared screen nothing is ever
written from the cursor on, scrolling included.

Only model-checked: liveness (`ShellResumes`, `TimedSleeperWakes`,
`ReadyRuns`, `KeyIsRead`), since fairness is outside the prover's reach.  Every
invariant of a passing run, and every refinement, has a theorem.

## 5. Not modelled

Boot code, GDT, IDT and TSS set-up (written once, before interrupts are on);
most of the string helpers and the conversions of numbers (pure, and without
state).  CPU exceptions other than page faults halt the machine and are left
out.

Of paging and user mode: `paging_unmap_page` and `paging_clone_directory`, which
have no caller; protection bits, segments and the entry into ring 3; the TLB.
Of the screen: the characters tab, backspace and carriage return; the cells'
colours; in `Console`, other processes that draw while a line is edited.

Of the file system: the root itself as the target of `rm` and `write`; the RAM
disk's self-test command, which overwrites blocks that hold inodes; an
exhausted heap in the middle of a call; `ls` and the statistics, which only
read.  No caller keeps a descriptor open across commands, so the table of open
files is one descriptor.

## 6. Plan

1. The demonstration programs over `Process` and `Ipc`: the producer that takes
   the consumer's PID to be its own plus one.
2. The file system's remaining paths: the root as a target, the heap's failures,
   the RAM disk's self-test.
