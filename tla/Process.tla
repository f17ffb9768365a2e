------------------------------- MODULE Process -------------------------------
(***************************************************************************)
(* Processes, the priority scheduler and the timer interrupt of Wittche OS *)
(* (kernel/process.c, kernel/timer.c, kernel/isr.c, kernel/switch.asm).    *)
(*                                                                         *)
(* Two kinds of context exist.  Slot 0 of the process table is PID 0,      *)
(* "idle": its saved context is the boot context, so it is the shell that  *)
(* runs as PID 0.  Every other slot holds a process made by the shell.     *)
(* Interrupts stay enabled in the kernel, so a timer interrupt may arrive  *)
(* between any two steps of the shell; process_create and process_kill are *)
(* therefore split where another context could see the difference.         *)
(*                                                                         *)
(* A PCB is identified with its slot (a PCB never moves in the table).  A  *)
(* NULL table entry is state "FREE".  Names, registers and segment values  *)
(* are left out; of a saved context only where it resumes is kept (ctx).   *)
(***************************************************************************)
EXTENDS Integers, FiniteSets, FiniteSetsExt

CONSTANTS
  MAX_PROCESSES,       \* slots of process_table (16)
  MESSAGE_QUEUE_SIZE,  \* messages a process can hold (8)
  SLICE,               \* ticks between two scheduling points (10)
  TICK_MOD,            \* modulus of the uint32 tick counter (2^32)
  MAX_PRIO,            \* largest priority (255)
  DEFAULT_PRIO,        \* priority process_create gives (5)
  PrioArgs,            \* priorities the shell's commands give
  SleepArgs,           \* millisecond arguments processes sleep for
  MaxPid,              \* bound: PIDs handed out in one behaviour
  CallBudget,          \* bound: calls a process makes without blocking
  ManualWake           \* whether processes use process_wake

ASSUME ProcessAssumption ==
  /\ MAX_PROCESSES \in Nat /\ MAX_PROCESSES > 1
  /\ MESSAGE_QUEUE_SIZE \in Nat \ {0}
  /\ SLICE \in Nat \ {0}
  /\ TICK_MOD \in Nat \ {0}
  /\ MAX_PRIO \in Nat
  /\ DEFAULT_PRIO \in 0..MAX_PRIO
  /\ PrioArgs \subseteq 0..MAX_PRIO
  /\ SleepArgs \subseteq Nat
  /\ MaxPid \in Nat \ {0}
  /\ CallBudget \in Nat
  /\ ManualWake \in BOOLEAN

VARIABLES
  state,       \* state[i]: "FREE" for a NULL entry, else the PCB's state
  pid,         \* pid[i]
  prio,        \* priority[i]
  wake,        \* wake_time[i]
  qcount,      \* msg_queue[i]->count
  mem,         \* what process_kill has not yet freed of slot i
  ctx,         \* where slot i resumes: its entry, a call, or the timer IRQ
  current,     \* slot of current_process
  next_pid,
  count,       \* process_count_val
  ticks,       \* system_ticks
  in_service,  \* IRQ0 is in service in the PIC: no EOI since it was raised
  shell,       \* where the shell is inside process_create or process_kill
  calls        \* calls[i]: non-blocking calls since slot i last blocked

pcbVars == <<pid, prio, qcount, mem>>
vars == <<state, pid, prio, wake, qcount, mem, ctx, current, next_pid, count,
          ticks, in_service, shell, calls>>

Slots == 0..(MAX_PROCESSES - 1)
Idle == 0
Used == {i \in Slots : state[i] # "FREE"}
Whole == {"stack", "queue", "pcb"}
AtPrompt == [pc |-> "prompt", pid |-> 0, slot |-> 0, prio |-> 0]

(* process_init, then the boot code goes on as PID 0: its saved context is *)
(* written when it is first switched away from, so the idle loop it was    *)
(* prepared to enter never runs.  What PID 0 owns is never freed.          *)
(* process_init leaves PID 0's wake_time and msg_queue unset: the one is   *)
(* read only of a BLOCKED process, which PID 0 never is (0 stands for      *)
(* whatever it holds); for the other see Send.                             *)
Init ==
  /\ state = [i \in Slots |-> IF i = Idle THEN "READY" ELSE "FREE"]
  /\ pid = [i \in Slots |-> 0]
  /\ prio = [i \in Slots |-> 0]
  /\ wake = [i \in Slots |-> 0]
  /\ qcount = [i \in Slots |-> 0]
  /\ mem = [i \in Slots |-> IF i = Idle THEN Whole ELSE {}]
  /\ ctx = [i \in Slots |-> "entry"]
  /\ current = Idle
  /\ next_pid = 1
  /\ count = 1
  /\ ticks = 0
  /\ in_service = FALSE
  /\ shell = AtPrompt
  /\ calls = [i \in Slots |-> 0]

-----------------------------------------------------------------------------
(* The scheduler.                                                          *)

Ready_SkipsLastEntry(st) == {i \in 0..(MAX_PROCESSES - 2) : st[i] = "READY"}
Ready(st) == {i \in Slots : st[i] = "READY"}
Top_IgnoresPriority(st) == Ready(st)
Top(st) ==
  LET R == Ready(st)
  IN  {i \in R : \A r \in R : prio[r] <= prio[i]}

NextSlot_FirstWins(st, cur) ==
  LET top == Top(st)
  IN  IF top = {} THEN Idle ELSE Min(top)

(* What the scan of process_schedule selects: among the READY slots of the *)
(* highest priority, the last one if one of them lies behind the current   *)
(* slot, else the first; the idle process if nothing is READY.  So of      *)
(* three equals that yield in turn the middle one is passed over, which is *)
(* not the round-robin the comment in process.c and the release notes of   *)
(* v0.8.0 speak of.                                                        *)
NextSlot(st, cur) ==
  LET top == Top(st)
  IN  IF top = {} THEN Idle
      ELSE IF \E i \in top : i > cur THEN Max(top) ELSE Min(top)

(* The same scan, one table entry at a time, as the C loop runs it.        *)
Scan(st, cur) ==
  LET seen[k \in 0..MAX_PROCESSES] ==
        IF k = 0 THEN [found |-> FALSE, slot |-> Idle, best |-> 0]
        ELSE LET was == seen[k - 1]
                 i == k - 1
             IN  IF st[i] # "READY" THEN was
                 ELSE IF ~was.found \/ prio[i] > was.best
                   THEN [found |-> TRUE, slot |-> i, best |-> prio[i]]
                 ELSE IF prio[i] = was.best /\ i > cur
                   THEN [was EXCEPT !.slot = i]
                 ELSE was
  IN  seen[MAX_PROCESSES].slot

Requeue_Dropped(st) == st
Requeue(st) == IF st[current] = "RUNNING" THEN [st EXCEPT ![current] = "READY"] ELSE st

ServiceAfter_EarlyEoi(n, caller) == FALSE

(* IRQ0 after process_schedule, called from the timer handler ("irq") or   *)
(* from a process ("call"), has selected slot n.  The handler that is not  *)
(* switched away returns to irq_handler, which sends the EOI; so does the  *)
(* context n if it is resumed inside its own timer interrupt.              *)
ServiceAfter(n, caller) ==
  IF n = current THEN caller # "irq" /\ in_service
  ELSE ctx[n] # "irq" /\ (caller = "irq" \/ in_service)

(* process_schedule: st is the table's state when it is called.  The guard *)
(* process_count_val == 0 is never met: the idle process is never removed. *)
Schedule(st, caller) ==
  LET queued == Requeue(st)
      n == NextSlot(queued, current)
  IN  /\ state' = [queued EXCEPT ![n] = "RUNNING"]
      /\ current' = n
      /\ ctx' = IF n = current THEN ctx ELSE [ctx EXCEPT ![current] = caller]
      /\ in_service' = ServiceAfter(n, caller)

-----------------------------------------------------------------------------
(* The timer interrupt.                                                    *)

Due_OffByOne(now) == {i \in Slots : state[i] = "BLOCKED" /\ wake[i] > 0 /\ now > wake[i]}
Due(now) == {i \in Slots : state[i] = "BLOCKED" /\ wake[i] > 0 /\ now >= wake[i]}

(* irq_handler for IRQ0: the PIC raises it only while IRQ0 is not already  *)
(* in service.  timer_handler counts the tick, wakes the sleepers that are *)
(* due and, every SLICE ticks, calls the scheduler.                        *)
Tick ==
  /\ ~in_service
  /\ LET now == (ticks + 1) % TICK_MOD
         awake == [i \in Slots |-> IF i \in Due(now) THEN "READY" ELSE state[i]]
     IN  /\ ticks' = now
         /\ wake' = [i \in Slots |-> IF i \in Due(now) THEN 0 ELSE wake[i]]
         /\ IF now % SLICE = 0
              THEN Schedule(awake, "irq")
              ELSE state' = awake /\ UNCHANGED <<current, ctx, in_service>>
  /\ UNCHANGED <<pcbVars, next_pid, count, shell, calls>>

-----------------------------------------------------------------------------
(* Calls of the running process (kernel API or INT 0x80).  None of them is *)
(* made by the shell: process_sleep and process_exit return at once for    *)
(* PID 0, and the shell never yields, sends or receives.                   *)

Running == current # Idle

Sleep_StaysRunnable(ms) ==
  /\ Running
  /\ wake' = [wake EXCEPT ![current] = (ticks + ms) % TICK_MOD]
  /\ calls' = [calls EXCEPT ![current] = 0]
  /\ Schedule(state, "call")
  /\ UNCHANGED <<pcbVars, next_pid, count, ticks, shell>>

Sleep(ms) ==
  /\ Running
  /\ wake' = [wake EXCEPT ![current] = (ticks + ms) % TICK_MOD]
  /\ calls' = [calls EXCEPT ![current] = 0]
  /\ Schedule([state EXCEPT ![current] = "BLOCKED"], "call")
  /\ UNCHANGED <<pcbVars, next_pid, count, ticks, shell>>

Exit_CountsDown ==
  /\ Running
  /\ count' = count - 1
  /\ Schedule([state EXCEPT ![current] = "TERMINATED"], "call")
  /\ UNCHANGED <<pcbVars, wake, next_pid, ticks, shell, calls>>

(* process_exit and its process_kill of the caller: the switch in the      *)
(* middle never returns, so the code behind it that frees the stack, the   *)
(* queue, the PCB and the table entry is not reached.                      *)
Exit ==
  /\ Running
  /\ Schedule([state EXCEPT ![current] = "TERMINATED"], "call")
  /\ UNCHANGED <<pcbVars, wake, next_pid, count, ticks, shell, calls>>

Call ==
  /\ Running
  /\ calls[current] < CallBudget
  /\ calls' = [calls EXCEPT ![current] = @ + 1]

Yield ==
  /\ Call
  /\ Schedule(state, "call")
  /\ UNCHANGED <<pcbVars, wake, next_pid, count, ticks, shell>>

QueueFull_OffByOne(t) == qcount[t] > MESSAGE_QUEUE_SIZE
QueueFull(t) == qcount[t] >= MESSAGE_QUEUE_SIZE

Waits_EvenIfTimed(t) == state[t] = "BLOCKED"
Waits_EvenIfDead(t) == state[t] \notin {"READY", "RUNNING"} /\ wake[t] = 0
Waits(t) == state[t] = "BLOCKED" /\ wake[t] = 0

(* process_send_message to slot t, found by its PID.  A full queue refuses *)
(* the message; a delivered one wakes a target that is BLOCKED without a   *)
(* wake-up time.  PID 0 has no queue, and the message is refused, if its   *)
(* PCB lies in memory that held 0 at msg_queue; a stray pointer in its     *)
(* place would be written through, which is not modelled.                  *)
Send(t) ==
  /\ Call
  /\ t \in Used
  /\ IF t = Idle \/ QueueFull(t)
       THEN UNCHANGED <<qcount, state>>
       ELSE /\ qcount' = [qcount EXCEPT ![t] = @ + 1]
            /\ state' = IF Waits(t) THEN [state EXCEPT ![t] = "READY"] ELSE state
  /\ UNCHANGED <<pid, prio, wake, mem, ctx, current, next_pid, count, ticks,
                 in_service, shell>>

(* process_receive_message: an empty queue returns -3 at once (process.h   *)
(* announces that the call blocks; it does not).                           *)
Receive ==
  /\ Call
  /\ qcount' = [qcount EXCEPT ![current] = IF @ = 0 THEN 0 ELSE @ - 1]
  /\ UNCHANGED <<state, pid, prio, wake, mem, ctx, current, next_pid, count,
                 ticks, in_service, shell>>

(* process_wake: exported and documented, but without a caller in the      *)
(* tree; ManualWake says whether the processes of an instance use it.      *)
Wake(t) ==
  /\ ManualWake
  /\ Call
  /\ state[t] = "BLOCKED"
  /\ state' = [state EXCEPT ![t] = "READY"]
  /\ wake' = [wake EXCEPT ![t] = 0]
  /\ UNCHANGED <<pcbVars, ctx, current, next_pid, count, ticks, in_service, shell>>

Block == Exit \/ \E ms \in SleepArgs : Sleep(ms)

ProcessStep ==
  \/ Block
  \/ Yield
  \/ \E t \in Slots : Send(t) \/ Wake(t)
  \/ Receive

-----------------------------------------------------------------------------
(* Commands of the shell, which runs as PID 0.                             *)

ShellRuns == current = Idle
Clamp(p) == IF p > MAX_PRIO THEN MAX_PRIO ELSE p

NextPid_Missing == next_pid
NextPid == next_pid + 1

(* process_create: the PCB is private until it is put into the first NULL  *)
(* entry, and only the shell reads next_pid and the count, so what comes   *)
(* before the insertion and the count behind it are one step.  The         *)
(* priority is set in a second one, by process_create_with_priority.       *)
Create(p) ==
  /\ ShellRuns
  /\ shell = AtPrompt
  /\ next_pid <= MaxPid
  /\ count < MAX_PROCESSES
  /\ Slots \ Used # {}
  /\ LET i == Min(Slots \ Used)
     IN  /\ state' = [state EXCEPT ![i] = "READY"]
         /\ pid' = [pid EXCEPT ![i] = next_pid]
         /\ prio' = [prio EXCEPT ![i] = DEFAULT_PRIO]
         /\ wake' = [wake EXCEPT ![i] = 0]
         /\ qcount' = [qcount EXCEPT ![i] = 0]
         /\ mem' = [mem EXCEPT ![i] = Whole]
         /\ ctx' = [ctx EXCEPT ![i] = "entry"]
         /\ calls' = [calls EXCEPT ![i] = 0]
  /\ count' = count + 1
  /\ next_pid' = NextPid
  /\ shell' = [pc |-> "priority", pid |-> next_pid, slot |-> 0, prio |-> p]
  /\ UNCHANGED <<current, ticks, in_service>>

(* The heap is exhausted when process_create asks for the message queue:   *)
(* PCB and stack are given back, the PID is spent.  (When the PCB or the   *)
(* stack cannot be had, and when the table is full, nothing changes.)      *)
CreateFails ==
  /\ ShellRuns
  /\ shell = AtPrompt
  /\ next_pid <= MaxPid
  /\ count < MAX_PROCESSES
  /\ next_pid' = NextPid
  /\ UNCHANGED <<state, pcbVars, wake, ctx, current, count, ticks, in_service,
                 shell, calls>>

(* process_get(pid) and the clamped store; a slot that is gone is skipped. *)
SetPriority(q, p) ==
  prio' = [i \in Slots |-> IF i \in Used /\ pid[i] = q THEN Clamp(p) ELSE prio[i]]

CreatePriority ==
  /\ ShellRuns
  /\ shell.pc = "priority"
  /\ SetPriority(shell.pid, shell.prio)
  /\ shell' = AtPrompt
  /\ UNCHANGED <<state, pid, wake, qcount, mem, ctx, current, next_pid, count,
                 ticks, in_service, calls>>

(* The nice command: any PID of the table, PID 0 included.                 *)
Nice(i, p) ==
  /\ ShellRuns
  /\ shell = AtPrompt
  /\ i \in Used
  /\ SetPriority(pid[i], p)
  /\ UNCHANGED <<state, pid, wake, qcount, mem, ctx, current, next_pid, count,
                 ticks, in_service, shell, calls>>

(* The kill command on a process that is not running (the shell is): its   *)
(* stack is freed first, while its entry stays in the table.               *)
Kill(i) ==
  /\ ShellRuns
  /\ shell = AtPrompt
  /\ i \in Used \ {Idle}
  /\ mem' = [mem EXCEPT ![i] = @ \ {"stack"}]
  /\ shell' = [pc |-> "free_queue", pid |-> 0, slot |-> i, prio |-> 0]
  /\ UNCHANGED <<state, pid, prio, wake, qcount, ctx, current, next_pid, count,
                 ticks, in_service, calls>>

KillFreeQueue_Leaks ==
  /\ ShellRuns
  /\ shell.pc = "free_queue"
  /\ shell' = [shell EXCEPT !.pc = "free_pcb"]
  /\ UNCHANGED <<state, pid, prio, wake, qcount, mem, ctx, current, next_pid,
                 count, ticks, in_service, calls>>

KillFreeQueue ==
  /\ ShellRuns
  /\ shell.pc = "free_queue"
  /\ mem' = [mem EXCEPT ![shell.slot] = @ \ {"queue"}]
  /\ shell' = [shell EXCEPT !.pc = "free_pcb"]
  /\ UNCHANGED <<state, pid, prio, wake, qcount, ctx, current, next_pid, count,
                 ticks, in_service, calls>>

KillFreePcb ==
  /\ ShellRuns
  /\ shell.pc = "free_pcb"
  /\ mem' = [mem EXCEPT ![shell.slot] = @ \ {"pcb"}]
  /\ shell' = [shell EXCEPT !.pc = "clear_entry"]
  /\ UNCHANGED <<state, pid, prio, wake, qcount, ctx, current, next_pid, count,
                 ticks, in_service, calls>>

(* The table entry becomes NULL (its fields are reset to their rest value) *)
(* and the count drops.                                                    *)
KillClearEntry ==
  /\ ShellRuns
  /\ shell.pc = "clear_entry"
  /\ LET i == shell.slot
     IN  /\ state' = [state EXCEPT ![i] = "FREE"]
         /\ pid' = [pid EXCEPT ![i] = 0]
         /\ prio' = [prio EXCEPT ![i] = 0]
         /\ wake' = [wake EXCEPT ![i] = 0]
         /\ qcount' = [qcount EXCEPT ![i] = 0]
         /\ ctx' = [ctx EXCEPT ![i] = "entry"]
         /\ calls' = [calls EXCEPT ![i] = 0]
  /\ count' = count - 1
  /\ shell' = AtPrompt
  /\ UNCHANGED <<mem, current, next_pid, ticks, in_service>>

KillStep == KillFreeQueue \/ KillFreePcb \/ KillClearEntry

ShellStep ==
  \/ \E p \in PrioArgs : Create(p)
  \/ CreateFails
  \/ CreatePriority
  \/ \E i \in Slots, p \in PrioArgs : Nice(i, p)
  \/ \E i \in Slots : Kill(i)
  \/ KillStep

Next == Tick \/ ProcessStep \/ ShellStep

Spec == Init /\ [][Next]_vars

(* The PIT keeps interrupting; a scheduled process executes on and, its    *)
(* calls between two blocking ones being few, comes to sleep or exit.      *)
(* Nothing is assumed of the shell, nor of its user.                       *)
Fairness ==
  /\ WF_vars(Tick)
  /\ WF_vars(Block)

FairSpec == Spec /\ Fairness
-----------------------------------------------------------------------------
(* Properties.                                                             *)

TypeOK ==
  /\ state \in [Slots -> {"FREE", "READY", "RUNNING", "BLOCKED", "TERMINATED"}]
  /\ pid \in [Slots -> 0..MaxPid]
  /\ prio \in [Slots -> 0..MAX_PRIO]
  /\ wake \in [Slots -> 0..(TICK_MOD - 1)]
  /\ qcount \in [Slots -> 0..MESSAGE_QUEUE_SIZE]
  /\ mem \in [Slots -> SUBSET Whole]
  /\ ctx \in [Slots -> {"entry", "call", "irq"}]
  /\ current \in Slots
  /\ next_pid \in 1..(MaxPid + 1)
  /\ count \in 1..MAX_PROCESSES
  /\ ticks \in 0..(TICK_MOD - 1)
  /\ in_service \in BOOLEAN
  /\ shell \in [pc : {"prompt", "priority", "free_queue", "free_pcb", "clear_entry"},
                pid : 0..MaxPid, slot : Slots, prio : 0..MAX_PRIO]
  /\ calls \in [Slots -> 0..CallBudget]

(* No two processes are RUNNING, and the one that is, is current_process;  *)
(* current_process is never BLOCKED, TERMINATED or gone from the table     *)
(* while it executes.  (PID 0 is current but READY until the first switch.) *)
OneRunning ==
  /\ \A i \in Slots : state[i] = "RUNNING" => i = current
  /\ state[current] = "RUNNING" \/ (current = Idle /\ state[Idle] = "READY")

(* irq_handler sends the EOI after timer_handler returns, so IRQ0 stays in *)
(* service exactly while a context other than PID 0 executes: every switch *)
(* away from PID 0 leaves its interrupt unacknowledged, and every return   *)
(* to PID 0 acknowledges it.                                               *)
InServiceOutsideShell == in_service <=> current # Idle

(* The PIDs of the table are distinct and were all handed out, so          *)
(* process_get finds the process that was meant.                           *)
PidsUnique ==
  \A i, j \in Used : /\ pid[i] < next_pid
                     /\ i # j => pid[i] # pid[j]

(* process_count_val is the number of table entries in use, whatever       *)
(* interrupts process_create and process_kill.                             *)
CountMatches == count = Cardinality(Used)

(* wake_time is set only on a BLOCKED process: no path that makes a        *)
(* process runnable leaves a stale wake-up time behind.                    *)
WakeTimeMeansBlocked == \A i \in Slots : wake[i] > 0 => state[i] = "BLOCKED"

(* Outside the one entry process_kill is working on, an entry in use owns  *)
(* its stack, queue and PCB, and a NULL entry owns none: kill neither      *)
(* leaks nor frees twice, even when the victim runs between its steps.     *)
BeingKilled(i) == shell.pc \in {"free_queue", "free_pcb", "clear_entry"} /\ i = shell.slot
MemoryOwned ==
  \A i \in Slots : ~BeingKilled(i) => mem[i] = IF state[i] = "FREE" THEN {} ELSE Whole

(* What the properties above rest on.  PID 0 is never removed nor blocked; *)
(* the only context suspended inside the timer interrupt is PID 0's; and   *)
(* process_kill works on an entry in use, having freed what it has passed. *)
IdleStays == state[Idle] \in {"READY", "RUNNING"}

Contexts ==
  /\ current # Idle => ctx[Idle] = "irq"
  /\ \A i \in Slots \ {Idle} : ctx[i] # "irq"

KillProgress ==
  shell.pc \in {"free_queue", "free_pcb", "clear_entry"} =>
    /\ shell.slot \in Used \ {Idle}
    /\ mem[shell.slot] = CASE shell.pc = "free_queue" -> {"queue", "pcb"}
                           [] shell.pc = "free_pcb" -> {"pcb"}
                           [] shell.pc = "clear_entry" -> {}

(* The inductive invariant.                                                *)
IInv ==
  /\ TypeOK
  /\ IdleStays
  /\ OneRunning
  /\ Contexts
  /\ InServiceOutsideShell
  /\ WakeTimeMeansBlocked
  /\ PidsUnique
  /\ KillProgress
  /\ MemoryOwned
  /\ CountMatches

(* The tables the scan of process_schedule may meet: a tick has woken some *)
(* sleepers; the caller has been requeued, or went to sleep, or ended.     *)
Queued ==
  {[i \in Slots |-> IF i = current THEN s ELSE IF i \in woken THEN "READY" ELSE state[i]] :
     s \in {"READY", "BLOCKED", "TERMINATED"},
     woken \in SUBSET {i \in Slots : state[i] = "BLOCKED"}}

(* Whoever calls process_schedule, a tick, a yield, a sleep or an exit,    *)
(* the declarative selection is the one the C loop computes.               *)
ScanAgrees == \A st \in Queued : NextSlot(st, current) = Scan(st, current)

(* A terminated process never runs or becomes runnable again: not by a     *)
(* tick, a message, process_wake, or the scheduler.                        *)
TerminatedIsFinal ==
  [][\A i \in Slots : state[i] = "TERMINATED" => state'[i] \in {"TERMINATED", "FREE"}]_vars

(* A context switch never passes over a READY process of higher priority   *)
(* than the one it resumes.                                                *)
SwitchTakesHighest ==
  [][current' # current =>
       \A i \in Slots : state'[i] = "READY" => prio[i] <= prio[current']]_vars

(* However the processes call, sleep and exit, the shell gets the CPU back. *)
ShellResumes == []<>(current = Idle)

(* A sleeper with a wake-up time is eventually made runnable (or killed),  *)
(* also when the tick counter wraps around while it sleeps.                *)
TimedSleeperWakes ==
  \A i \in Slots \ {Idle} : (state[i] = "BLOCKED" /\ wake[i] > 0) ~> (state[i] # "BLOCKED")

(* A READY process of higher priority than PID 0 eventually gets the CPU,  *)
(* also when others have a higher one (or it is killed, or niced down):    *)
(* whoever stands above it comes to block, and is not woken by a tick      *)
(* before PID 0 has run, because none is counted until then.               *)
ReadyRuns ==
  \A i \in Slots \ {Idle} :
    (state[i] = "READY" /\ prio[i] > prio[Idle])
      ~> (state[i] # "READY" \/ prio[i] <= prio[Idle])
=============================================================================
