---------------------------- MODULE ProcessProofs ----------------------------
(***************************************************************************)
(* Proofs about module Process: the scheduler always finds a READY process *)
(* of the highest priority, and IInv is an inductive invariant, from which *)
(* the safety properties of Process follow for every table size, slice,    *)
(* priority range and counter width.                                       *)
(***************************************************************************)
EXTENDS Process, KernelLemmas, FiniteSetTheorems, TLAPS

States == {"FREE", "READY", "RUNNING", "BLOCKED", "TERMINATED"}
Runnable == {"READY", "RUNNING"}

-----------------------------------------------------------------------------
(* The scheduler.                                                          *)

(* The first NULL entry of the table, when there is one.                   *)
LEMMA FreeSlot ==
  ASSUME Slots \ Used # {}
  PROVE  Min(Slots \ Used) \in Slots \ Used
<1>1. Slots \ Used \subseteq Nat
  BY ProcessAssumption DEF Slots
<1> QED
  BY <1>1, MinExists

(* If any process is READY, the scan selects one, and no READY process has *)
(* a higher priority.                                                      *)
LEMMA NextSlotIsTop ==
  ASSUME prio \in [Slots -> 0..MAX_PRIO], NEW st, Ready(st) # {}, NEW cur
  PROVE  NextSlot(st, cur) \in Top(st)
<1> DEFINE R == Ready(st)
           P == {prio[i] : i \in R}
<1>1. R \subseteq Slots
  BY DEF Ready
<1>2. P \subseteq 0..MAX_PRIO
  <2> SUFFICES ASSUME NEW i \in R PROVE prio[i] \in 0..MAX_PRIO
    OBVIOUS
  <2> QED
    BY <1>1
<1>3. P # {}
  <2>1. PICK i \in R : TRUE
    OBVIOUS
  <2>2. prio[i] \in P
    BY <2>1
  <2> QED
    BY <2>2
<1>4. MAX_PRIO \in Nat
  BY ProcessAssumption
<1>5. PICK m \in P : \A q \in P : m >= q
  <2> HIDE DEF P
  <2> QED
    BY <1>2, <1>3, <1>4, MaxExists
<1>6. PICK i \in R : m = prio[i]
  OBVIOUS
<1>7. \A r \in R : prio[r] \in P /\ prio[r] \in 0..MAX_PRIO
  BY <1>2
<1>8. \A r \in R : prio[r] <= prio[i]
  BY <1>5, <1>6, <1>7, <1>4
<1>9. i \in Top(st)
  BY <1>8 DEF Top
<1>10. Top(st) # {}
  BY <1>9
<1>11. Top(st) \subseteq 0..(MAX_PROCESSES - 1)
  BY <1>1 DEF Top, Slots
<1>12. MAX_PROCESSES - 1 \in Nat
  BY ProcessAssumption
<1>13. Max(Top(st)) \in Top(st)
  BY <1>10, <1>11, <1>12, MaxExists
<1>14. Top(st) \subseteq Nat
  BY <1>11
<1>15. Min(Top(st)) \in Top(st)
  BY <1>10, <1>14, MinExists
<1> QED
  BY <1>10, <1>13, <1>15 DEF NextSlot

(* What a call of process_schedule does, whoever calls it: one process is  *)
(* RUNNING afterwards and it is current_process, no process enters or      *)
(* leaves {READY, RUNNING}, and IRQ0 is in service exactly if the context  *)
(* switched to is not PID 0's.                                             *)
LEMMA ScheduleStep ==
  ASSUME TypeOK, Contexts, InServiceOutsideShell,
         NEW st \in [Slots -> States], st[Idle] \in Runnable,
         \A i \in Slots : st[i] = "RUNNING" => i = current,
         NEW caller \in {"irq", "call"}, caller = "irq" <=> current = Idle,
         Schedule(st, caller)
  PROVE  /\ state' \in [Slots -> States]
         /\ current' \in Slots
         /\ \A i \in Slots : \/ state'[i] = st[i]
                             \/ st[i] \in Runnable /\ state'[i] \in Runnable
         /\ \A i \in Slots : state'[i] = "RUNNING" => i = current'
         /\ state'[current'] = "RUNNING"
         /\ ctx' \in [Slots -> {"entry", "call", "irq"}]
         /\ in_service' \in BOOLEAN
         /\ Contexts'
         /\ InServiceOutsideShell'
         /\ \A i \in Slots : state'[i] = "READY" => prio[i] <= prio[current']
<1> DEFINE queued == Requeue(st)
           n == NextSlot(queued, current)
<1> USE DEF Idle
<1>1. Idle \in Slots /\ current \in Slots
  BY ProcessAssumption DEF TypeOK, Slots
<1>2. /\ queued \in [Slots -> States]
      /\ queued[Idle] = "READY"
      /\ \A i \in Slots : queued[i] # "RUNNING"
      /\ \A i \in Slots : \/ queued[i] = st[i]
                          \/ st[i] = "RUNNING" /\ queued[i] = "READY"
  BY <1>1 DEF Requeue, States, Runnable
<1>3. n \in Top(queued)
  <2>1. Idle \in Ready(queued)
    BY <1>1, <1>2 DEF Ready
  <2> QED
    BY <2>1, NextSlotIsTop DEF TypeOK
<1>4. n \in Slots /\ queued[n] = "READY"
  BY <1>3 DEF Top, Ready
<1>5. /\ state' = [queued EXCEPT ![n] = "RUNNING"]
      /\ current' = n
      /\ ctx' = IF n = current THEN ctx ELSE [ctx EXCEPT ![current] = caller]
      /\ in_service' = ServiceAfter(n, caller)
  BY DEF Schedule
<1>6. \A i \in Slots : queued[i] = "READY" => prio[i] <= prio[n]
  BY <1>3 DEF Top, Ready
<1> HIDE DEF queued, n
<1>7. /\ state' \in [Slots -> States]
      /\ \A i \in Slots : state'[i] = IF i = n THEN "RUNNING" ELSE queued[i]
  BY <1>2, <1>4, <1>5 DEF States
<1>8. \A i \in Slots : \/ state'[i] = st[i]
                       \/ st[i] \in Runnable /\ state'[i] \in Runnable
  BY <1>2, <1>4, <1>7 DEF Runnable
<1>9. \A i \in Slots : state'[i] = "RUNNING" => i = current'
  BY <1>2, <1>5, <1>7
<1>10. state'[current'] = "RUNNING"
  BY <1>4, <1>5, <1>7
<1>11. \A i \in Slots : state'[i] = "READY" => prio[i] <= prio[current']
  BY <1>5, <1>6, <1>7
<1>12. /\ ctx' \in [Slots -> {"entry", "call", "irq"}]
       /\ \A i \in Slots : ctx'[i] = IF i = current /\ n # current THEN caller ELSE ctx[i]
  BY <1>1, <1>5 DEF TypeOK
<1>13. Contexts'
  BY <1>1, <1>5, <1>12 DEF Contexts
<1>14. in_service' = (n # Idle)
  <2>1. CASE n = current
    BY <2>1, <1>1, <1>5 DEF ServiceAfter, InServiceOutsideShell, TypeOK
  <2>2. CASE n # current /\ caller = "irq"
    BY <2>2, <1>4, <1>5 DEF ServiceAfter, Contexts
  <2>3. CASE n # current /\ caller = "call"
    BY <2>3, <1>4, <1>5 DEF ServiceAfter, Contexts, InServiceOutsideShell
  <2> QED
    BY <2>1, <2>2, <2>3
<1>15. InServiceOutsideShell' /\ in_service' \in BOOLEAN
  BY <1>5, <1>14 DEF InServiceOutsideShell
<1> QED
  BY <1>4, <1>5, <1>7, <1>8, <1>9, <1>10, <1>11, <1>12, <1>13, <1>15

-----------------------------------------------------------------------------
(* Frames.                                                                 *)

(* A step that neither fills nor clears a table entry, and leaves PIDs,    *)
(* memory, counters and the shell alone, preserves what is said of them.   *)
LEMMA TableFrame ==
  ASSUME PidsUnique, KillProgress, MemoryOwned, CountMatches,
         UNCHANGED <<pid, mem, next_pid, count, shell>>,
         \A i \in Slots : state'[i] = "FREE" <=> state[i] = "FREE"
  PROVE  PidsUnique' /\ KillProgress' /\ MemoryOwned' /\ CountMatches'
<1>1. Used' = Used
  BY DEF Used
<1>2. PidsUnique'
  BY <1>1 DEF PidsUnique
<1>3. KillProgress'
  BY <1>1 DEF KillProgress
<1>4. MemoryOwned'
  BY DEF MemoryOwned, BeingKilled
<1>5. CountMatches'
  BY <1>1 DEF CountMatches
<1> QED
  BY <1>2, <1>3, <1>4, <1>5

(* A remainder stays below its modulus.                                    *)
LEMMA TickRange ==
  ASSUME NEW t \in Nat
  PROVE  t % TICK_MOD \in 0..(TICK_MOD - 1)
<1>1. TICK_MOD \in Nat /\ TICK_MOD > 0
  BY ProcessAssumption
<1> QED
  BY <1>1

-----------------------------------------------------------------------------
(* Every action preserves IInv.                                            *)

(* What a call of process_schedule by the running process does when the    *)
(* process has given itself state s.                                       *)
LEMMA SwitchFacts ==
  ASSUME IInv, Running,
         NEW s \in {"RUNNING", "BLOCKED", "TERMINATED"},
         Schedule([state EXCEPT ![current] = s], "call")
  PROVE  /\ state' \in [Slots -> States]
         /\ current' \in Slots
         /\ state[current] = "RUNNING"
         /\ s # "RUNNING" => state'[current] = s
         /\ \A i \in Slots \ {current} : \/ state'[i] = state[i]
                                         \/ state[i] \in Runnable /\ state'[i] \in Runnable
         /\ state'[current] # "FREE"
         /\ \A i \in Slots : state'[i] = "RUNNING" => i = current'
         /\ state'[current'] = "RUNNING"
         /\ ctx' \in [Slots -> {"entry", "call", "irq"}]
         /\ in_service' \in BOOLEAN
         /\ Contexts'
         /\ InServiceOutsideShell'
         /\ \A i \in Slots : state'[i] = "READY" => prio[i] <= prio[current']
<1> DEFINE st == [state EXCEPT ![current] = s]
<1> USE DEF Idle
<1>1. current \in Slots /\ current # Idle /\ state \in [Slots -> States] /\ Idle \in Slots
  BY ProcessAssumption DEF IInv, TypeOK, States, Running, Slots
<1>2. state[current] = "RUNNING"
  BY <1>1 DEF IInv, OneRunning
<1>3. /\ st \in [Slots -> States]
      /\ st[Idle] \in Runnable
      /\ \A i \in Slots : st[i] = "RUNNING" => i = current
      /\ \A i \in Slots : st[i] = IF i = current THEN s ELSE state[i]
  BY <1>1 DEF IInv, IdleStays, OneRunning, States, Runnable
<1> HIDE DEF st
<1>4. /\ state' \in [Slots -> States]
      /\ current' \in Slots
      /\ \A i \in Slots : \/ state'[i] = st[i]
                          \/ st[i] \in Runnable /\ state'[i] \in Runnable
      /\ \A i \in Slots : state'[i] = "RUNNING" => i = current'
      /\ state'[current'] = "RUNNING"
      /\ ctx' \in [Slots -> {"entry", "call", "irq"}]
      /\ in_service' \in BOOLEAN
      /\ Contexts'
      /\ InServiceOutsideShell'
      /\ \A i \in Slots : state'[i] = "READY" => prio[i] <= prio[current']
  BY <1>1, <1>3, ScheduleStep DEF IInv, st
<1>5. (s # "RUNNING" => state'[current] = s) /\ state'[current] # "FREE"
  BY <1>1, <1>3, <1>4 DEF Runnable
<1>6. \A i \in Slots \ {current} : \/ state'[i] = state[i]
                                   \/ state[i] \in Runnable /\ state'[i] \in Runnable
  BY <1>3, <1>4
<1> QED
  BY <1>2, <1>4, <1>5, <1>6

(* A call of process_schedule by the running process, which leaves all but *)
(* wake, calls and its own state alone, preserves IInv.                    *)
LEMMA SwitchPreserves ==
  ASSUME IInv, Running,
         NEW s \in {"RUNNING", "BLOCKED", "TERMINATED"},
         Schedule([state EXCEPT ![current] = s], "call"),
         wake' \in [Slots -> 0..(TICK_MOD - 1)],
         calls' \in [Slots -> 0..CallBudget],
         \A i \in Slots : wake'[i] = wake[i] \/ (i = current /\ s = "BLOCKED"),
         UNCHANGED <<pcbVars, next_pid, count, ticks, shell>>
  PROVE  IInv'
<1> USE DEF Idle
<1>1. current \in Slots /\ current # Idle /\ state \in [Slots -> States] /\ Idle \in Slots
  BY ProcessAssumption DEF IInv, TypeOK, States, Running, Slots
<1>4. /\ state' \in [Slots -> States]
      /\ current' \in Slots
      /\ state[current] = "RUNNING"
      /\ s # "RUNNING" => state'[current] = s
      /\ \A i \in Slots \ {current} : \/ state'[i] = state[i]
                                      \/ state[i] \in Runnable /\ state'[i] \in Runnable
      /\ state'[current] # "FREE"
      /\ \A i \in Slots : state'[i] = "RUNNING" => i = current'
      /\ state'[current'] = "RUNNING"
      /\ ctx' \in [Slots -> {"entry", "call", "irq"}]
      /\ in_service' \in BOOLEAN
      /\ Contexts'
      /\ InServiceOutsideShell'
  BY SwitchFacts
<1>5. TypeOK'
  BY <1>4 DEF IInv, TypeOK, pcbVars, States
<1>6. IdleStays'
  BY <1>1, <1>4 DEF IInv, IdleStays, Runnable
<1>7. OneRunning'
  BY <1>4 DEF OneRunning
<1>8. WakeTimeMeansBlocked'
  <2> SUFFICES ASSUME NEW i \in Slots, wake'[i] > 0 PROVE state'[i] = "BLOCKED"
    BY DEF WakeTimeMeansBlocked
  <2>1. CASE i = current /\ s = "BLOCKED"
    BY <2>1, <1>4
  <2>2. CASE ~(i = current /\ s = "BLOCKED")
    <3>1. state[i] = "BLOCKED"
      BY <2>2 DEF IInv, WakeTimeMeansBlocked
    <3>2. i # current
      BY <3>1, <1>4
    <3> QED
      BY <3>1, <3>2, <1>4 DEF Runnable
  <2> QED
    BY <2>1, <2>2
<1>9. \A i \in Slots : state'[i] = "FREE" <=> state[i] = "FREE"
  BY <1>1, <1>4 DEF Runnable
<1>10. PidsUnique' /\ KillProgress' /\ MemoryOwned' /\ CountMatches'
  BY <1>9, TableFrame DEF IInv, pcbVars
<1> QED
  BY <1>4, <1>5, <1>6, <1>7, <1>8, <1>10 DEF IInv

(* process_sleep.                                                          *)
LEMMA SleepPreserves ==
  ASSUME IInv, NEW ms \in SleepArgs, Sleep(ms)
  PROVE  IInv'
<1>1. ticks + ms \in Nat
  BY ProcessAssumption DEF IInv, TypeOK
<1>2. (ticks + ms) % TICK_MOD \in 0..(TICK_MOD - 1)
  BY <1>1, TickRange
<1>3. wake' \in [Slots -> 0..(TICK_MOD - 1)]
  BY <1>2 DEF Sleep, IInv, TypeOK
<1>4. calls' \in [Slots -> 0..CallBudget]
  BY ProcessAssumption DEF Sleep, IInv, TypeOK
<1>5. \A i \in Slots : wake'[i] = wake[i] \/ i = current
  BY DEF Sleep, IInv, TypeOK
<1> QED
  BY <1>3, <1>4, <1>5, SwitchPreserves DEF Sleep

(* process_exit.                                                           *)
LEMMA ExitPreserves ==
  ASSUME IInv, Exit
  PROVE  IInv'
<1>1. /\ wake' \in [Slots -> 0..(TICK_MOD - 1)]
      /\ calls' \in [Slots -> 0..CallBudget]
      /\ wake' = wake
  BY DEF Exit, IInv, TypeOK
<1> QED
  BY <1>1, SwitchPreserves DEF Exit

(* One more call of the running process stays within the budget.           *)
LEMMA CallType ==
  ASSUME IInv, Call
  PROVE  calls' \in [Slots -> 0..CallBudget]
  BY ProcessAssumption DEF Call, IInv, TypeOK

(* process_yield.                                                          *)
LEMMA YieldPreserves ==
  ASSUME IInv, Yield
  PROVE  IInv'
<1>1. calls' \in [Slots -> 0..CallBudget]
  BY CallType DEF Yield
<1>2. wake' \in [Slots -> 0..(TICK_MOD - 1)] /\ wake' = wake
  BY DEF Yield, IInv, TypeOK
<1>3. Running
  BY DEF Yield, Call
<1>4. state = [state EXCEPT ![current] = "RUNNING"]
  BY <1>3 DEF IInv, OneRunning, TypeOK, Running
<1>5. Schedule([state EXCEPT ![current] = "RUNNING"], "call")
  BY <1>4 DEF Yield
<1> QED
  BY <1>1, <1>2, <1>3, <1>5, SwitchPreserves DEF Yield

(* What the timer interrupt does: it finds PID 0 executing, wakes the      *)
(* processes that are due and perhaps switches.                            *)
LEMMA TickFacts ==
  ASSUME IInv, Tick
  PROVE  LET due == Due((ticks + 1) % TICK_MOD)
         IN  /\ state' \in [Slots -> States]
             /\ current' \in Slots
             /\ \A i \in due : state[i] = "BLOCKED" /\ state'[i] \in Runnable
             /\ \A i \in Slots \ due : \/ state'[i] = state[i]
                                       \/ state[i] \in Runnable /\ state'[i] \in Runnable
             /\ ctx' \in [Slots -> {"entry", "call", "irq"}]
             /\ in_service' \in BOOLEAN
             /\ Contexts' /\ InServiceOutsideShell' /\ OneRunning'
             /\ current' # current =>
                  \A i \in Slots : state'[i] = "READY" => prio[i] <= prio[current']
<1> USE DEF Idle
<1> DEFINE now == (ticks + 1) % TICK_MOD
           due == Due(now)
           awake == [i \in Slots |-> IF i \in due THEN "READY" ELSE state[i]]
<1>1. /\ ~in_service
      /\ \/ Schedule(awake, "irq")
         \/ state' = awake /\ UNCHANGED <<current, ctx, in_service>>
  BY DEF Tick
<1>2. current = Idle /\ Idle \in Slots /\ state \in [Slots -> States]
  BY <1>1, ProcessAssumption DEF IInv, InServiceOutsideShell, TypeOK, States, Slots
<1>3. \A i \in due : i \in Slots /\ state[i] = "BLOCKED"
  BY DEF Due
<1> HIDE DEF now, due
<1>4. /\ awake \in [Slots -> States]
      /\ \A i \in Slots : awake[i] = IF i \in due THEN "READY" ELSE state[i]
  BY <1>2 DEF States
<1>5. awake[Idle] \in Runnable
  BY <1>2, <1>3, <1>4 DEF IInv, IdleStays, Runnable
<1>6. \A i \in Slots : awake[i] = "RUNNING" => i = current
  BY <1>4 DEF IInv, OneRunning
<1> HIDE DEF awake
<1>7. CASE Schedule(awake, "irq")
  <2>1. /\ state' \in [Slots -> States]
        /\ current' \in Slots
        /\ \A i \in Slots : \/ state'[i] = awake[i]
                            \/ awake[i] \in Runnable /\ state'[i] \in Runnable
        /\ \A i \in Slots : state'[i] = "RUNNING" => i = current'
        /\ state'[current'] = "RUNNING"
        /\ ctx' \in [Slots -> {"entry", "call", "irq"}]
        /\ in_service' \in BOOLEAN
        /\ Contexts'
        /\ InServiceOutsideShell'
        /\ \A i \in Slots : state'[i] = "READY" => prio[i] <= prio[current']
    BY <1>7, <1>2, <1>4, <1>5, <1>6, ScheduleStep DEF IInv
  <2>2. /\ \A i \in due : state[i] = "BLOCKED" /\ state'[i] \in Runnable
        /\ \A i \in Slots \ due : \/ state'[i] = state[i]
                                  \/ state[i] \in Runnable /\ state'[i] \in Runnable
    BY <2>1, <1>3, <1>4 DEF Runnable
  <2>3. OneRunning'
    BY <2>1 DEF OneRunning
  <2> QED
    BY <2>1, <2>2, <2>3 DEF now, due
<1>8. CASE state' = awake /\ UNCHANGED <<current, ctx, in_service>>
  <2>1. current' \in Slots /\ ctx' \in [Slots -> {"entry", "call", "irq"}]
    BY <1>8 DEF IInv, TypeOK
  <2>2. Contexts'
    BY <1>8 DEF IInv, Contexts
  <2>3. InServiceOutsideShell' /\ in_service' \in BOOLEAN
    BY <1>8 DEF IInv, InServiceOutsideShell, TypeOK
  <2>4. OneRunning'
    BY <1>8, <1>2, <1>5, <1>6 DEF OneRunning, Runnable
  <2>5. /\ \A i \in due : state[i] = "BLOCKED" /\ state'[i] \in Runnable
        /\ \A i \in Slots \ due : state'[i] = state[i]
    BY <1>8, <1>3, <1>4 DEF Runnable
  <2> QED
    BY <1>8, <2>1, <2>2, <2>3, <2>4, <2>5, <1>4 DEF now, due
<1> QED
  BY <1>1, <1>7, <1>8

(* The timer interrupt.                                                    *)
LEMMA TickPreserves ==
  ASSUME IInv, Tick
  PROVE  IInv'
<1> USE DEF Idle
<1> DEFINE now == (ticks + 1) % TICK_MOD
           due == Due(now)
<1>1. /\ ticks' = now
      /\ wake' = [i \in Slots |-> IF i \in due THEN 0 ELSE wake[i]]
      /\ UNCHANGED <<pcbVars, next_pid, count, shell, calls>>
  BY DEF Tick
<1>2. /\ state' \in [Slots -> States]
      /\ current' \in Slots
      /\ \A i \in due : state[i] = "BLOCKED" /\ state'[i] \in Runnable
      /\ \A i \in Slots \ due : \/ state'[i] = state[i]
                                \/ state[i] \in Runnable /\ state'[i] \in Runnable
      /\ ctx' \in [Slots -> {"entry", "call", "irq"}]
      /\ in_service' \in BOOLEAN
      /\ Contexts' /\ InServiceOutsideShell' /\ OneRunning'
  BY TickFacts
<1>3. now \in 0..(TICK_MOD - 1)
  <2>1. ticks + 1 \in Nat
    BY DEF IInv, TypeOK
  <2> QED
    BY <2>1, TickRange
<1> HIDE DEF now, due
<1>4. TypeOK'
  <2>1. wake' \in [Slots -> 0..(TICK_MOD - 1)]
    BY <1>1, ProcessAssumption DEF IInv, TypeOK
  <2> QED
    BY <2>1, <1>1, <1>2, <1>3 DEF IInv, TypeOK, pcbVars, States
<1>5. IdleStays'
  <2>1. Idle \in Slots
    BY ProcessAssumption DEF Slots
  <2> QED
    BY <2>1, <1>2 DEF IInv, IdleStays, Runnable
<1>6. WakeTimeMeansBlocked'
  <2> SUFFICES ASSUME NEW i \in Slots, wake'[i] > 0 PROVE state'[i] = "BLOCKED"
    BY DEF WakeTimeMeansBlocked
  <2>1. i \notin due /\ wake[i] > 0
    BY <1>1
  <2>2. state[i] = "BLOCKED"
    BY <2>1 DEF IInv, WakeTimeMeansBlocked
  <2> QED
    BY <2>1, <2>2, <1>2 DEF Runnable
<1>7. \A i \in Slots : state'[i] = "FREE" <=> state[i] = "FREE"
  BY <1>2 DEF Runnable
<1>8. PidsUnique' /\ KillProgress' /\ MemoryOwned' /\ CountMatches'
  BY <1>1, <1>7, TableFrame DEF IInv, pcbVars
<1> QED
  BY <1>2, <1>4, <1>5, <1>6, <1>8 DEF IInv

(* A step that may make BLOCKED processes READY, clearing their wake-up    *)
(* times, and change queue counts, and switches to nobody, preserves IInv. *)
LEMMA WakePreserves ==
  ASSUME IInv, Call,
         NEW W \in SUBSET Slots,
         \A i \in W : state[i] = "BLOCKED",
         state' = [i \in Slots |-> IF i \in W THEN "READY" ELSE state[i]],
         wake' = [i \in Slots |-> IF i \in W THEN 0 ELSE wake[i]],
         qcount' \in [Slots -> 0..MESSAGE_QUEUE_SIZE],
         UNCHANGED <<pid, prio, mem, ctx, current, next_pid, count, ticks, in_service, shell>>
  PROVE  IInv'
<1> USE DEF Idle
<1>1. state \in [Slots -> States] /\ current \in Slots /\ Idle \in Slots /\ current # Idle
  BY ProcessAssumption DEF IInv, TypeOK, States, Slots, Call, Running
<1>2. state' \in [Slots -> States]
  BY <1>1 DEF States
<1>3. TypeOK'
  <2>1. wake' \in [Slots -> 0..(TICK_MOD - 1)]
    BY ProcessAssumption DEF IInv, TypeOK
  <2>2. calls' \in [Slots -> 0..CallBudget]
    BY CallType
  <2> QED
    BY <2>1, <2>2, <1>2 DEF IInv, TypeOK, States
<1>4. IdleStays'
  BY <1>1 DEF IInv, IdleStays
<1>5. OneRunning'
  BY <1>1 DEF IInv, OneRunning
<1>6. Contexts' /\ InServiceOutsideShell'
  BY DEF IInv, Contexts, InServiceOutsideShell
<1>7. WakeTimeMeansBlocked'
  BY DEF IInv, WakeTimeMeansBlocked
<1>8. \A i \in Slots : state'[i] = "FREE" <=> state[i] = "FREE"
  OBVIOUS
<1>9. PidsUnique' /\ KillProgress' /\ MemoryOwned' /\ CountMatches'
  BY <1>8, TableFrame DEF IInv
<1> QED
  BY <1>3, <1>4, <1>5, <1>6, <1>7, <1>9 DEF IInv

(* process_send_message.                                                   *)
LEMMA SendPreserves ==
  ASSUME IInv, NEW t \in Slots, Send(t)
  PROVE  IInv'
<1> DEFINE W == IF t # Idle /\ ~QueueFull(t) /\ Waits(t) THEN {t} ELSE {}
<1>1. W \in SUBSET Slots /\ \A i \in W : state[i] = "BLOCKED"
  BY DEF Waits
<1>2. state' = [i \in Slots |-> IF i \in W THEN "READY" ELSE state[i]]
  BY DEF Send, IInv, TypeOK
<1>3. wake' = [i \in Slots |-> IF i \in W THEN 0 ELSE wake[i]]
  BY DEF Send, Waits, IInv, TypeOK
<1>4. qcount' \in [Slots -> 0..MESSAGE_QUEUE_SIZE]
  BY ProcessAssumption DEF Send, QueueFull, IInv, TypeOK
<1> QED
  BY <1>1, <1>2, <1>3, <1>4, WakePreserves DEF Send

(* process_receive_message.                                                *)
LEMMA ReceivePreserves ==
  ASSUME IInv, Receive
  PROVE  IInv'
<1> DEFINE W == {}
<1>1. W \in SUBSET Slots /\ \A i \in W : state[i] = "BLOCKED"
  OBVIOUS
<1>2. /\ state' = [i \in Slots |-> IF i \in W THEN "READY" ELSE state[i]]
      /\ wake' = [i \in Slots |-> IF i \in W THEN 0 ELSE wake[i]]
  BY DEF Receive, IInv, TypeOK
<1>3. qcount' \in [Slots -> 0..MESSAGE_QUEUE_SIZE]
  BY ProcessAssumption DEF Receive, IInv, TypeOK
<1> HIDE DEF W
<1> QED
  BY <1>1, <1>2, <1>3, WakePreserves DEF Receive

(* process_wake.                                                           *)
LEMMA ManualWakePreserves ==
  ASSUME IInv, NEW t \in Slots, Wake(t)
  PROVE  IInv'
<1> DEFINE W == {t}
<1>1. W \in SUBSET Slots /\ \A i \in W : state[i] = "BLOCKED"
  BY DEF Wake
<1>2. /\ state' = [i \in Slots |-> IF i \in W THEN "READY" ELSE state[i]]
      /\ wake' = [i \in Slots |-> IF i \in W THEN 0 ELSE wake[i]]
      /\ qcount' \in [Slots -> 0..MESSAGE_QUEUE_SIZE]
  BY DEF Wake, pcbVars, IInv, TypeOK
<1> HIDE DEF W
<1> QED
  BY <1>1, <1>2, WakePreserves DEF Wake, pcbVars

(* The table is finite, so its entries in use can be counted.              *)
LEMMA UsedFinite ==
  IsFiniteSet(Used)
<1>1. IsFiniteSet(Slots)
  BY ProcessAssumption, FS_Interval DEF Slots
<1> QED
  BY <1>1, FS_Subset DEF Used

(* process_create.                                                         *)
LEMMA CreatePreserves ==
  ASSUME IInv, NEW p \in 0..MAX_PRIO, Create(p)
  PROVE  IInv'
<1> USE DEF Idle
<1> DEFINE i == Min(Slots \ Used)
<1>1. i \in Slots \ Used
  BY FreeSlot DEF Create
<1>2. /\ ShellRuns /\ shell = AtPrompt
      /\ next_pid <= MaxPid /\ count < MAX_PROCESSES
      /\ state' = [state EXCEPT ![i] = "READY"]
      /\ pid' = [pid EXCEPT ![i] = next_pid]
      /\ prio' = [prio EXCEPT ![i] = DEFAULT_PRIO]
      /\ wake' = [wake EXCEPT ![i] = 0]
      /\ qcount' = [qcount EXCEPT ![i] = 0]
      /\ mem' = [mem EXCEPT ![i] = Whole]
      /\ ctx' = [ctx EXCEPT ![i] = "entry"]
      /\ calls' = [calls EXCEPT ![i] = 0]
      /\ count' = count + 1
      /\ next_pid' = next_pid + 1
      /\ shell' = [pc |-> "priority", pid |-> next_pid, slot |-> 0, prio |-> p]
      /\ UNCHANGED <<current, ticks, in_service>>
  BY DEF Create, NextPid
<1> HIDE DEF i
<1>3. i \in Slots /\ state[i] = "FREE" /\ i # Idle /\ Idle \in Slots
  BY <1>1, ProcessAssumption DEF Used, Slots, IInv, IdleStays
<1>4. TypeOK
  BY DEF IInv
<1>5. Used' = Used \union {i}
  BY <1>2, <1>3, <1>4 DEF Used, TypeOK
<1>6. TypeOK'
  <2> DEFINE Wakes == 0..(TICK_MOD - 1)
             Counts == 0..MESSAGE_QUEUE_SIZE
             Budget == 0..CallBudget
             Prios == 0..MAX_PRIO
             Known == 0..MaxPid
  <2>a. 0 \in Wakes /\ 0 \in Counts /\ 0 \in Budget /\ DEFAULT_PRIO \in Prios
    BY ProcessAssumption
  <2>b. next_pid \in Known
    BY <1>2, <1>4, ProcessAssumption DEF TypeOK
  <2>c. /\ state \in [Slots -> States] /\ pid \in [Slots -> Known]
        /\ prio \in [Slots -> Prios] /\ wake \in [Slots -> Wakes]
        /\ qcount \in [Slots -> Counts] /\ calls \in [Slots -> Budget]
        /\ ctx \in [Slots -> {"entry", "call", "irq"}]
    BY <1>4 DEF TypeOK, States
  <2>1. /\ state' \in [Slots -> States] /\ pid' \in [Slots -> Known]
        /\ prio' \in [Slots -> Prios] /\ wake' \in [Slots -> Wakes]
        /\ qcount' \in [Slots -> Counts] /\ calls' \in [Slots -> Budget]
        /\ ctx' \in [Slots -> {"entry", "call", "irq"}]
    <3> HIDE DEF Wakes, Counts, Budget, Prios, Known
    <3> QED
      BY <1>2, <2>a, <2>b, <2>c DEF States
  <2>2. mem' \in [Slots -> SUBSET Whole]
    BY <1>2, <1>4 DEF TypeOK
  <2>3. next_pid' \in 1..(MaxPid + 1) /\ count' \in 1..MAX_PROCESSES
    BY <1>2, <1>4, ProcessAssumption DEF TypeOK
  <2>4. shell' \in [pc : {"prompt", "priority", "free_queue", "free_pcb", "clear_entry"},
                    pid : 0..MaxPid, slot : Slots, prio : 0..MAX_PRIO]
    BY <1>2, <1>3, <1>4, ProcessAssumption DEF TypeOK
  <2> QED
    BY <2>1, <2>2, <2>3, <2>4, <1>2, <1>4 DEF TypeOK, States
<1>7. IdleStays' /\ OneRunning'
  BY <1>2, <1>3, <1>4 DEF IInv, IdleStays, OneRunning, TypeOK, ShellRuns
<1>8. Contexts' /\ InServiceOutsideShell'
  BY <1>2, <1>3, <1>4 DEF IInv, Contexts, InServiceOutsideShell, TypeOK
<1>9. WakeTimeMeansBlocked'
  BY <1>2, <1>3, <1>4 DEF IInv, WakeTimeMeansBlocked, TypeOK
<1>10. PidsUnique'
  BY <1>2, <1>3, <1>4, <1>5 DEF IInv, PidsUnique, Used, TypeOK
<1>11. KillProgress'
  BY <1>2 DEF KillProgress
<1>12. MemoryOwned'
  BY <1>2, <1>3, <1>4 DEF IInv, MemoryOwned, BeingKilled, AtPrompt, TypeOK
<1>13. CountMatches'
  <2>1. Cardinality(Used \union {i}) = Cardinality(Used) + 1
    BY <1>1, UsedFinite, FS_AddElement
  <2> QED
    BY <2>1, <1>2, <1>5 DEF IInv, CountMatches
<1> QED
  BY <1>6, <1>7, <1>8, <1>9, <1>10, <1>11, <1>12, <1>13 DEF IInv

(* A failed process_create: only next_pid moves.                           *)
LEMMA CreateFailsPreserves ==
  ASSUME IInv, CreateFails
  PROVE  IInv'
<1>1. /\ next_pid <= MaxPid /\ next_pid' = next_pid + 1
      /\ UNCHANGED <<state, pid, prio, qcount, mem, wake, ctx, current, count, ticks,
                     in_service, shell, calls>>
  BY DEF CreateFails, NextPid, pcbVars
<1>2. TypeOK'
  BY <1>1, ProcessAssumption DEF IInv, TypeOK
<1>3. PidsUnique'
  BY <1>1 DEF IInv, PidsUnique, Used, TypeOK
<1> QED
  BY <1>1, <1>2, <1>3 DEF IInv, IdleStays, OneRunning, Contexts, InServiceOutsideShell,
     WakeTimeMeansBlocked, KillProgress, MemoryOwned, BeingKilled, CountMatches, Used

(* A store to priorities, which nothing else in IInv depends on.           *)
LEMMA PriorityPreserves ==
  ASSUME IInv, NEW q, NEW p \in Nat, SetPriority(q, p),
         shell' = shell \/ shell' = AtPrompt,
         UNCHANGED <<state, pid, wake, qcount, mem, ctx, current, next_pid, count,
                     ticks, in_service, calls>>,
         shell.pc \in {"prompt", "priority"}
  PROVE  IInv'
<1> USE DEF Idle
<1>1. prio' \in [Slots -> 0..MAX_PRIO]
  BY ProcessAssumption DEF SetPriority, Clamp, IInv, TypeOK
<1>2. /\ shell' \in [pc : {"prompt", "priority", "free_queue", "free_pcb", "clear_entry"},
                     pid : 0..MaxPid, slot : Slots, prio : 0..MAX_PRIO]
      /\ shell'.pc \in {"prompt", "priority"}
  <2>1. 0 \in Slots /\ 0 \in 0..MaxPid /\ 0 \in 0..MAX_PRIO
    BY ProcessAssumption DEF Slots
  <2>2. CASE shell' = shell
    BY <2>2 DEF IInv, TypeOK
  <2>3. CASE shell' = AtPrompt
    BY <2>1, <2>3 DEF AtPrompt
  <2> QED
    BY <2>2, <2>3
<1>3. TypeOK'
  BY <1>1, <1>2 DEF IInv, TypeOK
<1>4. KillProgress'
  BY <1>2 DEF KillProgress
<1>5. MemoryOwned'
  BY <1>2 DEF IInv, MemoryOwned, BeingKilled
<1> QED
  BY <1>3, <1>4, <1>5 DEF IInv, IdleStays, OneRunning, Contexts, InServiceOutsideShell,
     WakeTimeMeansBlocked, PidsUnique, CountMatches, Used

(* The second half of process_create_with_priority.                        *)
LEMMA CreatePriorityPreserves ==
  ASSUME IInv, CreatePriority
  PROVE  IInv'
<1>1. shell.prio \in 0..MAX_PRIO
  BY DEF IInv, TypeOK
<1>2. shell.prio \in Nat
  BY <1>1, ProcessAssumption
<1> QED
  BY <1>2, PriorityPreserves DEF CreatePriority

(* The nice command.                                                       *)
LEMMA NicePreserves ==
  ASSUME IInv, NEW i \in Slots, NEW p \in 0..MAX_PRIO, Nice(i, p)
  PROVE  IInv'
<1>1. p \in Nat /\ shell.pc = "prompt"
  BY ProcessAssumption DEF Nice, AtPrompt
<1> QED
  BY <1>1, PriorityPreserves DEF Nice

(* The first step of process_kill: the stack is freed.                     *)
LEMMA KillPreserves ==
  ASSUME IInv, NEW i \in Slots, Kill(i)
  PROVE  IInv'
<1> USE DEF Idle
<1>1. /\ shell = AtPrompt /\ i \in Used \ {Idle}
      /\ mem' = [mem EXCEPT ![i] = @ \ {"stack"}]
      /\ shell' = [pc |-> "free_queue", pid |-> 0, slot |-> i, prio |-> 0]
      /\ UNCHANGED <<state, pid, prio, wake, qcount, ctx, current, next_pid, count,
                     ticks, in_service, calls>>
  BY DEF Kill
<1>2. mem \in [Slots -> SUBSET Whole]
  BY DEF IInv, TypeOK
<1>3. \A j \in Slots : mem[j] = IF state[j] = "FREE" THEN {} ELSE Whole
  BY <1>1 DEF IInv, MemoryOwned, BeingKilled, AtPrompt
<1>4. /\ mem'[i] = {"queue", "pcb"}
      /\ \A j \in Slots \ {i} : mem'[j] = mem[j]
      /\ mem' \in [Slots -> SUBSET Whole]
  BY <1>1, <1>2, <1>3 DEF Used, Whole
<1>5. Used' = Used
  BY <1>1 DEF Used
<1>6. TypeOK'
  <2>1. 0 \in 0..MaxPid /\ 0 \in 0..MAX_PRIO
    BY ProcessAssumption
  <2>2. shell' \in [pc : {"prompt", "priority", "free_queue", "free_pcb", "clear_entry"},
                    pid : 0..MaxPid, slot : Slots, prio : 0..MAX_PRIO]
    BY <2>1, <1>1
  <2> QED
    BY <2>2, <1>1, <1>4 DEF IInv, TypeOK
<1>7. KillProgress'
  BY <1>1, <1>4, <1>5 DEF KillProgress
<1>8. MemoryOwned'
  BY <1>1, <1>3, <1>4 DEF MemoryOwned, BeingKilled
<1> QED
  BY <1>1, <1>5, <1>6, <1>7, <1>8 DEF IInv, IdleStays, OneRunning, Contexts,
     InServiceOutsideShell, WakeTimeMeansBlocked, PidsUnique, CountMatches

(* The queue, then the PCB, is freed; the entry is still in the table.     *)
LEMMA KillFreePreserves ==
  ASSUME IInv, KillFreeQueue \/ KillFreePcb
  PROVE  IInv'
<1> USE DEF Idle
<1> DEFINE v == shell.slot
<1>1. /\ shell.pc \in {"free_queue", "free_pcb"}
      /\ mem' = [mem EXCEPT ![v] = IF shell.pc = "free_queue" THEN @ \ {"queue"} ELSE @ \ {"pcb"}]
      /\ shell' = [shell EXCEPT !.pc = IF shell.pc = "free_queue" THEN "free_pcb" ELSE "clear_entry"]
      /\ UNCHANGED <<state, pid, prio, wake, qcount, ctx, current, next_pid, count,
                     ticks, in_service, calls>>
  BY DEF KillFreeQueue, KillFreePcb
<1>2. /\ mem \in [Slots -> SUBSET Whole]
      /\ shell \in [pc : {"prompt", "priority", "free_queue", "free_pcb", "clear_entry"},
                    pid : 0..MaxPid, slot : Slots, prio : 0..MAX_PRIO]
  BY DEF IInv, TypeOK
<1>3. /\ v \in Used \ {Idle} /\ v \in Slots
      /\ mem[v] = IF shell.pc = "free_queue" THEN {"queue", "pcb"} ELSE {"pcb"}
  BY <1>1, <1>2 DEF IInv, KillProgress
<1>4. /\ shell' \in [pc : {"prompt", "priority", "free_queue", "free_pcb", "clear_entry"},
                    pid : 0..MaxPid, slot : Slots, prio : 0..MAX_PRIO]
      /\ shell'.slot = v
      /\ shell'.pc = IF shell.pc = "free_queue" THEN "free_pcb" ELSE "clear_entry"
  BY <1>1, <1>2
<1>5. /\ mem'[v] = IF shell.pc = "free_queue" THEN {"pcb"} ELSE {}
      /\ \A j \in Slots \ {v} : mem'[j] = mem[j]
      /\ mem' \in [Slots -> SUBSET Whole]
  BY <1>1, <1>2, <1>3
<1>6. Used' = Used
  BY <1>1 DEF Used
<1>7. TypeOK'
  BY <1>1, <1>4, <1>5 DEF IInv, TypeOK
<1>8. KillProgress'
  BY <1>1, <1>3, <1>4, <1>5, <1>6 DEF KillProgress
<1>9. MemoryOwned'
  BY <1>1, <1>4, <1>5 DEF IInv, MemoryOwned, BeingKilled
<1> QED
  BY <1>1, <1>6, <1>7, <1>8, <1>9 DEF IInv, IdleStays, OneRunning, Contexts,
     InServiceOutsideShell, WakeTimeMeansBlocked, PidsUnique, CountMatches

(* The last step of process_kill: the table entry is cleared.              *)
LEMMA KillClearPreserves ==
  ASSUME IInv, KillClearEntry
  PROVE  IInv'
<1> USE DEF Idle
<1> DEFINE v == shell.slot
<1>1. /\ ShellRuns /\ shell.pc = "clear_entry"
      /\ state' = [state EXCEPT ![v] = "FREE"]
      /\ pid' = [pid EXCEPT ![v] = 0]
      /\ prio' = [prio EXCEPT ![v] = 0]
      /\ wake' = [wake EXCEPT ![v] = 0]
      /\ qcount' = [qcount EXCEPT ![v] = 0]
      /\ ctx' = [ctx EXCEPT ![v] = "entry"]
      /\ calls' = [calls EXCEPT ![v] = 0]
      /\ count' = count - 1
      /\ shell' = AtPrompt
      /\ UNCHANGED <<mem, current, next_pid, ticks, in_service>>
  BY DEF KillClearEntry
<1>2. TypeOK
  BY DEF IInv
<1>3. v \in Used /\ v # Idle /\ mem[v] = {} /\ v \in Slots
  BY <1>1 DEF IInv, KillProgress, Used
<1> HIDE DEF v
<1>4. Used' = Used \ {v}
  BY <1>1, <1>2, <1>3 DEF Used, TypeOK
<1>5. Idle \in Slots /\ Idle \in Used
  BY ProcessAssumption DEF Slots, Used, IInv, IdleStays
<1>6. count' = Cardinality(Used \ {v}) /\ count' \in 1..MAX_PROCESSES
  <2>1. Cardinality(Used \ {v}) = Cardinality(Used) - 1 /\ IsFiniteSet(Used \ {v})
    BY <1>3, UsedFinite, FS_RemoveElement
  <2>2. Used \ {v} # {}
    BY <1>3, <1>5
  <2>3. Cardinality(Used \ {v}) \in Nat /\ Cardinality(Used \ {v}) # 0
    BY <2>1, <2>2, FS_CardinalityType, FS_EmptySet
  <2>4. count' = Cardinality(Used \ {v})
    BY <2>1, <1>1 DEF IInv, CountMatches
  <2> QED
    BY <2>3, <2>4, <1>1, <1>2, ProcessAssumption DEF TypeOK
<1>7. TypeOK'
  <2> DEFINE Wakes == 0..(TICK_MOD - 1)
             Counts == 0..MESSAGE_QUEUE_SIZE
             Budget == 0..CallBudget
             Prios == 0..MAX_PRIO
             Known == 0..MaxPid
  <2>1. 0 \in Wakes /\ 0 \in Counts /\ 0 \in Budget /\ 0 \in Prios /\ 0 \in Known
    BY ProcessAssumption
  <2>2. /\ state \in [Slots -> States] /\ pid \in [Slots -> Known]
        /\ prio \in [Slots -> Prios] /\ wake \in [Slots -> Wakes]
        /\ qcount \in [Slots -> Counts] /\ calls \in [Slots -> Budget]
        /\ ctx \in [Slots -> {"entry", "call", "irq"}]
    BY <1>2 DEF TypeOK, States
  <2>3. /\ state' \in [Slots -> States] /\ pid' \in [Slots -> Known]
        /\ prio' \in [Slots -> Prios] /\ wake' \in [Slots -> Wakes]
        /\ qcount' \in [Slots -> Counts] /\ calls' \in [Slots -> Budget]
        /\ ctx' \in [Slots -> {"entry", "call", "irq"}]
    <3> HIDE DEF Wakes, Counts, Budget, Prios, Known
    <3> QED
      BY <1>1, <2>1, <2>2 DEF States
  <2>4. shell' \in [pc : {"prompt", "priority", "free_queue", "free_pcb", "clear_entry"},
                    pid : 0..MaxPid, slot : Slots, prio : 0..MAX_PRIO]
    BY <1>1, <1>5, <2>1 DEF AtPrompt
  <2> QED
    BY <2>3, <2>4, <1>1, <1>2, <1>6 DEF TypeOK, States
<1>8. IdleStays' /\ OneRunning'
  BY <1>1, <1>2, <1>3, <1>5 DEF IInv, IdleStays, OneRunning, TypeOK, ShellRuns
<1>9. Contexts' /\ InServiceOutsideShell'
  BY <1>1, <1>2, <1>3, <1>5 DEF IInv, Contexts, InServiceOutsideShell, TypeOK
<1>10. WakeTimeMeansBlocked'
  BY <1>1, <1>2, <1>3 DEF IInv, WakeTimeMeansBlocked, TypeOK
<1>11. PidsUnique'
  <2>1. \A j \in Used' : j \in Used /\ pid'[j] = pid[j]
    BY <1>1, <1>2, <1>4 DEF TypeOK, Used
  <2> QED
    BY <2>1, <1>1 DEF IInv, PidsUnique
<1>12. KillProgress'
  BY <1>1 DEF KillProgress, AtPrompt
<1>13. MemoryOwned'
  BY <1>1, <1>2, <1>3 DEF IInv, MemoryOwned, BeingKilled, TypeOK, v
<1>14. CountMatches'
  BY <1>4, <1>6 DEF CountMatches
<1> QED
  BY <1>7, <1>8, <1>9, <1>10, <1>11, <1>12, <1>13, <1>14 DEF IInv

-----------------------------------------------------------------------------
(* The invariant.                                                          *)

(* Only the idle process exists when interrupts are enabled.               *)
LEMMA InitIInv ==
  ASSUME Init
  PROVE  IInv
<1> USE DEF Idle
<1>1. 0 \in Slots /\ 0 \in 0..MaxPid /\ 0 \in 0..MAX_PRIO /\ 0 \in 0..(TICK_MOD - 1)
      /\ 0 \in 0..MESSAGE_QUEUE_SIZE /\ 0 \in 0..CallBudget
      /\ 1 \in 1..(MaxPid + 1) /\ 1 \in 1..MAX_PROCESSES
  BY ProcessAssumption DEF Slots
<1>2. AtPrompt \in [pc : {"prompt", "priority", "free_queue", "free_pcb", "clear_entry"},
                    pid : 0..MaxPid, slot : Slots, prio : 0..MAX_PRIO]
  BY <1>1 DEF AtPrompt
<1>3. mem \in [Slots -> SUBSET Whole]
  BY DEF Init
<1>4. TypeOK
  BY <1>1, <1>2, <1>3 DEF Init, TypeOK
<1>5. IdleStays /\ OneRunning /\ Contexts /\ InServiceOutsideShell
  BY <1>1 DEF Init, IdleStays, OneRunning, Contexts, InServiceOutsideShell
<1>6. WakeTimeMeansBlocked
  BY DEF Init, WakeTimeMeansBlocked
<1>7. Used = {0}
  BY <1>1 DEF Init, Used
<1>8. PidsUnique
  BY <1>7, <1>1 DEF Init, PidsUnique
<1>9. KillProgress
  BY DEF Init, KillProgress, AtPrompt
<1>10. MemoryOwned
  BY DEF Init, MemoryOwned
<1>11. CountMatches
  BY <1>7, FS_Singleton DEF Init, CountMatches
<1> QED
  BY <1>4, <1>5, <1>6, <1>8, <1>9, <1>10, <1>11 DEF IInv

(* Nothing changes.                                                        *)
LEMMA StutterPreserves ==
  ASSUME IInv, UNCHANGED vars
  PROVE  IInv'
  BY DEF vars, IInv, TypeOK, IdleStays, OneRunning, Contexts, InServiceOutsideShell,
     WakeTimeMeansBlocked, PidsUnique, KillProgress, MemoryOwned, BeingKilled,
     CountMatches, Used

(* One case per action.                                                    *)
LEMMA NextPreserves ==
  ASSUME IInv, Next
  PROVE  IInv'
<1>1. CASE Tick
  BY <1>1, TickPreserves
<1>2. CASE ProcessStep
  <2>1. CASE Exit
    BY <2>1, ExitPreserves
  <2>2. CASE \E ms \in SleepArgs : Sleep(ms)
    BY <2>2, SleepPreserves
  <2>3. CASE Yield
    BY <2>3, YieldPreserves
  <2>4. CASE \E t \in Slots : Send(t) \/ Wake(t)
    BY <2>4, SendPreserves, ManualWakePreserves
  <2>5. CASE Receive
    BY <2>5, ReceivePreserves
  <2> QED
    BY <1>2, <2>1, <2>2, <2>3, <2>4, <2>5 DEF ProcessStep, Block
<1>3. CASE ShellStep
  <2>1. CASE \E p \in PrioArgs : Create(p)
    BY <2>1, CreatePreserves, ProcessAssumption
  <2>2. CASE CreateFails
    BY <2>2, CreateFailsPreserves
  <2>3. CASE CreatePriority
    BY <2>3, CreatePriorityPreserves
  <2>4. CASE \E i \in Slots, p \in PrioArgs : Nice(i, p)
    BY <2>4, NicePreserves, ProcessAssumption
  <2>5. CASE \E i \in Slots : Kill(i)
    BY <2>5, KillPreserves
  <2>6. CASE KillFreeQueue \/ KillFreePcb
    BY <2>6, KillFreePreserves
  <2>7. CASE KillClearEntry
    BY <2>7, KillClearPreserves
  <2> QED
    BY <1>3, <2>1, <2>2, <2>3, <2>4, <2>5, <2>6, <2>7 DEF ShellStep, KillStep
<1> QED
  BY <1>1, <1>2, <1>3 DEF Next

(* IInv holds in every reachable state of the process table.               *)
THEOREM Invariance == Spec => []IInv
<1>1. Init => IInv
  BY InitIInv
<1>2. IInv /\ [Next]_vars => IInv'
  BY NextPreserves, StutterPreserves
<1> QED
  BY <1>1, <1>2, PTL DEF Spec

(* Every field of the process table stays in its range: no queue holds     *)
(* more than MESSAGE_QUEUE_SIZE messages, no priority exceeds its maximum, *)
(* the table never overflows.                                              *)
THEOREM TypeCorrect == Spec => []TypeOK
<1>1. IInv => TypeOK
  BY DEF IInv
<1> QED
  BY <1>1, Invariance, PTL

(* At most one process is RUNNING and it is current_process.               *)
THEOREM SingleRunner == Spec => []OneRunning
<1>1. IInv => OneRunning
  BY DEF IInv
<1> QED
  BY <1>1, Invariance, PTL

(* The timer interrupt is unacknowledged exactly while a process other     *)
(* than PID 0 executes.                                                    *)
THEOREM EoiOnlyInShell == Spec => []InServiceOutsideShell
<1>1. IInv => InServiceOutsideShell
  BY DEF IInv
<1> QED
  BY <1>1, Invariance, PTL

(* process_get is unambiguous: no two entries have the same PID.           *)
THEOREM UniquePids == Spec => []PidsUnique
<1>1. IInv => PidsUnique
  BY DEF IInv
<1> QED
  BY <1>1, Invariance, PTL

(* process_count_val counts the entries in use.                            *)
THEOREM ExactCount == Spec => []CountMatches
<1>1. IInv => CountMatches
  BY DEF IInv
<1> QED
  BY <1>1, Invariance, PTL

(* Only a BLOCKED process has a wake-up time.                              *)
THEOREM NoStaleWakeTime == Spec => []WakeTimeMeansBlocked
<1>1. IInv => WakeTimeMeansBlocked
  BY DEF IInv
<1> QED
  BY <1>1, Invariance, PTL

(* process_kill neither leaks nor frees twice, whatever interrupts it.     *)
THEOREM KillFreesOnce == Spec => []MemoryOwned
<1>1. IInv => MemoryOwned
  BY DEF IInv
<1> QED
  BY <1>1, Invariance, PTL

-----------------------------------------------------------------------------
(* What a step never does.                                                 *)

(* The scheduler's part: it neither touches a TERMINATED process nor       *)
(* passes over a READY one of higher priority.                             *)
LEMMA CallSwitches ==
  ASSUME IInv, Block \/ Yield
  PROVE  /\ \A i \in Slots : state[i] = "TERMINATED" => state'[i] = "TERMINATED"
         /\ \A i \in Slots : state'[i] = "READY" => prio[i] <= prio[current']
<1>1. Running
  BY DEF Block, Exit, Sleep, Yield, Call
<1>2. Yield => Schedule([state EXCEPT ![current] = "RUNNING"], "call")
  <2>1. state = [state EXCEPT ![current] = "RUNNING"]
    BY <1>1 DEF IInv, OneRunning, TypeOK, Running
  <2> QED
    BY <2>1 DEF Yield
<1>3. PICK s \in {"RUNNING", "BLOCKED", "TERMINATED"} :
        Schedule([state EXCEPT ![current] = s], "call")
  BY <1>2 DEF Block, Exit, Sleep
<1>4. /\ state[current] = "RUNNING"
      /\ \A i \in Slots \ {current} : \/ state'[i] = state[i]
                                      \/ state[i] \in Runnable /\ state'[i] \in Runnable
      /\ \A i \in Slots : state'[i] = "READY" => prio[i] <= prio[current']
  BY <1>1, <1>3, SwitchFacts
<1> QED
  BY <1>4 DEF Runnable

(* Outside the scheduler, current_process stays as it is.                  *)
LEMMA OtherSteps ==
  ASSUME IInv, Next, ~Tick, ~Block, ~Yield
  PROVE  /\ current' = current
         /\ \A i \in Slots : state[i] = "TERMINATED" => state'[i] \in {"TERMINATED", "FREE"}
<1>1. state \in [Slots -> States]
  BY DEF IInv, TypeOK, States
<1>2. CASE \E t \in Slots : Send(t) \/ Wake(t)
  BY <1>1, <1>2 DEF Send, Wake, Waits
<1>3. CASE Receive
  BY <1>1, <1>3 DEF Receive
<1>4. CASE \E p \in PrioArgs : Create(p)
  <2>1. Min(Slots \ Used) \in Slots /\ state[Min(Slots \ Used)] = "FREE"
    BY <1>4, FreeSlot DEF Create, Used
  <2>2. /\ current' = current
        /\ state' = [state EXCEPT ![Min(Slots \ Used)] = "READY"]
    BY <1>4 DEF Create
  <2> QED
    BY <1>1, <2>1, <2>2
<1>5. CASE \/ CreateFails \/ CreatePriority
           \/ \E i \in Slots, p \in PrioArgs : Nice(i, p)
           \/ \E i \in Slots : Kill(i)
           \/ KillFreeQueue \/ KillFreePcb
  <2>1. current' = current /\ state' = state
    BY <1>5 DEF CreateFails, CreatePriority, Nice, Kill, KillFreeQueue, KillFreePcb
  <2> QED
    BY <2>1
<1>6. CASE KillClearEntry
  BY <1>1, <1>6 DEF KillClearEntry
<1> QED
  BY <1>2, <1>3, <1>4, <1>5, <1>6 DEF Next, ProcessStep, ShellStep, KillStep

(* Neither a tick, a message, process_wake nor the scheduler revives a     *)
(* TERMINATED process.                                                     *)
THEOREM DeadStayDead == Spec => TerminatedIsFinal
<1>1. ASSUME IInv, [Next]_vars
      PROVE  [\A i \in Slots : state[i] = "TERMINATED"
                => state'[i] \in {"TERMINATED", "FREE"}]_vars
  <2>1. CASE Tick
    <3>1. \A i \in Slots : state[i] = "TERMINATED" => state'[i] = "TERMINATED"
      BY <1>1, <2>1, TickFacts DEF Runnable
    <3> QED
      BY <3>1
  <2>2. CASE Block \/ Yield
    BY <1>1, <2>2, CallSwitches
  <2>3. CASE Next /\ ~Tick /\ ~Block /\ ~Yield
    BY <1>1, <2>3, OtherSteps
  <2>4. CASE UNCHANGED vars
    BY <2>4
  <2> QED
    BY <1>1, <2>1, <2>2, <2>3, <2>4
<1> QED
  BY <1>1, Invariance, PTL DEF Spec, TerminatedIsFinal

(* Whenever current_process changes, the new one has the highest priority  *)
(* of all READY processes.                                                 *)
THEOREM HighestFirst == Spec => SwitchTakesHighest
<1>1. ASSUME IInv, [Next]_vars
      PROVE  [current' # current =>
                \A i \in Slots : state'[i] = "READY" => prio[i] <= prio[current']]_vars
  <2>1. CASE Tick
    BY <1>1, <2>1, TickFacts
  <2>2. CASE Block \/ Yield
    BY <1>1, <2>2, CallSwitches
  <2>3. CASE Next /\ ~Tick /\ ~Block /\ ~Yield
    BY <1>1, <2>3, OtherSteps
  <2>4. CASE UNCHANGED vars
    BY <2>4
  <2> QED
    BY <1>1, <2>1, <2>2, <2>3, <2>4
<1> QED
  BY <1>1, Invariance, PTL DEF Spec, SwitchTakesHighest

-----------------------------------------------------------------------------
(* The scan of process_schedule, one table entry at a time.                *)

(* What the loop does with entry i, after it has seen the entries below.   *)
ScanEntry(st, cur, was, i) ==
  IF st[i] # "READY" THEN was
  ELSE IF ~was.found \/ prio[i] > was.best
    THEN [found |-> TRUE, slot |-> i, best |-> prio[i]]
  ELSE IF prio[i] = was.best /\ i > cur
    THEN [was EXCEPT !.slot = i]
  ELSE was

ScanBody(st, cur, f) ==
  [k \in 0..MAX_PROCESSES |->
     IF k = 0 THEN [found |-> FALSE, slot |-> Idle, best |-> 0]
     ELSE ScanEntry(st, cur, f[k - 1], k - 1)]

(* The READY entries among the first k, the best of them, and what the     *)
(* loop has selected after k entries.                                      *)
ReadyTo(st, k) == {i \in 0..(k - 1) : st[i] = "READY"}
Best(R) == {i \in R : \A r \in R : prio[r] <= prio[i]}
PickOf(T, cur) == IF \E i \in T : i > cur THEN Max(T) ELSE Min(T)
SeenTo(st, cur, k) ==
  IF ReadyTo(st, k) = {} THEN [found |-> FALSE, slot |-> Idle, best |-> 0]
  ELSE [found |-> TRUE, slot |-> PickOf(Best(ReadyTo(st, k)), cur),
        best |-> prio[Min(Best(ReadyTo(st, k)))]]

(* Of READY entries some are best, and all of those have one priority,     *)
(* that of the first.                                                      *)
LEMMA BestExists ==
  ASSUME prio \in [Slots -> 0..MAX_PRIO], NEW R, R # {}, R \subseteq Slots
  PROVE  /\ Best(R) # {} /\ Best(R) \subseteq R /\ Best(R) \subseteq Nat
         /\ Min(Best(R)) \in Best(R)
         /\ \A i \in Best(R) : prio[i] = prio[Min(Best(R))]
<1> DEFINE P == {prio[i] : i \in R}
<1>1. P # {} /\ P \subseteq 0..MAX_PRIO /\ MAX_PRIO \in Nat
  BY ProcessAssumption
<1>2. PICK m \in P : \A q \in P : m >= q
  <2> HIDE DEF P
  <2> QED
    BY <1>1, MaxExists
<1>3. PICK i \in R : m = prio[i]
  OBVIOUS
<1>4. \A r \in R : prio[r] \in P /\ prio[r] \in 0..MAX_PRIO
  OBVIOUS
<1>5. i \in Best(R)
  BY <1>1, <1>2, <1>3, <1>4 DEF Best
<1>6. Best(R) \subseteq R /\ Best(R) \subseteq Nat
  <2>1. R \subseteq Nat
    BY ProcessAssumption DEF Slots
  <2>2. Best(R) \subseteq R
    BY DEF Best
  <2> QED
    BY <2>1, <2>2
<1>7. Min(Best(R)) \in Best(R)
  BY <1>5, <1>6, MinExists
<1>8. ASSUME NEW j \in Best(R), NEW k \in Best(R) PROVE prio[j] = prio[k]
  <2>1. prio[j] <= prio[k] /\ prio[k] <= prio[j]
    BY <1>6 DEF Best
  <2> QED
    BY <1>1, <1>4, <1>6, <2>1
<1> QED
  BY <1>5, <1>6, <1>7, <1>8

(* Only the slot of a selection changes.                                   *)
LEMMA SelectionChanged ==
  ASSUME NEW s, NEW b, NEW i, NEW was, was = [found |-> TRUE, slot |-> s, best |-> b]
  PROVE  [was EXCEPT !.slot = i] = [found |-> TRUE, slot |-> i, best |-> b]
<1>1. PICK w : w = [was EXCEPT !.slot = i]
  OBVIOUS
<1>2. w \in [found : {TRUE}, slot : {i}, best : {b}]
  BY <1>1
<1>3. w = [found |-> w.found, slot |-> w.slot, best |-> w.best]
  BY <1>2
<1> QED
  BY <1>1, <1>2, <1>3

(* One more entry: the selection after k entries is what the loop makes of *)
(* the selection after k - 1.                                              *)
LEMMA SeenStep ==
  ASSUME prio \in [Slots -> 0..MAX_PRIO], NEW st, NEW cur \in Slots,
         NEW k \in 1..MAX_PROCESSES
  PROVE  SeenTo(st, cur, k) = ScanEntry(st, cur, SeenTo(st, cur, k - 1), k - 1)
<1>1. PICK i : i = k - 1
  OBVIOUS
<1>2. /\ i \in Nat /\ i \in Slots /\ k = i + 1 /\ cur \in Nat
      /\ MAX_PROCESSES - 1 \in Nat /\ prio[i] \in Nat
  BY <1>1, ProcessAssumption DEF Slots
<1>3. PICK R : R = ReadyTo(st, i)
  OBVIOUS
<1>4. R \subseteq 0..(i - 1) /\ R \subseteq Slots /\ i \notin R
  BY <1>2, <1>3, ProcessAssumption DEF ReadyTo, Slots
<1>5. ReadyTo(st, k) = IF st[i] = "READY" THEN R \union {i} ELSE R
  BY <1>2, <1>3 DEF ReadyTo
<1>6. CASE st[i] # "READY"
  <2>1. ReadyTo(st, k) = ReadyTo(st, i)
    BY <1>3, <1>5, <1>6
  <2> QED
    BY <1>1, <1>6, <2>1 DEF SeenTo, ScanEntry
<1>7. CASE st[i] = "READY"
  <2>1. PICK Q : Q = R \union {i}
    OBVIOUS
  <2>2. Q # {} /\ ReadyTo(st, k) = Q /\ Q \subseteq Slots
    BY <1>2, <1>4, <1>5, <1>7, <2>1
  <2>3. SeenTo(st, cur, k)
          = [found |-> TRUE, slot |-> PickOf(Best(Q), cur), best |-> prio[Min(Best(Q))]]
    BY <2>2 DEF SeenTo
  <2>4. PICK was : was = SeenTo(st, cur, i)
    OBVIOUS
  <2>5. ASSUME Best(Q) = {i}
        PROVE  SeenTo(st, cur, k) = [found |-> TRUE, slot |-> i, best |-> prio[i]]
    <3>1. Min({i}) = i
      BY <1>2, LeastIs
    <3>2. Max({i}) = i
      <4>1. {i} # {} /\ {i} \subseteq 0..i
        BY <1>2
      <4> QED
        BY <1>2, <4>1, MaxExists
    <3> QED
      BY <2>3, <2>5, <3>1, <3>2 DEF PickOf
  <2>6. CASE R = {}
    <3>1. was = [found |-> FALSE, slot |-> Idle, best |-> 0]
      BY <1>3, <2>4, <2>6 DEF SeenTo
    <3>2. Best(Q) = {i}
      BY <1>2, <2>1, <2>6 DEF Best
    <3> QED
      BY <1>1, <1>7, <2>4, <2>5, <3>1, <3>2 DEF ScanEntry
  <2>7. CASE R # {}
    <3>1. PICK T : T = Best(R)
      OBVIOUS
    <3>2. PICK b : b = prio[Min(T)]
      OBVIOUS
    <3>3. was = [found |-> TRUE, slot |-> PickOf(T, cur), best |-> b]
      BY <1>3, <2>4, <2>7, <3>1, <3>2 DEF SeenTo
    <3>4. /\ T # {} /\ T \subseteq R /\ T \subseteq Nat /\ Min(T) \in T
          /\ \A j \in T : prio[j] = b
      BY <1>4, <2>7, <3>1, <3>2, BestExists
    <3>5. \A j \in R : j \in Nat /\ j < i /\ prio[j] \in Nat
      BY <1>2, <1>4, ProcessAssumption
    <3>6. b \in Nat /\ \A j \in R : prio[j] <= b
      BY <3>1, <3>2, <3>4, <3>5 DEF Best
    <3>7. T = {j \in R : prio[j] = b}
      <4>1. \A j \in R : prio[j] = b => j \in T
        BY <3>1, <3>6 DEF Best
      <4> QED
        BY <3>4, <4>1
    <3>8. CASE prio[i] > b
      <4>1. \A j \in R : prio[j] <= prio[i] /\ ~(prio[i] <= prio[j])
        BY <1>2, <3>5, <3>6, <3>8
      <4>2. Best(Q) = {i}
        BY <1>2, <2>1, <4>1 DEF Best
      <4> QED
        BY <1>1, <1>7, <2>4, <2>5, <3>3, <3>8, <4>2 DEF ScanEntry
    <3>9. CASE prio[i] = b
      <4>1. Best(Q) = T \union {i}
        BY <1>2, <2>1, <3>5, <3>6, <3>7, <3>9 DEF Best
      <4>2. PICK U : U = T \union {i}
        OBVIOUS
      <4>3. U # {} /\ U \subseteq Nat /\ U \subseteq 0..i /\ T \subseteq 0..i /\ i \in U
        BY <1>2, <3>4, <3>5, <4>2
      <4>4. Max(U) = i
        <5>1. \A j \in U : i >= j
          BY <1>2, <3>4, <3>5, <4>2
        <5> QED
          BY <1>2, <4>3, <5>1, GreatestIs
      <4>5. Min(U) = Min(T)
        <5>1. \A j \in T : Min(T) <= j
          BY <3>4, LeastIs
        <5>2. \A j \in U : Min(T) <= j
          <6>1. Min(T) \in Nat /\ Min(T) < i
            BY <3>4, <3>5
          <6>2. Min(T) <= i
            BY <1>2, <6>1
          <6> QED
            BY <4>2, <5>1, <6>2
        <5>3. Min(T) \in U
          BY <3>4, <4>2
        <5> QED
          BY <4>3, <5>2, <5>3, LeastIs
      <4>6. SeenTo(st, cur, k) = [found |-> TRUE, slot |-> PickOf(U, cur), best |-> b]
        BY <2>3, <3>2, <4>1, <4>2, <4>5
      <4>7. CASE i > cur
        <5>1. PickOf(U, cur) = i
          BY <4>3, <4>4, <4>7 DEF PickOf
        <5>2. ScanEntry(st, cur, was, i) = [was EXCEPT !.slot = i]
          BY <1>2, <1>7, <3>3, <3>6, <3>9, <4>7 DEF ScanEntry
        <5>3. [was EXCEPT !.slot = i] = [found |-> TRUE, slot |-> i, best |-> b]
          BY <3>3, SelectionChanged
        <5>4. SeenTo(st, cur, k) = ScanEntry(st, cur, was, i)
          BY <4>6, <5>1, <5>2, <5>3
        <5> QED
          BY <1>1, <2>4, <5>4
      <4>8. CASE ~(i > cur)
        <5>1. ~(\E j \in U : j > cur) /\ ~(\E j \in T : j > cur)
          BY <1>2, <3>4, <3>5, <4>2, <4>8
        <5>2. PickOf(U, cur) = PickOf(T, cur)
          BY <4>5, <5>1 DEF PickOf
        <5>3. ScanEntry(st, cur, was, i) = was
          BY <1>2, <1>7, <3>3, <3>6, <3>9, <4>8 DEF ScanEntry
        <5> QED
          BY <1>1, <2>4, <3>3, <4>6, <5>2, <5>3
      <4> QED
        BY <4>7, <4>8
    <3>10. CASE prio[i] < b
      <4>1. Best(Q) = T
        <5>1. i \notin Best(Q)
          <6>1. ~(b <= prio[i])
            BY <1>2, <3>6, <3>10
          <6>2. Min(T) \in Q /\ ~(prio[Min(T)] <= prio[i])
            BY <2>1, <3>2, <3>4, <6>1
          <6> QED
            BY <6>2 DEF Best
        <5>2. prio[i] <= b
          BY <1>2, <3>6, <3>10
        <5>3. T \subseteq Best(Q)
          BY <2>1, <3>4, <3>6, <5>2 DEF Best
        <5>4. ASSUME NEW j \in Best(Q) PROVE j \in T
          <6>1. j \in R /\ \A r \in R : prio[r] <= prio[j]
            BY <2>1, <5>1 DEF Best
          <6> QED
            BY <3>1, <6>1 DEF Best
        <5> QED
          BY <5>3, <5>4
      <4>2. ScanEntry(st, cur, was, i) = was
        BY <1>2, <1>7, <3>3, <3>6, <3>10 DEF ScanEntry
      <4> QED
        BY <1>1, <2>3, <2>4, <3>2, <3>3, <4>1, <4>2
    <3> QED
      BY <1>2, <3>6, <3>8, <3>9, <3>10
  <2> QED
    BY <2>6, <2>7
<1> QED
  BY <1>6, <1>7

(* The selections after each entry are what the loop computes, and nothing *)
(* else is.                                                                *)
LEMMA ScanIsSeen ==
  ASSUME prio \in [Slots -> 0..MAX_PRIO], NEW st, NEW cur \in Slots
  PROVE  /\ \E f : f = ScanBody(st, cur, f)
         /\ \A f : f = ScanBody(st, cur, f)
              => \A k \in 0..MAX_PROCESSES : f[k] = SeenTo(st, cur, k)
<1>1. MAX_PROCESSES \in Nat
  BY ProcessAssumption
<1>2. SeenTo(st, cur, 0) = [found |-> FALSE, slot |-> Idle, best |-> 0]
  <2>1. ReadyTo(st, 0) = {}
    BY DEF ReadyTo
  <2> QED
    BY <2>1 DEF SeenTo
<1>3. PICK g : g = [k \in 0..MAX_PROCESSES |-> SeenTo(st, cur, k)]
  OBVIOUS
<1>4. \A k \in 0..MAX_PROCESSES : g[k] = ScanBody(st, cur, g)[k]
  <2> SUFFICES ASSUME NEW k \in 0..MAX_PROCESSES PROVE g[k] = ScanBody(st, cur, g)[k]
    OBVIOUS
  <2>1. CASE k = 0
    BY <1>2, <1>3, <2>1 DEF ScanBody
  <2>2. CASE k # 0
    <3>1. k \in 1..MAX_PROCESSES /\ k - 1 \in 0..MAX_PROCESSES
      BY <1>1, <2>2
    <3>2. g[k] = SeenTo(st, cur, k) /\ g[k - 1] = SeenTo(st, cur, k - 1)
      BY <1>3, <3>1
    <3>3. ScanBody(st, cur, g)[k] = ScanEntry(st, cur, g[k - 1], k - 1)
      BY <2>2 DEF ScanBody
    <3> QED
      BY <3>1, <3>2, <3>3, SeenStep
  <2> QED
    BY <2>1, <2>2
<1>5. g = ScanBody(st, cur, g)
  <2>1. ScanBody(st, cur, g) = [k \in 0..MAX_PROCESSES |-> ScanBody(st, cur, g)[k]]
    BY DEF ScanBody
  <2>2. g = [k \in 0..MAX_PROCESSES |-> g[k]]
    BY <1>3
  <2> QED
    BY <1>4, <2>1, <2>2
<1>6. ASSUME NEW f, f = ScanBody(st, cur, f), NEW l \in 0..MAX_PROCESSES, f[l] # g[l]
      PROVE  FALSE
  <2> DEFINE Bad == {k \in 0..MAX_PROCESSES : f[k] # g[k]}
  <2>1. Bad # {} /\ Bad \subseteq Nat
    BY <1>1, <1>6
  <2>2. PICK k \in Bad : \A j \in Bad : k <= j
    <3> HIDE DEF Bad
    <3> QED
      BY <2>1, MinExists
  <2>3. /\ k \in 0..MAX_PROCESSES /\ f[k] # g[k]
        /\ f[k] = ScanBody(st, cur, f)[k] /\ g[k] = ScanBody(st, cur, g)[k]
    BY <1>5, <1>6
  <2>4. CASE k = 0
    BY <2>3, <2>4 DEF ScanBody
  <2>5. CASE k # 0
    <3>1. k - 1 \in 0..MAX_PROCESSES /\ ~(k <= k - 1)
      BY <1>1, <2>3, <2>5
    <3>2. f[k - 1] = g[k - 1]
      BY <2>2, <3>1
    <3>3. /\ ScanBody(st, cur, f)[k] = ScanEntry(st, cur, f[k - 1], k - 1)
          /\ ScanBody(st, cur, g)[k] = ScanEntry(st, cur, g[k - 1], k - 1)
      BY <2>3, <2>5 DEF ScanBody
    <3> QED
      BY <2>3, <3>2, <3>3
  <2> QED
    BY <2>4, <2>5
<1>7. \A k \in 0..MAX_PROCESSES : g[k] = SeenTo(st, cur, k)
  BY <1>3
<1> QED
  BY <1>5, <1>6, <1>7

(* After the whole table the loop has selected NextSlot, whatever entries  *)
(* are READY and whichever is current.                                     *)
LEMMA ScanSelects ==
  ASSUME prio \in [Slots -> 0..MAX_PRIO], NEW st, NEW cur \in Slots
  PROVE  NextSlot(st, cur) = Scan(st, cur)
<1>1. MAX_PROCESSES \in 0..MAX_PROCESSES
  BY ProcessAssumption
<1>2. PICK f : f = CHOOSE g : g = ScanBody(st, cur, g)
  OBVIOUS
<1>3. Scan(st, cur) = f[MAX_PROCESSES].slot
  BY <1>2, Zenon DEF Scan, ScanBody, ScanEntry
<1>4. f = ScanBody(st, cur, f)
  BY <1>2, ScanIsSeen
<1>5. f[MAX_PROCESSES] = SeenTo(st, cur, MAX_PROCESSES)
  BY <1>1, <1>4, ScanIsSeen
<1>6. ReadyTo(st, MAX_PROCESSES) = Ready(st) /\ Best(Ready(st)) = Top(st)
  BY DEF ReadyTo, Ready, Slots, Best, Top
<1>7. CASE Ready(st) = {}
  <2>1. Top(st) = {}
    BY <1>7 DEF Top
  <2> QED
    BY <1>3, <1>5, <1>6, <1>7, <2>1 DEF SeenTo, NextSlot
<1>8. CASE Ready(st) # {}
  <2>1. Top(st) # {}
    BY <1>8, NextSlotIsTop
  <2>2. SeenTo(st, cur, MAX_PROCESSES).slot = PickOf(Top(st), cur)
    BY <1>6, <1>8 DEF SeenTo
  <2> QED
    BY <1>3, <1>5, <2>1, <2>2 DEF NextSlot, PickOf
<1> QED
  BY <1>7, <1>8

(* On every table process_schedule may meet, its loop over process_table   *)
(* selects what NextSlot declares: the last of the best behind the current *)
(* slot, else the first.                                                   *)
THEOREM ScanIsExact == Spec => []ScanAgrees
<1>1. IInv => ScanAgrees
  <2>1. TypeOK => prio \in [Slots -> 0..MAX_PRIO] /\ current \in Slots
    BY DEF TypeOK
  <2> QED
    BY <2>1, ScanSelects DEF IInv, ScanAgrees
<1> QED
  BY <1>1, Invariance, PTL
=============================================================================
