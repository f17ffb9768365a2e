------------------------------ MODULE IpcProofs ------------------------------
(***************************************************************************)
(* Proofs about module Ipc: the rings keep their shape and implement the   *)
(* mailboxes of module Fifo, for every number of processes, ring size,     *)
(* message and buffer.                                                     *)
(***************************************************************************)
EXTENDS Ipc, KernelLemmas, TLAPS

Statuses == {"unborn", "alive", "zombie", "gone"}
Messages == [sender : Nat, data : Seq(0..255)]
Rings ==
  [messages : [Index -> Messages], head : Index, tail : Index, count : 0..MESSAGE_QUEUE_SIZE]
Shaped(q) == q.tail = (q.head + q.count) % MESSAGE_QUEUE_SIZE

(* The inductive invariant: rings of messages in shape, and no process and *)
(* no message beyond next_pid.                                             *)
IpcInv ==
  /\ next_pid \in 1..(MaxPid + 1)
  /\ status \in [Pids -> Statuses]
  /\ queue \in [Pids -> Rings]
  /\ \A p \in Pids : Shaped(queue[p])
  /\ \A p \in Pids : p >= next_pid => status[p] = "unborn" /\ queue[p].count = 0

(* The inductive invariant implies the shape of the ring.                  *)
LEMMA InvGivesShape == IpcInv => RingShape
  BY DEF IpcInv, RingShape, TypeOK, Rings, Statuses, Shaped

-----------------------------------------------------------------------------
(* The ring operations.                                                    *)

(* The ring has at least one entry.                                        *)
LEMMA SizeOk == MESSAGE_QUEUE_SIZE \in Nat \ {0} /\ Index = 0..(MESSAGE_QUEUE_SIZE - 1)
  BY IpcAssumption DEF Index

(* The contents of a ring are the window of count entries at its head.     *)
LEMMA RingParts ==
  ASSUME NEW q \in Rings
  PROVE  \E m \in [Index -> Messages], h, t \in Index, n \in 0..MESSAGE_QUEUE_SIZE :
           /\ q.messages = m /\ q.head = h /\ q.tail = t /\ q.count = n
           /\ Contents(q) = Window(m, h, n, MESSAGE_QUEUE_SIZE)
           /\ Shaped(q) <=> t = Slot(h + n, MESSAGE_QUEUE_SIZE)
<1>1. /\ q.messages \in [Index -> Messages] /\ q.head \in Index /\ q.tail \in Index
      /\ q.count \in 0..MESSAGE_QUEUE_SIZE
  BY DEF Rings
<1>2. /\ Contents(q) = Window(q.messages, q.head, q.count, MESSAGE_QUEUE_SIZE)
      /\ Shaped(q) <=> q.tail = Slot(q.head + q.count, MESSAGE_QUEUE_SIZE)
  BY DEF Contents, Window, Shaped, Slot
<1> QED
  BY <1>1, <1>2

(* What a ring holds, read from its head, is a sequence of messages.       *)
LEMMA ContentsIsSeq ==
  ASSUME NEW q \in Rings
  PROVE  /\ Contents(q) \in Seq(Messages)
         /\ Len(Contents(q)) = q.count
         /\ q.count = 0 <=> Contents(q) = <<>>
<1>1. PICK m \in [Index -> Messages], h, t \in Index, n \in 0..MESSAGE_QUEUE_SIZE :
        /\ q.messages = m /\ q.head = h /\ q.tail = t /\ q.count = n
        /\ Contents(q) = Window(m, h, n, MESSAGE_QUEUE_SIZE)
  BY RingParts
<1>2. Contents(q) \in Seq(Messages) /\ Len(Contents(q)) = n
  <2>1. PICK S : S = MESSAGE_QUEUE_SIZE
    OBVIOUS
  <2>2. S \in Nat \ {0} /\ h \in 0..(S - 1) /\ n \in 0..S /\ m \in RingOf(S, Messages)
    BY <2>1, SizeOk DEF RingOf
  <2>3. Window(m, h, n, S) \in Seq(Messages) /\ Len(Window(m, h, n, S)) = n
    BY ONLY <2>2, WindowIsSeq
  <2> QED
    BY <1>1, <2>1, <2>3
<1>3. q.count = n /\ n \in Nat
  BY <1>1, SizeOk
<1> QED
  BY <1>2, <1>3, EmptySeq

(* The queue of a new process is a well-formed empty ring.                 *)
LEMMA EmptyQueueIsRing ==
  /\ EmptyQueue \in Rings
  /\ Shaped(EmptyQueue)
  /\ EmptyQueue.count = 0
  /\ Contents(EmptyQueue) = <<>>
<1>1. MESSAGE_QUEUE_SIZE \in Nat \ {0}
  BY SizeOk
<1>2. Blank \in Messages
  BY EmptySeq DEF Blank, Messages
<1>3. EmptyQueue \in Rings /\ EmptyQueue.count = 0
  BY <1>1, <1>2 DEF EmptyQueue, Rings, Index
<1>4. Shaped(EmptyQueue)
  BY <1>1 DEF EmptyQueue, Shaped
<1> QED
  BY <1>3, <1>4, ContentsIsSeq

(* process_send_message on a ring with room appends the message.           *)
LEMMA EnqueueAppends ==
  ASSUME NEW q \in Rings, Shaped(q), ~Full(q), NEW msg \in Messages
  PROVE  /\ Enqueue(q, msg) \in Rings
         /\ Shaped(Enqueue(q, msg))
         /\ Contents(Enqueue(q, msg)) = Append(Contents(q), msg)
<1> DEFINE S == MESSAGE_QUEUE_SIZE
           r == Enqueue(q, msg)
<1>1. PICK m \in [Index -> Messages], h, t \in Index, n \in 0..S :
        /\ q.messages = m /\ q.head = h /\ q.tail = t /\ q.count = n
        /\ Contents(q) = Window(m, h, n, S)
        /\ t = Slot(h + n, S)
  BY RingParts
<1>2. n \in 0..(S - 1)
  BY <1>1, SizeOk DEF Full
<1>3. /\ r.messages = [m EXCEPT ![t] = msg] /\ r.head = h
      /\ r.tail = Slot(t + 1, S) /\ r.count = n + 1
  BY <1>1 DEF Enqueue, Rings, Advance, Slot
<1>a. /\ S \in Nat \ {0} /\ h \in 0..(S - 1) /\ t \in 0..(S - 1) /\ n \in 0..S /\ n < S
      /\ m \in RingOf(S, Messages)
  BY <1>2, SizeOk DEF RingOf
<1>4. Slot(t + 1, S) \in Index /\ n + 1 \in 0..S
  BY <1>2, SizeOk, SlotSteps
<1>6. r \in Rings
  <2>1. r = [q EXCEPT !.messages[t] = msg, !.tail = Slot(t + 1, S), !.count = n + 1]
    BY <1>1 DEF Enqueue, Rings, Advance, Slot
  <2> DEFINE x == Slot(t + 1, S)
             y == n + 1
  <2>2. x \in Index /\ y \in 0..S
    BY <1>4
  <2> HIDE DEF x, y
  <2>3. [q EXCEPT !.messages[t] = msg, !.tail = x, !.count = y] \in Rings
    BY <2>2 DEF Rings
  <2> QED
    BY <2>1, <2>3 DEF x, y
<1>7. Shaped(r)
  <2>1. Slot(t + 1, S) = Slot(h + (n + 1), S)
    BY <1>1, <1>a, SlotSteps, Zenon
  <2> QED
    BY <1>3, <2>1 DEF Shaped, Slot
<1>8. Contents(r) = Window([m EXCEPT ![t] = msg], h, n + 1, S)
  BY <1>3 DEF Contents, Window, Slot
<1>9. Window([m EXCEPT ![t] = msg], h, n + 1, S) = Append(Window(m, h, n, S), msg)
  <2> DEFINE after == [m EXCEPT ![t] = msg]
             l == n + 1
  <2>1. after \in RingOf(S, Messages) /\ SlotWritten(m, h, n, msg, after, S)
    BY <1>1, <1>a DEF RingOf, SlotWritten
  <2>2. l \in 0..S /\ l = n + 1
    BY <1>a
  <2> HIDE DEF after, l
  <2>3. Window(after, h, l, S) = Append(Window(m, h, n, S), msg)
    BY <1>a, <2>1, <2>2, WindowAppend
  <2> QED
    BY <2>3 DEF after, l
<1> QED
  BY <1>1, <1>6, <1>7, <1>8, <1>9

(* process_receive_message on a ring that is not empty reads its oldest    *)
(* message and drops it.                                                   *)
LEMMA DequeueDropsFirst ==
  ASSUME NEW q \in Rings, Shaped(q), q.count # 0
  PROVE  /\ Dequeue(q) \in Rings
         /\ Shaped(Dequeue(q))
         /\ Contents(q) # <<>>
         /\ Head(Contents(q)) = q.messages[q.head]
         /\ Contents(Dequeue(q)) = Tail(Contents(q))
<1> DEFINE S == MESSAGE_QUEUE_SIZE
           r == Dequeue(q)
<1>1. PICK m \in [Index -> Messages], h, t \in Index, n \in 0..S :
        /\ q.messages = m /\ q.head = h /\ q.tail = t /\ q.count = n
        /\ Contents(q) = Window(m, h, n, S)
        /\ t = Slot(h + n, S)
  BY RingParts
<1>2. n \in 1..S
  BY <1>1, SizeOk
<1>3. /\ r.messages = m /\ r.head = Slot(h + 1, S)
      /\ r.tail = t /\ r.count = n - 1
  BY <1>1 DEF Dequeue, Rings, Advance, Slot
<1>a. S \in Nat \ {0} /\ h \in 0..(S - 1) /\ n > 0 /\ m \in RingOf(S, Messages)
  BY <1>2, SizeOk DEF RingOf
<1>4. Slot(h + 1, S) \in Index /\ n - 1 \in 0..S
  BY <1>2, SizeOk, SlotSteps
<1>5. r \in Rings
  <2>1. r = [q EXCEPT !.head = Slot(h + 1, S), !.count = n - 1]
    BY <1>1 DEF Dequeue, Rings, Advance, Slot
  <2> DEFINE x == Slot(h + 1, S)
             y == n - 1
  <2>2. x \in Index /\ y \in 0..S
    BY <1>4
  <2> HIDE DEF x, y
  <2>3. [q EXCEPT !.head = x, !.count = y] \in Rings
    BY <2>2 DEF Rings
  <2> QED
    BY <2>1, <2>3 DEF x, y
<1>6. Shaped(r)
  <2>1. Slot(Slot(h + 1, S) + (n - 1), S) = t
    BY <1>1, <1>a, SlotSteps, Zenon
  <2> QED
    BY <1>3, <2>1 DEF Shaped, Slot
<1>7. Contents(r) = Window(m, Slot(h + 1, S), n - 1, S)
  BY <1>3 DEF Contents, Window, Slot
<1>8. /\ Window(m, h, n, S) # <<>>
      /\ Head(Window(m, h, n, S)) = m[h]
      /\ Window(m, Slot(h + 1, S), n - 1, S) = Tail(Window(m, h, n, S))
  BY <1>2, <1>a, WindowTail, Zenon
<1> QED
  BY <1>1, <1>5, <1>6, <1>7, <1>8

-----------------------------------------------------------------------------
(* The invariant.                                                          *)

(* The rings are well formed at the start.                                 *)
LEMMA InitInv == Init => IpcInv
<1> SUFFICES ASSUME Init PROVE IpcInv
  OBVIOUS
<1>1. next_pid \in 1..(MaxPid + 1)
  BY IpcAssumption DEF Init
<1>2. status \in [Pids -> Statuses] /\ \A p \in Pids : status[p] = "unborn"
  BY DEF Init, Statuses
<1>3. queue \in [Pids -> Rings] /\ \A p \in Pids : queue[p] = EmptyQueue
  BY EmptyQueueIsRing DEF Init
<1> QED
  BY <1>1, <1>2, <1>3, EmptyQueueIsRing DEF IpcInv

(* Every step but process_create leaves next_pid alone and gives a listed  *)
(* process a ring in shape.                                                *)
LEMMA UpdatePreserves ==
  ASSUME IpcInv, NEW p \in Pids, status[p] # "unborn", NEW st \in Statuses, NEW q \in Rings,
         Shaped(q), next_pid' = next_pid,
         status' = [status EXCEPT ![p] = st], queue' = [queue EXCEPT ![p] = q]
  PROVE  IpcInv'
<1>1. p < next_pid
  BY DEF IpcInv, Pids
<1>2. status' \in [Pids -> Statuses] /\ queue' \in [Pids -> Rings]
  BY DEF IpcInv
<1>3. \A o \in Pids : Shaped(queue'[o])
  BY DEF IpcInv
<1>4. \A o \in Pids : o >= next_pid => status'[o] = "unborn" /\ queue'[o].count = 0
  BY <1>1 DEF IpcInv, Pids
<1> QED
  BY <1>2, <1>3, <1>4 DEF IpcInv

(* A new process gets an empty ring; the others keep theirs.               *)
LEMMA CreatePreserves == IpcInv /\ Create => IpcInv'
<1> SUFFICES ASSUME IpcInv, Create PROVE IpcInv'
  OBVIOUS
<1>1. next_pid' \in 1..(MaxPid + 1)
  BY IpcAssumption DEF IpcInv, Create, Pids
<1>2. status' \in [Pids -> Statuses] /\ queue' \in [Pids -> Rings]
  BY EmptyQueueIsRing DEF IpcInv, Create, Statuses
<1>3. \A p \in Pids : Shaped(queue'[p])
  BY EmptyQueueIsRing DEF IpcInv, Create
<1>4. \A p \in Pids : p >= next_pid' => status'[p] = "unborn" /\ queue'[p].count = 0
  BY DEF IpcInv, Create, Pids
<1> QED
  BY <1>1, <1>2, <1>3, <1>4 DEF IpcInv

(* The message process_send builds is a message.                           *)
LEMMA MessageOk ==
  ASSUME NEW p \in Pids, NEW data \in Data
  PROVE  [sender |-> p, data |-> data] \in Messages
  BY IpcAssumption DEF Messages, Pids

(* Every step keeps the rings well formed.                                 *)
LEMMA NextPreserves == IpcInv /\ [Next]_vars => IpcInv'
<1> SUFFICES ASSUME IpcInv, [Next]_vars PROVE IpcInv'
  OBVIOUS
<1>1. CASE Create
  BY <1>1, CreatePreserves
<1>2. ASSUME NEW p \in Pids, Exit(p) PROVE IpcInv'
  <2>1. status' = [status EXCEPT ![p] = "zombie"] /\ queue' = [queue EXCEPT ![p] = queue[p]]
    BY <1>2 DEF IpcInv, Exit
  <2>2. queue[p] \in Rings /\ Shaped(queue[p]) /\ "zombie" \in Statuses
    BY DEF IpcInv, Statuses
  <2> QED
    BY <1>2, <2>1, <2>2, UpdatePreserves DEF Exit
<1>3. ASSUME NEW p \in Pids, Kill(p) PROVE IpcInv'
  <2>1. "gone" \in Statuses /\ status[p] # "unborn"
    BY <1>3 DEF Statuses, Kill, Listed
  <2> QED
    BY <1>3, <2>1, EmptyQueueIsRing, UpdatePreserves DEF Kill
<1>4. ASSUME NEW p \in Pids, NEW t \in Pids, NEW data \in Data, Send(p, t, data) PROVE IpcInv'
  <2>1. CASE UNCHANGED queue
    BY <1>4, <2>1 DEF IpcInv, Send
  <2>2. CASE queue' # queue
    <3> DEFINE q == Enqueue(queue[t], [sender |-> p, data |-> data])
    <3>1. /\ Listed(t) /\ ~Full(queue[t])
          /\ queue' = [queue EXCEPT ![t] = q]
      BY <1>4, <2>2 DEF Send
    <3>2. status' = [status EXCEPT ![t] = status[t]] /\ next_pid' = next_pid
      BY <1>4 DEF Send, IpcInv
    <3>3. q \in Rings /\ Shaped(q)
      BY <3>1, EnqueueAppends, MessageOk DEF IpcInv
    <3>4. status[t] \in Statuses /\ status[t] # "unborn"
      BY <3>1 DEF IpcInv, Listed
    <3> HIDE DEF q
    <3> QED
      BY <3>1, <3>2, <3>3, <3>4, UpdatePreserves
  <2> QED
    BY <2>1, <2>2
<1>5. ASSUME NEW p \in Pids, NEW room \in BufferSizes, Receive(p, room) PROVE IpcInv'
  <2>1. CASE UNCHANGED queue
    BY <1>5, <2>1 DEF IpcInv, Receive
  <2>2. CASE queue' # queue
    <3> DEFINE q == Dequeue(queue[p])
    <3>1. queue[p].count # 0 /\ queue' = [queue EXCEPT ![p] = q]
      BY <1>5, <2>2 DEF Receive
    <3>2. status' = [status EXCEPT ![p] = status[p]] /\ next_pid' = next_pid
      BY <1>5 DEF Receive, IpcInv
    <3>3. q \in Rings /\ Shaped(q)
      BY <3>1, DequeueDropsFirst DEF IpcInv
    <3>4. status[p] \in Statuses /\ status[p] # "unborn"
      BY <1>5 DEF IpcInv, Receive
    <3> HIDE DEF q
    <3> QED
      BY <3>1, <3>2, <3>3, <3>4, UpdatePreserves
  <2> QED
    BY <2>1, <2>2
<1>6. CASE UNCHANGED vars
  BY <1>6 DEF IpcInv, vars
<1> QED
  BY <1>1, <1>2, <1>3, <1>4, <1>5, <1>6 DEF Next

(* The rings keep their shape: head, tail and count agree after every      *)
(* sequence of sends, receives, exits and kills.                           *)
THEOREM RingShapeInvariance == Spec => [](IpcInv /\ RingShape)
<1>1. IpcInv => RingShape
  BY InvGivesShape
<1> QED
  BY <1>1, InitInv, NextPreserves, PTL DEF Spec

-----------------------------------------------------------------------------
(* The refinement.                                                         *)

box == [p \in Pids |-> Contents(queue[p])]

(* The mailboxes after a step that changes the ring of one process only.   *)
LEMMA BoxAfter ==
  ASSUME IpcInv, NEW p \in Pids, NEW q, queue' = [queue EXCEPT ![p] = q]
  PROVE  box' = [box EXCEPT ![p] = Contents(q)]
<1>1. \A o \in Pids : queue'[o] = IF o = p THEN q ELSE queue[o]
  BY DEF IpcInv
<1>2. box' = [o \in Pids |-> Contents(queue'[o])]
  BY DEF box
<1>3. \A o \in Pids : Contents(queue'[o]) = IF o = p THEN Contents(q) ELSE Contents(queue[o])
  BY <1>1
<1>4. [box EXCEPT ![p] = Contents(q)]
        = [o \in Pids |-> IF o = p THEN Contents(q) ELSE Contents(queue[o])]
  BY DEF box
<1> QED
  BY <1>2, <1>3, <1>4

(* A step that touches no ring changes no mailbox.                         *)
LEMMA BoxUnchanged == UNCHANGED queue => UNCHANGED box
  BY DEF box

(* At the start every mailbox is empty.                                    *)
LEMMA InitRefines == Init => Mailbox!Init
<1> SUFFICES ASSUME Init PROVE Mailbox!Init
  OBVIOUS
<1>1. \A p \in Pids : Contents(queue[p]) = <<>>
  BY EmptyQueueIsRing DEF Init
<1> QED
  BY <1>1 DEF Init, Mailbox!Init, Mailbox!Refused, Code

(* Creating a process is the mailbox's Birth.                              *)
LEMMA CreateRefines ==
  ASSUME IpcInv, Create
  PROVE  next_pid \in Pids /\ Mailbox!Birth(next_pid)
<1>1. next_pid \in Pids /\ status[next_pid] = "unborn" /\ queue[next_pid].count = 0
  BY DEF IpcInv, Create, Pids
<1>2. Contents(queue[next_pid]) = <<>>
  BY <1>1, ContentsIsSeq DEF IpcInv
<1>3. box' = [box EXCEPT ![next_pid] = Contents(EmptyQueue)]
  BY <1>1, BoxAfter DEF Create
<1>4. box' = box
  BY <1>1, <1>2, <1>3, EmptyQueueIsRing DEF box
<1> QED
  BY <1>1, <1>4 DEF Create, Mailbox!Birth, box

(* A process that exits keeps its mailbox until it is killed.              *)
LEMMA ExitRefines ==
  ASSUME IpcInv, NEW p \in Pids, Exit(p)
  PROVE  Mailbox!Death(p)
  BY BoxUnchanged DEF Exit, Mailbox!Death, box

(* Killing a process drops its mailbox.                                    *)
LEMMA KillRefines ==
  ASSUME IpcInv, NEW p \in Pids, Kill(p)
  PROVE  Mailbox!Removal(p)
<1>1. box' = [box EXCEPT ![p] = <<>>]
  BY BoxAfter, EmptyQueueIsRing DEF Kill
<1> QED
  BY <1>1 DEF Kill, Listed, Mailbox!Removal, box

(* A send that is refused, or that appends to the receiver's mailbox.      *)
LEMMA SendRefines ==
  ASSUME IpcInv, NEW p \in Pids, NEW t \in Pids, NEW data \in Data, Send(p, t, data)
  PROVE  Mailbox!Accept(p, t, data) \/ Mailbox!RefuseSend(p, t, data)
<1>1. /\ queue[t] \in Rings /\ Shaped(queue[t]) /\ status[t] \in Statuses
      /\ box[t] = Contents(queue[t]) /\ Len(box[t]) = queue[t].count
      /\ queue[t].count \in 0..MESSAGE_QUEUE_SIZE
  BY ContentsIsSeq DEF IpcInv, box, Rings
<1>2. status[p] = "alive" /\ status' = status
  BY DEF Send
<1>3. CASE UNCHANGED queue /\ result' \in {Code(-1), Code(-2), Code(-3)}
  <2>1. \/ Len(data) \notin 1..MAX_MESSAGE_SIZE
        \/ status[t] \in {"unborn", "gone"}
        \/ Len(box[t]) = MESSAGE_QUEUE_SIZE
    <3>1. \/ Len(data) = 0 \/ Len(data) > MAX_MESSAGE_SIZE
          \/ ~Listed(t)
          \/ Full(queue[t])
      BY <1>3 DEF Send, Code
    <3>2. Full(queue[t]) => Len(box[t]) = MESSAGE_QUEUE_SIZE
      BY <1>1, SizeOk DEF Full
    <3>3. ~Listed(t) => status[t] \in {"unborn", "gone"}
      BY <1>1 DEF Listed, Statuses
    <3>4. Len(data) = 0 \/ Len(data) > MAX_MESSAGE_SIZE => Len(data) \notin 1..MAX_MESSAGE_SIZE
      BY IpcAssumption
    <3> QED
      BY <3>1, <3>2, <3>3, <3>4
  <2>2. box' = box
    BY <1>3, BoxUnchanged
  <2>3. \E code \in {-3, -2, -1} : result' = Mailbox!Refused(code)
    BY <1>3 DEF Code, Mailbox!Refused
  <2>4. Mailbox!Refuse
    BY <1>2, <2>2, <2>3 DEF Mailbox!Refuse, box
  <2>5. Mailbox!RefuseSend(p, t, data)
    BY <1>2, <2>1, <2>4 DEF Mailbox!RefuseSend, box
  <2> QED
    BY <2>5
<1>4. CASE ~(UNCHANGED queue /\ result' \in {Code(-1), Code(-2), Code(-3)})
  <2> DEFINE msg == [sender |-> p, data |-> data]
  <2>1. /\ Len(data) \in 1..MAX_MESSAGE_SIZE /\ Listed(t) /\ ~Full(queue[t])
        /\ queue' = [queue EXCEPT ![t] = Enqueue(queue[t], msg)]
        /\ result' = Code(0)
    BY <1>4 DEF Send
  <2>2. Contents(Enqueue(queue[t], msg)) = Append(box[t], msg)
    BY <1>1, <2>1, EnqueueAppends, MessageOk
  <2>3. box' = [box EXCEPT ![t] = Append(box[t], msg)]
    BY <2>1, <2>2, BoxAfter
  <2>4. Len(box[t]) < MESSAGE_QUEUE_SIZE
    BY <1>1, <2>1, SizeOk DEF Full
  <2>5. Mailbox!Accept(p, t, data)
    BY <1>2, <2>1, <2>3, <2>4 DEF Mailbox!Accept, Mailbox!Refused, Listed, Code, box
  <2> QED
    BY <2>5
<1> QED
  BY <1>3, <1>4

(* A receive that is refused, or that takes the oldest message.            *)
LEMMA ReceiveRefines ==
  ASSUME IpcInv, NEW p \in Pids, NEW room \in BufferSizes, Receive(p, room)
  PROVE  Mailbox!Deliver(p, room) \/ Mailbox!RefuseReceive(p, room)
<1>1. /\ queue[p] \in Rings /\ Shaped(queue[p])
      /\ box[p] = Contents(queue[p])
      /\ queue[p].count = 0 <=> box[p] = <<>>
  BY ContentsIsSeq DEF IpcInv, box
<1>2. status[p] = "alive" /\ status' = status /\ room \in Nat
  BY IpcAssumption DEF Receive
<1>3. CASE UNCHANGED queue /\ result' \in {Code(-1), Code(-2), Code(-3)}
  <2>1. room = 0 \/ box[p] = <<>>
    <3>1. room = 0 \/ queue[p].count = 0 \/ queue' = [queue EXCEPT ![p] = Dequeue(queue[p])]
      BY DEF Receive
    <3>2. CASE queue' = [queue EXCEPT ![p] = Dequeue(queue[p])]
      <4>1. queue[p] = Dequeue(queue[p])
        BY <1>3, <3>2 DEF IpcInv
      <4>2. Dequeue(queue[p]).count = queue[p].count - 1 /\ queue[p].count \in Nat
        BY <1>1, SizeOk DEF Dequeue, Rings
      <4> QED
        BY <4>1, <4>2
    <3> QED
      BY <1>1, <3>1, <3>2
  <2>2. box' = box
    BY <1>3, BoxUnchanged
  <2>3. \E code \in {-3, -2, -1} : result' = Mailbox!Refused(code)
    BY <1>3 DEF Code, Mailbox!Refused
  <2>4. Mailbox!Refuse
    BY <1>2, <2>2, <2>3 DEF Mailbox!Refuse, box
  <2>5. Mailbox!RefuseReceive(p, room)
    BY <1>2, <2>1, <2>4 DEF Mailbox!RefuseReceive, box
  <2> QED
    BY <2>5
<1>4. CASE ~(UNCHANGED queue /\ result' \in {Code(-1), Code(-2), Code(-3)})
  <2> DEFINE msg == queue[p].messages[queue[p].head]
             n == CopyLength(msg, room)
             got == SubSeq(msg.data, 1, n)
  <2>1. /\ room > 0 /\ queue[p].count # 0
        /\ result' = [code |-> n, sender |-> msg.sender, data |-> got]
        /\ queue' = [queue EXCEPT ![p] = Dequeue(queue[p])]
    BY <1>4 DEF Receive
  <2>2. /\ box[p] # <<>> /\ Head(box[p]) = msg
        /\ Contents(Dequeue(queue[p])) = Tail(box[p])
    BY <1>1, <2>1, DequeueDropsFirst
  <2>3. box' = [box EXCEPT ![p] = Tail(box[p])]
    BY <2>1, <2>2, BoxAfter
  <2>4. msg.data \in Seq(0..255)
    BY <1>1 DEF Rings, Messages
  <2>5. Len(got) = n /\ Mailbox!Cut(msg.data, room) = got
    <3> DEFINE d == msg.data
    <3>1. d \in Seq(0..255)
      BY <2>4
    <3>2. n = IF Len(d) < room THEN Len(d) ELSE room
      BY DEF CopyLength
    <3> HIDE DEF d, n
    <3>3. n \in 0..Len(d) /\ Len(d) \in Nat
      BY <1>2, <3>1, <3>2, LenProperties
    <3>4. Len(SubSeq(d, 1, n)) = n
      BY <3>1, <3>3
    <3>5. SubSeq(d, 1, n) = Mailbox!Cut(d, room)
      BY <3>2 DEF Mailbox!Cut
    <3> QED
      BY <3>4, <3>5 DEF d
  <2> HIDE DEF msg, n, got
  <2>6. Mailbox!Deliver(p, room)
    BY <1>2, <2>1, <2>2, <2>3, <2>5 DEF Mailbox!Deliver, box
  <2> QED
    BY <2>6
<1> QED
  BY <1>3, <1>4

(* Every step of the rings is a step of the mailboxes, or none.            *)
LEMMA NextRefines == IpcInv /\ [Next]_vars => [Mailbox!Next]_Mailbox!fifoVars
<1> SUFFICES ASSUME IpcInv, [Next]_vars PROVE [Mailbox!Next]_Mailbox!fifoVars
  OBVIOUS
<1>1. CASE Create
  BY <1>1, CreateRefines DEF Mailbox!Next
<1>2. CASE \E p \in Pids : Exit(p) \/ Kill(p)
  BY <1>2, ExitRefines, KillRefines DEF Mailbox!Next
<1>3. CASE \E p, t \in Pids, data \in Data : Send(p, t, data)
  BY <1>3, SendRefines DEF Mailbox!Next
<1>4. CASE \E p \in Pids, room \in BufferSizes : Receive(p, room)
  BY <1>4, ReceiveRefines DEF Mailbox!Next
<1>5. CASE UNCHANGED vars
  BY <1>5, BoxUnchanged DEF vars, Mailbox!fifoVars, box
<1> QED
  BY <1>1, <1>2, <1>3, <1>4, <1>5 DEF Next

(* The message queues implement bounded FIFO mailboxes: nothing accepted   *)
(* is lost, duplicated, reordered or mixed with stale ring contents.       *)
THEOREM QueuesImplementFifo == Spec => ImplementsFifo
<1>1. Spec => []IpcInv
  BY RingShapeInvariance, PTL
<1> QED
  BY <1>1, InitRefines, NextRefines, PTL DEF Spec, ImplementsFifo, Mailbox!Spec
=============================================================================
