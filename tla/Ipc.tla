--------------------------------- MODULE Ipc ---------------------------------
(***************************************************************************)
(* The message queues of Wittche OS: process_send_message and              *)
(* process_receive_message over the ring buffer in each PCB, reached       *)
(* directly or through SYS_SEND and SYS_RECV (kernel/process.c,            *)
(* kernel/syscall.c).                                                      *)
(*                                                                         *)
(* A process is named by its PID, which is never handed out twice.  Calls  *)
(* are atomic: a running process is not interrupted (module Process,       *)
(* InServiceOutsideShell).  Any process that is alive may be the running   *)
(* one.  A message is its sender and its bytes; ring entries keep what was *)
(* last stored in them, as the memory does.                                *)
(***************************************************************************)
EXTENDS Integers, Sequences

CONSTANTS
  MaxPid,              \* bound: PIDs handed out
  MESSAGE_QUEUE_SIZE,  \* entries of a ring (8)
  MAX_MESSAGE_SIZE,    \* bytes of a message (256)
  Data,                \* what processes try to send: byte sequences
  BufferSizes          \* sizes of the buffers they receive into

ASSUME IpcAssumption ==
  /\ MaxPid \in Nat \ {0}
  /\ MESSAGE_QUEUE_SIZE \in Nat \ {0}
  /\ MAX_MESSAGE_SIZE \in Nat \ {0}
  /\ Data \subseteq Seq(0..255)
  /\ BufferSizes \subseteq Nat

VARIABLES
  next_pid,
  status,   \* "unborn", "alive", "zombie" (TERMINATED, still listed), "gone"
  queue,    \* queue[p]: the PCB's msg_queue
  result    \* what the last call returned: code, sender and bytes

vars == <<next_pid, status, queue, result>>

Pids == 1..MaxPid
Index == 0..(MESSAGE_QUEUE_SIZE - 1)
Blank == [sender |-> 0, data |-> <<>>]
EmptyQueue == [messages |-> [k \in Index |-> Blank], head |-> 0, tail |-> 0, count |-> 0]
Listed(p) == status[p] \in {"alive", "zombie"}
Code(c) == [code |-> c, sender |-> 0, data |-> <<>>]

Init ==
  /\ next_pid = 1
  /\ status = [p \in Pids |-> "unborn"]
  /\ queue = [p \in Pids |-> EmptyQueue]
  /\ result = Code(0)

(* process_create: a fresh queue.                                          *)
Create ==
  /\ next_pid \in Pids
  /\ status' = [status EXCEPT ![next_pid] = "alive"]
  /\ queue' = [queue EXCEPT ![next_pid] = EmptyQueue]
  /\ next_pid' = next_pid + 1
  /\ UNCHANGED result

(* process_exit: the process stays in the table with its queue.            *)
Exit(p) ==
  /\ status[p] = "alive"
  /\ status' = [status EXCEPT ![p] = "zombie"]
  /\ UNCHANGED <<next_pid, queue, result>>

(* process_kill from the shell: queue and entry are gone.                  *)
Kill(p) ==
  /\ Listed(p)
  /\ status' = [status EXCEPT ![p] = "gone"]
  /\ queue' = [queue EXCEPT ![p] = EmptyQueue]
  /\ UNCHANGED <<next_pid, result>>

Advance_NoWrap(k) == IF k + 1 < MESSAGE_QUEUE_SIZE THEN k + 1 ELSE k
Advance(k) == (k + 1) % MESSAGE_QUEUE_SIZE

Full(q) == q.count >= MESSAGE_QUEUE_SIZE

Enqueue_AtHead(q, msg) ==
  [q EXCEPT !.messages[q.head] = msg, !.tail = Advance(@), !.count = @ + 1]
Enqueue(q, msg) ==
  [q EXCEPT !.messages[q.tail] = msg, !.tail = Advance(@), !.count = @ + 1]
Dequeue(q) == [q EXCEPT !.head = Advance(@), !.count = @ - 1]

(* sys_send and process_send_message: the checks in the code's order.      *)
Send(p, t, data) ==
  /\ status[p] = "alive"
  /\ \/ /\ Len(data) = 0 \/ Len(data) > MAX_MESSAGE_SIZE
        /\ result' = Code(-1)
        /\ UNCHANGED queue
     \/ /\ Len(data) \in 1..MAX_MESSAGE_SIZE
        /\ ~Listed(t)
        /\ result' = Code(-2)
        /\ UNCHANGED queue
     \/ /\ Len(data) \in 1..MAX_MESSAGE_SIZE
        /\ Listed(t)
        /\ Full(queue[t])
        /\ result' = Code(-3)
        /\ UNCHANGED queue
     \/ /\ Len(data) \in 1..MAX_MESSAGE_SIZE
        /\ Listed(t)
        /\ ~Full(queue[t])
        /\ queue' = [queue EXCEPT ![t] = Enqueue(@, [sender |-> p, data |-> data])]
        /\ result' = Code(0)
  /\ UNCHANGED <<next_pid, status>>

CopyLength(msg, room) == IF Len(msg.data) < room THEN Len(msg.data) ELSE room

(* sys_recv and process_receive_message.  sys_recv refuses a buffer of no  *)
(* room itself, with -1; process_receive_message refuses it with -2.       *)
Receive(p, room) ==
  /\ status[p] = "alive"
  /\ \/ /\ room = 0
        /\ result' \in {Code(-1), Code(-2)}
        /\ UNCHANGED queue
     \/ /\ room > 0
        /\ queue[p].count = 0
        /\ result' = Code(-3)
        /\ UNCHANGED queue
     \/ /\ room > 0
        /\ queue[p].count # 0
        /\ LET msg == queue[p].messages[queue[p].head]
               n == CopyLength(msg, room)
           IN  result' = [code |-> n, sender |-> msg.sender, data |-> SubSeq(msg.data, 1, n)]
        /\ queue' = [queue EXCEPT ![p] = Dequeue(@)]
  /\ UNCHANGED <<next_pid, status>>

Next ==
  \/ Create
  \/ \E p \in Pids : Exit(p) \/ Kill(p)
  \/ \E p, t \in Pids, data \in Data : Send(p, t, data)
  \/ \E p \in Pids, room \in BufferSizes : Receive(p, room)

Spec == Init /\ [][Next]_vars

-----------------------------------------------------------------------------
(* Properties.                                                             *)

TypeOK ==
  /\ next_pid \in 1..(MaxPid + 1)
  /\ status \in [Pids -> {"unborn", "alive", "zombie", "gone"}]
  /\ DOMAIN queue = Pids
  /\ \A p \in Pids : /\ queue[p].head \in Index
                     /\ queue[p].tail \in Index
                     /\ queue[p].count \in 0..MESSAGE_QUEUE_SIZE
                     /\ DOMAIN queue[p].messages = Index

(* head, tail and count of a ring agree: the tail lies count entries       *)
(* behind the head, a full ring and an empty one being told apart by count *)
(* alone.                                                                  *)
RingShape ==
  /\ TypeOK
  /\ \A p \in Pids :
       queue[p].tail = (queue[p].head + queue[p].count) % MESSAGE_QUEUE_SIZE

(* The messages a ring holds, oldest first.                                *)
Contents(q) ==
  [k \in 1..q.count |-> q.messages[(q.head + k - 1) % MESSAGE_QUEUE_SIZE]]

Mailbox == INSTANCE Fifo
  WITH Capacity <- MESSAGE_QUEUE_SIZE, MaxLength <- MAX_MESSAGE_SIZE,
       alive <- status, box <- [p \in Pids |-> Contents(queue[p])]

(* The rings implement bounded FIFO mailboxes: nothing accepted is lost,   *)
(* duplicated, reordered or mixed with stale ring contents.                *)
ImplementsFifo == Mailbox!Spec
=============================================================================
