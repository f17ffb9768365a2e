-------------------------------- MODULE Fifo --------------------------------
(***************************************************************************)
(* What the message passing of Wittche OS promises: each process has a     *)
(* mailbox of bounded length; a message that was accepted is received      *)
(* once, in the order of acceptance, with its sender, cut to the           *)
(* receiver's buffer.                                                      *)
(***************************************************************************)
EXTENDS Integers, Sequences

CONSTANTS Pids, Capacity, MaxLength, Data, BufferSizes

VARIABLES alive, box, result

fifoVars == <<alive, box, result>>

Refused(code) == [code |-> code, sender |-> 0, data |-> <<>>]
Cut(data, room) == SubSeq(data, 1, IF Len(data) < room THEN Len(data) ELSE room)

Init ==
  /\ alive = [p \in Pids |-> "unborn"]
  /\ box = [p \in Pids |-> <<>>]
  /\ result = Refused(0)

Birth(p) ==
  /\ alive[p] = "unborn"
  /\ alive' = [alive EXCEPT ![p] = "alive"]
  /\ UNCHANGED <<box, result>>

Death(p) ==
  /\ alive[p] = "alive"
  /\ alive' = [alive EXCEPT ![p] = "zombie"]
  /\ UNCHANGED <<box, result>>

Removal(p) ==
  /\ alive[p] \in {"alive", "zombie"}
  /\ alive' = [alive EXCEPT ![p] = "gone"]
  /\ box' = [box EXCEPT ![p] = <<>>]
  /\ UNCHANGED result

Accept(p, t, data) ==
  /\ alive[p] = "alive"
  /\ alive[t] \in {"alive", "zombie"}
  /\ Len(data) \in 1..MaxLength
  /\ Len(box[t]) < Capacity
  /\ box' = [box EXCEPT ![t] = Append(@, [sender |-> p, data |-> data])]
  /\ result' = Refused(0)
  /\ UNCHANGED alive

(* A call is refused only when it cannot be served, and a refusal leaves   *)
(* every mailbox alone.                                                    *)
Refuse ==
  /\ \E code \in {-3, -2, -1} : result' = Refused(code)
  /\ UNCHANGED <<alive, box>>

RefuseSend(p, t, data) ==
  /\ alive[p] = "alive"
  /\ \/ Len(data) \notin 1..MaxLength
     \/ alive[t] \in {"unborn", "gone"}
     \/ Len(box[t]) = Capacity
  /\ Refuse

(* An empty mailbox refuses: process_receive_message returns -3 although   *)
(* process.h:111 announces "blocking if no messages".  ipc_consumer asks   *)
(* process_has_messages first and yields instead.                          *)
RefuseReceive(p, room) ==
  /\ alive[p] = "alive"
  /\ room = 0 \/ box[p] = <<>>
  /\ Refuse

Deliver(p, room) ==
  /\ alive[p] = "alive"
  /\ room > 0
  /\ box[p] # <<>>
  /\ LET msg == Head(box[p])
         got == Cut(msg.data, room)
     IN  result' = [code |-> Len(got), sender |-> msg.sender, data |-> got]
  /\ box' = [box EXCEPT ![p] = Tail(@)]
  /\ UNCHANGED alive

Next ==
  \/ \E p \in Pids : Birth(p) \/ Death(p) \/ Removal(p)
  \/ \E p, t \in Pids, data \in Data : Accept(p, t, data) \/ RefuseSend(p, t, data)
  \/ \E p \in Pids, room \in BufferSizes : Deliver(p, room) \/ RefuseReceive(p, room)

Spec == Init /\ [][Next]_fifoVars
=============================================================================
