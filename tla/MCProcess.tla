------------------------------ MODULE MCProcess ------------------------------
(* Instances of Process for TLC, and what the documentation says of it.    *)
EXTENDS Process

MCPrioArgs == 0..2
LivePrioArgs == {1, 2}
MCSleepArgs == {0, 3}
LiveSleepArgs == {2}

(* .github/RELEASE_v0.8.0.md, the life cycle: process_kill() leads to      *)
(* TERMINATED and from there to "(resources freed)".  So the process that  *)
(* executes still owns its stack and its PCB.                              *)
RunsOnOwnMemory == {"stack", "pcb"} \subseteq mem[current]
=============================================================================
