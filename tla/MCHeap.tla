------------------------------- MODULE MCHeap --------------------------------
(* A heap of a few blocks: header, minimum and alignment in the proportion *)
(* of the code's 16, 32 and 4 bytes.                                       *)
EXTENDS Heap

MCSizes == {0, 1, 4, 5, 8, 11}
=============================================================================
