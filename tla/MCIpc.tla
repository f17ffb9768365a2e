-------------------------------- MODULE MCIpc --------------------------------
(* Two processes, rings of two entries, messages of up to two bytes.       *)
EXTENDS Ipc

MCData == {<<>>, <<0>>, <<1, 0>>, <<0, 0, 0>>}
MCBufferSizes == {0, 1, 2}
=============================================================================
