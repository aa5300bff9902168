--------------------------- MODULE MCStreamPath ----------------------------
(* Messages of the longest lengths whose bytes look like the headers of    *)
(* others, on the channel that is read, on another one and of control.     *)
EXTENDS StreamPath
Messages == {DataMsg(1, <<2, 1, 1>>), DataMsg(3, <<3>>), CtrlMsg(3, <<2, 1>>)}
=============================================================================
