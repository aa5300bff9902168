---------------------------- MODULE MCForwarder ----------------------------
(* Small instances of Forwarder.                                           *)
EXTENDS Forwarder

CONSTANTS c1, c2, c3

=============================================================================
