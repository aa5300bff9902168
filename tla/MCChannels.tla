----------------------------- MODULE MCChannels -----------------------------
(* Small instances of Channels.                                            *)
EXTENDS Channels

CONSTANTS c1, c2, c3

=============================================================================
