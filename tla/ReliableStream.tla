--------------------------- MODULE ReliableStream ---------------------------
(***************************************************************************)
(* What the outbound half of a Kalay tunnel promises, with no sequence     *)
(* numbers, windows, timers or datagrams in sight: an append-only stream   *)
(* of frames, of which the device holds a prefix, of which the client has  *)
(* been told about a prefix and forgotten it.  The stream may break, after *)
(* which nothing more is appended or forgotten; what the device holds can  *)
(* still grow, because frames already on the wire may still arrive.        *)
(***************************************************************************)
EXTENDS Naturals, Sequences

VARIABLES
  stream,      \* every frame handed to the transport, in order
  delivered,   \* how many of them the device holds without a gap
  freed,       \* how many of them the client no longer buffers
  broken       \* the sender has stopped for good

vars == <<stream, delivered, freed, broken>>

Init ==
  /\ stream = <<>>
  /\ delivered = 0
  /\ freed = 0
  /\ broken = FALSE

Extend ==
  /\ ~broken
  /\ Len(stream') = Len(stream) + 1
  /\ \A i \in 1..Len(stream) : stream'[i] = stream[i]
  /\ UNCHANGED <<delivered, freed, broken>>

(* Filling a hole releases the frames behind it, so several frames can     *)
(* become available to the device at once.                                 *)
Deliver ==
  /\ delivered' \in delivered + 1 .. Len(stream)
  /\ UNCHANGED <<stream, freed, broken>>

(* A frame is forgotten only when the device is known to hold it.          *)
Free ==
  /\ ~broken
  /\ freed' \in freed + 1 .. delivered
  /\ UNCHANGED <<stream, delivered, broken>>

Break ==
  /\ broken' = TRUE
  /\ UNCHANGED <<stream, delivered, freed>>

Next ==
  \/ Extend
  \/ Deliver
  \/ Free
  \/ Break

Spec == Init /\ [][Next]_vars

=============================================================================
