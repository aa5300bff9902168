------------------------------ MODULE Framing ------------------------------
(***************************************************************************)
(* The wire formats of kalay/tunnel.go as operators on sequences of bytes: *)
(* RDT frames coalesced in a datagram (AppendRDT, ParseRDTStream) and      *)
(* P2PTunnel messages in the byte stream the frames carry (the chunks of   *)
(* the pump, PTunDemux.Parse, FrameTunnel and DeframeTunnel).              *)
(*                                                                         *)
(* A byte is 0..Base-1, so that two length bytes wrap at Base^2.  An RDT   *)
(* header keeps its magic (one byte of four), its type, its length and its *)
(* sequence number (one byte of eight); version, b16 and connection are    *)
(* constant on a connection.                                               *)
(***************************************************************************)
EXTENDS Naturals, Sequences, SequencesExt

CONSTANTS
  Base,       \* 256 in the code
  Magic,      \* the RDT magic
  DataType,   \* 0x02
  CtrlType,   \* the types of isPTunCtrl
  ChunkMax,   \* TunnelChunkMax, 0x2000
  CtrlMax     \* 0x1000

ASSUME FramingAssumption ==
  /\ Base \in Nat \ {0, 1} /\ Magic \in 0..(Base - 1) /\ DataType \in 0..(Base - 1)
  /\ CtrlType \subseteq 0..(Base - 1) /\ DataType \notin CtrlType
  /\ ChunkMax \in 1..(Base * Base - 1) /\ CtrlMax \in 0..(Base * Base - 1)

Byte == 0..(Base - 1)

(* The two bytes of a length, low byte first; what does not fit is lost.   *)
Len16(k) == <<k % Base, (k \div Base) % Base>>
LenAt(raw, p) == raw[p] + Base * raw[p + 1]

Slice(raw, off, k) == SubSeq(raw, off + 1, off + k)

-----------------------------------------------------------------------------
(* RDT frames.                                                             *)

RDTHdrLen == 5

AppendRDT(dst, f) ==
  dst \o <<Magic, f.type>> \o Len16(Len(f.payload)) \o <<f.seq>> \o f.payload

(* From each offset up to the first malformed or truncated frame.          *)
RDTFrom(pt) ==
  LET P[off \in 0..Len(pt)] ==
        IF off + RDTHdrLen > Len(pt) \/ pt[off + 1] # Magic THEN <<>>
        ELSE LET paylen == LenAt(pt, off + 3)
                 next == off + RDTHdrLen + paylen
             IN IF next > Len(pt) THEN <<>>
                ELSE << [type |-> pt[off + 2], seq |-> pt[off + 5],
                         payload |-> Slice(pt, off + RDTHdrLen, paylen)] >> \o P[next]
  IN P

ParseRDTStream(pt) == RDTFrom(pt)[0]

-----------------------------------------------------------------------------
(* P2PTunnel messages.                                                     *)

PTunHdrLen == 4

DataMsg(c, data) == [type |-> DataType, chan |-> c, data |-> data]
CtrlMsg(t, data) == [type |-> t, chan |-> 0, data |-> data]

(* The pump's chunk around one Write, and a control message.               *)
Chunk(m) == <<m.type, m.chan>> \o Len16(Len(m.data)) \o m.data

IsData(b0, b1, ln) == b0 = DataType /\ b1 # 0 /\ ln > 0 /\ ln <= ChunkMax
IsCtrl(b0, b1, ln) == b1 = 0 /\ b0 \in CtrlType /\ ln <= CtrlMax

(* Parse, from each offset: the messages complete in raw, and where they   *)
(* end; a byte that starts neither kind is skipped.                        *)
ParseFrom(raw) ==
  LET P[off \in 0..Len(raw)] ==
        IF off + PTunHdrLen > Len(raw) THEN [msgs |-> <<>>, off |-> off]
        ELSE LET b0 == raw[off + 1]
                 b1 == raw[off + 2]
                 ln == LenAt(raw, off + 3)
                 next == off + PTunHdrLen + ln
                 data == Slice(raw, off + PTunHdrLen, ln)
                 Then(m) == [P[next] EXCEPT !.msgs = <<m>> \o @]
             IN IF IsData(b0, b1, ln) \/ IsCtrl(b0, b1, ln)
                THEN IF next > Len(raw) THEN [msgs |-> <<>>, off |-> off]
                     ELSE IF IsData(b0, b1, ln) THEN Then(DataMsg(b1, data)) ELSE Then(CtrlMsg(b0, data))
                ELSE P[off + 1]
  IN P

Parse(raw) == ParseFrom(raw)[0]

(* DeframeTunnel: the bytes of the chunks of channel 1.  A byte that       *)
(* starts none is passed on, and a chunk cut short is taken as it is.      *)
DeframeFrom(raw) ==
  LET P[off \in 0..Len(raw)] ==
        IF off + PTunHdrLen > Len(raw) THEN <<>>
        ELSE LET clen == LenAt(raw, off + 3)
                 have == IF off + PTunHdrLen + clen > Len(raw) THEN Len(raw) - off - PTunHdrLen ELSE clen
             IN IF IsData(raw[off + 1], raw[off + 2], clen) /\ raw[off + 2] = 1
                THEN Slice(raw, off + PTunHdrLen, have) \o P[off + PTunHdrLen + have]
                ELSE <<raw[off + 1]>> \o P[off + 1]
  IN P

DeframeTunnel(raw) == DeframeFrom(raw)[0]

(* Mutant of Clamped: a chunk size of 0 is not corrected upwards but to 1, *)
(* and one above the maximum is kept.                                      *)
ClampedLow(chunk) == IF chunk = 0 THEN 1 ELSE chunk

Clamped(chunk) == IF chunk = 0 \/ chunk > ChunkMax THEN ChunkMax ELSE chunk

(* sock from each offset on, in chunks of c bytes.                         *)
FrameFrom(sock, c) ==
  LET P[i \in 0..Len(sock)] ==
        IF i >= Len(sock) THEN <<>>
        ELSE LET k == IF i + c > Len(sock) THEN Len(sock) - i ELSE c
             IN Chunk(DataMsg(1, Slice(sock, i, k))) \o P[i + k]
  IN P

FrameTunnel(sock, chunk) == FrameFrom(sock, Clamped(chunk))[0]
=============================================================================
