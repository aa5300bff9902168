---------------------------- MODULE StreamPath -----------------------------
(***************************************************************************)
(* The way of the device's bytes to a caller of Read: P2PTunnel messages   *)
(* in a byte stream, cut into RDT frames anywhere, several frames to a     *)
(* datagram (kalay/tunnel.go); the pump's parse of the datagram and of its *)
(* pbuf, and route (kalay/tunnelconn.go); and tunConn.  The frames arrive  *)
(* in order and once, as Inbound shows of what reaches pbuf.               *)
(***************************************************************************)
EXTENDS Framing, TunConn, FiniteSets

CONSTANTS
  Message,     \* the messages the device may send
  MaxMsgs,     \* bound: how many it sends
  Chan         \* the index of the channel the caller reads

(* The device sends what the parser knows: data on a channel and control   *)
(* messages, neither longer than the limits of IsData and IsCtrl.          *)
ASSUME MessageAssumption ==
  /\ MaxMsgs \in Nat
  /\ \A m \in Message :
       /\ m.data \in Seq(Byte) /\ m.chan \in Byte
       /\ \/ m = DataMsg(m.chan, m.data) /\ IsData(m.type, m.chan, Len(m.data))
          \/ m = CtrlMsg(m.type, m.data) /\ IsCtrl(m.type, m.chan, Len(m.data))

VARIABLES
  sent,        \* the messages of the device
  stream,      \* their bytes
  pos,         \* how many of them have been put in frames
  pbuf,        \* bytes consumed and not yet parsed
  looping,     \* the tunnel's pump has not yet found it closed
  routed,      \* history: the messages handed to route
  owed         \* history: how many bytes reached the channel of a living tunnel

path == <<sent, stream, pos, pbuf, looping, routed, owed>>
pathVars == <<path, tunVars>>

Encoded(msgs) == FlattenSeq([i \in DOMAIN msgs |-> Chunk(msgs[i])])

PathInit ==
  /\ sent \in UNION {[1..k -> Message] : k \in 0..MaxMsgs}
  /\ stream = Encoded(sent)
  /\ pos = 0 /\ pbuf = <<>> /\ looping = TRUE /\ routed = <<>> /\ owed = 0
  /\ TunInit

FrameMax == Base * Base - 1      \* the longest payload the two length bytes can say

(* The bytes that arrive in frames of the given lengths, in one datagram.  *)
Frame(off, k) == [type |-> DataType, seq |-> 0, payload |-> Slice(stream, off, k)]
Datagram(j, k) ==
  IF k = 0 THEN AppendRDT(<<>>, Frame(pos, j)) ELSE AppendRDT(AppendRDT(<<>>, Frame(pos, j)), Frame(pos + j, k))

Payloads(frames) == FlattenSeq([i \in DOMAIN frames |-> frames[i].payload])

(* Mutant of Unparsed: pbuf is emptied with the first message parsed.      *)
UnparsedNone(raw, off) == IF off > 0 THEN <<>> ELSE raw

(* The pump keeps what the parser has not consumed.                        *)
Unparsed(raw, off) == SubSeq(raw, off + 1, Len(raw))

(* route: the channel's buffer takes its data; control messages and the    *)
(* data of other channels go elsewhere.                                    *)
RoutedTo(c, msgs) ==
  FlattenSeq([i \in DOMAIN msgs |-> IF msgs[i].type = DataType /\ msgs[i].chan = c THEN msgs[i].data ELSE <<>>])

(* readRDT, the consumption of its frames, Parse and route, in one turn of *)
(* the pump.  It looks at closed when a turn begins, so a tunnel that dies *)
(* during one still routes what the turn has read.                         *)
DatagramArrives ==
  /\ looping /\ pos < Len(stream)
  /\ looping' = up
  /\ \E j \in 1..(Len(stream) - pos) : \E k \in 0..(Len(stream) - pos - j) :
       LET raw == pbuf \o Payloads(ParseRDTStream(Datagram(j, k)))
           parsed == Parse(raw)
       IN /\ j <= FrameMax /\ k <= FrameMax
          /\ pos' = pos + j + k
          /\ pbuf' = Unparsed(raw, parsed.off)
          /\ routed' = routed \o parsed.msgs
          /\ chan' = chan \o RoutedTo(Chan, parsed.msgs)
          /\ owed' = IF up THEN owed + Len(RoutedTo(Chan, parsed.msgs)) ELSE owed
  /\ UNCHANGED <<sent, stream, up, pumping, conn, reading, now, sets, read, failed>>

PathNext == DatagramArrives \/ (TunNext /\ UNCHANGED path)

PathSpec == PathInit /\ [][PathNext]_pathVars

(* Goroutines run, timers fire and time passes.  Nobody need call Read or  *)
(* SetReadDeadline, and the device need not send.                          *)
FairPathSpec ==
  /\ PathSpec
  /\ WF_pathVars(Pump /\ UNCHANGED path) /\ WF_pathVars(Read /\ UNCHANGED path)
  /\ WF_pathVars(TimerFires /\ UNCHANGED path) /\ WF_pathVars(Tick /\ UNCHANGED path)

-----------------------------------------------------------------------------
(* Properties.                                                             *)

(* However the stream is cut into frames and datagrams, the messages that  *)
(* have been routed are the first ones the device sent, none split, merged *)
(* or invented from bytes that look like a header, and no complete message *)
(* is held back: "The consumed offset is retained" (tunnel.go:128).        *)
Demuxed ==
  /\ IsPrefix(routed, sent)
  /\ Encoded(routed) \o pbuf = SubSeq(stream, 1, pos)
  /\ Len(routed) < Len(sent) => Len(pbuf) < Len(Chunk(sent[Len(routed) + 1]))

(* "It is the inverse of DeframeTunnel" (tunnel.go:94): for every chunk    *)
(* size asked for, also of bytes that look like headers.                   *)
RoundTrip ==
  \A c \in 0..(ChunkMax + 1) : LET s == SubSeq(stream, 1, pos) IN DeframeTunnel(FrameTunnel(s, c)) = s

(* From the device to the caller: what Read has returned, and what waits   *)
(* in buf, in the pump and in the channel, is the data of the channel's    *)
(* messages in order; and an error is returned only after all of it that   *)
(* came before the tunnel died.  What the pump's last turn routes after    *)
(* that may stay in the channel unread.                                    *)
StreamIntact ==
  /\ read \o buf \o tmp \o chan = RoutedTo(Chan, routed)
  /\ failed => Len(read) >= owed
=============================================================================
