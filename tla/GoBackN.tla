------------------------------ MODULE GoBackN ------------------------------
(***************************************************************************)
(* The outbound reliable stream of a Kalay tunnel (kalay/gobackn.go and    *)
(* the sending half of pump in kalay/tunnelconn.go).                       *)
(*                                                                         *)
(* Writers queue data chunks on writeCh and raw control payloads on        *)
(* ctrlCh; the pump goroutine frames them, transmits the frames over a     *)
(* datagram link that loses, duplicates and reorders, keeps a copy of each *)
(* until the device's cumulative ACK covers it, retransmits the oldest one *)
(* on a timeout or on duplicate ACKs, and gives up when no ACK progress is *)
(* made for gbnGiveUp.  The pump's loop is followed statement by           *)
(* statement through pc.                                                   *)
(*                                                                         *)
(* A byte of a chunk is a cell <<m, k>>: the k-th byte of what write m     *)
(* puts on the stream.  Time is kept as the ages of lastReTx, lastProg and *)
(* cwndCut, which stop growing once they exceed every threshold.           *)
(***************************************************************************)
EXTENDS Integers, Sequences, FiniteSets, SequencesExt

CONSTANTS
  Msg,          \* the data chunks callers write, each once
  Ctrl,         \* the raw control payloads callers queue, each once
  MayOpen,      \* whether a caller opens an extra channel
  MayStop,      \* whether a caller closes the tunnel, or the device falls silent
  ChunkLen,     \* bytes a chunk takes on the stream, header included
  MaxFrame,     \* maxFrame
  SendWindow,   \* sendWindow
  WriteCap,     \* capacity of writeCh
  CtrlCap,      \* capacity of ctrlCh
  CwndMin,      \* cwndMin
  CwndInit,     \* cwndInit
  CwndScale,    \* cwnd is counted in units of 1/CwndScale frame
  RtoMin,       \* rtoMin
  RtoInit,      \* the initial rto
  RtoMax,       \* rtoMax
  MaxBackoff,   \* the largest shift of rto
  GiveUp,       \* gbnGiveUp
  LinkCap       \* the most datagrams the link holds each way; more are lost

ASSUME ChunkAssumption == ChunkLen \in [Msg -> Nat \ {0}]
ASSUME FrameAssumption == MaxFrame \in Nat \ {0} /\ SendWindow \in Nat \ {0}
ASSUME QueueAssumption == WriteCap \in Nat \ {0} /\ CtrlCap \in Nat \ {0}
ASSUME CwndAssumption ==
  /\ CwndScale \in Nat \ {0}
  /\ CwndMin \in Nat \ {0}
  /\ CwndInit \in Nat
  /\ CwndInit >= CwndMin
ASSUME TimeAssumption ==
  /\ RtoMin \in Nat \ {0} /\ RtoMax \in Nat /\ RtoInit \in RtoMin..RtoMax
  /\ MaxBackoff \in Nat /\ GiveUp \in Nat
ASSUME ScopeAssumption == MayOpen \in BOOLEAN /\ MayStop \in BOOLEAN

OpenSteps == {"setupAddr", "portConnect", "connectAddr"}
ASSUME NameAssumption == Msg \cap (Ctrl \cup OpenSteps) = {} /\ Ctrl \cap OpenSteps = {}

SetupSeq == 2       \* the connectAddr frame setup sends just before the pump
FirstSeq == 3       \* txSeq when setup returns

(* A control message travels in a frame of its own and is a single cell.   *)
Cell == (Msg \cup Ctrl \cup OpenSteps) \X Nat
Payload == Seq(Cell)
Single(c) == <<<<c, 1>>>>
Frame == [seq : Nat, payload : Payload]

VARIABLES
  writeCh,      \* chunks accepted by Write and not yet taken by the pump
  ctrlCh,       \* control payloads accepted and not yet sent
  accepted,     \* history: the writes accepted, in order
  open,         \* the caller's channel open: none, asked, sent, over
  pending,      \* bytes taken from writeCh and not yet framed
  txSeq,        \* the next sequence number
  sendBase,     \* the oldest unacknowledged sequence number
  inflight,     \* buffered copies of unacknowledged frames
  cwnd, rto, retxRun, dupAcks, lastAckSeq,
  sinceReTx,    \* age of lastReTx
  sinceProg,    \* age of lastProg
  sinceCut,     \* age of cwndCut
  pc,           \* where the pump is in its loop
  closed,       \* the tunnel's closed channel is closed
  rerr,         \* the tunnel's terminal error
  dataNet,      \* frames on their way to the device
  ackNet,       \* cumulative ACKs on their way back
  rcvNext,      \* device: the first sequence number it lacks
  got,          \* device: payloads it holds, by sequence number
  sent          \* history: the payload of every reliable frame by sequence number

queues == <<writeCh, ctrlCh, accepted, open>>
window == <<txSeq, sendBase, inflight, sent>>
control == <<cwnd, rto, retxRun, dupAcks, lastAckSeq>>
ages == <<sinceReTx, sinceProg, sinceCut>>
device == <<rcvNext, got>>
ending == <<closed, rerr>>
vars == <<queues, pending, window, control, ages, pc, ending, dataNet, ackNet, device>>

pcs == {"top", "drain", "fill", "frame", "recv", "tick", "route", "exited"}

(* An age beyond its cap passes the same tests as one at the cap.          *)
ReTxCap == RtoMax * 2^MaxBackoff + 1
ProgCap == GiveUp + 1
CutCap == RtoMax

Older(age, cap) == IF age < cap THEN age + 1 ELSE age

(* The state setup leaves behind: it has sent sequence numbers 0 to 2, the *)
(* device has answered the first two, and the third may be lost already.   *)
Init ==
  /\ writeCh = <<>> /\ ctrlCh = <<>> /\ accepted = <<>>
  /\ open = IF MayOpen THEN "none" ELSE "over"
  /\ pending = <<>>
  /\ txSeq = FirstSeq /\ sendBase = FirstSeq
  /\ inflight = [s \in {} |-> [payload |-> <<>>, retx |-> FALSE]]
  /\ cwnd = CwndInit * CwndScale
  /\ rto = RtoInit
  /\ retxRun = 0 /\ dupAcks = 0 /\ lastAckSeq = 0
  /\ sinceReTx = 0 /\ sinceProg = 0 /\ sinceCut = CutCap
  /\ pc = "top"
  /\ closed = FALSE /\ rerr = "none"
  /\ sent = [s \in {SetupSeq} |-> Single("setupAddr")]
  /\ dataNet \in SUBSET {[seq |-> SetupSeq, payload |-> Single("setupAddr")]}
  /\ ackNet \in SUBSET {0, 1}
  /\ rcvNext = SetupSeq
  /\ got = [s \in {} |-> <<>>]

-----------------------------------------------------------------------------
(* Callers.                                                                *)

(* writeChan: its select may take the buffered send even after close.      *)
Write(m) ==
  /\ \A i \in DOMAIN accepted : accepted[i] # m
  /\ Len(writeCh) < WriteCap
  /\ writeCh' = Append(writeCh, m)
  /\ accepted' = Append(accepted, m)
  /\ UNCHANGED <<ctrlCh, open, pending, window, control, ages, pc, ending,
                 dataNet, ackNet, device>>

CtrlUsed(c) ==
  \/ \E i \in DOMAIN ctrlCh : ctrlCh[i] = c
  \/ \E s \in DOMAIN sent : sent[s] = Single(c)

SendTunnelCtrl(c) ==
  /\ ~CtrlUsed(c)
  /\ Len(ctrlCh) < CtrlCap
  /\ ctrlCh' = Append(ctrlCh, c)
  /\ UNCHANGED <<writeCh, accepted, open, pending, window, control, ages, pc,
                 ending, dataNet, ackNet, device>>

OpenChannel ==
  /\ open = "none"
  /\ open' = "asked"
  /\ UNCHANGED <<writeCh, ctrlCh, accepted, pending, window, control, ages, pc,
                 ending, dataNet, ackNet, device>>

(* The 12 s timeout of OpenChannel withdraws the pending open.             *)
OpenTimeout ==
  /\ open \in {"asked", "sent"}
  /\ open' = "over"
  /\ UNCHANGED <<writeCh, ctrlCh, accepted, pending, window, control, ages, pc,
                 ending, dataNet, ackNet, device>>

Close ==
  /\ MayStop /\ ~closed
  /\ closed' = TRUE
  /\ rerr' = IF rerr = "none" THEN "closed" ELSE rerr
  /\ UNCHANGED <<queues, pending, window, control, ages, pc, dataNet, ackNet, device>>

-----------------------------------------------------------------------------
(* gobackn.go.                                                             *)

CwndFrames ==
  LET w == cwnd \div CwndScale
      atLeast == IF w < CwndMin THEN CwndMin ELSE w
  IN  IF atLeast > SendWindow THEN SendWindow ELSE atLeast

Unacked == txSeq - sendBase

(* One datagram: it joins the link or is lost.                             *)
Carried(net, d) == {net} \cup {n \in {net \cup {d}} : Cardinality(n) <= LinkCap}

Transmit(s, p) == dataNet' \in Carried(dataNet, [seq |-> s, payload |-> p])

SendReliable(p) ==
  /\ Transmit(txSeq, p)
  /\ inflight' = [s \in DOMAIN inflight \cup {txSeq} |->
                    IF s = txSeq THEN [payload |-> p, retx |-> FALSE] ELSE inflight[s]]
  /\ sent' = [s \in DOMAIN sent \cup {txSeq} |-> IF s = txSeq THEN p ELSE sent[s]]
  /\ txSeq' = txSeq + 1
  /\ sinceReTx' = 0
  /\ UNCHANGED <<sendBase, control, sinceProg, sinceCut>>

(* Mutant of Halved: the floor is forgotten.                               *)
HalvedNoFloor == cwnd \div 2

Halved ==
  IF cwnd \div 2 < CwndMin * CwndScale THEN CwndMin * CwndScale ELSE cwnd \div 2

CwndCutHalf ==
  IF sinceCut < rto
  THEN UNCHANGED <<cwnd, sinceCut>>
  ELSE cwnd' = Halved /\ sinceCut' = 0

(* Mutant of OldestCopy: the newest frame goes out under the oldest number.*)
NewestCopy == inflight[txSeq - 1].payload

OldestCopy == inflight[sendBase].payload

ResendOldest ==
  /\ IF sendBase \in DOMAIN inflight
     THEN /\ Transmit(sendBase, OldestCopy)
          /\ inflight' = [inflight EXCEPT ![sendBase].retx = TRUE]
     ELSE UNCHANGED <<dataNet, inflight>>
  /\ sinceReTx' = 0
  /\ CwndCutHalf

(* sampleRTT moves rto somewhere in its clamped range.                     *)
SampleRTT(a) ==
  rto' \in IF a \in DOMAIN inflight /\ ~inflight[a].retx THEN RtoMin..RtoMax ELSE {rto}

Grown(acked) == cwnd + (acked * CwndScale * CwndScale) \div cwnd

(* Mutant of NewBase: the ACK is read as the next number expected.         *)
NewBaseAsNext(a) == a + 2

NewBase(a) == a + 1

(* Mutant of AckAdvances: an old ACK moves the send base back.             *)
AckAdvancesUnguarded(a) == NewBase(a) # sendBase /\ NewBase(a) <= txSeq

AckAdvances(a) == NewBase(a) > sendBase /\ NewBase(a) <= txSeq

(* Mutant of FreedBy: the acknowledged frame itself stays buffered.        *)
FreedByShort(a) == sendBase..(a - 1)

FreedBy(a) == sendBase..(NewBase(a) - 1)

AckProgress(a) ==
  /\ AckAdvances(a)
  /\ SampleRTT(a)
  /\ inflight' = [s \in DOMAIN inflight \ FreedBy(a) |-> inflight[s]]
  /\ cwnd' = Grown(NewBase(a) - sendBase)
  /\ sendBase' = NewBase(a)
  /\ sinceProg' = 0 /\ sinceReTx' = 0
  /\ dupAcks' = 0 /\ retxRun' = 0
  /\ UNCHANGED <<txSeq, sent, sinceCut, dataNet>>

AckRepeats(a) == ~AckAdvances(a) /\ sendBase < txSeq /\ a = lastAckSeq

AckDuplicate(a) ==
  /\ AckRepeats(a)
  /\ IF dupAcks + 1 >= 3
     THEN ResendOldest /\ dupAcks' = 0
     ELSE /\ dupAcks' = dupAcks + 1
          /\ UNCHANGED <<inflight, cwnd, sinceReTx, sinceCut, dataNet>>
  /\ UNCHANGED <<txSeq, sendBase, sent, rto, retxRun, sinceProg>>

AckStale(a) ==
  /\ ~AckAdvances(a) /\ ~AckRepeats(a)
  /\ UNCHANGED <<window, cwnd, rto, retxRun, dupAcks, ages, dataNet>>

AckOutbound(a) ==
  /\ AckProgress(a) \/ AckDuplicate(a) \/ AckStale(a)
  /\ lastAckSeq' = a

(* Exponential backoff; retxRun counts past MaxBackoff in the code, where  *)
(* only min(retxRun, MaxBackoff) is read.                                  *)
RtoExpired == sinceReTx > rto * 2^retxRun

(* Mutant of StreamStalled: measured from the last transmission.           *)
StreamStalledSinceReTx == sinceReTx' > GiveUp

StreamStalled == sinceProg > GiveUp

TickResend ==
  IF Unacked > 0 /\ RtoExpired
  THEN /\ ResendOldest
       /\ retxRun' = IF retxRun < MaxBackoff THEN retxRun + 1 ELSE retxRun
  ELSE UNCHANGED <<inflight, cwnd, sinceReTx, sinceCut, dataNet, retxRun>>

TickFails == Unacked > 0 /\ StreamStalled

-----------------------------------------------------------------------------
(* The pump goroutine.                                                     *)

(* Reached at every exit of the pump: fail, or the loop seeing closed.     *)
Exit(err) ==
  /\ pc' = "exited"
  /\ closed' = TRUE
  /\ rerr' = IF rerr = "none" THEN err ELSE rerr

PumpClosed ==
  /\ pc = "top" /\ closed
  /\ Exit("closed")
  /\ UNCHANGED <<queues, pending, window, control, ages, dataNet, ackNet, device>>

(* No packet of any kind from the device for livenessTimeout; the silence  *)
(* itself is the link's choice here.                                       *)
PumpSilent ==
  /\ MayStop /\ pc = "top" /\ ~closed
  /\ Exit("silent")
  /\ UNCHANGED <<queues, pending, window, control, ages, dataNet, ackNet, device>>

PumpTop ==
  /\ pc = "top" /\ ~closed
  /\ IF open = "asked"
     THEN SendReliable(Single("portConnect")) /\ open' = "sent"
     ELSE UNCHANGED <<open, dataNet, window, control, ages>>
  /\ pc' = "drain"
  /\ UNCHANGED <<writeCh, ctrlCh, accepted, pending, ending, ackNet, device>>

PumpDrain ==
  /\ pc = "drain"
  /\ \/ /\ ctrlCh # <<>>
        /\ SendReliable(Single(Head(ctrlCh)))
        /\ ctrlCh' = Tail(ctrlCh)
        /\ pc' = pc
     \/ /\ ctrlCh = <<>>
        /\ pc' = "fill"
        /\ UNCHANGED <<ctrlCh, dataNet, window, control, ages>>
  /\ UNCHANGED <<writeCh, accepted, open, pending, ending, ackNet, device>>

(* The bytes of chunk m: header and data.                                  *)
Chunk(m) == [k \in 1..ChunkLen[m] |-> <<m, k>>]

FillHasRoom == Len(pending) < SendWindow * MaxFrame

PumpFill ==
  /\ pc = "fill"
  /\ \/ /\ FillHasRoom /\ writeCh # <<>>
        /\ pending' = pending \o Chunk(Head(writeCh))
        /\ writeCh' = Tail(writeCh)
        /\ pc' = pc
     \/ /\ ~FillHasRoom \/ writeCh = <<>>
        /\ pc' = "frame"
        /\ UNCHANGED <<pending, writeCh>>
  /\ UNCHANGED <<ctrlCh, accepted, open, window, control, ages, ending,
                 dataNet, ackNet, device>>

(* Mutant of MayFrame: the whole of pending is framed at once.             *)
MayFrameAlways == pending # <<>>

MayFrame == pending # <<>> /\ Unacked < CwndFrames

FrameSize == IF Len(pending) < MaxFrame THEN Len(pending) ELSE MaxFrame

(* Mutant of Unframed: the last byte of the frame stays in pending.        *)
UnframedShort == SubSeq(pending, FrameSize, Len(pending))

Unframed == SubSeq(pending, FrameSize + 1, Len(pending))

PumpFrame ==
  /\ pc = "frame"
  /\ \/ /\ MayFrame
        /\ SendReliable(SubSeq(pending, 1, FrameSize))
        /\ pending' = Unframed
        /\ pc' = pc
     \/ /\ ~MayFrame
        /\ pc' = "recv"
        /\ UNCHANGED <<pending, dataNet, window, control, ages>>
  /\ UNCHANGED <<queues, ending, ackNet, device>>

(* readRDT hands over one of the device's ACKs; keep leaves a duplicate of *)
(* it on the link.                                                         *)
AckArrives(a, keep) ==
  /\ pc = "recv"
  /\ a \in ackNet
  /\ AckOutbound(a)
  /\ ackNet' = IF keep THEN ackNet ELSE ackNet \ {a}
  /\ UNCHANGED <<queues, pending, pc, ending, device>>

RecvDone ==
  /\ pc = "recv"
  /\ pc' = "tick"
  /\ UNCHANGED <<queues, pending, window, control, ages, ending, dataNet, ackNet, device>>

PumpTick ==
  /\ pc = "tick"
  /\ TickResend
  /\ IF TickFails THEN Exit("stalled") ELSE pc' = "route" /\ UNCHANGED ending
  /\ UNCHANGED <<queues, pending, txSeq, sendBase, sent, rto, dupAcks, lastAckSeq,
                 sinceProg, ackNet, device>>

(* The device has executed the portConnect: its 0x0d reply can be routed.  *)
OpenAnswered ==
  /\ open = "sent"
  /\ \E s \in DOMAIN got : s < rcvNext /\ got[s] = Single("portConnect")

PumpRoute ==
  /\ pc = "route"
  /\ \/ /\ OpenAnswered
        /\ SendReliable(Single("connectAddr"))
        /\ open' = "over"
     \/ UNCHANGED <<open, dataNet, window, control, ages>>
  /\ pc' = "top"
  /\ UNCHANGED <<writeCh, ctrlCh, accepted, pending, ending, ackNet, device>>

-----------------------------------------------------------------------------
(* Time, the link and the device.                                          *)

(* The pump spends its time waiting in readRDT; its other steps are short  *)
(* against every timer.                                                    *)
Elapse ==
  /\ pc = "recv"
  /\ sinceReTx' = Older(sinceReTx, ReTxCap)
  /\ sinceProg' = Older(sinceProg, ProgCap)
  /\ sinceCut' = Older(sinceCut, CutCap)
  /\ UNCHANGED <<queues, pending, window, control, pc, ending, dataNet, ackNet, device>>

(* A frame reaches the device.  One that is not next in line is kept or    *)
(* dropped.  The device answers with its cumulative ACK, which may be lost.*)
DeviceRecv(f, keep, hold) ==
  /\ f \in dataNet
  /\ dataNet' = IF keep THEN dataNet ELSE dataNet \ {f}
  /\ got' = IF f.seq \in DOMAIN got \/ (f.seq # rcvNext /\ ~hold)
            THEN got
            ELSE [s \in DOMAIN got \cup {f.seq} |->
                    IF s = f.seq THEN f.payload ELSE got[s]]
  /\ \E k \in rcvNext..txSeq :
       /\ k \notin DOMAIN got'
       /\ \A j \in rcvNext..(k - 1) : j \in DOMAIN got'
       /\ rcvNext' = k
  /\ ackNet' \in Carried(ackNet, rcvNext' - 1)
  /\ UNCHANGED <<queues, pending, window, control, ages, pc, ending>>

-----------------------------------------------------------------------------

Pump ==
  \/ PumpClosed \/ PumpSilent \/ PumpTop \/ PumpDrain \/ PumpFill \/ PumpFrame
  \/ RecvDone \/ PumpTick \/ PumpRoute

Next ==
  \/ \E m \in Msg : Write(m)
  \/ \E c \in Ctrl : SendTunnelCtrl(c)
  \/ OpenChannel \/ OpenTimeout \/ Close
  \/ Pump
  \/ \E a \in ackNet, keep \in BOOLEAN : AckArrives(a, keep)
  \/ Elapse
  \/ \E f \in dataNet, keep, hold \in BOOLEAN : DeviceRecv(f, keep, hold)

Spec == Init /\ [][Next]_vars

(* The pump is a goroutine that never blocks for good, and every readRDT   *)
(* lasts at least its deadline, so time passes if it is called for ever.   *)
(* Nothing is assumed of the link, the device or the callers.              *)
PumpSteps ==
  \/ PumpClosed \/ PumpTop \/ PumpDrain \/ PumpFill \/ PumpFrame
  \/ RecvDone \/ PumpTick \/ PumpRoute

FairSpec == Spec /\ WF_vars(PumpSteps) /\ SF_vars(Elapse)

-----------------------------------------------------------------------------
(* Properties.                                                             *)

Slot == [payload : Payload, retx : BOOLEAN]

(* Every variable keeps the shape its Go declaration gives it.             *)
TypeOK ==
  /\ writeCh \in Seq(Msg) /\ ctrlCh \in Seq(Ctrl) /\ accepted \in Seq(Msg)
  /\ open \in {"none", "asked", "sent", "over"}
  /\ pending \in Seq(Cell)
  /\ txSeq \in Nat /\ sendBase \in Nat
  /\ DOMAIN inflight \subseteq Nat /\ inflight \in [DOMAIN inflight -> Slot]
  /\ cwnd \in Nat /\ cwnd >= CwndMin * CwndScale
  /\ rto \in RtoMin..RtoMax
  /\ retxRun \in 0..MaxBackoff /\ dupAcks \in 0..2 /\ lastAckSeq \in Nat
  /\ sinceReTx \in Nat /\ sinceProg \in Nat /\ sinceCut \in Nat
  /\ pc \in pcs /\ closed \in BOOLEAN
  /\ rerr \in {"none", "closed", "silent", "stalled"}
  /\ dataNet \subseteq Frame /\ ackNet \subseteq Nat
  /\ rcvNext \in Nat
  /\ DOMAIN got \subseteq Nat /\ got \in [DOMAIN got -> Payload]
  /\ DOMAIN sent \subseteq Nat /\ sent \in [DOMAIN sent -> Payload]

(* sendReliable, ackOutbound and resendOldest together keep inflight an    *)
(* exact copy of the unacknowledged window: no hole, nothing freed is left *)
(* behind, and every copy holds the bytes first sent under that number.    *)
InflightExact ==
  /\ DOMAIN inflight = sendBase..(txSeq - 1)
  /\ \A s \in DOMAIN inflight : inflight[s].payload = sent[s]

(* ackOutbound never lets go of a frame the device does not hold, however  *)
(* late, repeated or reordered the ACKs arrive.                            *)
NoPrematureFree ==
  \A s \in DOMAIN sent : s >= FirstSeq /\ s < sendBase => s \in DOMAIN got

(* Whatever was retransmitted, the device holds under each number exactly  *)
(* what was first sent under it.                                           *)
DeviceIntact == \A s \in DOMAIN got : s \in DOMAIN sent /\ got[s] = sent[s]

IsData(p) == p[1][1] \in Msg

(* The bytes of the data frames among the first n after setup's, and the   *)
(* bytes of the chunks ms.                                                 *)
DataOf(p) == IF IsData(p) THEN p ELSE <<>>
DataIn(f, n) == FlattenSeq([i \in 1..n |-> DataOf(f[SetupSeq + i])])
Written(ms) == FlattenSeq([i \in DOMAIN ms |-> Chunk(ms[i])])

(* The data bytes the device has received in order are a prefix of the     *)
(* bytes of the accepted writes, in the order they were accepted: pump's   *)
(* buffering, its partial framing and every retransmission keep that.      *)
DataInOrder == IsPrefix(DataIn(got, rcvNext - FirstSeq), Written(accepted))

(* "one large write cannot blast thousands of frames past the window"      *)
(* (tunnelconn.go:480-481): control frames are sent whatever the window    *)
(* says, yet no data frame is ever under way more than SendWindow frames   *)
(* ahead of the oldest unacknowledged one, however the window grew, was    *)
(* cut and was filled by others.                                           *)
DataWithinWindow ==
  \A s \in sendBase..(txSeq - 1) : IsData(sent[s]) => s < sendBase + SendWindow

(* The strengthening that makes the three inductive: the counters are in   *)
(* order, the wire carries only what was sent, the device has no hole      *)
(* below rcvNext, and no ACK on the link claims more than the device has.  *)
CountersOrdered ==
  /\ FirstSeq <= sendBase /\ sendBase <= txSeq
  /\ SetupSeq <= rcvNext /\ rcvNext <= txSeq
  /\ sendBase <= rcvNext \/ sendBase = FirstSeq
WireIntact ==
  /\ DOMAIN sent = SetupSeq..(txSeq - 1)
  /\ \A f \in dataNet : f.seq \in DOMAIN sent /\ f.payload = sent[f.seq]
DeviceContiguous == \A s \in SetupSeq..(rcvNext - 1) : s \in DOMAIN got
AcksTrue == \A a \in ackNet : a < rcvNext
StreamInv ==
  /\ TypeOK /\ InflightExact /\ CountersOrdered /\ WireIntact
  /\ DeviceIntact /\ DeviceContiguous /\ AcksTrue

(* What the outbound half promises, with the wire and the timers hidden.   *)
Promise == INSTANCE ReliableStream WITH
  stream <- [i \in 1..(txSeq - FirstSeq) |-> sent[i + SetupSeq]],
  delivered <- IF rcvNext < FirstSeq THEN 0 ELSE rcvNext - FirstSeq,
  freed <- sendBase - FirstSeq,
  broken <- pc = "exited"

(* gobackn.go's machinery implements the reliable stream: the device's     *)
(* prefix only grows, the client frees only what is in it, and nothing is  *)
(* appended or freed once the pump has stopped.                            *)
Refines == Promise!Spec

(* A bound on the frames of an instance whose chunks fit in SendWindow     *)
(* frames each.                                                            *)
Reach == Cardinality(Msg) * SendWindow + Cardinality(Ctrl) + 2

(* "a dead tunnel errors instead of looping": every unacknowledged frame   *)
(* is eventually acknowledged or the pump stops.                           *)
NoHang ==
  \A s \in FirstSeq..(FirstSeq + Reach) :
    (sendBase <= s /\ s < txSeq) ~> (sendBase > s \/ pc = "exited")

-----------------------------------------------------------------------------
(* What the source says of itself and TLC refutes (README, section 3).     *)

(* "retransmits the unacked window on ACK timeout or duplicate ACKs, and   *)
(* gives up if the stream makes no progress" (gobackn.go:13-15): a stuck   *)
(* window sees its oldest frame retransmitted before the tunnel fails.     *)
GiveUpAfterRetry == rerr = "stalled" => inflight[sendBase].retx

(* "sendWindow is the hard ceiling on in-flight reliable frames".          *)
HardCeiling == Unacked <= SendWindow

MsgsIn(p) == {p[i][1] : i \in DOMAIN p}

(* "framing across chunk boundaries is fine": between two frames carrying  *)
(* bytes of one chunk the stream carries no other message.                 *)
MessagesContiguous ==
  \A s, u \in DOMAIN sent :
    /\ s < u /\ IsData(sent[s]) /\ IsData(sent[u])
    /\ MsgsIn(sent[s]) \cap MsgsIn(sent[u]) # {}
    => \A c \in s..u : IsData(sent[c])

WindowFloor == IF CwndMin < SendWindow THEN CwndMin ELSE SendWindow

(* "halves the congestion window on loss or stall": a cut narrows what the *)
(* framing loop may send, unless it is at its floor.                       *)
CutNarrowsWindow ==
  [][sinceCut' = 0 /\ sinceCut # 0 =>
       CwndFrames' < CwndFrames \/ CwndFrames = WindowFloor]_vars

=============================================================================
