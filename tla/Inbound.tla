------------------------------ MODULE Inbound ------------------------------
(***************************************************************************)
(* The inbound reliable stream: the Reassembler of kalay/tunnel.go and the *)
(* receiving half of pump in kalay/tunnelconn.go.  The device numbers its  *)
(* frames, sends at most a window of them past the last cumulative ACK and *)
(* resends the oldest when an ACK is repeated; the pump stores what        *)
(* arrives, consumes it in order from the lowest frame it holds when it    *)
(* starts, and ACKs up to the last one consumed, again with every          *)
(* keepalive and when the stream stalls.                                   *)
(*                                                                         *)
(* A frame's payload is named by its sequence number.                      *)
(***************************************************************************)
EXTENDS Integers, Sequences, FiniteSets

CONSTANTS
  LastFrame,    \* the last frame the device has to send
  DevWindow,    \* the device's send window
  LinkCap,      \* the most datagrams the link holds each way; more are lost
  KaEvery,      \* age of lastKA that triggers a keepalive
  StallAfter,   \* age of lastAdvance that means a stall
  StallBack,    \* age lastAdvance is set back to after a recovery attempt
  Echoes        \* the setup frames that may still be on the link, duplicated

ASSUME SizeAssumption == LastFrame \in Nat \ {0} /\ DevWindow \in Nat \ {0} /\ LinkCap \in Nat \ {0}
ASSUME TimerAssumption ==
  KaEvery \in Nat /\ StallAfter \in Nat /\ StallBack \in 0..StallAfter
ASSUME EchoAssumption == Echoes \subseteq {0, 1}

FirstData == 2      \* setup has consumed the device's frames 0 and 1
NoSeq == -1         \* an unset sequence number

VARIABLES
  frames,       \* Reassembler.frames
  base,         \* Reassembler.base, NoSeq while baseSet is false
  cum,          \* Reassembler.cum
  maxSeq,       \* Reassembler.maxSeq
  consumed,     \* Reassembler.consumed, NoSeq while consumedSet is false
  pumpStarted, pumpNext,
  handed,       \* history: the frames handed to the demultiplexer, in order
  sinceKA,      \* age of lastKA
  sinceAdvance, \* age of lastAdvance
  pc,           \* where the pump is in its loop
  dataNet,      \* frames on their way to the client
  ackNet,       \* cumulative ACKs on their way to the device
  devBase,      \* device: oldest frame not known to be acknowledged
  devNext       \* device: next frame to send

recv == <<frames, base, cum, maxSeq, consumed>>
pumpVars == <<pumpStarted, pumpNext, handed, sinceKA, sinceAdvance>>
dev == <<devBase, devNext>>
vars == <<recv, pumpVars, pc, dataNet, ackNet, dev>>

(* setup has answered frames 0 and 1; its ACKs may be lost and copies of   *)
(* the two frames may still arrive.                                        *)
Init ==
  /\ frames = {} /\ base = NoSeq /\ cum = 0 /\ maxSeq = 0 /\ consumed = NoSeq
  /\ pumpStarted = FALSE /\ pumpNext = 0 /\ handed = <<>>
  /\ sinceKA = 0 /\ sinceAdvance = 0
  /\ pc = "top"
  /\ dataNet \in SUBSET Echoes
  /\ ackNet = {}
  /\ devBase \in 0..FirstData /\ devNext = FirstData

(* A datagram joins the link, or is dropped if the link is full.           *)
Carried(net, d) == IF Cardinality(net \cup {d}) <= LinkCap THEN net \cup {d} ELSE net

-----------------------------------------------------------------------------
(* The Reassembler.                                                        *)

(* Mutant of Stale: the watermark is compared with <.                      *)
StaleOffByOne(s) == s < consumed

(* Mutant of Stale: the watermark is read as the next frame to consume.    *)
StaleTooFar(s) == consumed # NoSeq /\ s <= consumed + 1

Stale(s) == s <= consumed

(* The last number of the run that starts after b in S.                    *)
RunEnd(S, b) == CHOOSE c \in b..(LastFrame + 1) :
                  c + 1 \notin S /\ \A k \in (b + 1)..c : k \in S

Add(s) ==
  IF Stale(s) \/ s \in frames
  THEN UNCHANGED recv
  ELSE /\ frames' = frames \cup {s}
       /\ base' = IF base = NoSeq \/ s < base THEN s ELSE base
       /\ maxSeq' = IF base = NoSeq \/ s > maxSeq THEN s ELSE maxSeq
       /\ cum' = RunEnd(frames', base')
       /\ UNCHANGED consumed

-----------------------------------------------------------------------------
(* The pump.                                                               *)

SendAck(a) == ackNet' = Carried(ackNet, a)

(* Mutant of MayReAck: the keepalive ACKs before anything was consumed.    *)
MayReAckAlways == TRUE

MayReAck == pumpStarted /\ pumpNext > 0

(* Keepalive, with the cumulative ACK repeated.                            *)
PumpTop ==
  /\ pc = "top"
  /\ IF sinceKA > KaEvery
     THEN /\ sinceKA' = 0
          /\ IF MayReAck THEN SendAck(pumpNext - 1) ELSE UNCHANGED ackNet
     ELSE UNCHANGED <<sinceKA, ackNet>>
  /\ pc' = "recv"
  /\ UNCHANGED <<recv, pumpStarted, pumpNext, handed, sinceAdvance, dataNet, dev>>

FrameArrives(s, keep) ==
  /\ pc = "recv"
  /\ s \in dataNet
  /\ Add(s)
  /\ dataNet' = IF keep THEN dataNet ELSE dataNet \ {s}
  /\ UNCHANGED <<pumpVars, pc, ackNet, dev>>

Older(age, cap) == IF age < cap THEN age + 1 ELSE age

(* readRDT's deadline passes.                                              *)
RecvDone ==
  /\ pc = "recv"
  /\ pc' = "consume"
  /\ sinceKA' = Older(sinceKA, KaEvery + 1)
  /\ sinceAdvance' = Older(sinceAdvance, StallAfter + 1)
  /\ UNCHANGED <<recv, pumpStarted, pumpNext, handed, dataNet, ackNet, dev>>

(* Mutant of AckTarget: everything seen is acknowledged.                   *)
AckTargetMax(next) == maxSeq

AckTarget(next) == next - 1

(* Take until it fails; ACK if that moved pumpNext.  Otherwise, after a    *)
(* stall, repeat the ACK: twice when frames past a hole are held, once     *)
(* when nothing is; the pair is one datagram of the set.                   *)
Consume ==
  /\ pc = "consume"
  /\ base # NoSeq
  /\ pumpStarted' = TRUE
  /\ LET from == IF pumpStarted THEN pumpNext ELSE base
         next == IF from \in frames THEN RunEnd(frames, from) + 1 ELSE from
         age  == IF pumpStarted /\ next = from THEN sinceAdvance ELSE 0
     IN  /\ frames' = frames \ (from..(next - 1))
         /\ consumed' = IF next > from THEN next - 1 ELSE consumed
         /\ pumpNext' = next
         /\ handed' = handed \o [i \in 1..(next - from) |-> from + i - 1]
         /\ IF next > from \/ (age > StallAfter /\ next > 0)
            THEN SendAck(AckTarget(next))
            ELSE UNCHANGED ackNet
         /\ sinceAdvance' = IF age > StallAfter THEN StallBack ELSE age
  /\ pc' = "top"
  /\ UNCHANGED <<base, cum, maxSeq, sinceKA, dataNet, dev>>

ConsumeIdle ==
  /\ pc = "consume"
  /\ base = NoSeq
  /\ pc' = "top"
  /\ UNCHANGED <<recv, pumpVars, dataNet, ackNet, dev>>

-----------------------------------------------------------------------------
(* The device and the link.                                                *)

DeviceSend ==
  /\ devNext <= LastFrame /\ devNext < devBase + DevWindow
  /\ dataNet' = Carried(dataNet, devNext)
  /\ devNext' = devNext + 1
  /\ UNCHANGED <<recv, pumpVars, pc, ackNet, devBase>>

DeviceAck(a, keep) ==
  /\ a \in ackNet
  /\ ackNet' = IF keep THEN ackNet ELSE ackNet \ {a}
  /\ \/ /\ a >= devBase
        /\ devBase' = a + 1
        /\ UNCHANGED dataNet
     \/ /\ a = devBase - 1 /\ devBase < devNext
        /\ dataNet' = Carried(dataNet, devBase)
        /\ UNCHANGED devBase
     \/ /\ a < devBase - 1 \/ (a = devBase - 1 /\ devBase = devNext)
        /\ UNCHANGED <<devBase, dataNet>>
  /\ UNCHANGED <<recv, pumpVars, pc, devNext>>

(* A lost frame is one that a readRDT does not see; where on its way it    *)
(* was dropped makes no difference.                                        *)
LoseFrame(s) ==
  /\ pc = "recv" /\ s \in dataNet
  /\ dataNet' = dataNet \ {s}
  /\ UNCHANGED <<recv, pumpVars, pc, ackNet, dev>>

LoseAck(a) ==
  /\ a \in ackNet
  /\ ackNet' = ackNet \ {a}
  /\ UNCHANGED <<recv, pumpVars, pc, dataNet, dev>>

PumpSteps == PumpTop \/ RecvDone \/ Consume \/ ConsumeIdle

Next ==
  \/ PumpTop \/ RecvDone \/ Consume \/ ConsumeIdle
  \/ \E s \in dataNet, keep \in BOOLEAN : FrameArrives(s, keep)
  \/ DeviceSend
  \/ \E a \in ackNet, keep \in BOOLEAN : DeviceAck(a, keep)
  \/ \E s \in dataNet : LoseFrame(s)
  \/ \E a \in ackNet : LoseAck(a)

Spec == Init /\ [][Next]_vars

(* The pump never blocks for good; the device sends what its window lets   *)
(* it; and the link is fair-lossy: of a datagram sent again and again some *)
(* copy arrives.                                                           *)
FairSpec ==
  /\ Spec
  /\ WF_vars(PumpSteps)
  /\ WF_vars(DeviceSend)
  /\ \A s \in 0..LastFrame : SF_vars(\E keep \in BOOLEAN : FrameArrives(s, keep))
  /\ \A a \in 0..LastFrame : SF_vars(\E keep \in BOOLEAN : DeviceAck(a, keep))

-----------------------------------------------------------------------------
(* Properties.                                                             *)

Seqs == 0..LastFrame

(* Every variable keeps the shape its Go declaration gives it.             *)
TypeOK ==
  /\ frames \subseteq Seqs /\ dataNet \subseteq Seqs /\ ackNet \subseteq Seqs
  /\ base \in Seqs \cup {NoSeq} /\ consumed \in Seqs \cup {NoSeq}
  /\ cum \in Seqs /\ maxSeq \in Seqs
  /\ pumpStarted \in BOOLEAN /\ pumpNext \in 0..(LastFrame + 1)
  /\ handed \in Seq(Seqs)
  /\ sinceKA \in 0..(KaEvery + 1) /\ sinceAdvance \in 0..(StallAfter + 1)
  /\ pc \in {"top", "recv", "consume"}
  /\ devBase \in 0..(LastFrame + 1) /\ devNext \in FirstData..(LastFrame + 1)

HandedOn == {handed[i] : i \in DOMAIN handed}

(* What the device has let go of, or will when an ACK under way arrives.   *)
Acknowledged == {s \in Seqs : s < devBase \/ \E a \in ackNet : s <= a}

(* The frames of the data stream that pump acknowledges without having     *)
(* handed them on are those below the frame it started with: it takes the  *)
(* lowest one it holds at its first Consume for the start of the stream, so*)
(* one delayed past that is acknowledged unseen (NoAckOverGap is refuted), *)
(* fewer than the device's window of them.  From there on, whatever is     *)
(* lost, repeated or reordered, no ACK covers a frame the client has not   *)
(* used.                                                                   *)
GapOnlyAtStart ==
  /\ \A s \in Acknowledged : s < FirstData \/ s \in HandedOn \/ (pumpStarted /\ s < base)
  /\ pumpStarted => base < FirstData + DevWindow

(* Once started, the reassembler holds nothing below the read position: a  *)
(* stale retransmit stored there would never be taken and never be freed.  *)
NoneStranded == pumpStarted => \A s \in frames : s >= pumpNext

(* Loss of frames and of ACKs only delays the stream: once the pump has    *)
(* started on a data frame, the repeated ACKs of the keepalive and of stall*)
(* recovery bring every remaining frame in, each once and in order,        *)
(* whatever late copies of setup's frames are still to come.               *)
StartedDrains ==
  pumpStarted /\ base >= FirstData ~> handed = [i \in 1..(LastFrame - base + 1) |-> base + i - 1]

-----------------------------------------------------------------------------
(* What the source says of itself and TLC refutes (README, section 3).     *)

(* The Reassembler promises to tolerate duplicates: no late copy of a frame*)
(* setup has already answered keeps the stream from draining.              *)
ToleratesDuplicates == pumpStarted ~> pumpNext > LastFrame

(* "Never ACK a frame's own seq ... acking a seq that arrived after a gap  *)
(* tells the device the missing seq was received": an ACK covers only      *)
(* frames of the data stream that were consumed.                           *)
NoAckOverGap == \A a \in ackNet : FirstData..a \subseteq HandedOn

(* "CumAck returns the highest contiguous sequence": it cannot be below    *)
(* what has already been consumed in order.                                *)
CumIsContiguous == cum >= consumed

=============================================================================
