--------------------------- MODULE GoBackNProofs ---------------------------
(***************************************************************************)
(* Proofs about GoBackN for every window, frame size, timer, queue and     *)
(* link capacity.                                                          *)
(***************************************************************************)
EXTENDS GoBackN, SeqLemmas

(* A datagram either joins the link or is lost; nothing else appears.      *)
LEMMA CarriedAdds ==
  ASSUME NEW net, NEW d, NEW n \in Carried(net, d)
  PROVE  \A x \in n : x \in net \/ x = d
BY DEF Carried

(* A control message is a payload of one cell.                             *)
LEMMA SingleIsPayload ==
  ASSUME NEW c \in Ctrl \cup OpenSteps
  PROVE  Single(c) \in Payload
<1>1. <<c, 1>> \in Cell
  BY DEF Cell
<1>2. QED
  BY <1>1 DEF Single, Payload

(* The congestion window stays at or above its floor.                      *)
LEMMA HalvedType ==
  ASSUME cwnd \in Nat
  PROVE  Halved \in Nat /\ Halved >= CwndMin * CwndScale
<1>1. CwndMin * CwndScale \in Nat
  BY CwndAssumption
<1>2. cwnd \div 2 \in Nat
  OBVIOUS
<1>3. QED
  BY <1>1, <1>2 DEF Halved

(* ackOutbound's additive increase keeps cwnd a natural number at or above *)
(* its floor.                                                              *)
LEMMA GrownType ==
  ASSUME cwnd \in Nat, cwnd >= CwndMin * CwndScale, NEW n \in Nat
  PROVE  Grown(n) \in Nat /\ Grown(n) >= CwndMin * CwndScale
<1>1. CwndMin * CwndScale \in Nat /\ CwndMin * CwndScale > 0
  BY CwndAssumption
<1>2. n * CwndScale * CwndScale \in Nat
  BY CwndAssumption
<1> DEFINE x == n * CwndScale * CwndScale
<1> HIDE DEF x
<1>3. x \in Nat /\ cwnd \in Nat \ {0}
  BY <1>1, <1>2 DEF x
<1>4. x \div cwnd \in Nat
  BY <1>3
<1>5. Grown(n) = cwnd + x \div cwnd
  BY DEF Grown, x
<1> DEFINE q == x \div cwnd
<1> HIDE DEF q
<1>6. QED
  BY <1>1, <1>4, <1>5 DEF q

-----------------------------------------------------------------------------
(* TypeOK in two parts: what callers and the pump's control state use, and *)
(* what the stream machinery uses.                                         *)
QueueType ==
  /\ writeCh \in Seq(Msg) /\ ctrlCh \in Seq(Ctrl) /\ accepted \in Seq(Msg)
  /\ open \in {"none", "asked", "sent", "over"}
  /\ pending \in Seq(Cell)
  /\ pc \in pcs /\ closed \in BOOLEAN
  /\ rerr \in {"none", "closed", "silent", "stalled"}
StreamType ==
  /\ txSeq \in Nat /\ sendBase \in Nat
  /\ DOMAIN inflight \subseteq Nat /\ inflight \in [DOMAIN inflight -> Slot]
  /\ cwnd \in Nat /\ cwnd >= CwndMin * CwndScale
  /\ rto \in RtoMin..RtoMax
  /\ retxRun \in 0..MaxBackoff /\ dupAcks \in 0..2 /\ lastAckSeq \in Nat
  /\ sinceReTx \in Nat /\ sinceProg \in Nat /\ sinceCut \in Nat
  /\ dataNet \subseteq Frame /\ ackNet \subseteq Nat
  /\ rcvNext \in Nat
  /\ DOMAIN got \subseteq Nat /\ got \in [DOMAIN got -> Payload]
  /\ DOMAIN sent \subseteq Nat /\ sent \in [DOMAIN sent -> Payload]
StreamPart ==
  /\ StreamType /\ InflightExact /\ CountersOrdered /\ WireIntact
  /\ DeviceIntact /\ DeviceContiguous /\ AcksTrue

(* The inductive invariant, divided into what concerns the callers' queues *)
(* and what concerns the window, the wire and the device.                  *)
LEMMA InvSplit == StreamInv <=> QueueType /\ StreamPart
BY DEF StreamInv, StreamPart, TypeOK, QueueType, StreamType

(* Steps that leave the stream machinery alone.                            *)
LEMMA StreamUnchanged ==
  ASSUME StreamPart,
         UNCHANGED <<window, control, ages, dataNet, ackNet, device>>
  PROVE  StreamPart'
BY DEF StreamPart, StreamType, InflightExact, CountersOrdered, WireIntact,
       DeviceIntact, DeviceContiguous, AcksTrue, window, control, ages, device

(* sendReliable: the new frame is numbered, buffered and put on the wire.  *)
LEMMA SendReliableStep ==
  ASSUME StreamPart, NEW p \in Payload, SendReliable(p), UNCHANGED <<ackNet, device>>
  PROVE  StreamPart'
<1> USE DEF FirstSeq, SetupSeq
<1>1. /\ txSeq' = txSeq + 1
      /\ inflight' = [s \in DOMAIN inflight \cup {txSeq} |->
                    IF s = txSeq THEN [payload |-> p, retx |-> FALSE] ELSE inflight[s]]
      /\ sent' = [s \in DOMAIN sent \cup {txSeq} |-> IF s = txSeq THEN p ELSE sent[s]]
      /\ sinceReTx' = 0
      /\ UNCHANGED <<sendBase, cwnd, rto, retxRun, dupAcks, lastAckSeq, sinceProg,
                     sinceCut, ackNet, rcvNext, got>>
  BY DEF SendReliable, control, device
<1>2. \A f \in dataNet' : f \in dataNet \/ f = [seq |-> txSeq, payload |-> p]
  BY CarriedAdds DEF SendReliable, Transmit
<1>3. /\ txSeq \in Nat /\ sendBase \in Nat /\ FirstSeq <= sendBase /\ sendBase <= txSeq
      /\ DOMAIN sent = SetupSeq..(txSeq - 1)
      /\ DOMAIN inflight = sendBase..(txSeq - 1)
  BY DEF StreamPart, StreamType, InflightExact, CountersOrdered, WireIntact
<1>4. DOMAIN sent' = SetupSeq..(txSeq' - 1) /\ DOMAIN inflight' = sendBase'..(txSeq' - 1)
  BY <1>1, <1>3
<1>5. StreamType'
  <2>1. [payload |-> p, retx |-> FALSE] \in Slot
    BY DEF Slot
  <2>2. inflight' \in [DOMAIN inflight' -> Slot] /\ DOMAIN inflight' \subseteq Nat
    BY <1>1, <1>3, <2>1 DEF StreamPart, StreamType
  <2>3. sent' \in [DOMAIN sent' -> Payload] /\ DOMAIN sent' \subseteq Nat
    BY <1>1, <1>3 DEF StreamPart, StreamType
  <2>4. dataNet' \subseteq Frame
    BY <1>2, <1>3 DEF StreamPart, StreamType, Frame
  <2>5. /\ txSeq' \in Nat /\ sendBase' \in Nat /\ sinceReTx' \in Nat
        /\ cwnd' \in Nat /\ (cwnd >= CwndMin * CwndScale)'
        /\ (rto \in RtoMin..RtoMax)'
        /\ retxRun' \in 0..MaxBackoff /\ dupAcks' \in 0..2 /\ lastAckSeq' \in Nat
        /\ sinceProg' \in Nat /\ sinceCut' \in Nat
        /\ ackNet' \subseteq Nat /\ rcvNext' \in Nat
        /\ DOMAIN got' \subseteq Nat /\ got' \in [DOMAIN got' -> Payload]
    BY <1>1 DEF StreamPart, StreamType
  <2>6. QED
    BY <2>2, <2>3, <2>4, <2>5 DEF StreamType
<1>6. InflightExact'
  BY <1>1, <1>3, <1>4 DEF StreamPart, InflightExact
<1>7. CountersOrdered'
  BY <1>1 DEF StreamPart, StreamType, CountersOrdered
<1>8. WireIntact'
  <2>1. \A f \in dataNet' : f.seq \in DOMAIN sent' /\ f.payload = sent'[f.seq]
    BY <1>1, <1>2, <1>3 DEF StreamPart, WireIntact
  <2>2. QED
    BY <2>1, <1>4 DEF WireIntact
<1>9. DeviceIntact' /\ DeviceContiguous' /\ AcksTrue'
  BY <1>1, <1>3 DEF StreamPart, DeviceIntact, DeviceContiguous, AcksTrue
<1>10. QED
  BY <1>5, <1>6, <1>7, <1>8, <1>9 DEF StreamPart

(* The control variables that only pace transmission.                      *)
PaceType ==
  /\ cwnd \in Nat /\ cwnd >= CwndMin * CwndScale
  /\ rto \in RtoMin..RtoMax
  /\ retxRun \in 0..MaxBackoff /\ dupAcks \in 0..2 /\ lastAckSeq \in Nat
  /\ sinceReTx \in Nat /\ sinceProg \in Nat /\ sinceCut \in Nat

(* Changing only the pace leaves the stream as it was.                     *)
LEMMA PaceOnly ==
  ASSUME StreamPart, PaceType', ackNet' \subseteq ackNet,
         UNCHANGED <<window, dataNet, device>>
  PROVE  StreamPart'
BY DEF StreamPart, StreamType, PaceType, InflightExact, CountersOrdered, WireIntact,
       DeviceIntact, DeviceContiguous, AcksTrue, window, device

(* cwndCutHalf keeps the window at or above its floor.                     *)
LEMMA CutStep ==
  ASSUME StreamPart, CwndCutHalf
  PROVE  cwnd' \in Nat /\ (cwnd >= CwndMin * CwndScale)' /\ sinceCut' \in Nat
BY HalvedType DEF StreamPart, StreamType, CwndCutHalf

(* resendOldest puts a copy of what was first sent back on the wire.       *)
LEMMA ResendOldestStep ==
  ASSUME StreamPart, ResendOldest,
         retxRun' \in 0..MaxBackoff, dupAcks' \in 0..2, lastAckSeq' \in Nat,
         ackNet' \subseteq ackNet,
         UNCHANGED <<txSeq, sendBase, sent, rto, sinceProg, device>>
  PROVE  StreamPart'
<1>1. /\ \A f \in dataNet' : f \in dataNet \/
                 (sendBase \in DOMAIN inflight
                  /\ f = [seq |-> sendBase, payload |-> inflight[sendBase].payload])
      /\ DOMAIN inflight' = DOMAIN inflight
      /\ inflight' \in [DOMAIN inflight -> Slot]
      /\ \A s \in DOMAIN inflight : inflight'[s].payload = inflight[s].payload
  <2>1. CASE sendBase \in DOMAIN inflight
    <3>1. /\ inflight' = [inflight EXCEPT ![sendBase].retx = TRUE]
          /\ dataNet' \in Carried(dataNet, [seq |-> sendBase, payload |-> OldestCopy])
      BY <2>1 DEF ResendOldest, Transmit
    <3>2. inflight \in [DOMAIN inflight -> Slot]
      BY DEF StreamPart, StreamType
    <3>3. /\ DOMAIN inflight' = DOMAIN inflight
          /\ inflight' \in [DOMAIN inflight -> Slot]
          /\ \A s \in DOMAIN inflight : inflight'[s].payload = inflight[s].payload
      BY <3>1, <3>2, <2>1 DEF Slot
    <3>4. QED
      BY <3>1, <3>3, <2>1, CarriedAdds DEF OldestCopy
  <2>2. CASE sendBase \notin DOMAIN inflight
    BY <2>2 DEF ResendOldest, StreamPart, StreamType
  <2>3. QED
    BY <2>1, <2>2
<1>2. PaceType'
  BY CutStep DEF ResendOldest, PaceType, StreamPart, StreamType
<1>3. UNCHANGED <<txSeq, sendBase, sent, rcvNext, got>>
  BY DEF device
<1>4. InflightExact' /\ CountersOrdered'
  BY <1>1, <1>3 DEF StreamPart, InflightExact, CountersOrdered, FirstSeq, SetupSeq
<1>5. \A f \in dataNet' : f \in Frame /\ f.seq \in DOMAIN sent /\ f.payload = sent[f.seq]
  <2> SUFFICES ASSUME NEW f \in dataNet', f \notin dataNet
               PROVE  f \in Frame /\ f.seq \in DOMAIN sent /\ f.payload = sent[f.seq]
    BY DEF StreamPart, StreamType, WireIntact
  <2>1. /\ sendBase \in DOMAIN inflight
        /\ f = [seq |-> sendBase, payload |-> inflight[sendBase].payload]
    BY <1>1
  <2>2. inflight[sendBase].payload = sent[sendBase] /\ sendBase \in DOMAIN sent
    BY <2>1 DEF StreamPart, StreamType, InflightExact, CountersOrdered, WireIntact,
                FirstSeq, SetupSeq
  <2>3. sent[sendBase] \in Payload /\ sendBase \in Nat
    BY <2>2 DEF StreamPart, StreamType
  <2>4. QED
    BY <2>1, <2>2, <2>3 DEF Frame
<1>6. WireIntact'
  BY <1>3, <1>5 DEF StreamPart, WireIntact
<1>7. DeviceIntact' /\ DeviceContiguous' /\ AcksTrue'
  BY <1>3 DEF StreamPart, DeviceIntact, DeviceContiguous, AcksTrue
<1>8. StreamType'
  <2>1. /\ txSeq' \in Nat /\ sendBase' \in Nat
        /\ DOMAIN inflight' \subseteq Nat /\ inflight' \in [DOMAIN inflight' -> Slot]
        /\ dataNet' \subseteq Frame /\ ackNet' \subseteq Nat /\ rcvNext' \in Nat
        /\ DOMAIN got' \subseteq Nat /\ got' \in [DOMAIN got' -> Payload]
        /\ DOMAIN sent' \subseteq Nat /\ sent' \in [DOMAIN sent' -> Payload]
    BY <1>1, <1>3, <1>5 DEF StreamPart, StreamType
  <2>2. QED
    BY <2>1, <1>2 DEF StreamType, PaceType
<1>9. QED
  BY <1>4, <1>6, <1>7, <1>8 DEF StreamPart

(* ackOutbound frees only frames the device is known to hold, because no   *)
(* ACK on the link claims more than that.                                  *)
LEMMA AckProgressStep ==
  ASSUME StreamPart, NEW a \in ackNet, AckProgress(a), lastAckSeq' = a,
         ackNet' \subseteq ackNet, UNCHANGED device
  PROVE  StreamPart'
<1> USE DEF FirstSeq, SetupSeq, NewBase
<1>1. /\ a \in Nat /\ a < rcvNext /\ sendBase < a + 1 /\ a + 1 <= txSeq
      /\ txSeq \in Nat /\ sendBase \in Nat /\ rcvNext \in Nat
      /\ DOMAIN inflight = sendBase..(txSeq - 1)
  BY DEF StreamPart, StreamType, InflightExact, AcksTrue, AckProgress, AckAdvances
<1>2. /\ inflight' = [s \in DOMAIN inflight \ FreedBy(a) |-> inflight[s]]
      /\ sendBase' = a + 1
      /\ UNCHANGED <<txSeq, sent, dataNet, rcvNext, got>>
  BY DEF AckProgress, device
<1>3. DOMAIN inflight \ FreedBy(a) = (a + 1)..(txSeq - 1)
  BY <1>1 DEF FreedBy
<1>4. PaceType'
  <2>1. a + 1 - sendBase \in Nat
    BY <1>1
  <2>2. cwnd' \in Nat /\ (cwnd >= CwndMin * CwndScale)'
    BY <2>1, GrownType DEF StreamPart, StreamType, AckProgress
  <2>3. rto' \in RtoMin..RtoMax
    BY DEF StreamPart, StreamType, AckProgress, SampleRTT
  <2>4. QED
    BY <1>1, <2>2, <2>3, TimeAssumption DEF StreamPart, StreamType, AckProgress, PaceType
<1>5. InflightExact'
  BY <1>1, <1>2, <1>3 DEF StreamPart, InflightExact
<1>6. CountersOrdered'
  BY <1>1, <1>2 DEF StreamPart, CountersOrdered
<1>7. WireIntact' /\ DeviceIntact' /\ DeviceContiguous' /\ AcksTrue'
  BY <1>2 DEF StreamPart, WireIntact, DeviceIntact, DeviceContiguous, AcksTrue
<1>8. StreamType'
  <2>1. DOMAIN inflight' \subseteq Nat /\ inflight' \in [DOMAIN inflight' -> Slot]
    BY <1>2 DEF StreamPart, StreamType
  <2>2. /\ txSeq' \in Nat /\ sendBase' \in Nat
        /\ dataNet' \subseteq Frame /\ ackNet' \subseteq Nat /\ rcvNext' \in Nat
        /\ DOMAIN got' \subseteq Nat /\ got' \in [DOMAIN got' -> Payload]
        /\ DOMAIN sent' \subseteq Nat /\ sent' \in [DOMAIN sent' -> Payload]
    BY <1>1, <1>2 DEF StreamPart, StreamType
  <2>3. QED
    BY <2>1, <2>2, <1>4 DEF StreamType, PaceType
<1>9. QED
  BY <1>5, <1>6, <1>7, <1>8 DEF StreamPart

(* Every outcome of ackOutbound.                                           *)
LEMMA AckArrivesStep ==
  ASSUME StreamPart, NEW a \in ackNet, NEW keep \in BOOLEAN, AckArrives(a, keep)
  PROVE  StreamPart'
<1>1. /\ lastAckSeq' = a /\ a \in Nat /\ ackNet' \subseteq ackNet /\ UNCHANGED device
      /\ AckProgress(a) \/ AckDuplicate(a) \/ AckStale(a)
  BY DEF AckArrives, AckOutbound, StreamPart, StreamType
<1>2. CASE AckProgress(a)
  BY <1>1, <1>2, AckProgressStep
<1>3. CASE AckDuplicate(a)
  <2>1. UNCHANGED <<txSeq, sendBase, sent, rto, retxRun, sinceProg>>
    BY <1>3 DEF AckDuplicate
  <2>2. CASE dupAcks + 1 >= 3
    <3>1. ResendOldest /\ dupAcks' = 0
      BY <1>3, <2>2 DEF AckDuplicate
    <3>2. retxRun' \in 0..MaxBackoff /\ dupAcks' \in 0..2 /\ lastAckSeq' \in Nat
      BY <1>1, <2>1, <3>1 DEF StreamPart, StreamType
    <3>3. QED
      BY <1>1, <2>1, <3>1, <3>2, ResendOldestStep
  <2>3. CASE ~(dupAcks + 1 >= 3)
    <3>1. dupAcks' = dupAcks + 1 /\ UNCHANGED <<inflight, cwnd, sinceReTx, sinceCut, dataNet>>
      BY <1>3, <2>3 DEF AckDuplicate
    <3>2. PaceType'
      BY <1>1, <2>1, <2>3, <3>1 DEF StreamPart, StreamType, PaceType
    <3>3. QED
      BY <1>1, <2>1, <3>1, <3>2, PaceOnly DEF window
  <2>4. QED
    BY <2>2, <2>3
<1>4. CASE AckStale(a)
  <2>1. UNCHANGED <<window, cwnd, rto, retxRun, dupAcks, ages, dataNet>>
    BY <1>4 DEF AckStale
  <2>2. PaceType'
    BY <1>1, <2>1 DEF StreamPart, StreamType, PaceType, ages
  <2>3. QED
    BY <1>1, <2>1, <2>2, PaceOnly
<1>5. QED
  BY <1>1, <1>2, <1>3, <1>4

(* outboundTick, whether it retransmits or not.                            *)
LEMMA TickStep ==
  ASSUME StreamPart, TickResend,
         UNCHANGED <<txSeq, sendBase, sent, rto, dupAcks, lastAckSeq, sinceProg,
                     ackNet, device>>
  PROVE  StreamPart'
<1>1. CASE Unacked > 0 /\ RtoExpired
  <2>1. ResendOldest /\ retxRun' = IF retxRun < MaxBackoff THEN retxRun + 1 ELSE retxRun
    BY <1>1 DEF TickResend
  <2>2. retxRun' \in 0..MaxBackoff /\ dupAcks' \in 0..2 /\ lastAckSeq' \in Nat
    BY <2>1, TimeAssumption DEF StreamPart, StreamType
  <2>3. QED
    BY <2>1, <2>2, ResendOldestStep
<1>2. CASE ~(Unacked > 0 /\ RtoExpired)
  <2>1. UNCHANGED <<inflight, cwnd, sinceReTx, sinceCut, dataNet, retxRun>>
    BY <1>2 DEF TickResend
  <2>2. QED
    BY <2>1, StreamUnchanged DEF window, control, ages
<1>3. QED
  BY <1>1, <1>2

(* A frame, late or repeated, reaches the device.                          *)
LEMMA DeviceRecvStep ==
  ASSUME StreamPart, NEW f \in dataNet, NEW keep \in BOOLEAN, NEW hold \in BOOLEAN,
         DeviceRecv(f, keep, hold)
  PROVE  StreamPart'
<1> USE DEF FirstSeq, SetupSeq
<1>1. /\ f \in Frame /\ f.seq \in Nat /\ f.payload \in Payload
      /\ f.seq \in DOMAIN sent /\ f.payload = sent[f.seq]
  BY DEF StreamPart, StreamType, WireIntact, Frame
<1>2. /\ UNCHANGED <<window, control, ages>>
      /\ UNCHANGED <<txSeq, sendBase, inflight, sent>>
      /\ dataNet' \subseteq dataNet
      /\ \A n \in ackNet' : n \in ackNet \/ n = rcvNext' - 1
  BY CarriedAdds DEF DeviceRecv, window
<1>3. /\ got' \in [DOMAIN got' -> Payload] /\ DOMAIN got' \subseteq DOMAIN got \cup {f.seq}
      /\ DOMAIN got \subseteq DOMAIN got' /\ DOMAIN got' \subseteq Nat
      /\ \A s \in DOMAIN got' : got'[s] = IF s \in DOMAIN got THEN got[s] ELSE f.payload
  BY <1>1 DEF DeviceRecv, StreamPart, StreamType
<1>4. /\ rcvNext' \in rcvNext..txSeq
      /\ \A j \in rcvNext..(rcvNext' - 1) : j \in DOMAIN got'
  BY DEF DeviceRecv
<1>5. txSeq \in Nat /\ rcvNext \in Nat /\ SetupSeq <= rcvNext
  BY DEF StreamPart, StreamType, CountersOrdered
<1>6. StreamType'
  <2>1. ackNet' \subseteq Nat
    BY <1>2, <1>4, <1>5 DEF StreamPart, StreamType
  <2>2. /\ dataNet' \subseteq Frame /\ rcvNext' \in Nat
    BY <1>2, <1>4, <1>5 DEF StreamPart, StreamType
  <2>3. QED
    BY <1>2, <1>3, <2>1, <2>2 DEF StreamPart, StreamType, control, ages
<1>7. InflightExact' /\ WireIntact'
  BY <1>2 DEF StreamPart, InflightExact, WireIntact
<1>8. CountersOrdered'
  BY <1>2, <1>4, <1>5 DEF StreamPart, StreamType, CountersOrdered
<1>9. DeviceIntact'
  BY <1>1, <1>2, <1>3 DEF StreamPart, DeviceIntact
<1>10. DeviceContiguous'
  BY <1>3, <1>4, <1>5 DEF StreamPart, DeviceContiguous
<1>11. AcksTrue'
  BY <1>2, <1>4, <1>5 DEF StreamPart, StreamType, AcksTrue
<1>12. QED
  BY <1>6, <1>7, <1>8, <1>9, <1>10, <1>11 DEF StreamPart

-----------------------------------------------------------------------------
(* What the pump puts on the stream is made of cells.                      *)
LEMMA ChunkIsPayload ==
  ASSUME NEW m \in Msg
  PROVE  Chunk(m) \in Seq(Cell)
<1>1. ChunkLen[m] \in Nat
  BY ChunkAssumption
<1>2. \A k \in 1..ChunkLen[m] : <<m, k>> \in Cell
  BY <1>1 DEF Cell
<1>3. QED
  BY <1>1, <1>2 DEF Chunk

(* The framing loop cuts pending into a payload and a remainder.           *)
LEMMA FramingSplits ==
  ASSUME pending \in Seq(Cell)
  PROVE  SubSeq(pending, 1, FrameSize) \in Payload /\ Unframed \in Seq(Cell)
<1>1. FrameSize \in 0..Len(pending)
  BY FrameAssumption DEF FrameSize
<1>2. QED
  BY <1>1 DEF Unframed, Payload

(* The state setup leaves behind satisfies the inductive invariant.        *)
LEMMA InitInv == Init => StreamInv
<1> SUFFICES ASSUME Init PROVE StreamInv
  OBVIOUS
<1> USE DEF FirstSeq, SetupSeq
<1>1. Single("setupAddr") \in Payload
  BY SingleIsPayload DEF OpenSteps
<1>2. QueueType
  <2>1. open \in {"none", "asked", "sent", "over"}
    BY DEF Init
  <2>2. closed \in BOOLEAN
    BY DEF Init
  <2>3. QED
    BY <2>1, <2>2 DEF Init, QueueType, pcs
<1>3. dataNet \subseteq Frame /\ \A f \in dataNet : f.seq = 2 /\ f.payload = Single("setupAddr")
  BY <1>1 DEF Init, Frame
<1>4. /\ inflight \in [DOMAIN inflight -> Slot] /\ DOMAIN inflight = {}
      /\ got \in [DOMAIN got -> Payload] /\ DOMAIN got = {}
      /\ sent \in [DOMAIN sent -> Payload] /\ DOMAIN sent = {2}
      /\ sent[2] = Single("setupAddr")
  BY <1>1 DEF Init
<1>5. cwnd \in Nat /\ cwnd >= CwndMin * CwndScale
  <2>1. cwnd = CwndInit * CwndScale
    BY DEF Init
  <2>2. QED
    BY <2>1, CwndAssumption
<1>6. sinceCut \in Nat /\ rto \in RtoMin..RtoMax
  BY TimeAssumption DEF Init, CutCap
<1>7. StreamType
  BY <1>3, <1>4, <1>5, <1>6, TimeAssumption DEF Init, StreamType
<1>8. InflightExact /\ CountersOrdered
  BY <1>4 DEF Init, InflightExact, CountersOrdered
<1>9. WireIntact /\ DeviceIntact /\ DeviceContiguous /\ AcksTrue
  BY <1>3, <1>4 DEF Init, WireIntact, DeviceIntact, DeviceContiguous, AcksTrue
<1>10. QED
  BY <1>2, <1>7, <1>8, <1>9, InvSplit DEF StreamPart

(* Every step keeps the inductive invariant: one case per action, each in  *)
(* its queue part and its stream part.                                     *)
LEMMA NextInv == StreamInv /\ [Next]_vars => StreamInv'
<1> SUFFICES ASSUME StreamInv, [Next]_vars PROVE StreamInv'
  OBVIOUS
<1>1. QueueType /\ StreamPart
  BY InvSplit
<1> DEFINE Quiet == UNCHANGED <<window, control, ages, dataNet, ackNet, device>>
<1>2. QueueType' /\ StreamPart' => StreamInv'
  BY InvSplit, PTL
<1>3. ASSUME NEW m \in Msg, Write(m) PROVE StreamInv'
  <2>1. QueueType'
    BY <1>1, <1>3 DEF Write, QueueType, ending
  <2>2. StreamPart'
    BY <1>1, <1>3, StreamUnchanged DEF Write
  <2>3. QED
    BY <1>2, <2>1, <2>2
<1>4. ASSUME NEW c \in Ctrl, SendTunnelCtrl(c) PROVE StreamInv'
  <2>1. QueueType'
    BY <1>1, <1>4 DEF SendTunnelCtrl, QueueType, ending
  <2>2. StreamPart'
    BY <1>1, <1>4, StreamUnchanged DEF SendTunnelCtrl
  <2>3. QED
    BY <1>2, <2>1, <2>2
<1>5. CASE OpenChannel \/ OpenTimeout
  <2>1. QueueType'
    BY <1>1, <1>5 DEF OpenChannel, OpenTimeout, QueueType, ending
  <2>2. StreamPart'
    BY <1>1, <1>5, StreamUnchanged DEF OpenChannel, OpenTimeout
  <2>3. QED
    BY <1>2, <2>1, <2>2
<1>6. CASE Close \/ PumpClosed \/ PumpSilent
  <2>1. QueueType'
    BY <1>1, <1>6 DEF Close, PumpClosed, PumpSilent, Exit, QueueType, queues, pcs
  <2>2. StreamPart'
    BY <1>1, <1>6, StreamUnchanged DEF Close, PumpClosed, PumpSilent
  <2>3. QED
    BY <1>2, <2>1, <2>2
<1>7. CASE PumpTop
  <2>1. QueueType'
    BY <1>1, <1>7 DEF PumpTop, QueueType, ending, pcs
  <2>2. Single("portConnect") \in Payload
    BY SingleIsPayload DEF OpenSteps
  <2>3. StreamPart'
    BY <1>1, <1>7, <2>2, StreamUnchanged, SendReliableStep DEF PumpTop
  <2>4. QED
    BY <1>2, <2>1, <2>3
<1>8. CASE PumpDrain
  <2>0. ctrlCh # <<>> => Head(ctrlCh) \in Ctrl /\ Tail(ctrlCh) \in Seq(Ctrl)
    BY <1>1 DEF QueueType
  <2>1. QueueType'
    <3>1. ctrlCh' \in Seq(Ctrl)
      BY <1>1, <1>8, <2>0 DEF PumpDrain, QueueType
    <3>2. UNCHANGED <<writeCh, accepted, open, pending, closed, rerr>> /\ pc' \in pcs
      BY <1>1, <1>8 DEF PumpDrain, ending, pcs, QueueType
    <3>3. QED
      BY <1>1, <3>1, <3>2 DEF QueueType
  <2>2. ctrlCh # <<>> => Single(Head(ctrlCh)) \in Payload
    BY <2>0, SingleIsPayload
  <2>3. StreamPart'
    BY <1>1, <1>8, <2>2, StreamUnchanged, SendReliableStep DEF PumpDrain
  <2>4. QED
    BY <1>2, <2>1, <2>3
<1>9. CASE PumpFill
  <2>1. writeCh # <<>> => Head(writeCh) \in Msg /\ Tail(writeCh) \in Seq(Msg)
    BY <1>1 DEF QueueType
  <2>2. writeCh # <<>> => pending \o Chunk(Head(writeCh)) \in Seq(Cell)
    BY <1>1, <2>1, ChunkIsPayload DEF QueueType
  <2>3. QueueType'
    BY <1>1, <1>9, <2>1, <2>2 DEF PumpFill, QueueType, ending, pcs
  <2>4. StreamPart'
    BY <1>1, <1>9, StreamUnchanged DEF PumpFill
  <2>5. QED
    BY <1>2, <2>3, <2>4
<1>10. CASE PumpFrame
  <2>1. SubSeq(pending, 1, FrameSize) \in Payload /\ Unframed \in Seq(Cell)
    BY <1>1, FramingSplits DEF QueueType
  <2>2. QueueType'
    BY <1>1, <1>10, <2>1 DEF PumpFrame, QueueType, queues, ending, pcs
  <2>3. StreamPart'
    BY <1>1, <1>10, <2>1, StreamUnchanged, SendReliableStep DEF PumpFrame
  <2>4. QED
    BY <1>2, <2>2, <2>3
<1>11. CASE RecvDone
  <2>1. QueueType'
    BY <1>1, <1>11 DEF RecvDone, QueueType, queues, ending, pcs
  <2>2. StreamPart'
    BY <1>1, <1>11, StreamUnchanged DEF RecvDone
  <2>3. QED
    BY <1>2, <2>1, <2>2
<1>12. CASE PumpTick
  <2>1. QueueType'
    BY <1>1, <1>12 DEF PumpTick, Exit, QueueType, queues, ending, pcs
  <2>2. StreamPart'
    BY <1>1, <1>12, TickStep DEF PumpTick
  <2>3. QED
    BY <1>2, <2>1, <2>2
<1>13. CASE PumpRoute
  <2>1. QueueType'
    BY <1>1, <1>13 DEF PumpRoute, QueueType, ending, pcs
  <2>2. Single("connectAddr") \in Payload
    BY SingleIsPayload DEF OpenSteps
  <2>3. StreamPart'
    BY <1>1, <1>13, <2>2, StreamUnchanged, SendReliableStep DEF PumpRoute
  <2>4. QED
    BY <1>2, <2>1, <2>3
<1>14. ASSUME NEW a \in ackNet, NEW keep \in BOOLEAN, AckArrives(a, keep) PROVE StreamInv'
  <2>1. QueueType'
    BY <1>1, <1>14 DEF AckArrives, QueueType, queues, ending
  <2>2. StreamPart'
    BY <1>1, <1>14, AckArrivesStep
  <2>3. QED
    BY <1>2, <2>1, <2>2
<1>15. CASE Elapse
  <2>1. QueueType'
    BY <1>1, <1>15 DEF Elapse, QueueType, queues, ending
  <2>2. PaceType'
    BY <1>1, <1>15 DEF Elapse, Older, StreamPart, StreamType, PaceType, control
  <2>3. StreamPart'
    BY <1>1, <1>15, <2>2, PaceOnly DEF Elapse
  <2>4. QED
    BY <1>2, <2>1, <2>3
<1>16. ASSUME NEW f \in dataNet, NEW keep \in BOOLEAN, NEW hold \in BOOLEAN,
              DeviceRecv(f, keep, hold)
       PROVE  StreamInv'
  <2>1. QueueType'
    BY <1>1, <1>16 DEF DeviceRecv, QueueType, queues, ending
  <2>2. StreamPart'
    BY <1>1, <1>16, DeviceRecvStep
  <2>3. QED
    BY <1>2, <2>1, <2>2
<1>17. CASE UNCHANGED vars
  <2>1. QueueType'
    BY <1>1, <1>17 DEF vars, QueueType, queues, ending
  <2>2. StreamPart'
    BY <1>1, <1>17, StreamUnchanged DEF vars
  <2>3. QED
    BY <1>2, <2>1, <2>2
<1>18. QED
  BY <1>3, <1>4, <1>5, <1>6, <1>7, <1>8, <1>9, <1>10, <1>11, <1>12, <1>13, <1>14,
     <1>15, <1>16, <1>17 DEF Next, Pump

(* The outbound state is well typed whatever the link does.                *)
THEOREM TypeCorrect == Spec => []TypeOK
<1>1. StreamInv => TypeOK
  BY DEF StreamInv
<1>2. QED
  BY <1>1, InitInv, NextInv, PTL DEF Spec

(* The retransmission buffer is always exactly the unacknowledged window.  *)
THEOREM BufferExact == Spec => []InflightExact
<1>1. StreamInv => InflightExact
  BY DEF StreamInv
<1>2. QED
  BY <1>1, InitInv, NextInv, PTL DEF Spec

(* No frame is forgotten before the device holds it.                       *)
THEOREM FreesOnlyDelivered == Spec => []NoPrematureFree
<1>1. StreamInv => NoPrematureFree
  <2> SUFFICES ASSUME StreamInv, NEW s \in DOMAIN sent, s >= FirstSeq, s < sendBase
               PROVE  s \in DOMAIN got
    BY DEF NoPrematureFree
  <2>1. s \in Nat /\ sendBase \in Nat /\ rcvNext \in Nat
    BY DEF StreamInv, TypeOK
  <2>2. s \in SetupSeq..(rcvNext - 1)
    BY <2>1 DEF StreamInv, CountersOrdered, FirstSeq, SetupSeq
  <2>3. QED
    BY <2>2 DEF StreamInv, DeviceContiguous
<1>2. QED
  BY <1>1, InitInv, NextInv, PTL DEF Spec

(* Retransmission never changes what the device reads.                     *)
THEOREM DeliversIntact == Spec => []DeviceIntact
<1>1. StreamInv => DeviceIntact
  BY DEF StreamInv
<1>2. QED
  BY <1>1, InitInv, NextInv, PTL DEF Spec

-----------------------------------------------------------------------------
(* The window: only PumpFrame sends data, and only below the ceiling.      *)

(* Acknowledgements only narrow the stretch the window is about.           *)
LEMMA WindowKept ==
  ASSUME StreamInv, DataWithinWindow, UNCHANGED <<txSeq, sent>>,
         sendBase' \in Nat, sendBase <= sendBase'
  PROVE  DataWithinWindow'
<1>1. txSeq \in Nat /\ sendBase \in Nat
  BY DEF StreamInv, TypeOK
<1>2. SUFFICES ASSUME NEW s \in sendBase'..(txSeq' - 1), IsData(sent[s])
               PROVE  s < sendBase' + SendWindow
  BY DEF DataWithinWindow, IsData
<1>3. s \in sendBase..(txSeq - 1)
  BY <1>1, <1>2
<1>4. s < sendBase + SendWindow
  BY <1>2, <1>3 DEF DataWithinWindow
<1> DEFINE b == sendBase'
<1>5. s \in Int /\ SendWindow \in Int /\ b \in Int /\ sendBase <= b
  BY <1>1, <1>3, FrameAssumption
<1> HIDE DEF b
<1>6. s < b + SendWindow
  BY <1>1, <1>4, <1>5
<1>7. QED
  BY <1>6 DEF b

(* A frame sent is control, or there was room for it.                      *)
LEMMA SendWithinWindow ==
  ASSUME StreamInv, DataWithinWindow, NEW p \in Payload, SendReliable(p),
         IsData(p) => Unacked < SendWindow
  PROVE  DataWithinWindow'
<1>1. /\ txSeq' = txSeq + 1 /\ sendBase' = sendBase
      /\ sent' = [s \in DOMAIN sent \cup {txSeq} |-> IF s = txSeq THEN p ELSE sent[s]]
  BY DEF SendReliable
<1>2. /\ txSeq \in Nat /\ sendBase \in Nat /\ 3 <= sendBase
      /\ DOMAIN sent = 2..(txSeq - 1)
  BY DEF StreamInv, TypeOK, CountersOrdered, WireIntact, FirstSeq, SetupSeq
<1>3. SUFFICES ASSUME NEW s \in sendBase'..(txSeq' - 1), IsData(sent'[s])
               PROVE  s < sendBase' + SendWindow
  BY DEF DataWithinWindow, IsData
<1>4. CASE s = txSeq
  <2>1. sent'[s] = p
    BY <1>1, <1>2, <1>4
  <2>2. Unacked < SendWindow
    BY <1>3, <2>1
  <2>3. QED
    BY <1>1, <1>2, <1>4, <2>2, FrameAssumption DEF Unacked
<1>5. CASE s # txSeq
  <2>1. s \in sendBase..(txSeq - 1)
    BY <1>1, <1>2, <1>3, <1>5
  <2>0. s \in DOMAIN sent /\ sent'[s] = sent[s]
    BY <1>1, <1>2, <1>5, <2>1
  <2>2. IsData(sent[s])
    BY <1>3, <2>0
  <2>3. QED
    BY <1>1, <2>1, <2>2 DEF DataWithinWindow
<1>6. QED
  BY <1>4, <1>5

(* Control payloads are not data.                                          *)
LEMMA SingleIsControl ==
  ASSUME NEW c \in Ctrl \cup OpenSteps
  PROVE  Single(c) \in Payload /\ ~IsData(Single(c))
<1>1. c \notin Msg
  BY NameAssumption
<1>2. Single(c)[1][1] = c
  BY DEF Single
<1>3. QED
  BY <1>1, <1>2, SingleIsPayload DEF IsData

(* The congestion window never passes the ceiling.                         *)
LEMMA RoomBelowCeiling ==
  ASSUME TypeOK, MayFrame
  PROVE  Unacked < SendWindow
<1>0. cwnd \in Nat /\ CwndScale \in Nat \ {0}
  BY CwndAssumption DEF TypeOK
<1>1. cwnd \div CwndScale \in Nat
  BY <1>0
<1> DEFINE w == cwnd \div CwndScale
<1> HIDE DEF w
<1>2. w \in Nat /\ CwndFrames = IF (IF w < CwndMin THEN CwndMin ELSE w) > SendWindow
                                THEN SendWindow ELSE (IF w < CwndMin THEN CwndMin ELSE w)
  BY <1>1 DEF CwndFrames, w
<1>3. CwndFrames \in Nat /\ CwndFrames <= SendWindow
  BY <1>2, CwndAssumption, FrameAssumption
<1>4. Unacked \in Int /\ Unacked < CwndFrames
  BY DEF MayFrame, Unacked, TypeOK
<1>5. QED
  BY <1>3, <1>4, FrameAssumption

(* Every step keeps data within the window.                                *)
LEMMA WindowNext == StreamInv /\ DataWithinWindow /\ [Next]_vars => DataWithinWindow'
<1> SUFFICES ASSUME StreamInv, DataWithinWindow, [Next]_vars PROVE DataWithinWindow'
  OBVIOUS
<1>1. TypeOK /\ sendBase \in Nat
  BY DEF StreamInv, TypeOK
<1>2. ASSUME UNCHANGED window PROVE DataWithinWindow'
  BY <1>1, <1>2, WindowKept DEF window
<1>3. ASSUME NEW m \in Msg, Write(m) PROVE DataWithinWindow'
  BY <1>2, <1>3 DEF Write
<1>4. ASSUME NEW c \in Ctrl, SendTunnelCtrl(c) PROVE DataWithinWindow'
  BY <1>2, <1>4 DEF SendTunnelCtrl
<1>5. CASE OpenChannel \/ OpenTimeout \/ Close \/ PumpClosed \/ PumpSilent
  BY <1>2, <1>5 DEF OpenChannel, OpenTimeout, Close, PumpClosed, PumpSilent
<1>6. CASE PumpTop
  <2>1. "portConnect" \in Ctrl \cup OpenSteps
    BY DEF OpenSteps
  <2>2. QED
    BY <1>2, <1>6, <2>1, SingleIsControl, SendWithinWindow DEF PumpTop
<1>7. CASE PumpDrain
  <2>1. ctrlCh # <<>> => Head(ctrlCh) \in Ctrl \cup OpenSteps
    BY <1>1 DEF TypeOK
  <2>2. QED
    BY <1>2, <1>7, <2>1, SingleIsControl, SendWithinWindow DEF PumpDrain
<1>8. CASE PumpFill \/ RecvDone \/ Elapse
  BY <1>2, <1>8 DEF PumpFill, RecvDone, Elapse
<1>9. CASE PumpFrame
  <2>1. SubSeq(pending, 1, FrameSize) \in Payload
    BY <1>1, FramingSplits DEF TypeOK
  <2>2. MayFrame => Unacked < SendWindow
    BY <1>1, RoomBelowCeiling
  <2>3. QED
    BY <1>2, <1>9, <2>1, <2>2, SendWithinWindow DEF PumpFrame
<1>10. CASE PumpTick
  BY <1>1, <1>10, WindowKept DEF PumpTick
<1>11. CASE PumpRoute
  <2>1. "connectAddr" \in Ctrl \cup OpenSteps
    BY DEF OpenSteps
  <2>2. QED
    BY <1>2, <1>11, <2>1, SingleIsControl, SendWithinWindow DEF PumpRoute
<1>12. ASSUME NEW a \in ackNet, NEW keep \in BOOLEAN, AckArrives(a, keep)
       PROVE  DataWithinWindow'
  <2>1. AckProgress(a) \/ AckDuplicate(a) \/ AckStale(a)
    BY <1>12 DEF AckArrives, AckOutbound
  <2>2. CASE AckProgress(a)
    <3>1. a \in Nat /\ sendBase' = a + 1 /\ sendBase < a + 1 /\ UNCHANGED <<txSeq, sent>>
      BY <1>1, <2>2 DEF AckProgress, AckAdvances, NewBase, TypeOK
    <3>2. QED
      BY <1>1, <3>1, WindowKept
  <2>3. CASE AckDuplicate(a) \/ AckStale(a)
    BY <1>1, <2>3, WindowKept DEF AckDuplicate, AckStale, window
  <2>4. QED
    BY <2>1, <2>2, <2>3
<1>13. ASSUME NEW f \in dataNet, NEW keep \in BOOLEAN, NEW hold \in BOOLEAN,
              DeviceRecv(f, keep, hold)
       PROVE  DataWithinWindow'
  BY <1>2, <1>13 DEF DeviceRecv
<1>14. CASE UNCHANGED vars
  BY <1>2, <1>14 DEF vars
<1>15. QED
  BY <1>3, <1>4, <1>5, <1>6, <1>7, <1>8, <1>9, <1>10, <1>11, <1>12, <1>13, <1>14
     DEF Next, Pump

(* No write floods the link: data frames keep within SendWindow of the     *)
(* oldest unacknowledged frame, for every window, frame size and timer.    *)
THEOREM DataKeepsWindow == Spec => []DataWithinWindow
<1>1. Init => DataWithinWindow
  BY DEF Init, DataWithinWindow, FirstSeq
<1>2. QED
  BY <1>1, InitInv, NextInv, WindowNext, PTL DEF Spec

-----------------------------------------------------------------------------
(* The bytes of the writes, from writeCh to the device.                    *)

(* The bytes framed, the bytes in pending and those still in writeCh are   *)
(* the bytes accepted, and pending holds data only.                        *)
FramedInOrder ==
  /\ pending \in Seq(Msg \X Nat)
  /\ (DataIn(sent, txSeq - FirstSeq) \o pending) \o Written(writeCh) = Written(accepted)

(* Cells of data are cells.                                                *)
LEMMA DataIsCells ==
  ASSUME NEW s \in Seq(Msg \X Nat)
  PROVE  s \in Seq(Cell)
<1>1. Msg \X Nat \subseteq Cell
  BY DEF Cell
<1>2. Len(s) \in Nat /\ s = [i \in 1..Len(s) |-> s[i]] /\ \A i \in 1..Len(s) : s[i] \in Cell
  BY <1>1
<1>3. QED
  BY <1>2

(* Concatenation of cells is associative.                                  *)
LEMMA CellCat ==
  /\ \A a, b \in Seq(Cell) : a \o b \in Seq(Cell)
  /\ \A a, b, c \in Seq(Cell) : a \o (b \o c) = (a \o b) \o c
<1>1. \A a, b \in Seq(Cell) : a \o b \in Seq(Cell)
  BY ConcatProperties
<1>2. \A a, b, c \in Seq(Cell) : a \o (b \o c) = (a \o b) \o c
  BY ConcatAssociative
<1>3. QED
  BY <1>1, <1>2

(* The bytes of a chunk are data.                                          *)
LEMMA ChunkIsData ==
  ASSUME NEW m \in Msg
  PROVE  Chunk(m) \in Seq(Msg \X Nat)
<1>1. ChunkLen[m] \in Nat
  BY ChunkAssumption
<1>2. \A k \in 1..ChunkLen[m] : <<m, k>> \in Msg \X Nat
  BY <1>1
<1>3. QED
  BY <1>1, <1>2 DEF Chunk

(* The bytes of a list of writes are their chunks one after the other.     *)
LEMMA WrittenOf ==
  /\ Written(<<>>) = <<>>
  /\ \A m \in Msg : Written(<<m>>) = Chunk(m)
  /\ \A a \in Seq(Msg) : Written(a) \in Seq(Cell)
  /\ \A a, b \in Seq(Msg) : Written(a \o b) = Written(a) \o Written(b)
<1>1. PICK g : g = [m \in Msg |-> Chunk(m)]
  OBVIOUS
<1>2. g \in [Msg -> Seq(Cell)] /\ \A m \in Msg : g[m] = Chunk(m)
  BY <1>1, ChunkIsPayload
<1>3. ASSUME NEW a \in Seq(Msg)
      PROVE  Written(a) = FlatMap(g, a)
  <2>1. \A i \in DOMAIN a : g[a[i]] = Chunk(a[i])
    <3>1. \A i \in DOMAIN a : a[i] \in Msg
      OBVIOUS
    <3>2. QED
      BY <1>2, <3>1, Zenon
  <2>2. [i \in DOMAIN a |-> g[a[i]]] = [i \in DOMAIN a |-> Chunk(a[i])]
    BY <2>1
  <2>3. QED
    BY <2>2 DEF Written, FlatMap
<1>4. /\ FlatMap(g, <<>>) = <<>>
      /\ \A m \in Msg : FlatMap(g, <<m>>) = g[m]
      /\ \A a \in Seq(Msg) : FlatMap(g, a) \in Seq(Cell)
      /\ \A a, b \in Seq(Msg) : FlatMap(g, a \o b) = FlatMap(g, a) \o FlatMap(g, b)
  BY <1>2, FlatMapOf
<1>5. <<>> \in Seq(Msg) /\ (\A m \in Msg : <<m>> \in Seq(Msg))
      /\ \A a, b \in Seq(Msg) : a \o b \in Seq(Msg)
  OBVIOUS
<1>6. QED
  BY <1>2, <1>3, <1>4, <1>5

(* What a frame adds to the data, if anything, is made of cells.           *)
LEMMA DataOfCells == \A p \in Payload : DataOf(p) \in Seq(Cell)
<1>1. <<>> \in Seq(Cell)
  OBVIOUS
<1>2. QED
  BY <1>1 DEF DataOf, Payload

(* f holds a payload under each of the first n numbers after setup's.      *)
Holds(f, n) == \A i \in 1..n : f[SetupSeq + i] \in Payload

(* The frames behind DataIn are a sequence of sequences of cells.          *)
LEMMA DataFrames ==
  ASSUME NEW f, NEW n \in Nat, Holds(f, n), NEW s, s = [i \in 1..n |-> DataOf(f[SetupSeq + i])]
  PROVE  /\ s \in Seq(Seq(Cell)) /\ Len(s) = n /\ \A i \in 1..n : s[i] = DataOf(f[SetupSeq + i])
         /\ DataIn(f, n) = FlattenSeq(s) /\ DataIn(f, n) \in Seq(Cell)
<1>1. \A i \in 1..n : DataOf(f[SetupSeq + i]) \in Seq(Cell)
  BY DataOfCells DEF Holds
<1>2. \A i \in 1..n : s[i] = DataOf(f[SetupSeq + i])
  OBVIOUS
<1>3. PICK U : U = Seq(Cell)
  OBVIOUS
<1>4. s \in [1..n -> U]
  BY <1>1, <1>3
<1>5. s \in Seq(U) /\ Len(s) = n
  BY <1>4
<1>6. DataIn(f, n) = FlattenSeq(s)
  BY DEF DataIn
<1>7. s \in Seq(Seq(Cell))
  BY <1>3, <1>5
<1>8. FlattenSeq(s) \in Seq(Cell)
  BY <1>7, FlattenCat
<1>9. QED
  BY <1>2, <1>5, <1>6, <1>7, <1>8

(* A further frame adds its data at the end.                               *)
LEMMA DataGrows ==
  ASSUME NEW f, NEW g, NEW n \in Nat, NEW p \in Payload, Holds(f, n),
         \A i \in 1..n : g[SetupSeq + i] = f[SetupSeq + i], g[SetupSeq + (n + 1)] = p
  PROVE  DataIn(g, n + 1) = DataIn(f, n) \o DataOf(p)
<1>1. PICK s : s = [i \in 1..n |-> DataOf(f[SetupSeq + i])]
  OBVIOUS
<1>2. PICK t : t = [i \in 1..(n + 1) |-> DataOf(g[SetupSeq + i])]
  OBVIOUS
<1>3. /\ s \in Seq(Seq(Cell)) /\ Len(s) = n /\ \A i \in 1..n : s[i] = DataOf(f[SetupSeq + i])
      /\ DataIn(f, n) = FlattenSeq(s)
  BY <1>1, DataFrames
<1>4. \A i \in 1..(n + 1) : i \in 1..n \/ i = n + 1
  OBVIOUS
<1>5. Holds(g, n + 1) /\ n + 1 \in Nat
  BY <1>4 DEF Holds
<1>6. /\ t \in Seq(Seq(Cell)) /\ Len(t) = n + 1 /\ \A i \in 1..(n + 1) : t[i] = DataOf(g[SetupSeq + i])
      /\ DataIn(g, n + 1) = FlattenSeq(t)
  BY <1>2, <1>5, DataFrames
<1>7. PICK x \in Seq(Cell) : x = DataOf(p)
  BY DataOfCells
<1>8. t = Append(s, x)
  <2>1. PICK u : u = Append(s, x)
    OBVIOUS
  <2>2. u \in Seq(Seq(Cell)) /\ Len(u) = n + 1 /\ u[n + 1] = x /\ \A i \in 1..n : u[i] = s[i]
    BY <1>3, <2>1, AppendProperties
  <2>3. ASSUME NEW i \in 1..(n + 1)
        PROVE  t[i] = u[i]
    <3>1. CASE i = n + 1
      BY <1>6, <1>7, <2>2, <3>1
    <3>2. CASE i # n + 1
      <4>1. i \in 1..n /\ g[SetupSeq + i] = f[SetupSeq + i]
        BY <1>4, <3>2
      <4>2. t[i] = DataOf(f[SetupSeq + i])
        BY <1>6, <4>1
      <4>3. u[i] = DataOf(f[SetupSeq + i])
        BY <1>3, <2>2, <4>1
      <4>4. QED
        BY <4>2, <4>3
    <3>3. QED
      BY <3>1, <3>2
  <2>4. t = u
    BY <1>6, <2>2, <2>3, SeqEqual
  <2>5. QED
    BY <2>1, <2>4
<1>9. FlattenSeq(Append(s, x)) = FlattenSeq(s) \o x
  BY <1>3, FlattenAppend
<1>10. QED
  BY <1>3, <1>6, <1>7, <1>8, <1>9

(* What has been framed is made of payloads.                               *)
LEMMA SentHolds ==
  ASSUME StreamInv
  PROVE  /\ txSeq - FirstSeq \in Nat /\ Holds(sent, txSeq - FirstSeq)
         /\ DataIn(sent, txSeq - FirstSeq) \in Seq(Cell)
<1>1. txSeq \in Nat /\ txSeq >= FirstSeq /\ DOMAIN sent = SetupSeq..(txSeq - 1)
      /\ sent \in [DOMAIN sent -> Payload]
  BY DEF StreamInv, TypeOK, CountersOrdered, WireIntact, FirstSeq
<1>2. PICK n \in Nat : n = txSeq - FirstSeq
  BY <1>1 DEF FirstSeq
<1>3. Holds(sent, n)
  <2>1. \A i \in 1..n : SetupSeq + i \in DOMAIN sent
    BY <1>1, <1>2 DEF FirstSeq, SetupSeq
  <2>2. QED
    BY <1>1, <2>1 DEF Holds
<1>4. DataIn(sent, n) \in Seq(Cell)
  BY <1>3, DataFrames
<1>5. QED
  BY <1>2, <1>3, <1>4

(* sendReliable adds the data of its frame at the end of the data framed.  *)
LEMMA SendAddsData ==
  ASSUME StreamInv, NEW p \in Payload, SendReliable(p)
  PROVE  DataIn(sent', txSeq' - FirstSeq) = DataIn(sent, txSeq - FirstSeq) \o DataOf(p)
<1>1. /\ txSeq' = txSeq + 1
      /\ sent' = [s \in DOMAIN sent \cup {txSeq} |-> IF s = txSeq THEN p ELSE sent[s]]
  BY DEF SendReliable
<1>2. txSeq \in Nat /\ txSeq >= FirstSeq /\ DOMAIN sent = SetupSeq..(txSeq - 1)
  BY DEF StreamInv, TypeOK, CountersOrdered, WireIntact, FirstSeq
<1>3. PICK n \in Nat : n = txSeq - FirstSeq
  BY SentHolds
<1>4. Holds(sent, n)
  BY <1>3, SentHolds
<1>5. \A i \in 1..n : SetupSeq + i \in DOMAIN sent /\ SetupSeq + i # txSeq
  BY <1>2, <1>3 DEF FirstSeq, SetupSeq
<1>6. SetupSeq + (n + 1) = txSeq /\ txSeq' - FirstSeq = n + 1
  BY <1>1, <1>2, <1>3 DEF FirstSeq, SetupSeq
<1>7. PICK g : g = sent'
  OBVIOUS
<1>8. (\A i \in 1..n : g[SetupSeq + i] = sent[SetupSeq + i]) /\ g[SetupSeq + (n + 1)] = p
  BY <1>1, <1>5, <1>6, <1>7
<1>9. DataIn(g, n + 1) = DataIn(sent, n) \o DataOf(p)
  BY <1>4, <1>8, DataGrows
<1>10. QED
  BY <1>3, <1>6, <1>7, <1>9

(* Steps that neither frame nor queue data.                                *)
LEMMA FramedKept ==
  ASSUME FramedInOrder, UNCHANGED <<sent, txSeq, pending, writeCh, accepted>>
  PROVE  FramedInOrder'
BY DEF FramedInOrder

(* A control frame adds no data.                                           *)
LEMMA ControlKeepsOrder ==
  ASSUME StreamInv, FramedInOrder, NEW c \in Ctrl \cup OpenSteps, SendReliable(Single(c)),
         UNCHANGED <<pending, writeCh, accepted>>
  PROVE  FramedInOrder'
<1>1. PICK p \in Payload : p = Single(c) /\ ~IsData(p)
  BY SingleIsControl
<1>2. DataIn(sent', txSeq' - FirstSeq) = DataIn(sent, txSeq - FirstSeq) \o DataOf(p)
  BY <1>1, SendAddsData
<1>3. PICK d \in Seq(Cell) : d = DataIn(sent, txSeq - FirstSeq)
  BY SentHolds
<1>4. d \o <<>> = d /\ DataOf(p) = <<>>
  BY <1>1 DEF DataOf
<1>5. DataIn(sent', txSeq' - FirstSeq) = DataIn(sent, txSeq - FirstSeq)
  BY <1>2, <1>3, <1>4
<1>6. QED
  BY <1>5 DEF FramedInOrder

(* Write adds a chunk at the end of writeCh and of what is accepted.       *)
LEMMA WriteKeepsOrder ==
  ASSUME StreamInv, FramedInOrder, NEW m \in Msg, Write(m)
  PROVE  FramedInOrder'
<1>1. /\ writeCh' = Append(writeCh, m) /\ accepted' = Append(accepted, m)
      /\ UNCHANGED <<sent, txSeq, pending>>
  BY DEF Write, window
<1>2. writeCh \in Seq(Msg) /\ accepted \in Seq(Msg) /\ <<m>> \in Seq(Msg)
  BY DEF StreamInv, TypeOK
<1>3. writeCh' = writeCh \o <<m>> /\ accepted' = accepted \o <<m>>
  BY <1>1, <1>2, AppendIsConcat
<1>4. /\ Written(writeCh') = Written(writeCh) \o Chunk(m)
      /\ Written(accepted') = Written(accepted) \o Chunk(m)
  BY <1>2, <1>3, WrittenOf
<1>5. PICK d \in Seq(Cell) : d = DataIn(sent, txSeq - FirstSeq)
  BY SentHolds
<1>6. PICK q \in Seq(Cell) : q = pending
  BY DataIsCells DEF FramedInOrder
<1>7. PICK w \in Seq(Cell) : w = Written(writeCh)
  BY <1>2, WrittenOf
<1>8. PICK x \in Seq(Cell) : x = Chunk(m)
  BY ChunkIsPayload
<1>9. (d \o q) \o (w \o x) = ((d \o q) \o w) \o x
  <2>1. PICK y \in Seq(Cell) : y = d \o q
    BY CellCat
  <2>2. y \o (w \o x) = (y \o w) \o x
    BY CellCat, Zenon
  <2>3. QED
    BY <2>1, <2>2, Zenon
<1>10. (d \o q) \o w = Written(accepted)
  BY <1>5, <1>6, <1>7 DEF FramedInOrder
<1>11. (d \o q) \o Written(writeCh') = Written(accepted')
  BY <1>4, <1>7, <1>8, <1>9, <1>10
<1>12. QED
  BY <1>1, <1>5, <1>6, <1>11 DEF FramedInOrder

(* The fill loop moves the first chunk of writeCh to the end of pending.   *)
LEMMA FillKeepsOrder ==
  ASSUME StreamInv, FramedInOrder, PumpFill
  PROVE  FramedInOrder'
<1>1. CASE writeCh' = writeCh /\ pending' = pending
  BY <1>1, FramedKept DEF PumpFill, window
<1>2. CASE /\ writeCh # <<>> /\ pending' = pending \o Chunk(Head(writeCh))
           /\ writeCh' = Tail(writeCh)
  <2>1. UNCHANGED <<sent, txSeq, accepted>>
    BY DEF PumpFill, window
  <2>2. writeCh \in Seq(Msg) /\ Head(writeCh) \in Msg /\ Tail(writeCh) \in Seq(Msg)
    BY <1>2, HeadTailProperties DEF StreamInv, TypeOK
  <2>3. PICK m \in Msg, u \in Seq(Msg) : m = Head(writeCh) /\ u = Tail(writeCh)
    BY <2>2
  <2>4. writeCh = <<m>> \o u /\ <<m>> \in Seq(Msg)
    BY <1>2, <2>2, <2>3
  <2>5. Written(writeCh) = Chunk(m) \o Written(u)
    BY <2>4, WrittenOf
  <2>6. PICK d \in Seq(Cell) : d = DataIn(sent, txSeq - FirstSeq)
    BY SentHolds
  <2>7. PICK q \in Seq(Cell) : q = pending
    BY DataIsCells DEF FramedInOrder
  <2>8. PICK w \in Seq(Cell) : w = Written(u)
    BY WrittenOf
  <2>9. PICK x \in Seq(Cell) : x = Chunk(m)
    BY ChunkIsPayload
  <2>10. (d \o (q \o x)) \o w = (d \o q) \o (x \o w)
    <3>1. PICK y \in Seq(Cell) : y = d \o q
      BY CellCat
    <3>2. y \o (x \o w) = (y \o x) \o w
      BY CellCat, Zenon
    <3>3. d \o (q \o x) = (d \o q) \o x
      BY CellCat, Zenon
    <3>4. QED
      BY <3>1, <3>2, <3>3, Zenon
  <2>11. (d \o q) \o (x \o w) = Written(accepted)
    BY <2>5, <2>6, <2>7, <2>8, <2>9 DEF FramedInOrder
  <2>12. (d \o (q \o x)) \o w = Written(accepted)
    BY <2>10, <2>11
  <2>13. pending' = q \o x /\ writeCh' = u
    BY <1>2, <2>3, <2>7, <2>9
  <2>14. pending' \in Seq(Msg \X Nat)
    <3>1. pending \in Seq(Msg \X Nat) /\ x \in Seq(Msg \X Nat)
      BY <2>9, ChunkIsData DEF FramedInOrder
    <3>2. pending \o x \in Seq(Msg \X Nat)
      BY <3>1, ConcatProperties
    <3>3. QED
      BY <3>2, <2>7, <2>13
  <2>15. (DataIn(sent', txSeq' - FirstSeq) \o pending') \o Written(writeCh') = Written(accepted')
    BY <2>1, <2>6, <2>8, <2>12, <2>13
  <2>16. QED
    BY <2>14, <2>15 DEF FramedInOrder
<1>3. QED
  BY <1>1, <1>2 DEF PumpFill

(* The framing loop moves the first bytes of pending into a data frame.    *)
LEMMA FrameKeepsOrder ==
  ASSUME StreamInv, FramedInOrder, PumpFrame
  PROVE  FramedInOrder'
<1>1. CASE ~MayFrame
  BY <1>1, FramedKept DEF PumpFrame, window, queues
<1>2. CASE MayFrame
  <2>1. /\ SendReliable(SubSeq(pending, 1, FrameSize)) /\ pending' = Unframed
        /\ UNCHANGED <<writeCh, accepted>>
    BY <1>2 DEF PumpFrame, queues
  <2>2. pending \in Seq(Msg \X Nat) /\ pending # <<>>
    BY <1>2 DEF FramedInOrder, MayFrame
  <2>3. FrameSize \in 1..Len(pending)
    BY <2>2, FrameAssumption DEF FrameSize
  <2>4. PICK k \in 1..Len(pending) : k = FrameSize
    BY <2>3
  <2>5. PICK p : p = SubSeq(pending, 1, k)
    OBVIOUS
  <2>6. PICK q : q = SubSeq(pending, k + 1, Len(pending))
    OBVIOUS
  <2>7. p \in Seq(Msg \X Nat) /\ p[1] = pending[1]
    <3>1. k \in 0..Len(pending) /\ 1 \in 1..k
      BY <2>4
    <3>2. QED
      BY <2>2, <2>5, <3>1, PrefixOf
  <2>8. q \in Seq(Msg \X Nat)
    <3>1. \A i \in (k + 1)..Len(pending) : pending[i] \in Msg \X Nat
      BY <2>2, <2>4
    <3>2. k + 1 \in Int /\ Len(pending) \in Int
      BY <2>2, <2>4
    <3>3. QED
      BY <2>6, <3>1, <3>2, SubSeqProperties
  <2>9. p \o q = pending
    <3>1. 1 \in 1..(Len(pending) + 1) /\ k \in (1 - 1)..Len(pending) /\ Len(pending) \in k..Len(pending)
      BY <2>2, <2>4
    <3>2. SubSeq(pending, 1, k) \o SubSeq(pending, k + 1, Len(pending)) = SubSeq(pending, 1, Len(pending))
      BY <2>2, <3>1, ConcatAdjacentSubSeq
    <3>3. QED
      BY <2>2, <2>5, <2>6, <3>2, SubSeqFull
  <2>10. IsData(p)
    <3>1. pending[1] \in Msg \X Nat
      BY <2>2
    <3>2. p[1][1] \in Msg
      BY <2>7, <3>1
    <3>3. QED
      BY <3>2 DEF IsData
  <2>11. p \in Seq(Cell) /\ q \in Seq(Cell) /\ p \in Payload
    BY <2>7, <2>8, DataIsCells DEF Payload
  <2>12. DataIn(sent', txSeq' - FirstSeq) = DataIn(sent, txSeq - FirstSeq) \o p
    <3>1. SendReliable(p)
      BY <2>1, <2>4, <2>5
    <3>2. DataOf(p) = p
      BY <2>10 DEF DataOf
    <3>3. QED
      BY <2>11, <3>1, <3>2, SendAddsData
  <2>13. PICK d \in Seq(Cell) : d = DataIn(sent, txSeq - FirstSeq)
    BY SentHolds
  <2>14. (d \o p) \o q = d \o pending
    BY <2>9, <2>11, CellCat, Zenon
  <2>15. pending' = q
    BY <2>1, <2>4, <2>6 DEF Unframed
  <2>16. (DataIn(sent', txSeq' - FirstSeq) \o pending') \o Written(writeCh') = Written(accepted')
    <3>1. (d \o pending) \o Written(writeCh) = Written(accepted)
      BY <2>13 DEF FramedInOrder
    <3>2. DataIn(sent', txSeq' - FirstSeq) \o pending' = d \o pending
      BY <2>12, <2>13, <2>14, <2>15
    <3>3. QED
      BY <2>1, <3>1, <3>2
  <2>17. QED
    BY <2>8, <2>15, <2>16 DEF FramedInOrder
<1>3. QED
  BY <1>1, <1>2

(* Every step keeps the bytes of the writes in order.                      *)
LEMMA FramedNext == StreamInv /\ FramedInOrder /\ [Next]_vars => FramedInOrder'
<1> SUFFICES ASSUME StreamInv, FramedInOrder, [Next]_vars PROVE FramedInOrder'
  OBVIOUS
<1>1. ASSUME UNCHANGED <<sent, txSeq, pending, writeCh, accepted>> PROVE FramedInOrder'
  BY <1>1, FramedKept
<1>2. ASSUME NEW m \in Msg, Write(m) PROVE FramedInOrder'
  BY <1>2, WriteKeepsOrder
<1>3. ASSUME NEW c \in Ctrl, SendTunnelCtrl(c) PROVE FramedInOrder'
  BY <1>1, <1>3 DEF SendTunnelCtrl, window
<1>4. CASE OpenChannel \/ OpenTimeout \/ Close \/ PumpClosed \/ PumpSilent
  BY <1>1, <1>4 DEF OpenChannel, OpenTimeout, Close, PumpClosed, PumpSilent, window, queues
<1>5. CASE PumpTop
  <2>1. "portConnect" \in Ctrl \cup OpenSteps
    BY DEF OpenSteps
  <2>2. QED
    BY <1>1, <1>5, <2>1, ControlKeepsOrder DEF PumpTop, window
<1>6. CASE PumpDrain
  <2>1. ctrlCh # <<>> => Head(ctrlCh) \in Ctrl \cup OpenSteps
    BY DEF StreamInv, TypeOK
  <2>2. QED
    BY <1>1, <1>6, <2>1, ControlKeepsOrder DEF PumpDrain, window
<1>7. CASE PumpFill
  BY <1>7, FillKeepsOrder
<1>8. CASE PumpFrame
  BY <1>8, FrameKeepsOrder
<1>9. CASE RecvDone \/ Elapse \/ PumpTick
  BY <1>1, <1>9 DEF RecvDone, Elapse, PumpTick, window, queues
<1>10. CASE PumpRoute
  <2>1. "connectAddr" \in Ctrl \cup OpenSteps
    BY DEF OpenSteps
  <2>2. QED
    BY <1>1, <1>10, <2>1, ControlKeepsOrder DEF PumpRoute, window
<1>11. ASSUME NEW a \in ackNet, NEW keep \in BOOLEAN, AckArrives(a, keep)
       PROVE  FramedInOrder'
  <2>1. UNCHANGED <<queues, pending>> /\ (AckProgress(a) \/ AckDuplicate(a) \/ AckStale(a))
    BY <1>11 DEF AckArrives, AckOutbound
  <2>2. UNCHANGED <<sent, txSeq>>
    BY <2>1 DEF AckProgress, AckDuplicate, AckStale, window
  <2>3. QED
    BY <1>1, <2>1, <2>2 DEF queues
<1>12. ASSUME NEW f \in dataNet, NEW keep \in BOOLEAN, NEW hold \in BOOLEAN,
              DeviceRecv(f, keep, hold)
       PROVE  FramedInOrder'
  BY <1>1, <1>12 DEF DeviceRecv, window, queues
<1>13. CASE UNCHANGED vars
  BY <1>1, <1>13 DEF vars, window, queues
<1>14. QED
  BY <1>2, <1>3, <1>4, <1>5, <1>6, <1>7, <1>8, <1>9, <1>10, <1>11, <1>12, <1>13 DEF Next, Pump

(* Before the first write there is nothing to keep in order.               *)
LEMMA FramedInit == Init => FramedInOrder
<1> SUFFICES ASSUME Init PROVE FramedInOrder
  OBVIOUS
<1>1. pending = <<>> /\ writeCh = <<>> /\ accepted = <<>> /\ txSeq = FirstSeq
  BY DEF Init
<1>2. DataIn(sent, txSeq - FirstSeq) = <<>>
  <2>1. txSeq - FirstSeq = 0
    BY <1>1 DEF FirstSeq
  <2>2. [i \in 1..0 |-> DataOf(sent[SetupSeq + i])] = <<>>
    OBVIOUS
  <2>3. QED
    BY <2>1, <2>2, FlattenEmpty DEF DataIn
<1>3. pending \in Seq(Msg \X Nat)
  BY <1>1
<1>4. (<<>> \o <<>>) \o <<>> = <<>>
  OBVIOUS
<1>5. (DataIn(sent, txSeq - FirstSeq) \o pending) \o Written(writeCh) = Written(accepted)
  BY <1>1, <1>2, <1>4, WrittenOf
<1>6. QED
  BY <1>3, <1>5 DEF FramedInOrder

(* What the device has read in order is a first part of what was framed.   *)
LEMMA ReadWasFramed ==
  ASSUME StreamInv
  PROVE  /\ DataIn(got, rcvNext - FirstSeq) \in Seq(Cell)
         /\ \E r \in Seq(Cell) :
              DataIn(sent, txSeq - FirstSeq) = DataIn(got, rcvNext - FirstSeq) \o r
<1>1. PICK n \in Nat : n = txSeq - FirstSeq
  BY SentHolds
<1>2. Holds(sent, n)
  BY <1>1, SentHolds
<1>3. PICK k \in Nat : k = (IF rcvNext < FirstSeq THEN 0 ELSE rcvNext - FirstSeq)
  BY DEF StreamInv, TypeOK, FirstSeq
<1>4. DataIn(got, rcvNext - FirstSeq) = DataIn(got, k)
  <2>1. 1..(rcvNext - FirstSeq) = 1..k
    BY <1>3 DEF StreamInv, TypeOK, FirstSeq
  <2>2. QED
    BY <2>1 DEF DataIn
<1>5. k <= n /\ \A i \in 1..k : i \in 1..n /\ SetupSeq + i \in SetupSeq..(rcvNext - 1)
  <2>1. rcvNext \in Nat /\ txSeq \in Nat /\ rcvNext <= txSeq
    BY DEF StreamInv, TypeOK, CountersOrdered
  <2>2. k <= n
    BY <1>1, <1>3, <2>1 DEF FirstSeq
  <2>3. ASSUME NEW i \in 1..k
        PROVE  i \in 1..n /\ SetupSeq + i \in SetupSeq..(rcvNext - 1)
    BY <1>3, <2>1, <2>2 DEF FirstSeq, SetupSeq
  <2>4. QED
    BY <2>2, <2>3
<1>6. \A i \in 1..k : got[SetupSeq + i] = sent[SetupSeq + i]
  BY <1>5 DEF StreamInv, DeviceContiguous, DeviceIntact
<1>7. Holds(got, k)
  BY <1>2, <1>5, <1>6 DEF Holds
<1>8. PICK s : s = [i \in 1..k |-> DataOf(got[SetupSeq + i])]
  OBVIOUS
<1>9. PICK t : t = [i \in 1..n |-> DataOf(sent[SetupSeq + i])]
  OBVIOUS
<1>10. /\ s \in Seq(Seq(Cell)) /\ Len(s) = k /\ \A i \in 1..k : s[i] = DataOf(got[SetupSeq + i])
       /\ DataIn(got, k) = FlattenSeq(s) /\ DataIn(got, k) \in Seq(Cell)
  BY <1>7, <1>8, DataFrames
<1>11. /\ t \in Seq(Seq(Cell)) /\ Len(t) = n /\ \A i \in 1..n : t[i] = DataOf(sent[SetupSeq + i])
       /\ DataIn(sent, n) = FlattenSeq(t)
  BY <1>2, <1>9, DataFrames
<1>12. Len(s) <= Len(t) /\ \A i \in 1..Len(s) : s[i] = t[i]
  BY <1>5, <1>6, <1>10, <1>11
<1>13. PICK r \in Seq(Cell) : FlattenSeq(t) = FlattenSeq(s) \o r
  BY <1>10, <1>11, <1>12, FlattenPrefix
<1>14. QED
  BY <1>1, <1>4, <1>10, <1>11, <1>13

(* For chunks of every length, every frame size and window, whatever is    *)
(* lost, doubled, reordered or retransmitted and whatever control frames   *)
(* go in between: the data bytes the device reads are the bytes of the     *)
(* writes Write accepted, in that order, none missing, doubled or torn.    *)
THEOREM DataInOrderAlways == Spec => []DataInOrder
<1>1. StreamInv /\ FramedInOrder => DataInOrder
  <2> SUFFICES ASSUME StreamInv, FramedInOrder PROVE DataInOrder
    OBVIOUS
  <2>1. PICK r \in Seq(Cell) :
          DataIn(sent, txSeq - FirstSeq) = DataIn(got, rcvNext - FirstSeq) \o r
    BY ReadWasFramed
  <2>2. PICK a \in Seq(Cell) : a = DataIn(got, rcvNext - FirstSeq)
    BY ReadWasFramed
  <2>3. PICK q \in Seq(Cell) : q = pending
    BY DataIsCells DEF FramedInOrder
  <2>4. PICK w \in Seq(Cell) : w = Written(writeCh)
    BY WrittenOf DEF StreamInv, TypeOK
  <2>5. ((a \o r) \o q) \o w = Written(accepted)
    BY <2>1, <2>2, <2>3, <2>4 DEF FramedInOrder
  <2>6. PICK x \in Seq(Cell) : x = r \o q
    BY CellCat
  <2>7. PICK y \in Seq(Cell) : y = x \o w
    BY CellCat
  <2>8. ((a \o r) \o q) \o w = a \o y
    <3>1. a \o (r \o q) = (a \o r) \o q
      BY CellCat, Zenon
    <3>2. a \o (x \o w) = (a \o x) \o w
      BY CellCat, Zenon
    <3>3. QED
      BY <2>6, <2>7, <3>1, <3>2, Zenon
  <2>9. IsPrefix(a, a \o y)
    BY CatHasPrefix
  <2>10. QED
    BY <2>2, <2>5, <2>8, <2>9 DEF DataInOrder
<1>2. QED
  BY <1>1, InitInv, NextInv, FramedInit, FramedNext, PTL DEF Spec

-----------------------------------------------------------------------------
(* The refinement: the abstract stream seen through Promise.               *)
Frames == [i \in 1..(txSeq - FirstSeq) |-> sent[i + SetupSeq]]
Delivered == IF rcvNext < FirstSeq THEN 0 ELSE rcvNext - FirstSeq
Freed == sendBase - FirstSeq
Broken == pc = "exited"

(* The abstract stream is as long as the numbers used since setup.         *)
LEMMA FramesLen == StreamInv => Len(Frames) = txSeq - FirstSeq
<1> SUFFICES ASSUME StreamInv PROVE Len(Frames) = txSeq - FirstSeq
  OBVIOUS
<1>1. txSeq - FirstSeq \in Nat
  BY DEF StreamInv, TypeOK, CountersOrdered, FirstSeq
<1>2. QED
  BY <1>1 DEF Frames

(* What the abstract steps are, in the concrete variables.                 *)
LEMMA AbstractStep ==
  Promise!Next <=>
    \/ /\ ~Broken
       /\ Len(Frames') = Len(Frames) + 1
       /\ \A i \in 1..Len(Frames) : Frames'[i] = Frames[i]
       /\ UNCHANGED <<Delivered, Freed, Broken>>
    \/ /\ Delivered' \in Delivered + 1 .. Len(Frames)
       /\ UNCHANGED <<Frames, Freed, Broken>>
    \/ /\ ~Broken
       /\ Freed' \in Freed + 1 .. Delivered
       /\ UNCHANGED <<Frames, Delivered, Broken>>
    \/ /\ Broken' = TRUE
       /\ UNCHANGED <<Frames, Delivered, Freed>>
BY DEF Promise!Next, Promise!Extend, Promise!Deliver, Promise!Free, Promise!Break,
       Frames, Delivered, Freed, Broken

(* sendReliable is the abstract Extend.                                    *)
LEMMA SendExtends ==
  ASSUME StreamInv, StreamInv', NEW p \in Payload, SendReliable(p), UNCHANGED device,
         pc # "exited", pc' # "exited"
  PROVE  Promise!Next
<1> USE DEF FirstSeq, SetupSeq
<1>1. /\ txSeq' = txSeq + 1 /\ UNCHANGED <<sendBase, rcvNext>>
      /\ sent' = [s \in DOMAIN sent \cup {txSeq} |-> IF s = txSeq THEN p ELSE sent[s]]
  BY DEF SendReliable, device
<1>2. txSeq \in Nat /\ txSeq - 3 \in Nat /\ txSeq' - 3 \in Nat /\ DOMAIN sent = 2..(txSeq - 1)
  <2>1. txSeq \in Nat /\ sendBase \in Nat
    BY DEF StreamInv, TypeOK
  <2>2. QED
    BY <1>1, <2>1 DEF StreamInv, CountersOrdered, WireIntact
<1>3. /\ Len(Frames) = txSeq - 3 /\ Len(Frames)' = txSeq' - 3
      /\ \A i \in 1..(txSeq - 3) : Frames'[i] = Frames[i]
  BY <1>1, <1>2 DEF Frames
<1>4. UNCHANGED <<Delivered, Freed, Broken>> /\ ~Broken
  BY <1>1 DEF Delivered, Freed, Broken
<1>5. QED
  BY <1>1, <1>2, <1>3, <1>4, AbstractStep DEF Frames

(* Steps that send, deliver and free nothing either stop the pump or are   *)
(* invisible.                                                              *)
LEMMA QuietStep ==
  ASSUME UNCHANGED <<txSeq, sent, sendBase, rcvNext>>, pc' = pc \/ pc' = "exited" \/ pc # "exited"
  PROVE  Promise!Next \/ UNCHANGED Promise!vars
<1>1. UNCHANGED <<Frames, Delivered, Freed>>
  BY DEF Frames, Delivered, Freed
<1>2. CASE pc' = "exited"
  BY <1>1, <1>2, AbstractStep DEF Broken
<1>3. CASE pc' # "exited"
  <2>1. UNCHANGED Broken
    BY <1>3 DEF Broken
  <2>2. QED
    BY <1>1, <2>1 DEF Promise!vars, Frames, Delivered, Freed, Broken
<1>4. QED
  BY <1>2, <1>3

(* An ACK is the abstract Free when it advances sendBase, and a stutter    *)
(* when it repeats or is stale.                                            *)
LEMMA AckFrees ==
  ASSUME StreamInv, NEW a \in ackNet, NEW keep \in BOOLEAN, AckArrives(a, keep)
  PROVE  Promise!Next \/ UNCHANGED Promise!vars
<1> USE DEF FirstSeq, SetupSeq
<1>1. /\ pc = "recv" /\ pc' = pc /\ UNCHANGED rcvNext
      /\ AckProgress(a) \/ AckDuplicate(a) \/ AckStale(a)
  BY DEF AckArrives, AckOutbound, device
<1>2. CASE AckProgress(a)
  <2>1. /\ a \in Nat /\ a < rcvNext /\ sendBase < a + 1 /\ sendBase' = a + 1
        /\ sendBase \in Nat /\ rcvNext \in Nat /\ 3 <= sendBase
        /\ UNCHANGED <<txSeq, sent>>
    BY <1>2 DEF StreamInv, TypeOK, CountersOrdered, AcksTrue, AckProgress, AckAdvances,
                NewBase
  <2>2. Freed' \in Freed + 1 .. Delivered
    BY <2>1 DEF Freed, Delivered
  <2>3. UNCHANGED <<Frames, Delivered, Broken>> /\ ~Broken
    BY <1>1, <2>1 DEF Frames, Delivered, Broken
  <2>4. QED
    BY <2>2, <2>3, AbstractStep
<1>3. CASE AckDuplicate(a) \/ AckStale(a)
  <2>1. UNCHANGED <<txSeq, sent, sendBase>>
    BY <1>3 DEF AckDuplicate, AckStale, window
  <2>2. QED
    BY <1>1, <2>1, QuietStep
<1>4. QED
  BY <1>1, <1>2, <1>3

(* Arithmetic of the refinement mapping: a device prefix that grows past   *)
(* setup's frames stays within what was sent.                              *)
LEMMA DeliveredGrows ==
  ASSUME NEW r \in Nat, NEW r2 \in Nat, NEW t \in Nat, r <= r2, r2 <= t,
         NEW d, NEW d2, d = (IF r < 3 THEN 0 ELSE r - 3),
         d2 = (IF r2 < 3 THEN 0 ELSE r2 - 3), d2 # d
  PROVE  d2 \in d + 1 .. t - 3
<1>1. CASE r < 3
  BY <1>1
<1>2. CASE r >= 3
  BY <1>2
<1>3. QED
  BY <1>1, <1>2

(* A frame at the device is the abstract Deliver when it extends the       *)
(* prefix, and a stutter otherwise.                                        *)
LEMMA RecvDelivers ==
  ASSUME StreamInv, NEW f \in dataNet, NEW keep \in BOOLEAN, NEW hold \in BOOLEAN,
         DeviceRecv(f, keep, hold)
  PROVE  Promise!Next \/ UNCHANGED Promise!vars
<1> USE DEF FirstSeq, SetupSeq
<1>1. /\ UNCHANGED <<txSeq, sendBase, sent, pc>> /\ rcvNext' \in rcvNext..txSeq
      /\ txSeq \in Nat /\ rcvNext \in Nat
  BY DEF DeviceRecv, window, StreamInv, TypeOK
<1>2. UNCHANGED <<Frames, Freed, Broken>>
  BY <1>1 DEF Frames, Freed, Broken
<1>3. CASE Delivered' = Delivered
  BY <1>2, <1>3 DEF Promise!vars, Frames, Delivered, Freed, Broken
<1>4. CASE Delivered' # Delivered
  <2>1. Delivered' \in Delivered + 1 .. (txSeq - 3)
    <3>1. rcvNext' \in Nat /\ rcvNext <= rcvNext' /\ rcvNext' <= txSeq
      BY <1>1
    <3>2. /\ Delivered' = IF rcvNext' < 3 THEN 0 ELSE rcvNext' - 3
          /\ Delivered = IF rcvNext < 3 THEN 0 ELSE rcvNext - 3
      BY DEF Delivered
    <3>3. QED
      BY <1>1, <1>4, <3>1, <3>2, DeliveredGrows
  <2>2. QED
    BY <1>2, <2>1, FramesLen, AbstractStep
<1>5. QED
  BY <1>3, <1>4

(* The go-back-N sender implements the reliable stream.                    *)
THEOREM Refinement == Spec => Refines
<1> USE DEF FirstSeq, SetupSeq
<1>1. Init => Promise!Init
  BY DEF Init, Promise!Init
<1>2. StreamInv /\ StreamInv' /\ [Next]_vars => [Promise!Next]_(Promise!vars)
  <2> SUFFICES ASSUME StreamInv, StreamInv', [Next]_vars
               PROVE  Promise!Next \/ UNCHANGED Promise!vars
    OBVIOUS
  <2>1. ASSUME NEW m \in Msg, Write(m) PROVE Promise!Next \/ UNCHANGED Promise!vars
    BY <2>1, QuietStep DEF Write, window, device
  <2>2. ASSUME NEW c \in Ctrl, SendTunnelCtrl(c)
        PROVE  Promise!Next \/ UNCHANGED Promise!vars
    BY <2>2, QuietStep DEF SendTunnelCtrl, window, device
  <2>3. CASE OpenChannel \/ OpenTimeout \/ Close
    BY <2>3, QuietStep DEF OpenChannel, OpenTimeout, Close, window, device
  <2>4. CASE PumpClosed \/ PumpSilent
    BY <2>4, QuietStep DEF PumpClosed, PumpSilent, Exit, window, device
  <2>5. CASE PumpTop
    <3>1. pc # "exited" /\ pc' # "exited" /\ UNCHANGED device
      BY <2>5 DEF PumpTop
    <3>2. Single("portConnect") \in Payload
      BY SingleIsPayload DEF OpenSteps
    <3>3. CASE open = "asked"
      BY <2>5, <3>1, <3>2, <3>3, SendExtends DEF PumpTop
    <3>4. CASE open # "asked"
      BY <2>5, <3>1, <3>4, QuietStep DEF PumpTop, window, device
    <3>5. QED
      BY <3>3, <3>4
  <2>6. CASE PumpDrain
    <3>1. pc # "exited" /\ pc' # "exited" /\ UNCHANGED device
      BY <2>6 DEF PumpDrain
    <3>2. ctrlCh # <<>> => Single(Head(ctrlCh)) \in Payload
      <4> ctrlCh \in Seq(Ctrl)
        BY DEF StreamInv, TypeOK
      <4>1. ctrlCh # <<>> => Head(ctrlCh) \in Ctrl
        OBVIOUS
      <4>2. QED
        BY <4>1, SingleIsPayload
    <3>3. CASE ctrlCh # <<>>
      BY <2>6, <3>1, <3>2, <3>3, SendExtends DEF PumpDrain
    <3>4. CASE ctrlCh = <<>>
      BY <2>6, <3>1, <3>4, QuietStep DEF PumpDrain, window, device
    <3>5. QED
      BY <3>3, <3>4
  <2>7. CASE PumpFill \/ RecvDone
    BY <2>7, QuietStep DEF PumpFill, RecvDone, window, device
  <2>8. CASE PumpFrame
    <3>1. pc # "exited" /\ pc' # "exited" /\ UNCHANGED device
      BY <2>8 DEF PumpFrame
    <3>2. SubSeq(pending, 1, FrameSize) \in Payload
      BY FramingSplits DEF StreamInv, TypeOK
    <3>3. CASE MayFrame
      BY <2>8, <3>1, <3>2, <3>3, SendExtends DEF PumpFrame
    <3>4. CASE ~MayFrame
      BY <2>8, <3>1, <3>4, QuietStep DEF PumpFrame, window, device
    <3>5. QED
      BY <3>3, <3>4
  <2>9. CASE PumpTick
    BY <2>9, QuietStep DEF PumpTick, Exit, device
  <2>10. CASE PumpRoute
    <3>1. pc # "exited" /\ pc' # "exited" /\ UNCHANGED device
      BY <2>10 DEF PumpRoute
    <3>2. Single("connectAddr") \in Payload
      BY SingleIsPayload DEF OpenSteps
    <3>3. CASE SendReliable(Single("connectAddr"))
      BY <3>1, <3>2, <3>3, SendExtends
    <3>4. CASE UNCHANGED window
      BY <3>1, <3>4, QuietStep DEF window, device
    <3>5. QED
      BY <2>10, <3>3, <3>4 DEF PumpRoute
  <2>11. ASSUME NEW a \in ackNet, NEW keep \in BOOLEAN, AckArrives(a, keep)
         PROVE  Promise!Next \/ UNCHANGED Promise!vars
    BY <2>11, AckFrees
  <2>12. CASE Elapse
    BY <2>12, QuietStep DEF Elapse, window, device
  <2>13. ASSUME NEW f \in dataNet, NEW keep \in BOOLEAN, NEW hold \in BOOLEAN,
                DeviceRecv(f, keep, hold)
         PROVE  Promise!Next \/ UNCHANGED Promise!vars
    BY <2>13, RecvDelivers
  <2>14. CASE UNCHANGED vars
    BY <2>14, QuietStep DEF vars, window, device
  <2>15. QED
    BY <2>1, <2>2, <2>3, <2>4, <2>5, <2>6, <2>7, <2>8, <2>9, <2>10, <2>11, <2>12,
       <2>13, <2>14 DEF Next, Pump
<1>3. QED
  BY <1>1, <1>2, InitInv, NextInv, PTL DEF Spec, Refines, Promise!Spec

=============================================================================
