--------------------------- MODULE InboundProofs ---------------------------
(***************************************************************************)
(* Proofs about the way in.  Inbound, for every length of stream, every    *)
(* window and link capacity and every setting of the timers: the frames    *)
(* are handed on in order and once.  StreamPath, for every size of a byte, *)
(* every limit of the formats, every set of messages and every cut of the  *)
(* stream: from the frames to the caller of Read nothing is lost or mixed. *)
(***************************************************************************)
EXTENDS Inbound, StreamPath, SeqLemmas

-----------------------------------------------------------------------------
(* The runs of RunEnd.                                                     *)

(* A run of stored frames has an end, at or before the last frame.         *)
LEMMA RunEndOf ==
  ASSUME NEW S \in SUBSET Seqs, NEW b \in Seqs
  PROVE  /\ RunEnd(S, b) \in b..LastFrame
         /\ RunEnd(S, b) + 1 \notin S
         /\ \A k \in (b + 1)..RunEnd(S, b) : k \in S
<1> USE SizeAssumption DEF Seqs
<1> DEFINE T == {k \in Nat : k >= b /\ k + 1 \notin S}
           IsEnd(c) == c + 1 \notin S /\ \A k \in (b + 1)..c : k \in S
<1>1. LastFrame \in T
  OBVIOUS
<1>2. PICK m \in T : \A k \in T : m <= k
  BY <1>1, NatLeast
<1>3. m \in b..LastFrame
  BY <1>1, <1>2
<1>4. ASSUME NEW k \in (b + 1)..m
      PROVE  k \in S
  <2>1. k - 1 \in Nat /\ k - 1 >= b /\ k - 1 < m /\ k - 1 + 1 = k
    BY <1>3, <1>4
  <2>2. QED
    BY <1>2, <2>1
<1>5. m \in b..(LastFrame + 1) /\ IsEnd(m)
  BY <1>2, <1>3, <1>4
<1>6. RunEnd(S, b) \in b..(LastFrame + 1) /\ IsEnd(RunEnd(S, b))
  <2>1. RunEnd(S, b) = CHOOSE c \in b..(LastFrame + 1) : IsEnd(c)
    BY DEF RunEnd
  <2> HIDE DEF IsEnd
  <2>2. QED
    BY <1>5, <2>1
<1>7. RunEnd(S, b) # LastFrame + 1
  <2> SUFFICES ASSUME RunEnd(S, b) = LastFrame + 1
               PROVE  FALSE
    OBVIOUS
  <2>1. LastFrame + 1 \in (b + 1)..(LastFrame + 1)
    OBVIOUS
  <2>2. QED
    BY <1>6, <2>1
<1>8. QED
  BY <1>6, <1>7

-----------------------------------------------------------------------------
(* The inductive invariant.                                                *)

(* The numbers from b up to c, in order.                                   *)
Upto(b, c) == [i \in 1..(c - b + 1) |-> b + i - 1]

(* Until the pump starts, nothing is consumed or acknowledged, the lowest  *)
(* frame is held and the device is in its first window.                    *)
FreshInv ==
  /\ consumed = NoSeq /\ handed = <<>> /\ pumpNext = 0 /\ ackNet = {} /\ devBase <= FirstData
  /\ base = NoSeq => frames = {}
  /\ base # NoSeq => base \in frames /\ \A s \in frames : base <= s
  /\ devNext <= FirstData + DevWindow
  /\ \A s \in frames \cup dataNet : s < FirstData + DevWindow

(* From then on base is fixed and the frames from it to the watermark have *)
(* been handed on, each once and in order; nothing beyond the watermark    *)
(* was acknowledged and nothing below it is held.                          *)
StartedInv ==
  /\ base # NoSeq /\ base < FirstData + DevWindow
  /\ base <= consumed /\ consumed = pumpNext - 1
  /\ handed = Upto(base, consumed)
  /\ \A s \in frames : s >= pumpNext
  /\ \A a \in ackNet : a <= consumed
  /\ devBase <= FirstData \/ devBase <= pumpNext

StreamInv == IF pumpStarted THEN StartedInv ELSE FreshInv

Inv == TypeOK /\ StreamInv
-----------------------------------------------------------------------------
(* Facts about the operators.                                              *)

LEMMA CarriedOf == \A net, d : Carried(net, d) \subseteq net \cup {d}
BY DEF Carried

LEMMA UptoEmpty == \A b \in Int : Upto(b, b - 1) = <<>>
<1> SUFFICES ASSUME NEW b \in Int
             PROVE  Upto(b, b - 1) = <<>>
  OBVIOUS
<1>1. b - 1 - b + 1 = 0 /\ 1..0 = {}
  OBVIOUS
<1>2. QED
  BY <1>1 DEF Upto

LEMMA UptoSeq ==
  ASSUME NEW b \in Seqs, NEW c \in (b - 1)..LastFrame
  PROVE  /\ Upto(b, c) \in Seq(Seqs) /\ Len(Upto(b, c)) = c - b + 1
         /\ \A i \in 1..(c - b + 1) : Upto(b, c)[i] = b + i - 1
<1> USE SizeAssumption DEF Seqs
<1>1. c - b + 1 \in Nat
  OBVIOUS
<1>2. \A i \in 1..(c - b + 1) : b + i - 1 \in Seqs
  OBVIOUS
<1>3. QED
  BY <1>1, <1>2 DEF Upto

LEMMA UptoConcat ==
  ASSUME NEW b \in Seqs, NEW c \in (b - 1)..LastFrame, NEW d \in c..LastFrame
  PROVE  Upto(b, c) \o Upto(c + 1, d) = Upto(b, d)
<1> USE SizeAssumption DEF Seqs
<1>1. CASE d = c
  <2>1. Upto(c + 1, d) = <<>>
    BY <1>1, UptoEmpty
  <2>2. Upto(b, c) \o <<>> = Upto(b, c)
    BY UptoSeq, ConcatEmptySeq
  <2>3. QED
    BY <1>1, <2>1, <2>2
<1>2. CASE d > c
  <2>1. c + 1 \in Seqs /\ d \in (c + 1 - 1)..LastFrame
    BY <1>2
  <2> DEFINE p == Upto(b, c)
             q == Upto(c + 1, d)
             r == Upto(b, d)
  <2>2. /\ p \in Seq(Seqs) /\ Len(p) = c - b + 1 /\ \A i \in 1..(c - b + 1) : p[i] = b + i - 1
        /\ q \in Seq(Seqs) /\ Len(q) = d - c /\ \A i \in 1..(d - c) : q[i] = c + i
        /\ r \in Seq(Seqs) /\ Len(r) = d - b + 1 /\ \A i \in 1..(d - b + 1) : r[i] = b + i - 1
    <3>1. p \in Seq(Seqs) /\ Len(p) = c - b + 1 /\ \A i \in 1..(c - b + 1) : p[i] = b + i - 1
      BY UptoSeq
    <3>2. /\ q \in Seq(Seqs) /\ Len(q) = d - (c + 1) + 1
          /\ \A i \in 1..(d - (c + 1) + 1) : q[i] = c + 1 + i - 1
      <4>1. PICK e \in Seqs : e = c + 1
        BY <2>1
      <4>2. d \in (e - 1)..LastFrame
        BY <2>1, <4>1
      <4>3. /\ Upto(e, d) \in Seq(Seqs) /\ Len(Upto(e, d)) = d - e + 1
            /\ \A i \in 1..(d - e + 1) : Upto(e, d)[i] = e + i - 1
        BY <4>2, UptoSeq
      <4>4. QED
        BY <4>1, <4>3, Zenon
    <3>3. r \in Seq(Seqs) /\ Len(r) = d - b + 1 /\ \A i \in 1..(d - b + 1) : r[i] = b + i - 1
      <4>1. d \in (b - 1)..LastFrame
        OBVIOUS
      <4>2. QED
        BY <4>1, UptoSeq
    <3>4. d - (c + 1) + 1 = d - c /\ \A i \in 1..(d - c) : c + 1 + i - 1 = c + i
      OBVIOUS
    <3>5. QED
      BY <3>1, <3>2, <3>3, <3>4
  <2> HIDE DEF p, q, r
  <2>3. /\ p \o q \in Seq(Seqs) /\ Len(p \o q) = Len(p) + Len(q)
        /\ \A i \in 1..(Len(p) + Len(q)) :
             (p \o q)[i] = IF i <= Len(p) THEN p[i] ELSE q[i - Len(p)]
    BY <2>2, ConcatProperties
  <2>4. Len(p) + Len(q) = d - b + 1
    BY <2>2
  <2>5. ASSUME NEW i \in 1..(d - b + 1)
        PROVE  (p \o q)[i] = b + i - 1
    <3>0. (p \o q)[i] = IF i <= c - b + 1 THEN p[i] ELSE q[i - (c - b + 1)]
      <4>1. i \in 1..(Len(p) + Len(q))
        BY <2>4
      <4>2. (p \o q)[i] = IF i <= Len(p) THEN p[i] ELSE q[i - Len(p)]
        BY <2>3, <4>1
      <4>3. Len(p) = c - b + 1
        BY <2>2
      <4>4. QED
        BY <4>2, <4>3, Zenon
    <3>1. CASE i <= c - b + 1
      <4>1. i \in 1..(c - b + 1)
        BY <3>1
      <4>2. QED
        BY <2>2, <3>0, <3>1, <4>1
    <3>2. CASE ~(i <= c - b + 1)
      <4>1. i - (c - b + 1) \in 1..(d - c) /\ c + (i - (c - b + 1)) = b + i - 1
        BY <3>2
      <4>2. q[i - (c - b + 1)] = b + i - 1
        BY <2>2, <4>1
      <4>3. QED
        BY <3>0, <3>2, <4>2
    <3>3. QED
      BY <3>1, <3>2, Zenon
  <2>6. p \o q = r
    <3>1. Len(p \o q) = Len(r) /\ Len(r) = d - b + 1
      BY <2>2, <2>3, <2>4
    <3>2. \A i \in 1..Len(p \o q) : (p \o q)[i] = r[i]
      BY <2>2, <2>5, <3>1
    <3>3. QED
      BY <2>2, <2>3, <3>1, <3>2, SeqEqual
  <2>7. QED
    BY <2>6 DEF p, q, r
<1>3. QED
  BY <1>1, <1>2
-----------------------------------------------------------------------------
(* The steps.                                                              *)

LEMMA InitInv == Init => Inv
<1> SUFFICES ASSUME Init
             PROVE  Inv
  OBVIOUS
<1> USE SizeAssumption, TimerAssumption, EchoAssumption DEF Init
<1>1. TypeOK
  <2>1. handed \in Seq(Seqs)
    OBVIOUS
  <2>2. pumpStarted \in BOOLEAN /\ ~pumpStarted
    BY Zenon
  <2>3. dataNet \subseteq Seqs
    BY DEF Seqs
  <2>4. QED
    BY <2>1, <2>2, <2>3 DEF TypeOK, Seqs, NoSeq, FirstData
<1>2. StreamInv
  <2>1. ~pumpStarted
    BY Zenon
  <2>2. frames = {} /\ devNext = FirstData /\ \A s \in dataNet : s \in {0, 1}
    OBVIOUS
  <2>3. /\ devNext <= FirstData + DevWindow
        /\ \A s \in frames \cup dataNet : s < FirstData + DevWindow
    <3>1. FirstData <= FirstData + DevWindow /\ \A s \in {0, 1} : s < FirstData + DevWindow
      BY DEF FirstData
    <3>2. \A s \in frames \cup dataNet : s \in {0, 1}
      BY <2>2, Zenon
    <3>3. QED
      BY <2>2, <3>1, <3>2, Zenon
  <2>4. QED
    BY <2>1, <2>3 DEF StreamInv, FreshInv, FirstData
<1>3. QED
  BY <1>1, <1>2 DEF Inv

(* ACKs that the pump may send: of what it has consumed.                   *)
LEMMA PumpTopInv == Inv /\ PumpTop => Inv'
<1> SUFFICES ASSUME Inv, PumpTop
             PROVE  Inv'
  OBVIOUS
<1> USE SizeAssumption, TimerAssumption DEF recv, dev
<1>0. TypeOK /\ StreamInv
  BY DEF Inv
<1>1. /\ UNCHANGED <<recv, pumpStarted, pumpNext, handed, sinceAdvance, dataNet, dev>>
      /\ sinceKA' \in {sinceKA, 0} /\ pc' = "recv"
      /\ ackNet' = ackNet \/ (pumpStarted /\ pumpNext > 0 /\ ackNet' \subseteq ackNet \cup {pumpNext - 1})
  BY CarriedOf DEF PumpTop, MayReAck, SendAck
<1>2. ackNet' \subseteq Seqs
  <2>1. pumpNext \in 0..(LastFrame + 1) /\ ackNet \subseteq Seqs
    BY <1>0 DEF TypeOK
  <2>2. pumpNext > 0 => pumpNext - 1 \in Seqs
    BY <2>1 DEF Seqs
  <2>3. QED
    BY <1>1, <2>1, <2>2
<1>3. TypeOK'
  BY <1>0, <1>1, <1>2 DEF TypeOK
<1>4. StreamInv'
  <2>1. CASE pumpStarted
    <3>1. StartedInv
      BY <1>0, <2>1 DEF StreamInv
    <3>2. \A a \in ackNet' : a <= consumed
      <4>1. pumpNext - 1 <= consumed
        BY <1>0, <3>1 DEF StartedInv, TypeOK
      <4>2. QED
        BY <1>1, <3>1, <4>1 DEF StartedInv
    <3>3. StartedInv'
      BY <1>1, <3>1, <3>2 DEF StartedInv
    <3>4. QED
      BY <1>1, <2>1, <3>3 DEF StreamInv
  <2>2. CASE ~pumpStarted
    BY <1>0, <1>1, <2>2 DEF StreamInv, FreshInv
  <2>3. QED
    BY <2>1, <2>2
<1>5. QED
  BY <1>3, <1>4 DEF Inv

LEMMA AddInv ==
  ASSUME Inv, NEW s \in dataNet, Add(s), dataNet' \subseteq dataNet, UNCHANGED <<pumpVars, pc, ackNet, dev>>
  PROVE  Inv'
<1> USE SizeAssumption, TimerAssumption DEF recv, pumpVars, dev
<1>0. TypeOK /\ StreamInv /\ s \in Seqs
  BY DEF Inv, TypeOK
<1>1. CASE UNCHANGED recv
  <2>1. TypeOK'
    BY <1>0, <1>1 DEF TypeOK
  <2>2. StreamInv'
    BY <1>0, <1>1 DEF StreamInv, StartedInv, FreshInv
  <2>3. QED
    BY <2>1, <2>2 DEF Inv
<1>2. CASE ~(Stale(s) \/ s \in frames)
  <2>1. /\ frames' = frames \cup {s} /\ consumed' = consumed
        /\ base' = IF base = NoSeq \/ s < base THEN s ELSE base
        /\ maxSeq' = IF base = NoSeq \/ s > maxSeq THEN s ELSE maxSeq
        /\ cum' = RunEnd(frames', base')
    BY <1>2 DEF Add
  <2>2. frames' \in SUBSET Seqs /\ base' \in Seqs /\ maxSeq' \in Seqs
    BY <1>0, <2>1 DEF TypeOK
  <2>3. cum' \in Seqs
    <3>1. RunEnd(frames', base') \in base'..LastFrame
      BY <2>2, RunEndOf
    <3>2. QED
      BY <2>1, <2>2, <3>1 DEF Seqs
  <2>4. TypeOK'
    BY <1>0, <2>1, <2>2, <2>3 DEF TypeOK
  <2>5. StreamInv'
    <3>1. CASE pumpStarted
      <4>1. StartedInv
        BY <1>0, <3>1 DEF StreamInv
      <4>2. s > consumed
        BY <1>0, <1>2 DEF Stale, TypeOK, Seqs, NoSeq
      <4>3. base' = base /\ s >= pumpNext
        BY <1>0, <2>1, <4>1, <4>2 DEF StartedInv, TypeOK, Seqs, NoSeq
      <4>4. StartedInv'
        BY <2>1, <4>1, <4>3 DEF StartedInv
      <4>5. QED
        BY <3>1, <4>4 DEF StreamInv
    <3>2. CASE ~pumpStarted
      <4>1. FreshInv
        BY <1>0, <3>2 DEF StreamInv
      <4>2. base' # NoSeq /\ base' \in frames' /\ \A k \in frames' : base' <= k
        BY <1>0, <2>1, <2>2, <4>1 DEF FreshInv, TypeOK, Seqs, NoSeq
      <4>3. FreshInv'
        BY <2>1, <4>1, <4>2 DEF FreshInv
      <4>4. QED
        BY <3>2, <4>3 DEF StreamInv
    <3>3. QED
      BY <3>1, <3>2
  <2>6. QED
    BY <2>4, <2>5 DEF Inv
<1>3. QED
  BY <1>1, <1>2 DEF Add

LEMMA FrameArrivesInv ==
  ASSUME Inv, NEW s, NEW keep \in BOOLEAN, FrameArrives(s, keep)
  PROVE  Inv'
<1>1. s \in dataNet /\ dataNet' \subseteq dataNet
  BY DEF FrameArrives
<1>2. QED
  BY <1>1, AddInv DEF FrameArrives

LEMMA QuietInv ==
  ASSUME Inv, \/ RecvDone \/ ConsumeIdle \/ UNCHANGED vars
              \/ \E s : LoseFrame(s)
              \/ \E a : LoseAck(a)
  PROVE  Inv'
<1> USE TimerAssumption DEF recv, pumpVars, dev
<1>0. TypeOK /\ StreamInv
  BY DEF Inv
<1>1. /\ UNCHANGED <<recv, pumpStarted, pumpNext, handed, dev>>
      /\ ackNet' \subseteq ackNet /\ dataNet' \subseteq dataNet
      /\ sinceKA' \in 0..(KaEvery + 1) /\ sinceAdvance' \in 0..(StallAfter + 1)
      /\ pc' \in {"top", "recv", "consume"}
  <2>1. CASE RecvDone
    BY <1>0, <2>1 DEF RecvDone, Older, TypeOK
  <2>2. CASE ConsumeIdle
    BY <1>0, <2>2 DEF ConsumeIdle, TypeOK
  <2>3. CASE \E s : LoseFrame(s)
    BY <1>0, <2>3 DEF LoseFrame, TypeOK
  <2>4. CASE \E a : LoseAck(a)
    BY <1>0, <2>4 DEF LoseAck, TypeOK
  <2>5. CASE UNCHANGED vars
    BY <1>0, <2>5 DEF vars, TypeOK
  <2>6. QED
    BY <2>1, <2>2, <2>3, <2>4, <2>5
<1>2. TypeOK'
  BY <1>0, <1>1 DEF TypeOK
<1>3. StreamInv'
  BY <1>0, <1>1 DEF StreamInv, StartedInv, FreshInv
<1>4. QED
  BY <1>2, <1>3 DEF Inv

LEMMA DeviceInv ==
  ASSUME Inv, DeviceSend \/ \E a \in ackNet, keep \in BOOLEAN : DeviceAck(a, keep)
  PROVE  Inv'
<1> USE SizeAssumption DEF recv, pumpVars
<1>0. TypeOK /\ StreamInv
  BY DEF Inv
<1>1. CASE DeviceSend
  <2>1. /\ devNext <= LastFrame /\ devNext < devBase + DevWindow
        /\ devNext' = devNext + 1 /\ dataNet' \subseteq dataNet \cup {devNext}
        /\ UNCHANGED <<recv, pumpVars, pc, ackNet, devBase>>
    BY <1>1, CarriedOf DEF DeviceSend
  <2>2. devNext \in Seqs /\ devNext' \in FirstData..(LastFrame + 1)
    BY <1>0, <2>1 DEF TypeOK, Seqs, FirstData
  <2>3. TypeOK'
    BY <1>0, <2>1, <2>2 DEF TypeOK
  <2>4. ASSUME pumpStarted
        PROVE  StreamInv'
    BY <1>0, <2>1, <2>4 DEF StreamInv, StartedInv
  <2>5. ASSUME ~pumpStarted
        PROVE  StreamInv'
    <3>1. FreshInv /\ devNext \in Int /\ devBase \in Int
      BY <1>0, <2>5 DEF StreamInv, TypeOK, FirstData
    <3>2. devNext < FirstData + DevWindow
      BY <2>1, <3>1 DEF FreshInv, FirstData
    <3>3. FreshInv'
      <4>1. devNext' <= FirstData + DevWindow
        BY <2>1, <3>1, <3>2 DEF FirstData
      <4>2. QED
        BY <2>1, <3>1, <3>2, <4>1 DEF FreshInv
    <3>4. QED
      BY <2>1, <2>5, <3>3 DEF StreamInv
  <2>6. QED
    BY <2>3, <2>4, <2>5 DEF Inv
<1>2. ASSUME NEW a \in ackNet, NEW keep \in BOOLEAN, DeviceAck(a, keep)
      PROVE  Inv'
  <2>1. /\ ackNet' \subseteq ackNet /\ UNCHANGED <<recv, pumpVars, pc, devNext>>
        /\ devBase' \in {devBase, a + 1}
        /\ dataNet' = dataNet \/ (devBase < devNext /\ dataNet' \subseteq dataNet \cup {devBase})
    BY <1>2, CarriedOf DEF DeviceAck
  <2>2. a \in Seqs /\ devBase' \in 0..(LastFrame + 1)
    BY <1>0, <2>1 DEF TypeOK, Seqs
  <2>3. dataNet' \subseteq Seqs
    <3>1. dataNet \subseteq Seqs /\ devBase \in 0..(LastFrame + 1) /\ devNext \in 2..(LastFrame + 1)
      BY <1>0 DEF TypeOK, FirstData
    <3>2. devBase < devNext => devBase \in Seqs
      BY <3>1 DEF Seqs
    <3>3. QED
      BY <2>1, <3>1, <3>2
  <2>4. TypeOK'
    BY <1>0, <2>1, <2>2, <2>3 DEF TypeOK
  <2>5. StreamInv'
    <3>1. pumpStarted /\ StartedInv
      BY <1>0 DEF StreamInv, FreshInv
    <3>2. devBase' <= FirstData \/ devBase' <= pumpNext
      BY <1>0, <2>1, <2>2, <3>1 DEF StartedInv, TypeOK, Seqs
    <3>3. StartedInv'
      BY <2>1, <3>1, <3>2 DEF StartedInv
    <3>4. QED
      BY <2>1, <3>1, <3>3 DEF StreamInv
  <2>6. QED
    BY <2>4, <2>5 DEF Inv
<1>3. QED
  BY <1>1, <1>2
(* What one Consume takes, from where it stands to the end of the run.     *)
From == IF pumpStarted THEN pumpNext ELSE base
To == IF From \in frames THEN RunEnd(frames, From) + 1 ELSE From

LEMMA ConsumeStep ==
  ASSUME Inv, Consume
  PROVE  /\ base # NoSeq /\ pc' = "top" /\ pumpStarted' = TRUE
         /\ UNCHANGED <<base, cum, maxSeq, sinceKA, dataNet, dev>>
         /\ frames' = frames \ (From..(To - 1))
         /\ consumed' = IF To > From THEN To - 1 ELSE consumed
         /\ pumpNext' = To
         /\ handed' = handed \o [i \in 1..(To - From) |-> From + i - 1]
         /\ ackNet' = ackNet \/ (To > 0 /\ ackNet' \subseteq ackNet \cup {To - 1})
         /\ sinceAdvance' \in {StallBack, 0, sinceAdvance}
<1>1. From \in Nat /\ To \in Nat
  <2>1. TypeOK /\ StreamInv
    BY DEF Inv
  <2>2. From \in Nat
    BY <2>1, SizeAssumption DEF TypeOK, StreamInv, Consume, From, Seqs, NoSeq
  <2>3. From \in frames => RunEnd(frames, From) \in From..LastFrame
    BY <2>1, RunEndOf DEF TypeOK
  <2>4. QED
    BY <2>2, <2>3, SizeAssumption DEF To
<1>2. To > From => To > 0
  BY <1>1
<1> HIDE DEF From, To
<1>3. /\ To > From \/ To > 0 => To > 0
      /\ SendAck(AckTarget(To)) => ackNet' \subseteq ackNet \cup {To - 1}
  BY <1>2, CarriedOf DEF SendAck, AckTarget
<1>4. QED
  BY <1>2, <1>3 DEF Consume, From, To

LEMMA ConsumeInv == ASSUME Inv, Consume PROVE Inv'
<1> USE SizeAssumption, TimerAssumption DEF dev
<1>0. TypeOK /\ StreamInv
  BY DEF Inv
<1>1. /\ base # NoSeq /\ pc' = "top" /\ pumpStarted' = TRUE
      /\ UNCHANGED <<base, cum, maxSeq, sinceKA, dataNet, dev>>
      /\ frames' = frames \ (From..(To - 1))
      /\ consumed' = IF To > From THEN To - 1 ELSE consumed
      /\ pumpNext' = To
      /\ handed' = handed \o [i \in 1..(To - From) |-> From + i - 1]
      /\ ackNet' = ackNet \/ (To > 0 /\ ackNet' \subseteq ackNet \cup {To - 1})
      /\ sinceAdvance' \in {StallBack, 0, sinceAdvance}
  BY ConsumeStep
<1>2. pumpStarted' /\ pumpStarted' \in BOOLEAN
  BY <1>1, Zenon
<1>3. base \in Seqs
  BY <1>0, <1>1 DEF TypeOK
(* Before and after its start the pump stands after what it handed on.     *)
<1>4. /\ From \in base..(LastFrame + 1) /\ handed = Upto(base, From - 1)
      /\ \A s \in frames : s >= From
      /\ ~pumpStarted => From = base /\ From \in frames
      /\ pumpStarted => consumed = From - 1 /\ From > base
  <2>1. CASE pumpStarted
    <3>1. StartedInv /\ From = pumpNext /\ pumpNext \in 0..(LastFrame + 1) /\ consumed \in Int
      BY <1>0, <2>1 DEF StreamInv, TypeOK, Seqs, NoSeq, From
    <3>2. QED
      BY <1>3, <2>1, <3>1 DEF StartedInv, Seqs
  <2>2. CASE ~pumpStarted
    <3>1. FreshInv /\ From = base
      BY <1>0, <2>2 DEF StreamInv, From
    <3>2. handed = Upto(base, From - 1)
      BY <1>3, <3>1, UptoEmpty DEF FreshInv, Seqs
    <3>3. QED
      BY <1>1, <1>3, <2>2, <3>1, <3>2 DEF FreshInv, Seqs
  <2>3. QED
    BY <2>1, <2>2
<1>5. To \in From..(LastFrame + 1) /\ (From \in frames => To > From)
  <2>1. CASE From \in frames
    <3>1. frames \in SUBSET Seqs
      BY <1>0 DEF TypeOK
    <3>2. From \in Seqs /\ RunEnd(frames, From) \in From..LastFrame /\ To = RunEnd(frames, From) + 1
      BY <2>1, <3>1, RunEndOf DEF To
    <3>3. QED
      BY <3>2 DEF Seqs
  <2>2. CASE From \notin frames
    BY <1>3, <1>4, <2>2 DEF To, Seqs
  <2>3. QED
    BY <2>1, <2>2
<1>6. From \in Nat /\ To \in Nat /\ base \in Nat /\ base <= From
  BY <1>3, <1>4, <1>5 DEF Seqs
<1>7. consumed' = To - 1 /\ base <= To - 1
  <2>1. CASE To > From
    BY <1>1, <1>6, <2>1
  <2>2. CASE ~(To > From)
    <3>1. pumpStarted /\ To = From
      BY <1>4, <1>5, <1>6, <2>2
    <3>2. QED
      BY <1>1, <1>4, <1>6, <2>2, <3>1
  <2>3. QED
    BY <2>1, <2>2
<1>8. handed' = Upto(base, To - 1)
  <2>1. [i \in 1..(To - From) |-> From + i - 1] = Upto(From, To - 1)
    <3>1. To - From = To - 1 - From + 1
      BY <1>6
    <3>2. QED
      BY <3>1 DEF Upto
  <2>2. PICK c \in (base - 1)..LastFrame : c = From - 1
    BY <1>4, <1>6
  <2>3. PICK d \in c..LastFrame : d = To - 1
    BY <1>5, <1>6, <2>2
  <2>4. Upto(base, c) \o Upto(c + 1, d) = Upto(base, d)
    BY <1>3, UptoConcat
  <2>5. From = c + 1
    BY <1>6, <2>2
  <2>6. QED
    BY <1>1, <1>4, <2>1, <2>2, <2>3, <2>4, <2>5, Zenon
<1>9. ackNet' \subseteq Seqs /\ consumed' \in Seqs
  <2>1. To > 0 => To - 1 \in Seqs
    BY <1>5, <1>6 DEF Seqs
  <2>2. ackNet' \subseteq Seqs
    BY <1>0, <1>1, <2>1 DEF TypeOK
  <2>3. QED
    BY <1>6, <1>7, <2>1, <2>2
<1>10. TypeOK'
  <2>1. handed' \in Seq(Seqs)
    <3>1. PICK d \in (base - 1)..LastFrame : d = To - 1
      BY <1>5, <1>6
    <3>2. QED
      BY <1>3, <1>8, <3>1, UptoSeq
  <2>2. pumpNext' \in 0..(LastFrame + 1)
    BY <1>1, <1>5, <1>6
  <2>3. sinceAdvance' \in 0..(StallAfter + 1)
    BY <1>0, <1>1 DEF TypeOK
  <2>4. QED
    BY <1>0, <1>1, <1>2, <1>9, <2>1, <2>2, <2>3 DEF TypeOK
<1>11. StartedInv'
  <2>1. ASSUME NEW s \in frames'
        PROVE  s >= To
    <3>1. s \in frames /\ s \notin From..(To - 1) /\ s \in Int
      BY <1>0, <1>1 DEF TypeOK, Seqs
    <3>2. QED
      BY <1>4, <1>6, <3>1
  <2>2. ASSUME NEW a \in ackNet'
        PROVE  a <= To - 1
    <3>1. CASE a \in ackNet
      <4>1. pumpStarted /\ a <= consumed /\ a \in Int
        BY <1>0, <3>1 DEF StreamInv, FreshInv, StartedInv, TypeOK, Seqs
      <4>2. QED
        BY <1>4, <1>5, <1>6, <4>1
    <3>2. CASE a \notin ackNet
      BY <1>1, <1>6, <3>2
    <3>3. QED
      BY <3>1, <3>2
  <2>3. devBase <= FirstData \/ devBase <= To
    <3>1. CASE pumpStarted
      <4>1. StartedInv /\ From = pumpNext /\ devBase \in Int
        BY <1>0, <3>1 DEF StreamInv, From, TypeOK
      <4>2. QED
        BY <1>5, <1>6, <4>1 DEF StartedInv
    <3>2. CASE ~pumpStarted
      BY <1>0, <3>2 DEF StreamInv, FreshInv
    <3>3. QED
      BY <3>1, <3>2
  <2>4. base < FirstData + DevWindow
    BY <1>0, <1>4 DEF StreamInv, FreshInv, StartedInv
  <2>5. QED
    BY <1>1, <1>7, <1>8, <2>1, <2>2, <2>3, <2>4 DEF StartedInv
<1>12. QED
  BY <1>2, <1>10, <1>11 DEF Inv, StreamInv

LEMMA NextInv == Inv /\ [Next]_vars => Inv'
<1> SUFFICES ASSUME Inv, [Next]_vars
             PROVE  Inv'
  OBVIOUS
<1>1. CASE PumpTop
  BY <1>1, PumpTopInv
<1>2. CASE Consume
  BY <1>2, ConsumeInv
<1>3. CASE \E s \in dataNet, keep \in BOOLEAN : FrameArrives(s, keep)
  BY <1>3, FrameArrivesInv
<1>4. CASE DeviceSend \/ \E a \in ackNet, keep \in BOOLEAN : DeviceAck(a, keep)
  BY <1>4, DeviceInv
<1>5. CASE \/ RecvDone \/ ConsumeIdle \/ UNCHANGED vars
           \/ \E s \in dataNet : LoseFrame(s)
           \/ \E a \in ackNet : LoseAck(a)
  BY <1>5, QuietInv
<1>6. QED
  BY <1>1, <1>2, <1>3, <1>4, <1>5 DEF Next

LEMMA Invariant == Spec => []Inv
BY InitInv, NextInv, PTL DEF Spec

-----------------------------------------------------------------------------
(* The theorems.                                                           *)

(* The Reassembler and the pump keep the shapes of their declarations, and *)
(* no number leaves the range of the stream.                               *)
THEOREM TypeCorrect == Spec => []TypeOK
<1>1. Inv => TypeOK
  BY DEF Inv
<1>2. QED
  BY <1>1, Invariant, PTL

(* Once the pump has started, the reassembler holds nothing below the read *)
(* position: the watermark keeps every late copy out.                      *)
THEOREM NoneStrandedAlways == Spec => []NoneStranded
<1>1. Inv => NoneStranded
  BY DEF Inv, StreamInv, StartedInv, NoneStranded
<1>2. QED
  BY <1>1, Invariant, PTL

(* The stream so far is the numbers from base to the read position.        *)
InOrder == pumpStarted => handed = Upto(base, pumpNext - 1)

(* The frames that the pump hands on are those from its first one up to    *)
(* the read position, each once and in order, whatever the link loses,     *)
(* repeats or reorders and whatever setup's late copies do.                *)
THEOREM InOrderAlways == Spec => []InOrder
<1>1. Inv => InOrder
  BY DEF Inv, StreamInv, StartedInv, InOrder
<1>2. QED
  BY <1>1, Invariant, PTL

(* Every number between the ends of Upto is in it.                         *)
LEMMA UptoHas ==
  ASSUME NEW b \in Seqs, NEW c \in b..LastFrame, NEW s \in b..c
  PROVE  \E i \in DOMAIN Upto(b, c) : Upto(b, c)[i] = s
<1>1. s - b + 1 \in 1..(c - b + 1) /\ b + (s - b + 1) - 1 = s
  BY SizeAssumption DEF Seqs
<1>2. QED
  BY <1>1 DEF Upto

(* What pump acknowledges unseen lies below the frame it started with, and *)
(* that frame is in the device's first window: from the start of the pump  *)
(* on, the device drops no frame that the client has not used.             *)
THEOREM GapOnlyAtStartAlways == Spec => []GapOnlyAtStart
<1>1. ASSUME Inv
      PROVE  GapOnlyAtStart
  <2>0. TypeOK /\ StreamInv
    BY <1>1 DEF Inv
  <2>1. CASE ~pumpStarted
    <3>1. ackNet = {} /\ devBase <= FirstData /\ devBase \in Int
      BY <2>0, <2>1 DEF StreamInv, FreshInv, TypeOK
    <3>2. QED
      BY <2>1, <3>1 DEF GapOnlyAtStart, Acknowledged, FirstData, Seqs
  <2>2. CASE pumpStarted
    <3>1. /\ StartedInv /\ base \in Seqs /\ consumed \in base..LastFrame /\ pumpNext = consumed + 1
          /\ pumpNext \in Int /\ devBase \in Int
      BY <2>0, <2>2, SizeAssumption DEF StreamInv, StartedInv, TypeOK, Seqs, NoSeq
    <3>2. \A s \in base..consumed : s \in HandedOn
      BY <3>1, UptoHas DEF StartedInv, HandedOn
    <3>3. ASSUME NEW s \in Acknowledged
          PROVE  s < FirstData \/ s \in HandedOn \/ s < base
      <4>1. base \in Int /\ consumed \in Int /\ s \in Int
        BY <3>1 DEF Acknowledged, Seqs
      <4>2. s < FirstData \/ s <= consumed
        <5>1. CASE s < devBase
          BY <3>1, <4>1, <5>1 DEF StartedInv, FirstData
        <5>2. ASSUME NEW a \in ackNet, s <= a
              PROVE  s <= consumed
          <6>1. a <= consumed /\ a \in Int
            BY <2>0, <3>1 DEF StartedInv, TypeOK, Seqs
          <6>2. QED
            BY <4>1, <5>2, <6>1
        <5>3. QED
          BY <5>1, <5>2 DEF Acknowledged
      <4>3. QED
        BY <3>2, <4>1, <4>2
    <3>4. QED
      BY <2>2, <3>1, <3>3 DEF GapOnlyAtStart, StartedInv
  <2>3. QED
    BY <2>1, <2>2
<1>2. QED
  BY <1>1, Invariant, PTL

-----------------------------------------------------------------------------
(* StreamPath: numbers and lengths.                                        *)

(* Division with remainder.                                                *)
LEMMA DivMod ==
  ASSUME NEW k \in Nat, NEW b \in Nat, b > 0
  PROVE  /\ k = b * (k \div b) + (k % b)
         /\ k % b \in 0..(b - 1) /\ k \div b \in Nat
<1>1. k = b * (k \div b) + (k % b)
  OBVIOUS
<1>2. k % b \in 0..(b - 1)
  OBVIOUS
<1>3. k \div b \in Nat
  OBVIOUS
<1>4. QED
  BY <1>1, <1>2, <1>3

(* A product below the square of a factor has a smaller other factor.      *)
LEMMA Below ==
  ASSUME NEW q \in Nat, NEW b \in Nat, b * q < b * b
  PROVE  q < b
<1>1. q >= b => b * q >= b * b
  OBVIOUS
<1>2. b * q \in Nat /\ b * b \in Nat
  OBVIOUS
<1>3. QED
  BY <1>1, <1>2

(* The two length bytes say every length below Base^2.                     *)
LEMMA LenBytes ==
  ASSUME NEW k \in Nat, k < Base * Base
  PROVE  /\ k % Base \in Byte /\ (k \div Base) % Base \in Byte
         /\ (k % Base) + Base * ((k \div Base) % Base) = k
<1> DEFINE q == k \div Base
           r == k % Base
<1>1. Base \in Nat /\ Base > 0 /\ Base * Base \in Nat
  BY FramingAssumption
<1>2. k = Base * q + r /\ r \in 0..(Base - 1) /\ q \in Nat
  BY <1>1, DivMod
<1> HIDE DEF q, r
<1>3. Base * q \in Nat
  BY <1>1, <1>2
<1>4. q < Base
  BY <1>1, <1>2, <1>3, Below
<1>5. q % Base = q
  BY <1>1, <1>2, <1>4
<1>6. QED
  BY <1>1, <1>2, <1>4, <1>5 DEF Byte, q, r

-----------------------------------------------------------------------------
(* Recursive functions: each has a lemma that a function as its equation   *)
(* asks for exists, so that the one defined is such a function.            *)

(* From every offset of 0..n one goes on further up, or stops.             *)
IsSuffixFcn(f, n, stop, pre, nxt) ==
  f = [o \in 0..n |-> IF o \in stop THEN <<>> ELSE pre[o] \o f[nxt[o]]]

(* There is such a function: it is built downwards from n.                 *)
LEMMA SuffixFcn ==
  ASSUME NEW n \in Nat, NEW stop, NEW pre, NEW nxt,
         \A o \in 0..n : o \notin stop => nxt[o] \in (o + 1)..n
  PROVE  \E f : IsSuffixFcn(f, n, stop, pre, nxt)
<1> DEFINE Fits(f, d) == f = [o \in (n - d)..n |-> IF o \in stop THEN <<>> ELSE pre[o] \o f[nxt[o]]]
           S == {d \in Nat : d <= n => \E f : Fits(f, d)}
<1>1. 0 \in S
  <2> DEFINE f == [o \in (n - 0)..n |-> <<>>]
  <2>1. n \in 0..n /\ (n + 1)..n = {}
    OBVIOUS
  <2>2. n \in stop
    BY <2>1
  <2>3. \A o \in (n - 0)..n : o = n
    OBVIOUS
  <2>4. Fits(f, 0)
    BY <2>2, <2>3
  <2>5. QED
    BY <2>4
<1>2. ASSUME NEW d \in Nat, d \in S
      PROVE  d + 1 \in S
  <2> SUFFICES ASSUME d + 1 <= n
               PROVE  \E g : Fits(g, d + 1)
    <3>1. d + 1 \in Nat
      OBVIOUS
    <3> HIDE DEF Fits
    <3>2. QED
      BY <3>1, Zenon
  <2>1. PICK f : Fits(f, d)
    <3>1. d <= n
      OBVIOUS
    <3> HIDE DEF Fits
    <3>2. QED
      BY <1>2, <3>1, Zenon
  <2> DEFINE x == n - (d + 1)
             g == [o \in x..n |-> IF o = x THEN IF x \in stop THEN <<>> ELSE pre[x] \o f[nxt[x]] ELSE f[o]]
  <2>2. x \in 0..n /\ n - d = x + 1
    OBVIOUS
  <2> HIDE DEF x
  <2>3. \A o \in x..n : o \notin stop => nxt[o] \in (x + 1)..n /\ nxt[o] # x
    BY <2>2
  <2>4. \A o \in (x + 1)..n : g[o] = f[o] /\ o \in x..n /\ o # x
    BY <2>2
  <2>5. ASSUME NEW o \in x..n
        PROVE  g[o] = IF o \in stop THEN <<>> ELSE pre[o] \o g[nxt[o]]
    <3>1. CASE o = x
      BY <2>3, <2>4, <3>1
    <3>2. CASE o # x
      <4>1. o \in (n - d)..n
        BY <2>2, <3>2
      <4>2. f[o] = IF o \in stop THEN <<>> ELSE pre[o] \o f[nxt[o]]
        BY <2>1, <4>1
      <4>3. g[o] = f[o]
        BY <2>2, <2>4, <4>1
      <4>4. o \notin stop => g[nxt[o]] = f[nxt[o]]
        BY <2>3, <2>4
      <4>5. QED
        BY <4>2, <4>3, <4>4
    <3>3. QED
      BY <3>1, <3>2
  <2>6. g = [o \in x..n |-> g[o]]
    OBVIOUS
  <2>7. Fits(g, d + 1)
    <3> HIDE DEF g
    <3>1. QED
      BY <2>5, <2>6 DEF x
  <2>8. QED
    BY <2>7
<1>3. n \in S
  <2> HIDE DEF S
  <2>1. QED
    BY <1>1, <1>2, SetInduction
<1>4. PICK f : Fits(f, n)
  <2>1. n <= n
    OBVIOUS
  <2> HIDE DEF Fits
  <2>2. QED
    BY <1>3, <2>1, Zenon
<1>5. (n - n)..n = 0..n
  OBVIOUS
<1>6. IsSuffixFcn(f, n, stop, pre, nxt)
  BY <1>4, <1>5 DEF IsSuffixFcn
<1>7. QED
  BY <1>6

(* The frame at an offset, its end, and where ParseRDTStream stops.        *)
RDTAt(pt, off) == [type |-> pt[off + 2], seq |-> pt[off + 5],
                   payload |-> Slice(pt, off + RDTHdrLen, LenAt(pt, off + 3))]
RDTEnd(pt, off) == off + RDTHdrLen + LenAt(pt, off + 3)
RDTStops(pt, off) ==
  off + RDTHdrLen > Len(pt) \/ pt[off + 1] # Magic \/ RDTEnd(pt, off) > Len(pt)

(* A length field is a natural number.                                     *)
LEMMA LenAtNat ==
  ASSUME NEW raw \in Seq(Byte), NEW p \in 1..Len(raw), p + 1 <= Len(raw)
  PROVE  LenAt(raw, p) \in Nat
<1>1. raw[p] \in Byte /\ raw[p + 1] \in Byte
  OBVIOUS
<1>2. Base \in Nat /\ \A a, b \in Byte : a + Base * b \in Nat
  BY FramingAssumption DEF Byte
<1>3. QED
  BY <1>1, <1>2 DEF LenAt

(* RDTFrom obeys its recursion: from every offset the frame there, if it   *)
(* is whole, and then what follows it.                                     *)
LEMMA RDTStep ==
  ASSUME NEW pt \in Seq(Byte)
  PROVE  RDTFrom(pt) = [off \in 0..Len(pt) |->
           IF RDTStops(pt, off) THEN <<>> ELSE <<RDTAt(pt, off)>> \o RDTFrom(pt)[RDTEnd(pt, off)]]
<1> DEFINE n == Len(pt)
           stop == {o \in 0..n : RDTStops(pt, o)}
           pre == [o \in 0..n |-> <<RDTAt(pt, o)>>]
           nxt == [o \in 0..n |-> RDTEnd(pt, o)]
           F(f) == [off \in 0..Len(pt) |->
                     IF RDTStops(pt, off) THEN <<>> ELSE <<RDTAt(pt, off)>> \o f[RDTEnd(pt, off)]]
<1>1. n \in Nat
  OBVIOUS
<1>2. \A o \in 0..n : o \notin stop => nxt[o] \in (o + 1)..n
  <2> SUFFICES ASSUME NEW o \in 0..n, ~RDTStops(pt, o)
               PROVE  RDTEnd(pt, o) \in (o + 1)..n
    OBVIOUS
  <2>1. o + RDTHdrLen <= n
    BY DEF RDTStops, RDTHdrLen
  <2>2. LenAt(pt, o + 3) \in Nat
    BY <2>1, LenAtNat DEF RDTHdrLen
  <2>3. QED
    BY <2>1, <2>2 DEF RDTStops, RDTEnd, RDTHdrLen
<1>3. PICK f : IsSuffixFcn(f, n, stop, pre, nxt)
  <2> HIDE DEF n, stop, pre, nxt
  <2>1. QED
    BY <1>1, <1>2, SuffixFcn
<1>4. f = F(f)
  <2>1. \A o \in 0..n : (IF o \in stop THEN <<>> ELSE pre[o] \o f[nxt[o]]) =
                        IF RDTStops(pt, o) THEN <<>> ELSE <<RDTAt(pt, o)>> \o f[RDTEnd(pt, o)]
    BY Zenon
  <2>2. QED
    BY <1>3, <2>1 DEF IsSuffixFcn
<1>5. RDTFrom(pt) = CHOOSE g : g = [off \in 0..Len(pt) |->
        IF off + RDTHdrLen > Len(pt) \/ pt[off + 1] # Magic THEN <<>>
        ELSE IF off + RDTHdrLen + LenAt(pt, off + 3) > Len(pt) THEN <<>>
             ELSE << [type |-> pt[off + 2], seq |-> pt[off + 5],
                      payload |-> Slice(pt, off + RDTHdrLen, LenAt(pt, off + 3))] >>
                  \o g[off + RDTHdrLen + LenAt(pt, off + 3)]]
  BY DEF RDTFrom
<1>6. RDTFrom(pt) = CHOOSE g : g = F(g)
  BY <1>5 DEF RDTStops, RDTAt, RDTEnd
<1> HIDE DEF F
<1>7. RDTFrom(pt) = F(RDTFrom(pt))
  BY <1>4, <1>6
<1>8. QED
  BY <1>7 DEF F

(* One turn of the loop of DeframeTunnel: the bytes it passes on and where *)
(* it goes on.                                                             *)
Chunked(raw, off) == IsData(raw[off + 1], raw[off + 2], LenAt(raw, off + 3)) /\ raw[off + 2] = 1
Have(raw, off) == IF off + PTunHdrLen + LenAt(raw, off + 3) > Len(raw)
                  THEN Len(raw) - off - PTunHdrLen ELSE LenAt(raw, off + 3)
DeframePiece(raw, off) ==
  IF Chunked(raw, off) THEN Slice(raw, off + PTunHdrLen, Have(raw, off)) ELSE <<raw[off + 1]>>
DeframeNext(raw, off) ==
  IF Chunked(raw, off) THEN off + PTunHdrLen + Have(raw, off) ELSE off + 1

(* DeframeFrom obeys its recursion.                                        *)
LEMMA DeframeStep ==
  ASSUME NEW raw \in Seq(Byte)
  PROVE  DeframeFrom(raw) = [off \in 0..Len(raw) |->
           IF off + PTunHdrLen > Len(raw) THEN <<>>
           ELSE DeframePiece(raw, off) \o DeframeFrom(raw)[DeframeNext(raw, off)]]
<1> DEFINE n == Len(raw)
           stop == {o \in 0..n : o + PTunHdrLen > Len(raw)}
           pre == [o \in 0..n |-> DeframePiece(raw, o)]
           nxt == [o \in 0..n |-> DeframeNext(raw, o)]
           F(f) == [off \in 0..Len(raw) |->
                     IF off + PTunHdrLen > Len(raw) THEN <<>>
                     ELSE DeframePiece(raw, off) \o f[DeframeNext(raw, off)]]
<1>1. n \in Nat
  OBVIOUS
<1>2. \A o \in 0..n : o \notin stop => nxt[o] \in (o + 1)..n
  <2> SUFFICES ASSUME NEW o \in 0..n, ~(o + PTunHdrLen > n)
               PROVE  DeframeNext(raw, o) \in (o + 1)..n
    OBVIOUS
  <2>1. o + 4 <= n
    BY DEF PTunHdrLen
  <2>2. LenAt(raw, o + 3) \in Nat
    BY <2>1, LenAtNat
  <2>3. QED
    BY <2>1, <2>2 DEF DeframeNext, Have, PTunHdrLen
<1>3. PICK f : IsSuffixFcn(f, n, stop, pre, nxt)
  <2> HIDE DEF n, stop, pre, nxt
  <2>1. QED
    BY <1>1, <1>2, SuffixFcn
<1>4. f = F(f)
  <2>1. \A o \in 0..n : (IF o \in stop THEN <<>> ELSE pre[o] \o f[nxt[o]]) =
                        IF o + PTunHdrLen > Len(raw) THEN <<>> ELSE DeframePiece(raw, o) \o f[DeframeNext(raw, o)]
    BY Zenon
  <2>2. QED
    BY <1>3, <2>1 DEF IsSuffixFcn
<1>5. DeframeFrom(raw) = CHOOSE g : g = [off \in 0..Len(raw) |->
        IF off + PTunHdrLen > Len(raw) THEN <<>>
        ELSE IF Chunked(raw, off)
             THEN Slice(raw, off + PTunHdrLen, Have(raw, off)) \o g[off + PTunHdrLen + Have(raw, off)]
             ELSE <<raw[off + 1]>> \o g[off + 1]]
  BY DEF DeframeFrom, Chunked, Have
<1>6. DeframeFrom(raw) = CHOOSE g : g = F(g)
  BY <1>5 DEF DeframePiece, DeframeNext
<1> HIDE DEF F
<1>7. DeframeFrom(raw) = F(DeframeFrom(raw))
  BY <1>4, <1>6
<1>8. QED
  BY <1>7 DEF F

(* The length of the chunk FrameTunnel makes at i.                         *)
Piece(sock, c, i) == IF i + c > Len(sock) THEN Len(sock) - i ELSE c

(* FrameFrom obeys its recursion, for a chunk size that is not 0.          *)
LEMMA FrameStep ==
  ASSUME NEW sock \in Seq(Byte), NEW c \in Nat \ {0}
  PROVE  FrameFrom(sock, c) = [i \in 0..Len(sock) |->
           IF i >= Len(sock) THEN <<>>
           ELSE Chunk(DataMsg(1, Slice(sock, i, Piece(sock, c, i)))) \o FrameFrom(sock, c)[i + Piece(sock, c, i)]]
<1> DEFINE n == Len(sock)
           stop == {o \in 0..n : o >= Len(sock)}
           pre == [o \in 0..n |-> Chunk(DataMsg(1, Slice(sock, o, Piece(sock, c, o))))]
           nxt == [o \in 0..n |-> o + Piece(sock, c, o)]
           F(f) == [i \in 0..Len(sock) |->
             IF i >= Len(sock) THEN <<>>
             ELSE Chunk(DataMsg(1, Slice(sock, i, Piece(sock, c, i)))) \o f[i + Piece(sock, c, i)]]
<1>1. n \in Nat
  OBVIOUS
<1>2. \A o \in 0..n : o \notin stop => nxt[o] \in (o + 1)..n
  BY DEF Piece
<1>3. PICK f : IsSuffixFcn(f, n, stop, pre, nxt)
  <2> HIDE DEF n, stop, pre, nxt
  <2>1. QED
    BY <1>1, <1>2, SuffixFcn
<1>4. f = F(f)
  <2>1. \A o \in 0..n : (IF o \in stop THEN <<>> ELSE pre[o] \o f[nxt[o]]) =
                        IF o >= Len(sock) THEN <<>>
                        ELSE Chunk(DataMsg(1, Slice(sock, o, Piece(sock, c, o)))) \o f[o + Piece(sock, c, o)]
    BY Zenon
  <2>2. QED
    BY <1>3, <2>1 DEF IsSuffixFcn
<1>5. FrameFrom(sock, c) = CHOOSE g : g = F(g)
  BY DEF FrameFrom, Piece
<1> HIDE DEF F
<1>6. FrameFrom(sock, c) = F(FrameFrom(sock, c))
  BY <1>4, <1>5
<1>7. QED
  BY <1>6 DEF F

(* The same for Parse, which may also pass over a byte.                    *)
IsParseFcn(f, n, stop, skip, msg, nxt) ==
  f = [o \in 0..n |-> IF o \in stop THEN [msgs |-> <<>>, off |-> o]
                      ELSE IF o \in skip THEN f[o + 1]
                      ELSE [f[nxt[o]] EXCEPT !.msgs = <<msg[o]>> \o @]]

(* There is such a function.                                               *)
LEMMA ParseFcn ==
  ASSUME NEW n \in Nat, NEW stop, NEW skip, NEW msg, NEW nxt,
         \A o \in 0..n : o \notin stop => o + 1 \in (o + 1)..n /\ (o \notin skip => nxt[o] \in (o + 1)..n)
  PROVE  \E f : IsParseFcn(f, n, stop, skip, msg, nxt)
<1> DEFINE Val(f, o) == IF o \in stop THEN [msgs |-> <<>>, off |-> o]
                        ELSE IF o \in skip THEN f[o + 1]
                        ELSE [f[nxt[o]] EXCEPT !.msgs = <<msg[o]>> \o @]
           Fits(f, d) == f = [o \in (n - d)..n |-> Val(f, o)]
           S == {d \in Nat : d <= n => \E f : Fits(f, d)}
<1>1. 0 \in S
  <2> DEFINE f == [o \in (n - 0)..n |-> [msgs |-> <<>>, off |-> o]]
  <2>1. n \in 0..n /\ (n + 1)..n = {}
    OBVIOUS
  <2>2. n \in stop
    BY <2>1
  <2>3. \A o \in (n - 0)..n : o = n
    OBVIOUS
  <2>4. Fits(f, 0)
    BY <2>2, <2>3
  <2>5. QED
    BY <2>4
<1>2. ASSUME NEW d \in Nat, d \in S
      PROVE  d + 1 \in S
  <2> SUFFICES ASSUME d + 1 <= n
               PROVE  \E g : Fits(g, d + 1)
    <3>1. d + 1 \in Nat
      OBVIOUS
    <3> HIDE DEF Fits
    <3>2. QED
      BY <3>1, Zenon
  <2>1. PICK f : Fits(f, d)
    <3>1. d <= n
      OBVIOUS
    <3> HIDE DEF Fits
    <3>2. QED
      BY <1>2, <3>1, Zenon
  <2> DEFINE x == n - (d + 1)
             g == [o \in x..n |-> IF o = x THEN Val(f, x) ELSE f[o]]
  <2>2. x \in 0..n /\ n - d = x + 1
    OBVIOUS
  <2> HIDE DEF x
  <2>3. \A o \in x..n : o \notin stop => /\ o + 1 \in (x + 1)..n
                                         /\ o \notin skip => nxt[o] \in (x + 1)..n
    BY <2>2
  <2>4. \A o \in (x + 1)..n : g[o] = f[o]
    <3> HIDE DEF Val
    <3>1. \A o \in (x + 1)..n : o \in x..n /\ o # x
      BY <2>2
    <3>2. QED
      BY <3>1
  <2>5. \A o \in x..n : Val(g, o) = Val(f, o)
    <3> SUFFICES ASSUME NEW o \in x..n
                 PROVE  Val(g, o) = Val(f, o)
      OBVIOUS
    <3>1. o \notin stop => g[o + 1] = f[o + 1] /\ (o \notin skip => g[nxt[o]] = f[nxt[o]])
      BY <2>3, <2>4
    <3> HIDE DEF g
    <3>2. QED
      BY <3>1
  <2>6. ASSUME NEW o \in x..n
        PROVE  g[o] = Val(g, o)
    <3> HIDE DEF Val
    <3>1. CASE o = x
      BY <2>5, <3>1
    <3>2. CASE o # x
      <4>1. o \in (n - d)..n
        BY <2>2, <3>2
      <4>2. f[o] = Val(f, o)
        BY <2>1, <4>1
      <4>3. QED
        BY <2>2, <2>4, <2>5, <4>1, <4>2
    <3>3. QED
      BY <3>1, <3>2
  <2>7. g = [o \in x..n |-> g[o]]
    OBVIOUS
  <2>8. Fits(g, d + 1)
    <3> HIDE DEF g, Val
    <3>1. QED
      BY <2>6, <2>7 DEF x
  <2>9. QED
    BY <2>8
<1>3. n \in S
  <2> HIDE DEF S
  <2>1. QED
    BY <1>1, <1>2, SetInduction
<1>4. PICK f : Fits(f, n)
  <2>1. n <= n
    OBVIOUS
  <2> HIDE DEF Fits
  <2>2. QED
    BY <1>3, <2>1, Zenon
<1>5. (n - n)..n = 0..n
  OBVIOUS
<1>6. IsParseFcn(f, n, stop, skip, msg, nxt)
  BY <1>4, <1>5 DEF IsParseFcn
<1>7. QED
  BY <1>6

(* What Parse sees at an offset: the kind of the header, the message, its  *)
(* end, and whether to wait for more.                                      *)
HeadIsData(raw, off) == IsData(raw[off + 1], raw[off + 2], LenAt(raw, off + 3))
HeadIsMsg(raw, off) == HeadIsData(raw, off) \/ IsCtrl(raw[off + 1], raw[off + 2], LenAt(raw, off + 3))
MsgEnd(raw, off) == off + PTunHdrLen + LenAt(raw, off + 3)
MsgAt(raw, off) ==
  LET data == Slice(raw, off + PTunHdrLen, LenAt(raw, off + 3))
  IN IF HeadIsData(raw, off) THEN DataMsg(raw[off + 2], data) ELSE CtrlMsg(raw[off + 1], data)
ParseStops(raw, off) ==
  off + PTunHdrLen > Len(raw) \/ (HeadIsMsg(raw, off) /\ MsgEnd(raw, off) > Len(raw))

(* ParseFrom obeys its recursion.                                          *)
LEMMA ParseStep ==
  ASSUME NEW raw \in Seq(Byte)
  PROVE  ParseFrom(raw) = [off \in 0..Len(raw) |->
           IF ParseStops(raw, off) THEN [msgs |-> <<>>, off |-> off]
           ELSE IF ~HeadIsMsg(raw, off) THEN ParseFrom(raw)[off + 1]
           ELSE [ParseFrom(raw)[MsgEnd(raw, off)] EXCEPT !.msgs = <<MsgAt(raw, off)>> \o @]]
<1> DEFINE n == Len(raw)
           stop == {o \in 0..n : ParseStops(raw, o)}
           skip == {o \in 0..n : ~HeadIsMsg(raw, o)}
           msg == [o \in 0..n |-> MsgAt(raw, o)]
           nxt == [o \in 0..n |-> MsgEnd(raw, o)]
           F(f) == [off \in 0..Len(raw) |->
                     IF ParseStops(raw, off) THEN [msgs |-> <<>>, off |-> off]
                     ELSE IF ~HeadIsMsg(raw, off) THEN f[off + 1]
                     ELSE [f[MsgEnd(raw, off)] EXCEPT !.msgs = <<MsgAt(raw, off)>> \o @]]
<1>1. n \in Nat
  OBVIOUS
<1>2. \A o \in 0..n : o \notin stop => o + 1 \in (o + 1)..n /\ (o \notin skip => nxt[o] \in (o + 1)..n)
  <2> SUFFICES ASSUME NEW o \in 0..n, ~ParseStops(raw, o)
               PROVE  o + 1 \in (o + 1)..n /\ (HeadIsMsg(raw, o) => MsgEnd(raw, o) \in (o + 1)..n)
    OBVIOUS
  <2>1. o + 4 <= n
    BY DEF ParseStops, PTunHdrLen
  <2>2. LenAt(raw, o + 3) \in Nat
    BY <2>1, LenAtNat
  <2>3. QED
    BY <2>1, <2>2 DEF ParseStops, MsgEnd, PTunHdrLen
<1>3. PICK f : IsParseFcn(f, n, stop, skip, msg, nxt)
  <2> HIDE DEF n, stop, skip, msg, nxt
  <2>1. QED
    BY <1>1, <1>2, ParseFcn
<1>4. f = F(f)
  <2>1. \A o \in 0..n : (o \in stop <=> ParseStops(raw, o)) /\ (o \in skip <=> ~HeadIsMsg(raw, o))
                        /\ msg[o] = MsgAt(raw, o) /\ nxt[o] = MsgEnd(raw, o)
    BY Zenon
  <2> HIDE DEF stop, skip, msg, nxt
  <2>2. QED
    BY <1>3, <2>1 DEF IsParseFcn
<1>5. ParseFrom(raw) = CHOOSE g : g = [off \in 0..Len(raw) |->
        IF off + PTunHdrLen > Len(raw) THEN [msgs |-> <<>>, off |-> off]
        ELSE IF HeadIsMsg(raw, off)
             THEN IF MsgEnd(raw, off) > Len(raw) THEN [msgs |-> <<>>, off |-> off]
                  ELSE IF HeadIsData(raw, off)
                       THEN [g[MsgEnd(raw, off)] EXCEPT !.msgs =
                              <<DataMsg(raw[off + 2], Slice(raw, off + PTunHdrLen, LenAt(raw, off + 3)))>> \o @]
                       ELSE [g[MsgEnd(raw, off)] EXCEPT !.msgs =
                              <<CtrlMsg(raw[off + 1], Slice(raw, off + PTunHdrLen, LenAt(raw, off + 3)))>> \o @]
             ELSE g[off + 1]]
  BY DEF ParseFrom, HeadIsMsg, HeadIsData, MsgEnd
<1>6. ParseFrom(raw) = CHOOSE g : g = F(g)
  BY <1>5 DEF ParseStops, MsgAt
<1> HIDE DEF F
<1>7. ParseFrom(raw) = F(ParseFrom(raw))
  BY <1>4, <1>6
<1>8. QED
  BY <1>7 DEF F

-----------------------------------------------------------------------------
(* Messages in the stream.                                                 *)

(* What a slice is.                                                        *)
LEMMA SliceOf ==
  ASSUME NEW T, NEW s \in Seq(T), NEW off \in Nat, NEW k \in Nat, off + k <= Len(s)
  PROVE  /\ Slice(s, off, k) \in Seq(T) /\ Len(Slice(s, off, k)) = k
         /\ \A i \in 1..k : Slice(s, off, k)[i] = s[off + i]
<1>1. \A i \in (off + 1)..(off + k) : s[i] \in T
  OBVIOUS
<1>2. off + 1 \in Int /\ off + k \in Int
  OBVIOUS
<1>3. /\ SubSeq(s, off + 1, off + k) \in Seq(T)
      /\ Len(SubSeq(s, off + 1, off + k)) =
           IF off + 1 <= off + k THEN (off + k) - (off + 1) + 1 ELSE 0
      /\ \A i \in 1..((off + k) - (off + 1) + 1) :
           SubSeq(s, off + 1, off + k)[i] = s[(off + 1) + i - 1]
  BY <1>1, <1>2, SubSeqProperties
<1>4. /\ (off + k) - (off + 1) + 1 = k /\ (IF off + 1 <= off + k THEN k ELSE 0) = k
      /\ \A i \in 1..k : (off + 1) + i - 1 = off + i
  OBVIOUS
<1>5. QED
  BY <1>3, <1>4 DEF Slice

(* The k bytes of s after a are those of t after b.                        *)
SameBytes(s, a, t, b, k) == \A i \in 1..k : s[a + i] = t[b + i]

(* Then the slices are equal.                                              *)
LEMMA SliceSame ==
  ASSUME NEW T, NEW s \in Seq(T), NEW t \in Seq(T), NEW a \in Nat, NEW b \in Nat, NEW k \in Nat,
         a + k <= Len(s), b + k <= Len(t), SameBytes(s, a, t, b, k)
  PROVE  Slice(s, a, k) = Slice(t, b, k)
<1>1. /\ Slice(s, a, k) \in Seq(T) /\ Len(Slice(s, a, k)) = k
      /\ \A i \in 1..k : Slice(s, a, k)[i] = s[a + i]
  BY SliceOf
<1>2. /\ Slice(t, b, k) \in Seq(T) /\ Len(Slice(t, b, k)) = k
      /\ \A i \in 1..k : Slice(t, b, k)[i] = t[b + i]
  BY SliceOf
<1>3. \A i \in 1..k : Slice(s, a, k)[i] = Slice(t, b, k)[i]
  BY <1>1, <1>2 DEF SameBytes
<1>4. QED
  BY <1>1, <1>2, <1>3, SeqEqual

(* Adjacent slices join.                                                   *)
LEMMA SliceCat ==
  ASSUME NEW T, NEW s \in Seq(T), NEW x \in Nat, NEW j \in Nat, NEW k \in Nat, x + j + k <= Len(s)
  PROVE  Slice(s, x, j) \o Slice(s, x + j, k) = Slice(s, x, j + k)
<1>1. x + 1 \in 1..(Len(s) + 1) /\ x + j \in ((x + 1) - 1)..Len(s) /\ x + j + k \in (x + j)..Len(s)
  OBVIOUS
<1>2. SubSeq(s, x + 1, x + j) \o SubSeq(s, x + j + 1, x + j + k) = SubSeq(s, x + 1, x + j + k)
  BY <1>1, ConcatAdjacentSubSeq
<1>3. x + (j + k) = x + j + k
  OBVIOUS
<1>4. QED
  BY <1>2, <1>3 DEF Slice

(* A chunk says its kind, its channel and its length, and has its data.    *)
LEMMA ChunkOf ==
  ASSUME NEW m, m.type \in Byte, m.chan \in Byte, m.data \in Seq(Byte), Len(m.data) < Base * Base
  PROVE  /\ Chunk(m) \in Seq(Byte) /\ Len(Chunk(m)) = 4 + Len(m.data)
         /\ Chunk(m)[1] = m.type /\ Chunk(m)[2] = m.chan
         /\ Chunk(m)[3] + Base * Chunk(m)[4] = Len(m.data)
         /\ \A i \in 1..Len(m.data) : Chunk(m)[4 + i] = m.data[i]
<1>1. PICK h : h = <<m.type, m.chan>> \o Len16(Len(m.data))
  OBVIOUS
<1>2. PICK lo : lo = Len(m.data) % Base
  OBVIOUS
<1>3. PICK hi : hi = (Len(m.data) \div Base) % Base
  OBVIOUS
<1>4. lo \in Byte /\ hi \in Byte /\ lo + Base * hi = Len(m.data) /\ Len(m.data) \in Nat
  BY <1>2, <1>3, LenBytes
<1>5. /\ h = <<m.type, m.chan>> \o <<lo, hi>>
      /\ <<m.type, m.chan>> \in Seq(Byte) /\ <<lo, hi>> \in Seq(Byte)
  BY <1>1, <1>2, <1>3, <1>4 DEF Len16
<1>6. h \in Seq(Byte) /\ Len(h) = 4 /\ h[1] = m.type /\ h[2] = m.chan /\ h[3] = lo /\ h[4] = hi
  <2>1. /\ h \in Seq(Byte) /\ Len(h) = 2 + 2
        /\ \A i \in 1..4 : h[i] = IF i <= 2 THEN <<m.type, m.chan>>[i] ELSE <<lo, hi>>[i - 2]
    BY <1>5, ConcatProperties
  <2>2. QED
    BY <2>1
<1>7. Chunk(m) = h \o m.data
  BY <1>1 DEF Chunk
<1>8. /\ h \o m.data \in Seq(Byte) /\ Len(h \o m.data) = 4 + Len(m.data)
      /\ \A i \in 1..(4 + Len(m.data)) : (h \o m.data)[i] = IF i <= 4 THEN h[i] ELSE m.data[i - 4]
  <2>1. /\ h \o m.data \in Seq(Byte) /\ Len(h \o m.data) = Len(h) + Len(m.data)
        /\ \A i \in 1..(Len(h) + Len(m.data)) :
             (h \o m.data)[i] = IF i <= Len(h) THEN h[i] ELSE m.data[i - Len(h)]
    BY <1>6, ConcatProperties
  <2>2. QED
    BY <1>6, <2>1
<1>9. /\ 1 \in 1..(4 + Len(m.data)) /\ 2 \in 1..(4 + Len(m.data))
      /\ 3 \in 1..(4 + Len(m.data)) /\ 4 \in 1..(4 + Len(m.data))
      /\ \A i \in 1..Len(m.data) : 4 + i \in 1..(4 + Len(m.data)) /\ ~(4 + i <= 4) /\ (4 + i) - 4 = i
  BY <1>4
<1>10. QED
  BY <1>4, <1>6, <1>7, <1>8, <1>9

(* What MessageAssumption says of a message.                               *)
LEMMA MessageOf ==
  ASSUME NEW m \in Message
  PROVE  /\ m.type \in Byte /\ m.chan \in Byte /\ m.data \in Seq(Byte) /\ Len(m.data) < Base * Base
         /\ Len(m.data) \in Nat
         /\ \/ m = DataMsg(m.chan, m.data) /\ IsData(m.type, m.chan, Len(m.data))
            \/ m = CtrlMsg(m.type, m.data) /\ IsCtrl(m.type, m.chan, Len(m.data))
<1>1. m.data \in Seq(Byte) /\ m.chan \in Byte
  BY MessageAssumption
<1>2. \/ m = DataMsg(m.chan, m.data) /\ IsData(m.type, m.chan, Len(m.data))
      \/ m = CtrlMsg(m.type, m.data) /\ IsCtrl(m.type, m.chan, Len(m.data))
  BY MessageAssumption
<1>3. m.type \in Byte
  BY <1>2, FramingAssumption DEF IsData, IsCtrl, Byte
<1>4. Base * Base \in Nat
  BY FramingAssumption
<1>5. Len(m.data) < Base * Base /\ Len(m.data) \in Nat
  BY <1>1, <1>2, <1>4, FramingAssumption DEF IsData, IsCtrl
<1>6. QED
  BY <1>1, <1>2, <1>3, <1>5


(* The bytes of a list of messages are the chunks one after the other.     *)
LEMMA EncodedOf ==
  /\ Encoded(<<>>) = <<>>
  /\ \A m \in Message : Encoded(<<m>>) = Chunk(m)
  /\ \A a \in Seq(Message) : Encoded(a) \in Seq(Byte)
  /\ \A a, b \in Seq(Message) : Encoded(a \o b) = Encoded(a) \o Encoded(b)
<1>1. PICK g : g = [m \in Message |-> Chunk(m)]
  OBVIOUS
<1>2. g \in [Message -> Seq(Byte)] /\ \A m \in Message : g[m] = Chunk(m)
  BY <1>1, MessageOf, ChunkOf
<1>3. ASSUME NEW a \in Seq(Message)
      PROVE  Encoded(a) = FlatMap(g, a)
  <2>1. \A i \in DOMAIN a : g[a[i]] = Chunk(a[i])
    <3>1. \A i \in DOMAIN a : a[i] \in Message
      OBVIOUS
    <3>2. QED
      BY <1>2, <3>1, Zenon
  <2>2. [i \in DOMAIN a |-> g[a[i]]] = [i \in DOMAIN a |-> Chunk(a[i])]
    BY <2>1
  <2>3. QED
    BY <2>2 DEF Encoded, FlatMap
<1>4. /\ FlatMap(g, <<>>) = <<>>
      /\ \A m \in Message : FlatMap(g, <<m>>) = g[m]
      /\ \A a \in Seq(Message) : FlatMap(g, a) \in Seq(Byte)
      /\ \A a, b \in Seq(Message) : FlatMap(g, a \o b) = FlatMap(g, a) \o FlatMap(g, b)
  BY <1>2, FlatMapOf
<1>5. <<>> \in Seq(Message) /\ (\A m \in Message : <<m>> \in Seq(Message))
      /\ \A a, b \in Seq(Message) : a \o b \in Seq(Message)
  OBVIOUS
<1>6. QED
  BY <1>2, <1>3, <1>4, <1>5

(* The bytes of a list of messages that go to channel c.                   *)
LEMMA RoutedOf ==
  ASSUME NEW c
  PROVE  /\ RoutedTo(c, <<>>) = <<>>
         /\ \A a \in Seq(Message) : RoutedTo(c, a) \in Seq(Byte)
         /\ \A a, b \in Seq(Message) : RoutedTo(c, a \o b) = RoutedTo(c, a) \o RoutedTo(c, b)
<1> DEFINE V(m) == IF m.type = DataType /\ m.chan = c THEN m.data ELSE <<>>
<1>1. PICK g : g = [m \in Message |-> V(m)]
  OBVIOUS
<1>2. g \in [Message -> Seq(Byte)] /\ \A m \in Message : g[m] = V(m)
  <2>1. \A m \in Message : V(m) \in Seq(Byte)
    BY MessageOf
  <2> HIDE DEF V
  <2>2. QED
    BY <1>1, <2>1
<1>3. ASSUME NEW a \in Seq(Message)
      PROVE  RoutedTo(c, a) = FlatMap(g, a)
  <2>1. \A i \in DOMAIN a : g[a[i]] = V(a[i])
    <3> HIDE DEF V
    <3>1. QED
      BY <1>2
  <2>2. [i \in DOMAIN a |-> g[a[i]]] = [i \in DOMAIN a |-> V(a[i])]
    <3> HIDE DEF V
    <3>1. QED
      BY <2>1
  <2>3. QED
    BY <2>2, Zenon DEF RoutedTo, FlatMap
<1>4. /\ FlatMap(g, <<>>) = <<>>
      /\ \A a \in Seq(Message) : FlatMap(g, a) \in Seq(Byte)
      /\ \A a, b \in Seq(Message) : FlatMap(g, a \o b) = FlatMap(g, a) \o FlatMap(g, b)
  BY <1>2, FlatMapOf
<1>5. <<>> \in Seq(Message) /\ \A a, b \in Seq(Message) : a \o b \in Seq(Message)
  OBVIOUS
<1>6. QED
  BY <1>3, <1>4, <1>5

(* Where the r-th message of s ends.                                       *)
Off(s, r) == Len(Encoded(SubSeq(s, 1, r)))

(* The chunk of each message lies between its offset and the next.         *)
LEMMA Offsets ==
  ASSUME NEW s \in Seq(Message)
  PROVE  /\ Off(s, 0) = 0 /\ Off(s, Len(s)) = Len(Encoded(s))
         /\ \A r \in 0..Len(s) : /\ Off(s, r) \in 0..Len(Encoded(s))
                                 /\ Encoded(SubSeq(s, 1, r)) = SubSeq(Encoded(s), 1, Off(s, r))
         /\ \A r \in 0..(Len(s) - 1) :
              /\ Off(s, r + 1) = Off(s, r) + 4 + Len(s[r + 1].data)
              /\ \A j \in 1..(4 + Len(s[r + 1].data)) : Encoded(s)[Off(s, r) + j] = Chunk(s[r + 1])[j]
<1>1. Encoded(s) \in Seq(Byte) /\ Len(Encoded(s)) \in Nat /\ Len(s) \in Nat
  BY EncodedOf
<1>2. Off(s, 0) = 0 /\ Off(s, Len(s)) = Len(Encoded(s))
  <2>1. SubSeq(s, 1, 0) = <<>> /\ SubSeq(s, 1, Len(s)) = s
    BY SubSeqFull
  <2>2. Encoded(SubSeq(s, 1, 0)) = <<>> /\ Encoded(SubSeq(s, 1, Len(s))) = Encoded(s)
    BY <2>1, EncodedOf
  <2>3. QED
    BY <2>2 DEF Off
<1>3. ASSUME NEW r \in 0..Len(s)
      PROVE  /\ SubSeq(s, 1, r) \in Seq(Message) /\ SubSeq(s, r + 1, Len(s)) \in Seq(Message)
             /\ Encoded(SubSeq(s, 1, r)) \in Seq(Byte) /\ Encoded(SubSeq(s, r + 1, Len(s))) \in Seq(Byte)
             /\ Encoded(s) = Encoded(SubSeq(s, 1, r)) \o Encoded(SubSeq(s, r + 1, Len(s)))
  <2>1. SubSeq(s, 1, r) \in Seq(Message)
    BY PrefixOf
  <2>2. SubSeq(s, r + 1, Len(s)) \in Seq(Message)
    OBVIOUS
  <2>3. 1 \in 1..(Len(s) + 1) /\ r \in (1 - 1)..Len(s) /\ Len(s) \in r..Len(s)
    BY <1>1
  <2>4. SubSeq(s, 1, r) \o SubSeq(s, r + 1, Len(s)) = SubSeq(s, 1, Len(s))
    BY <2>3, ConcatAdjacentSubSeq
  <2>5. SubSeq(s, 1, Len(s)) = s
    BY SubSeqFull
  <2>6. QED
    BY <2>1, <2>2, <2>4, <2>5, EncodedOf
<1>4. ASSUME NEW a \in Seq(Byte), NEW b \in Seq(Byte)
      PROVE  /\ Len(a) \in 0..Len(a \o b) /\ SubSeq(a \o b, 1, Len(a)) = a
             /\ \A j \in 1..Len(a) : (a \o b)[j] = a[j]
  <2>1. /\ a \o b \in Seq(Byte) /\ Len(a \o b) = Len(a) + Len(b) /\ Len(a) \in Nat /\ Len(b) \in Nat
        /\ \A i \in 1..(Len(a) + Len(b)) : (a \o b)[i] = IF i <= Len(a) THEN a[i] ELSE b[i - Len(a)]
    BY ConcatProperties
  <2>2. Len(a) \in 0..Len(a \o b) /\ \A j \in 1..Len(a) : (a \o b)[j] = a[j]
    BY <2>1
  <2>3. /\ SubSeq(a \o b, 1, Len(a)) \in Seq(Byte) /\ Len(SubSeq(a \o b, 1, Len(a))) = Len(a)
        /\ \A i \in 1..Len(a) : SubSeq(a \o b, 1, Len(a))[i] = (a \o b)[i]
    BY <2>1, <2>2, PrefixOf
  <2>4. QED
    BY <2>2, <2>3, SeqEqual
<1>5. ASSUME NEW r \in 0..Len(s)
      PROVE  /\ Off(s, r) \in 0..Len(Encoded(s))
             /\ Encoded(SubSeq(s, 1, r)) = SubSeq(Encoded(s), 1, Off(s, r))
             /\ \A j \in 1..Off(s, r) : Encoded(s)[j] = Encoded(SubSeq(s, 1, r))[j]
  BY <1>3, <1>4 DEF Off
<1>6. ASSUME NEW r \in 0..(Len(s) - 1)
      PROVE  /\ Off(s, r + 1) = Off(s, r) + 4 + Len(s[r + 1].data)
             /\ \A j \in 1..(4 + Len(s[r + 1].data)) : Encoded(s)[Off(s, r) + j] = Chunk(s[r + 1])[j]
  <2>1. PICK m : m = s[r + 1]
    OBVIOUS
  <2>2. PICK a : a = Encoded(SubSeq(s, 1, r))
    OBVIOUS
  <2>3. PICK c : c = Chunk(m)
    OBVIOUS
  <2>4. r \in 0..Len(s) /\ r + 1 \in 0..Len(s) /\ r + 1 \in 1..Len(s) /\ m \in Message
    BY <1>1, <2>1
  <2>5. SubSeq(s, 1, r + 1) = SubSeq(s, 1, r) \o <<m>>
    <3>1. 1 \in 1..Len(s) /\ r + 1 \in 1..Len(s) /\ (r + 1) - 1 = r
      BY <1>1
    <3>2. QED
      BY <2>1, <3>1, SubSeqRecursiveSecond
  <2>6. c \in Seq(Byte) /\ Len(c) = 4 + Len(m.data) /\ Len(m.data) \in Nat
    BY <2>3, <2>4, MessageOf, ChunkOf
  <2>7. SubSeq(s, 1, r) \in Seq(Message) /\ a \in Seq(Byte) /\ Len(a) \in Nat
    BY <1>3, <2>2, <2>4
  <2>8. Encoded(SubSeq(s, 1, r + 1)) = a \o c
    <3>1. <<m>> \in Seq(Message)
      BY <2>4
    <3>2. QED
      BY <2>2, <2>3, <2>4, <2>5, <2>7, <3>1, EncodedOf
  <2>9. /\ Len(a \o c) = Len(a) + Len(c)
        /\ \A i \in 1..(Len(a) + Len(c)) : (a \o c)[i] = IF i <= Len(a) THEN a[i] ELSE c[i - Len(a)]
    BY <2>6, <2>7, ConcatProperties
  <2>10. Len(a) = Off(s, r) /\ Off(s, r + 1) = Off(s, r) + 4 + Len(m.data)
    <3>1. Len(a) = Off(s, r)
      BY <2>2 DEF Off
    <3>2. Off(s, r + 1) = Len(a \o c)
      BY <2>8, Zenon DEF Off
    <3>3. Off(s, r + 1) = Len(a) + (4 + Len(m.data))
      BY <2>6, <2>9, <3>2, Zenon
    <3>4. \A x, y \in Nat : x + (4 + y) = x + 4 + y
      OBVIOUS
    <3>5. QED
      BY <2>6, <2>7, <3>1, <3>3, <3>4, Zenon
  <2>11. ASSUME NEW j \in 1..(4 + Len(m.data))
         PROVE  Encoded(s)[Off(s, r) + j] = c[j]
    <3>1. /\ Off(s, r) + j \in 1..Off(s, r + 1) /\ Off(s, r) + j \in 1..(Len(a) + Len(c))
          /\ ~(Off(s, r) + j <= Len(a)) /\ (Off(s, r) + j) - Len(a) = j
      BY <2>6, <2>7, <2>10
    <3>2. Encoded(s)[Off(s, r) + j] = (a \o c)[Off(s, r) + j]
      BY <1>5, <2>4, <2>8, <3>1
    <3>3. QED
      BY <2>9, <3>1, <3>2
  <2>12. QED
    BY <2>1, <2>3, <2>10, <2>11
<1>7. QED
  BY <1>2, <1>5, <1>6

(* The last message that is complete in the first p bytes.                 *)
LEMMA LastComplete ==
  ASSUME NEW s \in Seq(Message), NEW r \in 0..Len(s), NEW p \in Off(s, r)..Len(Encoded(s))
  PROVE  \E q \in r..Len(s) : Off(s, q) <= p /\ (q < Len(s) => p < Off(s, q + 1))
<1> DEFINE S == {q \in r..Len(s) : q = Len(s) \/ p < Off(s, q + 1)}
<1>1. Len(s) \in Nat /\ Len(Encoded(s)) \in Nat /\ Encoded(s) \in Seq(Byte) /\ Off(s, r) \in Nat
  BY EncodedOf, Offsets
<1>2. S \in SUBSET Nat /\ Len(s) \in S
  BY <1>1
<1>3. PICK q \in S : \A k \in S : q <= k
  <2> HIDE DEF S
  <2>1. QED
    BY <1>2, NatLeast
<1>4. Off(s, q) <= p
  <2>1. CASE q = r
    BY <1>1, <2>1
  <2>2. CASE q # r
    <3>1. q - 1 \in r..Len(s) /\ q - 1 < q /\ (q - 1) + 1 = q /\ q - 1 # Len(s) /\ q \in 0..Len(s)
      BY <1>1, <2>2
    <3>2. q - 1 \notin S
      <4>1. ~(q <= q - 1)
        BY <1>1, <3>1
      <4> HIDE DEF S
      <4>2. QED
        BY <1>3, <4>1
    <3>3. ~(p < Off(s, q)) /\ Off(s, q) \in Nat
      BY <3>1, <3>2, Offsets
    <3>4. QED
      BY <1>1, <3>3
  <2>3. QED
    BY <2>1, <2>2
<1>5. QED
  BY <1>3, <1>4

(* Offsets grow.                                                           *)
LEMMA OffMono ==
  ASSUME NEW s \in Seq(Message), NEW i \in 0..Len(s), NEW j \in i..Len(s)
  PROVE  Off(s, i) \in Nat /\ Off(s, j) \in Nat /\ Off(s, i) <= Off(s, j)
<1>1. Len(s) \in Nat /\ i \in Nat
  OBVIOUS
<1>2. \A x \in 0..Len(s) : Off(s, x) \in Nat
  BY Offsets, EncodedOf
<1> DEFINE S == {d \in Nat : i + d <= Len(s) => Off(s, i) <= Off(s, i + d)}
<1>3. 0 \in S
  <2>1. i + 0 = i /\ Off(s, i) \in Nat
    BY <1>1, <1>2
  <2>2. QED
    BY <2>1
<1>4. ASSUME NEW d \in Nat, d \in S
      PROVE  d + 1 \in S
  <2> SUFFICES ASSUME i + (d + 1) <= Len(s)
               PROVE  Off(s, i) <= Off(s, i + (d + 1))
    OBVIOUS
  <2>1. PICK x : x = i + d
    OBVIOUS
  <2>2. x \in 0..(Len(s) - 1) /\ i + (d + 1) = x + 1 /\ x <= Len(s) /\ x \in 0..Len(s) /\ x + 1 \in 1..Len(s)
    BY <1>1, <2>1
  <2>3. s[x + 1] \in Message
    BY <2>2
  <2>4. Off(s, x + 1) = Off(s, x) + 4 + Len(s[x + 1].data)
    BY <2>2, Offsets
  <2>5. Len(s[x + 1].data) \in Nat
    BY <2>3, MessageOf
  <2>6. Off(s, i) <= Off(s, x)
    BY <1>4, <2>1, <2>2
  <2>7. Off(s, i) \in Nat /\ Off(s, x) \in Nat
    BY <1>2, <2>2
  <2>8. QED
    BY <2>2, <2>4, <2>5, <2>6, <2>7
<1>5. Nat \subseteq S
  <2> HIDE DEF S
  <2>1. QED
    BY <1>3, <1>4, SetInduction
<1>6. j - i \in Nat /\ i + (j - i) = j
  BY <1>1
<1>7. QED
  BY <1>1, <1>2, <1>5, <1>6

(* The four bytes in front of a message are read back.                     *)
LEMMA HeadAt ==
  ASSUME NEW raw \in Seq(Byte), NEW m \in Message, NEW o \in Nat, o + 4 <= Len(raw),
         \A j \in 1..4 : raw[o + j] = Chunk(m)[j]
  PROVE  /\ raw[o + 1] = m.type /\ raw[o + 2] = m.chan /\ LenAt(raw, o + 3) = Len(m.data)
         /\ HeadIsMsg(raw, o) /\ MsgEnd(raw, o) = o + 4 + Len(m.data)
         /\ HeadIsData(raw, o) <=> m = DataMsg(m.chan, m.data)
<1>1. /\ Chunk(m)[1] = m.type /\ Chunk(m)[2] = m.chan
      /\ Chunk(m)[3] + Base * Chunk(m)[4] = Len(m.data)
  BY MessageOf, ChunkOf
<1>2. o + 3 + 1 = o + 4
  OBVIOUS
<1>3. raw[o + 1] = m.type /\ raw[o + 2] = m.chan /\ LenAt(raw, o + 3) = Len(m.data)
  BY <1>1, <1>2 DEF LenAt
<1>4. MsgEnd(raw, o) = o + 4 + Len(m.data)
  BY <1>3 DEF MsgEnd, PTunHdrLen
<1>5. HeadIsData(raw, o) <=> IsData(m.type, m.chan, Len(m.data))
  BY <1>3 DEF HeadIsData
<1>6. HeadIsMsg(raw, o)
  BY <1>3, MessageOf DEF HeadIsMsg, HeadIsData
<1>7. IsData(m.type, m.chan, Len(m.data)) <=> m = DataMsg(m.chan, m.data)
  <2>1. CASE m = DataMsg(m.chan, m.data) /\ IsData(m.type, m.chan, Len(m.data))
    BY <2>1
  <2>2. CASE m = CtrlMsg(m.type, m.data) /\ IsCtrl(m.type, m.chan, Len(m.data))
    <3>1. m.type # DataType
      BY <2>2, FramingAssumption DEF IsCtrl
    <3>2. m = DataMsg(m.chan, m.data) => m.type = DataType
      BY DEF DataMsg
    <3>3. QED
      BY <3>1, <3>2 DEF IsData
  <2>3. QED
    BY <2>1, <2>2, MessageOf
<1>8. QED
  BY <1>3, <1>4, <1>5, <1>6, <1>7

(* A message whose bytes are all there is read back whole.                 *)
LEMMA WholeAt ==
  ASSUME NEW raw \in Seq(Byte), NEW m \in Message, NEW o \in Nat, o + 4 + Len(m.data) <= Len(raw),
         \A j \in 1..(4 + Len(m.data)) : raw[o + j] = Chunk(m)[j]
  PROVE  MsgAt(raw, o) = m
<1>1. PICK d : d = m.data
  OBVIOUS
<1>2. d \in Seq(Byte) /\ Len(d) \in Nat
  BY <1>1, MessageOf
<1>3. o + 4 <= Len(raw) /\ o + 4 + Len(d) <= Len(raw) /\ o + 4 \in Nat /\ \A j \in 1..4 : j \in 1..(4 + Len(d))
  <2>1. PICK k \in Nat, n \in Nat : k = Len(d) /\ n = Len(raw)
    BY <1>2
  <2>2. o + 4 + k <= n
    BY <1>1, <2>1
  <2>3. o + 4 <= n /\ o + 4 \in Nat /\ \A j \in 1..4 : j \in 1..(4 + k)
    BY <2>2
  <2>4. QED
    BY <2>1, <2>2, <2>3
<1>4. \A j \in 1..4 : raw[o + j] = Chunk(m)[j]
  BY <1>1, <1>3
<1>5. /\ raw[o + 1] = m.type /\ raw[o + 2] = m.chan /\ LenAt(raw, o + 3) = Len(d)
      /\ HeadIsData(raw, o) <=> m = DataMsg(m.chan, m.data)
  BY <1>1, <1>3, <1>4, HeadAt
<1>6. Slice(raw, o + 4, Len(d)) = d
  <2>1. PICK e : e = Slice(raw, o + 4, Len(d))
    OBVIOUS
  <2>2. e \in Seq(Byte) /\ Len(e) = Len(d) /\ \A i \in 1..Len(d) : e[i] = raw[(o + 4) + i]
    <3>1. PICK b \in Nat : b = o + 4
      BY <1>3
    <3>2. PICK n \in Nat : n = Len(d)
      BY <1>2
    <3>3. b + n <= Len(raw) /\ e = Slice(raw, b, n)
      BY <1>3, <2>1, <3>1, <3>2
    <3>4. e \in Seq(Byte) /\ Len(e) = n /\ \A i \in 1..n : e[i] = raw[b + i]
      BY <3>3, SliceOf
    <3>5. QED
      BY <3>1, <3>2, <3>4
  <2>3. \A i \in 1..Len(d) : Chunk(m)[4 + i] = d[i]
    BY <1>1, MessageOf, ChunkOf
  <2>4. \A i \in 1..Len(d) : 4 + i \in 1..(4 + Len(d)) /\ (o + 4) + i = o + (4 + i)
    BY <1>2
  <2>5. \A i \in 1..Len(d) : e[i] = d[i]
    BY <1>1, <2>2, <2>3, <2>4
  <2>6. QED
    BY <1>2, <2>1, <2>2, <2>5, SeqEqual
<1>7. MsgAt(raw, o) = IF HeadIsData(raw, o) THEN DataMsg(m.chan, m.data) ELSE CtrlMsg(m.type, m.data)
  BY <1>1, <1>5, <1>6 DEF MsgAt, PTunHdrLen
<1>8. m = DataMsg(m.chan, m.data) \/ m = CtrlMsg(m.type, m.data)
  BY MessageOf
<1>9. QED
  BY <1>5, <1>7, <1>8

(* What the EXCEPT of ParseFrom does.                                      *)
LEMMA Prepend ==
  ASSUME NEW u, NEW v, NEW m, NEW x, x = [msgs |-> u, off |-> v]
  PROVE  [x EXCEPT !.msgs = <<m>> \o @] = [msgs |-> <<m>> \o u, off |-> v]
<1>1. PICK w : w = <<m>> \o u
  OBVIOUS
<1>2. x.msgs = u
  OBVIOUS
<1>3. [x EXCEPT !.msgs = <<m>> \o @] = [x EXCEPT !.msgs = w]
  BY <1>1, <1>2, Zenon
<1>4. [x EXCEPT !.msgs = w] = [msgs |-> w, off |-> v]
  OBVIOUS
<1>5. QED
  BY <1>1, <1>3, <1>4, Zenon

(* Parse gives back the messages that are complete, and where they end.    *)
LEMMA Parsed ==
  ASSUME NEW s \in Seq(Message), NEW r \in 0..Len(s), NEW q \in r..Len(s),
         NEW p \in Off(s, r)..Len(Encoded(s)),
         Off(s, q) <= p, q < Len(s) => p < Off(s, q + 1),
         NEW raw, raw = Slice(Encoded(s), Off(s, r), p - Off(s, r))
  PROVE  Parse(raw) = [msgs |-> SubSeq(s, r + 1, q), off |-> Off(s, q) - Off(s, r)]
<1>1. PICK e : e = Encoded(s)
  OBVIOUS
<1>2. PICK a : a = Off(s, r)
  OBVIOUS
<1>3. PICK b : b = Off(s, q)
  OBVIOUS
<1>4. /\ Len(s) \in Nat /\ q \in 0..Len(s) /\ e \in Seq(Byte) /\ Len(e) \in Nat
      /\ a \in Nat /\ b \in Nat /\ a <= b /\ b <= p /\ p \in Nat /\ p <= Len(e) /\ p - a \in Nat
  <2>1. Len(s) \in Nat /\ q \in 0..Len(s) /\ q \in r..Len(s)
    OBVIOUS
  <2>2. e \in Seq(Byte) /\ Len(e) \in Nat
    BY <1>1, EncodedOf
  <2>3. a \in Nat /\ b \in Nat /\ a <= b
    BY <1>2, <1>3, OffMono
  <2>4. QED
    BY <1>1, <1>2, <1>3, <2>1, <2>2, <2>3
<1>5. raw \in Seq(Byte) /\ Len(raw) = p - a /\ \A k \in 1..(p - a) : raw[k] = e[a + k]
  <2>1. a + (p - a) <= Len(e) /\ raw = Slice(e, a, p - a)
    BY <1>1, <1>2, <1>4
  <2>2. PICK n \in Nat, c \in Nat, f \in Seq(Byte) : n = p - a /\ c = a /\ f = e
    BY <1>4
  <2>3. c + n <= Len(f) /\ raw = Slice(f, c, n)
    BY <2>1, <2>2
  <2>4. /\ Slice(f, c, n) \in Seq(Byte) /\ Len(Slice(f, c, n)) = n
        /\ \A k \in 1..n : Slice(f, c, n)[k] = f[c + k]
    BY <2>3, SliceOf
  <2>5. QED
    BY <2>2, <2>3, <2>4
<1>6. ASSUME NEW i \in r..(Len(s) - 1)
      PROVE  /\ s[i + 1] \in Message /\ Len(s[i + 1].data) \in Nat
             /\ i \in 0..Len(s) /\ i + 1 \in 0..Len(s)
             /\ Off(s, i) \in Nat /\ a <= Off(s, i)
             /\ Off(s, i + 1) = Off(s, i) + 4 + Len(s[i + 1].data)
             /\ \A j \in 1..(4 + Len(s[i + 1].data)) : e[Off(s, i) + j] = Chunk(s[i + 1])[j]
  <2>1. /\ i \in 0..(Len(s) - 1) /\ i + 1 \in 1..Len(s) /\ i \in 0..Len(s) /\ i + 1 \in 0..Len(s)
        /\ i \in r..Len(s)
    BY <1>4
  <2>2. s[i + 1] \in Message
    BY <2>1
  <2>3. Len(s[i + 1].data) \in Nat
    BY <2>2, MessageOf
  <2>4. Off(s, i) \in Nat /\ a <= Off(s, i)
    BY <1>2, <2>1, OffMono
  <2>5. QED
    BY <1>1, <2>1, <2>2, <2>3, <2>4, Offsets
(* The bytes at the place of message i + 1, as far as they are there.      *)
<1>7. ASSUME NEW i \in r..(Len(s) - 1), NEW k \in 0..(4 + Len(s[i + 1].data)), Off(s, i) + k <= p
      PROVE  \A j \in 1..k : raw[(Off(s, i) - a) + j] = Chunk(s[i + 1])[j]
  <2> SUFFICES ASSUME NEW j \in 1..k
               PROVE  raw[(Off(s, i) - a) + j] = Chunk(s[i + 1])[j]
    OBVIOUS
  <2>1. PICK x : x = Off(s, i)
    OBVIOUS
  <2>2. PICK l : l = Len(s[i + 1].data)
    OBVIOUS
  <2>3. x \in Nat /\ a <= x /\ l \in Nat /\ k \in 0..(4 + l) /\ x + k <= p
    BY <1>6, <1>7, <2>1, <2>2
  <2>4. (x - a) + j \in 1..(p - a) /\ a + ((x - a) + j) = x + j /\ j \in 1..(4 + l)
    BY <1>4, <2>3
  <2>5. e[x + j] = Chunk(s[i + 1])[j]
    BY <1>6, <2>1, <2>2, <2>4
  <2>6. QED
    BY <1>5, <2>1, <2>4, <2>5
<1> DEFINE R(i) == [msgs |-> SubSeq(s, i + 1, q), off |-> b - a]
           S == {d \in Nat : d <= q - r => ParseFrom(raw)[Off(s, q - d) - a] = R(q - d)}
<1>8. \A o \in 0..(p - a) : ParseFrom(raw)[o] =
        IF ParseStops(raw, o) THEN [msgs |-> <<>>, off |-> o]
        ELSE IF ~HeadIsMsg(raw, o) THEN ParseFrom(raw)[o + 1]
        ELSE [ParseFrom(raw)[MsgEnd(raw, o)] EXCEPT !.msgs = <<MsgAt(raw, o)>> \o @]
  <2>1. PICK f : f = ParseFrom(raw)
    OBVIOUS
  <2>2. f = [off \in 0..(p - a) |->
           IF ParseStops(raw, off) THEN [msgs |-> <<>>, off |-> off]
           ELSE IF ~HeadIsMsg(raw, off) THEN f[off + 1]
           ELSE [f[MsgEnd(raw, off)] EXCEPT !.msgs = <<MsgAt(raw, off)>> \o @]]
    BY <1>5, <2>1, ParseStep
  <2>3. QED
    BY <2>1, <2>2
<1>9. 0 \in S
  <2>1. q - 0 = q /\ b - a \in 0..(p - a)
    BY <1>4
  <2>2. ParseStops(raw, b - a)
    <3>1. CASE b - a + 4 > p - a
      BY <1>5, <3>1 DEF ParseStops, PTunHdrLen
    <3>2. CASE ~(b - a + 4 > p - a)
      <4>1. q # Len(s)
        <5>1. q = Len(s) => b = Len(e)
          BY <1>1, <1>3, Offsets
        <5>2. QED
          BY <1>4, <3>2, <5>1
      <4>2. PICK m : m = s[q + 1]
        OBVIOUS
      <4>3. q \in r..(Len(s) - 1) /\ 4 \in 0..(4 + Len(m.data)) /\ b + 4 <= p
        <5>1. q \in r..(Len(s) - 1)
          BY <1>4, <4>1
        <5>2. Len(m.data) \in Nat
          BY <1>6, <4>2, <5>1
        <5>3. b + 4 <= p
          BY <1>4, <3>2
        <5>4. QED
          BY <5>1, <5>2, <5>3
      <4>4. m \in Message /\ Len(m.data) \in Nat /\ Off(s, q + 1) = b + 4 + Len(m.data)
        BY <1>3, <1>6, <4>2, <4>3
      <4>5. \A j \in 1..4 : raw[(b - a) + j] = Chunk(m)[j]
        BY <1>3, <1>7, <4>2, <4>3
      <4>6. b - a \in Nat /\ (b - a) + 4 <= Len(raw)
        BY <1>4, <1>5, <3>2
      <4>7. HeadIsMsg(raw, b - a) /\ MsgEnd(raw, b - a) = (b - a) + 4 + Len(m.data)
        BY <1>5, <4>4, <4>5, <4>6, HeadAt
      <4>8. p < Off(s, q + 1)
        BY <1>4, <4>1
      <4>9. PICK l \in Nat : l = Len(m.data)
        BY <4>4
      <4>10. (b - a) + 4 + l > p - a
        <5>1. p < b + 4 + l
          BY <4>4, <4>8, <4>9
        <5>2. \A x, y, z \in Nat : x < y + 4 + l => (y - z) + 4 + l > x - z
          OBVIOUS
        <5>3. QED
          BY <1>4, <5>1, <5>2
      <4>11. QED
        BY <1>5, <4>7, <4>9, <4>10 DEF ParseStops
    <3>3. QED
      BY <3>1, <3>2
  <2>3. SubSeq(s, q + 1, q) = <<>>
    BY <1>4
  <2>4. ParseFrom(raw)[b - a] = R(q)
    BY <1>8, <2>1, <2>2, <2>3
  <2> HIDE DEF R
  <2>5. QED
    BY <1>3, <2>1, <2>4
<1>10. ASSUME NEW d \in Nat, d \in S
       PROVE  d + 1 \in S
  <2> SUFFICES ASSUME d + 1 <= q - r
               PROVE  ParseFrom(raw)[Off(s, q - (d + 1)) - a] = R(q - (d + 1))
    <3> HIDE DEF R
    <3>1. QED
      OBVIOUS
  <2>1. PICK i : i = q - (d + 1)
    OBVIOUS
  <2>2. /\ i \in r..(Len(s) - 1) /\ q - d = i + 1 /\ d <= q - r /\ i + 1 \in 0..Len(s) /\ q \in (i + 1)..Len(s)
        /\ i + 1 \in 1..Len(s) /\ i + 1 <= q /\ q \in 1..Len(s)
    BY <1>4, <2>1
  <2>3. PICK m : m = s[i + 1]
    OBVIOUS
  <2>4. PICK x : x = Off(s, i)
    OBVIOUS
  <2>5. PICK l : l = Len(m.data)
    OBVIOUS
  <2>6. /\ m \in Message /\ l \in Nat /\ x \in Nat /\ a <= x /\ Off(s, i + 1) = x + 4 + l
    BY <1>6, <2>2, <2>3, <2>4, <2>5
  <2>7. x + 4 + l <= b
    <3>1. Off(s, i + 1) <= Off(s, q)
      BY <2>2, OffMono
    <3>2. QED
      BY <1>3, <2>6, <3>1
  <2>8. \A j \in 1..(4 + l) : raw[(x - a) + j] = Chunk(m)[j]
    <3>1. 4 + l \in 0..(4 + l) /\ x + (4 + l) <= p
      BY <1>4, <2>6, <2>7
    <3>2. QED
      BY <1>7, <2>2, <2>3, <2>4, <2>5, <3>1
  <2>9. x - a \in Nat /\ x - a \in 0..(p - a) /\ (x - a) + 4 + l <= Len(raw) /\ (x - a) + 4 <= Len(raw)
        /\ \A j \in 1..4 : j \in 1..(4 + l)
    BY <1>4, <1>5, <2>6, <2>7
  <2>10. HeadIsMsg(raw, x - a) /\ MsgEnd(raw, x - a) = (x - a) + 4 + l
    <3>1. \A j \in 1..4 : raw[(x - a) + j] = Chunk(m)[j]
      BY <2>8, <2>9
    <3>2. HeadIsMsg(raw, x - a) /\ MsgEnd(raw, x - a) = (x - a) + 4 + Len(m.data)
      <4>1. PICK o \in Nat : o = x - a
        BY <2>9
      <4>2. o + 4 <= Len(raw) /\ \A j \in 1..4 : raw[o + j] = Chunk(m)[j]
        BY <2>9, <3>1, <4>1
      <4>3. HeadIsMsg(raw, o) /\ MsgEnd(raw, o) = o + 4 + Len(m.data)
        BY <1>5, <2>6, <4>2, HeadAt
      <4>4. QED
        BY <4>1, <4>3
    <3>3. QED
      BY <2>5, <3>2
  <2>11. MsgAt(raw, x - a) = m
    BY <1>5, <2>5, <2>6, <2>8, <2>9, WholeAt
  <2>12. ~ParseStops(raw, x - a)
    <3>1. ~((x - a) + 4 > Len(raw)) /\ ~((x - a) + 4 + l > Len(raw))
      BY <1>4, <1>5, <2>6, <2>9
    <3>2. QED
      BY <2>10, <3>1 DEF ParseStops, PTunHdrLen
  <2>13. (x - a) + 4 + l = Off(s, i + 1) - a
    BY <1>4, <2>6
  <2>14. ParseFrom(raw)[(x - a) + 4 + l] = R(i + 1)
    <3> HIDE DEF R
    <3>1. QED
      BY <1>10, <2>2, <2>13
  <2>15. ParseFrom(raw)[x - a] = [R(i + 1) EXCEPT !.msgs = <<m>> \o @]
    <3> HIDE DEF R
    <3>1. QED
      <4>1. ParseFrom(raw)[x - a] = [ParseFrom(raw)[MsgEnd(raw, x - a)] EXCEPT !.msgs = <<MsgAt(raw, x - a)>> \o @]
        BY <1>8, <2>9, <2>10, <2>12, Zenon
      <4>2. QED
        BY <2>10, <2>11, <2>14, <4>1, Zenon
  <2>16. SubSeq(s, i + 1, q) = <<m>> \o SubSeq(s, (i + 1) + 1, q)
    BY <2>2, <2>3, SubSeqRecursiveFirst
  <2>17. [R(i + 1) EXCEPT !.msgs = <<m>> \o @] = R(i)
    <3>1. PICK u : u = SubSeq(s, (i + 1) + 1, q)
      OBVIOUS
    <3>2. R(i + 1) = [msgs |-> u, off |-> b - a] /\ R(i) = [msgs |-> <<m>> \o u, off |-> b - a]
      BY <2>16, <3>1, Zenon
    <3> HIDE DEF R
    <3>3. PICK y, v : y = R(i + 1) /\ v = b - a
      OBVIOUS
    <3>4. y = [msgs |-> u, off |-> v]
      BY <3>2, <3>3
    <3>5. [y EXCEPT !.msgs = <<m>> \o @] = [msgs |-> <<m>> \o u, off |-> v]
      BY <3>4, Prepend
    <3>6. QED
      BY <3>2, <3>3, <3>5, Zenon
  <2> HIDE DEF R
  <2>18. QED
    BY <2>1, <2>4, <2>15, <2>17
<1>11. Nat \subseteq S
  <2> HIDE DEF S
  <2>1. QED
    BY <1>9, <1>10, SetInduction
<1>12. q - r \in Nat /\ q - r <= q - r /\ q - (q - r) = r /\ Off(s, r) - a = 0
  BY <1>2, <1>4
<1>13. ParseFrom(raw)[0] = R(r)
  <2> HIDE DEF R
  <2>1. QED
    BY <1>11, <1>12
<1>14. QED
  BY <1>2, <1>3, <1>13 DEF Parse

-----------------------------------------------------------------------------
(* Frames in a datagram.                                                   *)

(* A frame with payload p, as the device sends it.                         *)
FrameOf(p) == [type |-> DataType, seq |-> 0, payload |-> p]

(* The bytes of pt after o are those of FrameOf(p).                        *)
FrameAt(pt, o, p) ==
  /\ o + 5 + Len(p) <= Len(pt)
  /\ pt[o + 1] = Magic /\ pt[o + 2] = DataType /\ pt[o + 5] = 0
  /\ pt[o + 3] + Base * pt[o + 4] = Len(p)
  /\ \A i \in 1..Len(p) : pt[o + 5 + i] = p[i]

(* pt begins with dst.                                                     *)
StartsWith(pt, dst) == \A i \in 1..Len(dst) : pt[i] = dst[i]

(* AppendRDT leaves what is there and adds the bytes of the frame.         *)
LEMMA FrameBytes ==
  ASSUME NEW dst \in Seq(Byte), NEW p \in Seq(Byte), Len(p) < Base * Base, NEW pt, pt = AppendRDT(dst, FrameOf(p))
  PROVE  /\ pt \in Seq(Byte) /\ Len(pt) = Len(dst) + 5 + Len(p)
         /\ StartsWith(pt, dst) /\ FrameAt(pt, Len(dst), p)
<1>1. PICK lo, hi : lo = Len(p) % Base /\ hi = (Len(p) \div Base) % Base
  OBVIOUS
<1>2. lo \in Byte /\ hi \in Byte /\ lo + Base * hi = Len(p) /\ Len(p) \in Nat
  BY <1>1, LenBytes
<1>3. PICK n \in Nat, k \in Nat : n = Len(dst) /\ k = Len(p)
  BY <1>2
<1>4. Magic \in Byte /\ DataType \in Byte /\ 0 \in Byte
  BY FramingAssumption DEF Byte
<1>5. pt = dst \o <<Magic, DataType>> \o <<lo, hi>> \o <<0>> \o p
  BY <1>1 DEF AppendRDT, FrameOf, Len16
<1>6. PICK a : a = dst \o <<Magic, DataType>>
  OBVIOUS
<1>7. PICK b : b = a \o <<lo, hi>>
  OBVIOUS
<1>8. PICK c : c = b \o <<0>>
  OBVIOUS
<1>9. pt = c \o p
  BY <1>5, <1>6, <1>7, <1>8
<1>10. /\ a \in Seq(Byte) /\ Len(a) = n + 2
       /\ \A i \in 1..n : a[i] = dst[i]
       /\ a[n + 1] = Magic /\ a[n + 2] = DataType
  <2>1. <<Magic, DataType>> \in Seq(Byte)
    BY <1>4
  <2>2. /\ a \in Seq(Byte) /\ Len(a) = Len(dst) + 2
        /\ \A i \in 1..(Len(dst) + 2) : a[i] = IF i <= Len(dst) THEN dst[i] ELSE <<Magic, DataType>>[i - Len(dst)]
    BY <1>6, <2>1, ConcatProperties
  <2>3. /\ \A i \in 1..n : i \in 1..(n + 2) /\ i <= n
        /\ n + 1 \in 1..(n + 2) /\ n + 2 \in 1..(n + 2) /\ ~(n + 1 <= n) /\ ~(n + 2 <= n)
        /\ (n + 1) - n = 1 /\ (n + 2) - n = 2
    OBVIOUS
  <2>4. QED
    BY <1>3, <2>2, <2>3
<1>11. /\ b \in Seq(Byte) /\ Len(b) = n + 4
       /\ \A i \in 1..(n + 2) : b[i] = a[i]
       /\ b[n + 3] = lo /\ b[n + 4] = hi
  <2>1. <<lo, hi>> \in Seq(Byte)
    BY <1>2
  <2>2. /\ b \in Seq(Byte) /\ Len(b) = Len(a) + 2
        /\ \A i \in 1..(Len(a) + 2) : b[i] = IF i <= Len(a) THEN a[i] ELSE <<lo, hi>>[i - Len(a)]
    BY <1>7, <1>10, <2>1, ConcatProperties
  <2>3. /\ \A i \in 1..(n + 2) : i \in 1..((n + 2) + 2) /\ i <= n + 2
        /\ n + 3 \in 1..((n + 2) + 2) /\ n + 4 \in 1..((n + 2) + 2) /\ ~(n + 3 <= n + 2) /\ ~(n + 4 <= n + 2)
        /\ (n + 3) - (n + 2) = 1 /\ (n + 4) - (n + 2) = 2 /\ (n + 2) + 2 = n + 4
    OBVIOUS
  <2>4. QED
    BY <1>10, <2>2, <2>3
<1>12. /\ c \in Seq(Byte) /\ Len(c) = n + 5
       /\ \A i \in 1..(n + 4) : c[i] = b[i]
       /\ c[n + 5] = 0
  <2>1. <<0>> \in Seq(Byte)
    BY <1>4
  <2>2. /\ c \in Seq(Byte) /\ Len(c) = Len(b) + 1
        /\ \A i \in 1..(Len(b) + 1) : c[i] = IF i <= Len(b) THEN b[i] ELSE <<0>>[i - Len(b)]
    BY <1>8, <1>11, <2>1, ConcatProperties
  <2>3. /\ \A i \in 1..(n + 4) : i \in 1..((n + 4) + 1) /\ i <= n + 4
        /\ n + 5 \in 1..((n + 4) + 1) /\ ~(n + 5 <= n + 4) /\ (n + 5) - (n + 4) = 1 /\ (n + 4) + 1 = n + 5
    OBVIOUS
  <2>4. QED
    BY <1>11, <2>2, <2>3
<1>13. /\ pt \in Seq(Byte) /\ Len(pt) = n + 5 + k
       /\ \A i \in 1..(n + 5) : pt[i] = c[i]
       /\ \A i \in 1..k : pt[n + 5 + i] = p[i]
  <2>1. /\ pt \in Seq(Byte) /\ Len(pt) = (n + 5) + k
        /\ \A i \in 1..((n + 5) + k) : pt[i] = IF i <= n + 5 THEN c[i] ELSE p[i - (n + 5)]
    <3>1. /\ c \o p \in Seq(Byte) /\ Len(c \o p) = Len(c) + Len(p)
          /\ \A i \in 1..(Len(c) + Len(p)) : (c \o p)[i] = IF i <= Len(c) THEN c[i] ELSE p[i - Len(c)]
      BY <1>12, ConcatProperties
    <3>2. QED
      BY <1>3, <1>9, <1>12, <3>1
  <2>2. /\ \A i \in 1..(n + 5) : i \in 1..((n + 5) + k) /\ i <= n + 5
        /\ \A i \in 1..k : n + 5 + i \in 1..((n + 5) + k) /\ ~(n + 5 + i <= n + 5) /\ (n + 5 + i) - (n + 5) = i
    OBVIOUS
  <2>3. \A i \in 1..k : pt[n + 5 + i] = p[i]
    BY <2>1, <2>2
  <2>4. QED
    BY <2>1, <2>2, <2>3
<1>14. \A i \in 1..(n + 2) : pt[i] = a[i]
  <2>1. \A i \in 1..(n + 2) : i \in 1..(n + 4) /\ i \in 1..(n + 5)
    OBVIOUS
  <2>2. QED
    BY <1>11, <1>12, <1>13, <2>1
<1>15. /\ \A i \in 1..n : pt[i] = dst[i]
       /\ pt[n + 1] = Magic /\ pt[n + 2] = DataType
  <2>1. n + 1 \in 1..(n + 2) /\ n + 2 \in 1..(n + 2) /\ \A i \in 1..n : i \in 1..(n + 2)
    OBVIOUS
  <2>2. QED
    BY <1>10, <1>14, <2>1
<1>16. pt[n + 3] = lo /\ pt[n + 4] = hi /\ pt[n + 5] = 0
  <2>1. n + 3 \in 1..(n + 4) /\ n + 4 \in 1..(n + 4) /\ \A i \in 1..(n + 4) : i \in 1..(n + 5)
    OBVIOUS
  <2>2. n + 5 \in 1..(n + 5)
    OBVIOUS
  <2>3. QED
    BY <1>11, <1>12, <1>13, <2>1, <2>2
<1>17. n + 5 + k <= Len(pt)
  BY <1>13
<1>18. QED
  BY <1>2, <1>3, <1>13, <1>15, <1>16, <1>17 DEF FrameAt, StartsWith

(* At an offset where a frame lies, ParseRDTStream returns it and goes on  *)
(* after it.                                                               *)
LEMMA RDTFirst ==
  ASSUME NEW pt \in Seq(Byte), NEW p \in Seq(Byte), NEW o \in Nat, FrameAt(pt, o, p)
  PROVE  RDTFrom(pt)[o] = <<FrameOf(p)>> \o RDTFrom(pt)[o + 5 + Len(p)]
<1>1. PICK k \in Nat : k = Len(p)
  OBVIOUS
<1>2. /\ o + 5 + k <= Len(pt) /\ pt[o + 1] = Magic /\ pt[o + 2] = DataType /\ pt[o + 5] = 0
      /\ pt[o + 3] + Base * pt[o + 4] = k
      /\ \A i \in 1..k : pt[o + 5 + i] = p[i]
  BY <1>1 DEF FrameAt
<1>3. o \in 0..Len(pt) /\ ~(o + 5 > Len(pt)) /\ ~(o + 5 + k > Len(pt)) /\ o + 5 \in Nat /\ (o + 3) + 1 = o + 4
  BY <1>2
<1>4. LenAt(pt, o + 3) = k
  BY <1>2, <1>3 DEF LenAt
<1>5. RDTEnd(pt, o) = o + 5 + k
  BY <1>4 DEF RDTEnd, RDTHdrLen
<1>6. ~RDTStops(pt, o)
  BY <1>2, <1>3, <1>5 DEF RDTStops, RDTHdrLen
<1>7. Slice(pt, o + 5, k) = p
  <2>1. PICK b \in Nat : b = o + 5
    BY <1>3
  <2>2. b + k <= Len(pt)
    BY <1>2, <2>1
  <2>3. /\ Slice(pt, b, k) \in Seq(Byte) /\ Len(Slice(pt, b, k)) = k
        /\ \A i \in 1..k : Slice(pt, b, k)[i] = pt[b + i]
    BY <2>2, SliceOf
  <2>4. \A i \in 1..k : Slice(pt, b, k)[i] = p[i]
    BY <1>2, <2>1, <2>3
  <2>5. Slice(pt, b, k) = p
    BY <1>1, <2>3, <2>4, SeqEqual
  <2>6. QED
    BY <2>1, <2>5
<1>8. RDTAt(pt, o) = FrameOf(p)
  BY <1>2, <1>4, <1>7 DEF RDTAt, FrameOf, RDTHdrLen
<1>9. RDTFrom(pt)[o] = IF RDTStops(pt, o) THEN <<>> ELSE <<RDTAt(pt, o)>> \o RDTFrom(pt)[RDTEnd(pt, o)]
  <2>1. PICK f : f = RDTFrom(pt)
    OBVIOUS
  <2>2. f = [off \in 0..Len(pt) |->
              IF RDTStops(pt, off) THEN <<>> ELSE <<RDTAt(pt, off)>> \o f[RDTEnd(pt, off)]]
    BY <2>1, RDTStep
  <2>3. QED
    BY <1>3, <2>1, <2>2
<1>10. QED
  BY <1>1, <1>5, <1>6, <1>8, <1>9, Zenon

(* At the end of the datagram it returns nothing.                          *)
LEMMA RDTLast ==
  ASSUME NEW pt \in Seq(Byte)
  PROVE  RDTFrom(pt)[Len(pt)] = <<>>
<1>1. PICK f : f = RDTFrom(pt)
  OBVIOUS
<1>2. f = [off \in 0..Len(pt) |->
            IF RDTStops(pt, off) THEN <<>> ELSE <<RDTAt(pt, off)>> \o f[RDTEnd(pt, off)]]
  BY <1>1, RDTStep
<1>3. Len(pt) \in 0..Len(pt) /\ RDTStops(pt, Len(pt))
  BY DEF RDTStops, RDTHdrLen
<1>4. QED
  BY <1>1, <1>2, <1>3

(* The payloads of one and of two frames.                                  *)
LEMMA PayloadsOf ==
  ASSUME NEW p \in Seq(Byte), NEW q \in Seq(Byte)
  PROVE  Payloads(<<FrameOf(p)>>) = p /\ Payloads(<<FrameOf(p), FrameOf(q)>>) = p \o q
<1>1. <<>> \in Seq(Seq(Byte)) /\ <<p>> \in Seq(Seq(Byte)) /\ <<p>> = Append(<<>>, p) /\ <<p, q>> = Append(<<p>>, q)
  OBVIOUS
<1>2. FlattenSeq(<<p>>) = p
  <2>1. FlattenSeq(Append(<<>>, p)) = FlattenSeq(<<>>) \o p
    BY <1>1, FlattenAppend
  <2>2. <<>> \o p = p
    OBVIOUS
  <2>3. QED
    BY <1>1, <2>1, <2>2, FlattenEmpty
<1>3. FlattenSeq(<<p, q>>) = p \o q
  <2>1. FlattenSeq(Append(<<p>>, q)) = FlattenSeq(<<p>>) \o q
    BY <1>1, FlattenAppend
  <2>2. QED
    BY <1>1, <1>2, <2>1
<1>4. PICK f, g : f = FrameOf(p) /\ g = FrameOf(q)
  OBVIOUS
<1>5. f.payload = p /\ g.payload = q
  BY <1>4 DEF FrameOf
<1>6. [i \in DOMAIN <<f>> |-> <<f>>[i].payload] = <<p>>
  BY <1>5
<1>7. [i \in DOMAIN <<f, g>> |-> <<f, g>>[i].payload] = <<p, q>>
  BY <1>5
<1>8. QED
  BY <1>2, <1>3, <1>4, <1>6, <1>7 DEF Payloads

(* The frames of a datagram carry the next bytes of the stream, no more    *)
(* and no fewer.                                                           *)
LEMMA DatagramPayloads ==
  ASSUME stream \in Seq(Byte), pos \in Nat,
         NEW j \in Nat \ {0}, NEW k \in Nat, pos + j + k <= Len(stream), j <= FrameMax, k <= FrameMax
  PROVE  Payloads(ParseRDTStream(Datagram(j, k))) = Slice(stream, pos, j + k)
<1>1. PICK x \in Nat, st \in Seq(Byte) : x = pos /\ st = stream
  OBVIOUS
<1>2. Len(st) \in Nat /\ x + j <= Len(st) /\ (x + j) + k <= Len(st) /\ x + (j + k) <= Len(st)
      /\ x + j \in Nat /\ j + k \in Nat
  BY <1>1
<1>3. PICK p, q : p = Slice(st, x, j) /\ q = Slice(st, x + j, k)
  OBVIOUS
<1>4. p \in Seq(Byte) /\ Len(p) = j /\ \A i \in 1..j : p[i] = st[x + i]
  <2>1. PICK n \in Nat : n = j
    OBVIOUS
  <2>2. x + n <= Len(st)
    BY <1>2, <2>1
  <2>3. /\ Slice(st, x, n) \in Seq(Byte) /\ Len(Slice(st, x, n)) = n
        /\ \A i \in 1..n : Slice(st, x, n)[i] = st[x + i]
    BY <2>2, SliceOf
  <2>4. QED
    BY <1>3, <2>1, <2>3
<1>5. q \in Seq(Byte) /\ Len(q) = k /\ \A i \in 1..k : q[i] = st[(x + j) + i]
  <2>1. PICK y \in Nat : y = x + j
    BY <1>2
  <2>2. y + k <= Len(st)
    BY <1>2, <2>1
  <2>3. /\ Slice(st, y, k) \in Seq(Byte) /\ Len(Slice(st, y, k)) = k
        /\ \A i \in 1..k : Slice(st, y, k)[i] = st[y + i]
    BY <2>2, SliceOf
  <2>4. QED
    BY <1>3, <2>1, <2>3
<1>6. Len(p) < Base * Base /\ Len(q) < Base * Base
  <2>1. Base * Base \in Nat
    BY FramingAssumption
  <2>2. QED
    BY <1>4, <1>5, <2>1 DEF FrameMax
<1>7. Frame(pos, j) = FrameOf(p) /\ Frame(pos + j, k) = FrameOf(q)
  BY <1>1, <1>3 DEF Frame, FrameOf
<1>8. PICK f : f = AppendRDT(<<>>, FrameOf(p))
  OBVIOUS
<1>9. f \in Seq(Byte) /\ Len(f) = 5 + j /\ FrameAt(f, 0, p)
  <2>1. <<>> \in Seq(Byte) /\ Len(<<>>) = 0
    OBVIOUS
  <2>2. f \in Seq(Byte) /\ Len(f) = Len(<<>>) + 5 + Len(p) /\ FrameAt(f, Len(<<>>), p)
    BY <1>4, <1>6, <1>8, <2>1, FrameBytes
  <2>3. QED
    BY <1>4, <2>1, <2>2
<1>10. 0 + 5 + Len(p) = 5 + j
  BY <1>4
<1>11. ASSUME NEW u, NEW v
       PROVE  <<u>> \o <<>> = <<u>> /\ <<u>> \o <<v>> = <<u, v>>
  <2>1. PICK T : u \in T /\ v \in T
    <3>1. u \in {u, v} /\ v \in {u, v}
      OBVIOUS
    <3>2. QED
      BY <3>1, Zenon
  <2>2. <<u>> \in Seq(T) /\ Append(<<u>>, v) = <<u, v>>
    <3>1. <<u>> \in Seq(T) /\ <<u, v>> \in Seq(T) /\ Len(<<u>>) = 1 /\ Len(<<u, v>>) = 2 /\ <<u>>[1] = u
      BY <2>1
    <3>2. PICK a, b, c : a = <<u>> /\ b = <<u, v>> /\ c = Append(a, v)
      OBVIOUS
    <3>3. b[1] = u /\ b[2] = v
      BY <3>2
    <3>4. c \in Seq(T) /\ Len(c) = 2 /\ c[1] = u /\ c[2] = v
      <4>1. /\ Append(a, v) \in Seq(T) /\ Len(Append(a, v)) = Len(a) + 1
            /\ \A i \in 1..Len(a) : Append(a, v)[i] = a[i]
            /\ Append(a, v)[Len(a) + 1] = v
        BY <2>1, <3>1, <3>2, AppendProperties
      <4>2. Len(a) = 1 /\ a[1] = u
        BY <3>1, <3>2
      <4>3. QED
        BY <3>2, <4>1, <4>2
    <3>5. b = c
      <4>1. \A i \in 1..2 : i = 1 \/ i = 2
        OBVIOUS
      <4>2. b \in Seq(T) /\ Len(b) = 2 /\ \A i \in 1..Len(b) : b[i] = c[i]
        BY <3>1, <3>2, <3>3, <3>4, <4>1
      <4>3. QED
        BY <3>4, <4>2, SeqEqual
    <3>6. QED
      BY <3>1, <3>2, <3>5
  <2>3. Append(<<u>>, v) = <<u>> \o <<v>> /\ <<u>> \o <<>> = <<u>>
    BY <2>1, <2>2, AppendIsConcat, ConcatEmptySeq
  <2>4. QED
    BY <2>2, <2>3
<1>12. p \o q = Slice(st, x, j + k)
  <2>1. PICK n \in Nat : n = j
    OBVIOUS
  <2>2. x + n + k <= Len(st)
    BY <1>2, <2>1
  <2>3. Slice(st, x, n) \o Slice(st, x + n, k) = Slice(st, x, n + k)
    BY <2>2, SliceCat
  <2>4. QED
    BY <1>3, <2>1, <2>3
<1>13. CASE k = 0
  <2>1. Datagram(j, k) = f
    BY <1>7, <1>8, <1>13 DEF Datagram
  <2>2. RDTFrom(f)[0] = <<FrameOf(p)>> \o RDTFrom(f)[5 + j]
    <3>1. PICK o \in Nat : o = 0
      OBVIOUS
    <3>2. FrameAt(f, o, p)
      BY <1>9, <3>1
    <3>3. RDTFrom(f)[o] = <<FrameOf(p)>> \o RDTFrom(f)[o + 5 + Len(p)]
      BY <1>4, <1>9, <3>2, RDTFirst
    <3>4. QED
      BY <1>10, <3>1, <3>3
  <2>3. RDTFrom(f)[5 + j] = <<>>
    BY <1>9, RDTLast
  <2>4. ParseRDTStream(f) = <<FrameOf(p)>>
    BY <1>11, <2>2, <2>3 DEF ParseRDTStream
  <2>5. Payloads(ParseRDTStream(f)) = p
    BY <1>4, <1>5, <2>4, PayloadsOf
  <2>6. p = Slice(st, x, j + k)
    BY <1>3, <1>13
  <2>7. QED
    BY <1>1, <2>1, <2>5, <2>6
<1>14. CASE k # 0
  <2>1. PICK g : g = AppendRDT(f, FrameOf(q))
    OBVIOUS
  <2>2. Datagram(j, k) = g
    BY <1>7, <1>8, <1>14, <2>1 DEF Datagram
  <2>3. /\ g \in Seq(Byte) /\ Len(g) = (5 + j) + 5 + k
        /\ \A i \in 1..(5 + j) : g[i] = f[i]
        /\ FrameAt(g, 5 + j, q)
    <3>1. /\ g \in Seq(Byte) /\ Len(g) = Len(f) + 5 + Len(q)
          /\ \A i \in 1..Len(f) : g[i] = f[i]
          /\ FrameAt(g, Len(f), q)
      <4>1. PICK d \in Seq(Byte), e \in Seq(Byte) : d = f /\ e = q
        BY <1>5, <1>9
      <4>2. Len(e) < Base * Base /\ g = AppendRDT(d, FrameOf(e))
        BY <1>6, <2>1, <4>1
      <4>3. FrameAt(g, Len(d), e)
        BY <4>2, FrameBytes, Zenon
      <4>4. g \in Seq(Byte) /\ Len(g) = Len(d) + 5 + Len(e)
        BY <4>2, FrameBytes
      <4>5. StartsWith(g, d)
        BY <4>2, FrameBytes
      <4>6. QED
        BY <4>1, <4>3, <4>4, <4>5 DEF StartsWith
    <3>2. QED
      BY <1>5, <1>9, <3>1
  <2>4. FrameAt(g, 0, p)
    <3>1. /\ 0 + 5 + j <= Len(g)
          /\ 0 + 1 \in 1..(5 + j) /\ 0 + 2 \in 1..(5 + j) /\ 0 + 3 \in 1..(5 + j) /\ 0 + 4 \in 1..(5 + j)
          /\ 0 + 5 \in 1..(5 + j) /\ \A i \in 1..j : 0 + 5 + i \in 1..(5 + j)
      BY <2>3
    <3>2. QED
      BY <1>4, <1>9, <2>3, <3>1 DEF FrameAt
  <2>5. RDTFrom(g)[0] = <<FrameOf(p)>> \o RDTFrom(g)[5 + j]
    <3>1. PICK o \in Nat : o = 0
      OBVIOUS
    <3>2. FrameAt(g, o, p)
      BY <2>4, <3>1
    <3>3. RDTFrom(g)[o] = <<FrameOf(p)>> \o RDTFrom(g)[o + 5 + Len(p)]
      BY <1>4, <2>3, <3>2, RDTFirst
    <3>4. QED
      BY <1>10, <3>1, <3>3
  <2>6. RDTFrom(g)[5 + j] = <<FrameOf(q)>> \o RDTFrom(g)[(5 + j) + 5 + k]
    <3>1. PICK o \in Nat : o = 5 + j
      OBVIOUS
    <3>2. FrameAt(g, o, q)
      BY <2>3, <3>1
    <3>3. RDTFrom(g)[o] = <<FrameOf(q)>> \o RDTFrom(g)[o + 5 + Len(q)]
      BY <1>5, <2>3, <3>2, RDTFirst
    <3>4. QED
      BY <1>5, <3>1, <3>3
  <2>7. RDTFrom(g)[(5 + j) + 5 + k] = <<>>
    BY <2>3, RDTLast
  <2>8. ParseRDTStream(g) = <<FrameOf(p), FrameOf(q)>>
    BY <1>11, <2>5, <2>6, <2>7 DEF ParseRDTStream
  <2>9. Payloads(ParseRDTStream(g)) = p \o q
    BY <1>4, <1>5, <2>8, PayloadsOf
  <2>10. QED
    BY <1>1, <1>12, <2>2, <2>9
<1>15. QED
  BY <1>13, <1>14

-----------------------------------------------------------------------------
(* Demuxed.                                                                *)

(* r messages are routed, and pbuf holds the bytes after them up to pos,   *)
(* which do not complete another.                                          *)
RoutedFirst(r) ==
  /\ routed = SubSeq(sent, 1, r)
  /\ Off(sent, r) <= pos /\ (r < Len(sent) => pos < Off(sent, r + 1))
  /\ pbuf = Slice(stream, Off(sent, r), pos - Off(sent, r))

(* The device sent messages, of which the path has taken pos bytes.        *)
PathInv ==
  /\ sent \in Seq(Message) /\ stream = Encoded(sent) /\ pos \in 0..Len(stream)
  /\ \E r \in 0..Len(sent) : RoutedFirst(r)

(* Before the first datagram nothing has been routed.                      *)
LEMMA PathInitInv == PathInit => PathInv
<1> SUFFICES ASSUME PathInit
             PROVE  PathInv
  OBVIOUS
<1>1. sent \in Seq(Message)
  <2>1. PICK k \in 0..MaxMsgs : sent \in [1..k -> Message]
    BY DEF PathInit
  <2>2. k \in Nat
    BY MessageAssumption
  <2>3. QED
    BY <2>1, <2>2
<1>2. stream = Encoded(sent) /\ pos = 0 /\ pbuf = <<>> /\ routed = <<>>
  BY DEF PathInit
<1>3. stream \in Seq(Byte) /\ Len(stream) \in Nat /\ Len(sent) \in Nat
  BY <1>1, <1>2, EncodedOf
<1>4. Off(sent, 0) = 0
  BY <1>1, Offsets
<1>5. 0 < Len(sent) => pos < Off(sent, 0 + 1)
  <2> SUFFICES ASSUME 0 < Len(sent)
               PROVE  pos < Off(sent, 0 + 1)
    OBVIOUS
  <2>1. 0 \in 0..(Len(sent) - 1) /\ 0 + 1 \in 1..Len(sent)
    BY <1>3
  <2>2. sent[0 + 1] \in Message
    BY <1>1, <2>1
  <2>3. PICK l \in Nat : l = Len(sent[0 + 1].data)
    BY <2>2, MessageOf
  <2>4. Off(sent, 0 + 1) = 0 + 4 + l
    BY <1>1, <1>4, <2>1, <2>3, Offsets
  <2>5. QED
    BY <1>2, <2>4
<1>6. SubSeq(sent, 1, 0) = <<>> /\ Slice(stream, 0, 0 - 0) = <<>>
  BY <1>1, <1>3 DEF Slice
<1>7. RoutedFirst(0)
  BY <1>2, <1>4, <1>5, <1>6 DEF RoutedFirst
<1>8. 0 \in 0..Len(sent) /\ pos \in 0..Len(stream)
  BY <1>2, <1>3
<1>9. QED
  BY <1>1, <1>2, <1>7, <1>8 DEF PathInv

(* What a datagram does: the next bytes of the stream are taken, and the   *)
(* messages that they complete are routed.                                 *)
LEMMA DatagramStep ==
  ASSUME PathInv, DatagramArrives
  PROVE  /\ PathInv' /\ sent' = sent
         /\ \E msgs \in Seq(Message) :
              /\ routed' = routed \o msgs /\ chan' = chan \o RoutedTo(Chan, msgs)
              /\ owed' = IF up THEN owed + Len(RoutedTo(Chan, msgs)) ELSE owed
<1>1. sent \in Seq(Message) /\ stream = Encoded(sent) /\ pos \in 0..Len(stream)
  BY DEF PathInv
<1>2. PICK r \in 0..Len(sent) : RoutedFirst(r)
  BY DEF PathInv
<1>3. sent' = sent /\ stream' = stream
  BY DEF DatagramArrives
<1>4. PICK j \in 1..(Len(stream) - pos) : \E k \in 0..(Len(stream) - pos - j) :
        LET raw == pbuf \o Payloads(ParseRDTStream(Datagram(j, k)))
            parsed == Parse(raw)
        IN /\ j <= FrameMax /\ k <= FrameMax
           /\ pos' = pos + j + k
           /\ pbuf' = Unparsed(raw, parsed.off)
           /\ routed' = routed \o parsed.msgs
           /\ chan' = chan \o RoutedTo(Chan, parsed.msgs)
           /\ owed' = IF up THEN owed + Len(RoutedTo(Chan, parsed.msgs)) ELSE owed
  BY DEF DatagramArrives
<1>5. PICK k \in 0..(Len(stream) - pos - j) :
        LET raw == pbuf \o Payloads(ParseRDTStream(Datagram(j, k)))
            parsed == Parse(raw)
        IN /\ j <= FrameMax /\ k <= FrameMax
           /\ pos' = pos + j + k
           /\ pbuf' = Unparsed(raw, parsed.off)
           /\ routed' = routed \o parsed.msgs
           /\ chan' = chan \o RoutedTo(Chan, parsed.msgs)
           /\ owed' = IF up THEN owed + Len(RoutedTo(Chan, parsed.msgs)) ELSE owed
  BY <1>4
<1>6. PICK raw : raw = pbuf \o Payloads(ParseRDTStream(Datagram(j, k)))
  OBVIOUS
<1>7. PICK msgs, off : msgs = Parse(raw).msgs /\ off = Parse(raw).off
  OBVIOUS
<1>8. /\ j <= FrameMax /\ k <= FrameMax /\ pos' = pos + j + k /\ pbuf' = Unparsed(raw, off)
      /\ routed' = routed \o msgs /\ chan' = chan \o RoutedTo(Chan, msgs)
      /\ owed' = IF up THEN owed + Len(RoutedTo(Chan, msgs)) ELSE owed
  BY <1>5, <1>6, <1>7
<1>9. stream \in Seq(Byte) /\ Len(stream) \in Nat /\ Len(sent) \in Nat
  BY <1>1, EncodedOf
<1>10. PICK a \in Nat, p \in Nat, x \in Nat, st \in Seq(Byte) :
         a = Off(sent, r) /\ p = pos + j + k /\ x = pos /\ st = stream
  <2>1. Off(sent, r) \in Nat
    BY <1>1, <1>9, Offsets
  <2>2. pos + j + k \in Nat /\ pos \in Nat
    BY <1>1, <1>9
  <2>3. QED
    BY <1>9, <2>1, <2>2
<1>11. a <= x /\ x <= p /\ p <= Len(st) /\ p \in a..Len(Encoded(sent)) /\ p = x + (j + k) /\ Len(st) \in Nat
  BY <1>1, <1>2, <1>9, <1>10 DEF RoutedFirst
<1>12. raw = Slice(stream, a, p - a)
  <2>1. Payloads(ParseRDTStream(Datagram(j, k))) = Slice(stream, pos, j + k)
    <3>1. j \in Nat \ {0} /\ k \in Nat /\ pos \in Nat /\ pos + j + k <= Len(stream)
      BY <1>1, <1>9
    <3>2. QED
      BY <1>8, <1>9, <3>1, DatagramPayloads
  <2>2. PICK u \in Nat, v \in Nat : u = x - a /\ v = j + k
    BY <1>10, <1>11
  <2>3. a + u = x /\ a + u + v <= Len(st) /\ u + v = p - a
    BY <1>11, <2>2
  <2>4. Slice(st, a, u) \o Slice(st, a + u, v) = Slice(st, a, u + v)
    BY <2>3, SliceCat
  <2>5. pbuf = Slice(st, a, u)
    BY <1>2, <1>10, <2>2 DEF RoutedFirst
  <2>6. QED
    BY <1>6, <1>10, <2>1, <2>2, <2>3, <2>4, <2>5
<1>13. PICK q \in r..Len(sent) : Off(sent, q) <= p /\ (q < Len(sent) => p < Off(sent, q + 1))
  <2>1. p \in Off(sent, r)..Len(Encoded(sent))
    BY <1>10, <1>11
  <2>2. QED
    BY <1>1, <2>1, LastComplete
<1>14. msgs = SubSeq(sent, r + 1, q) /\ off = Off(sent, q) - a
  <2>1. p \in Off(sent, r)..Len(Encoded(sent)) /\ raw = Slice(Encoded(sent), Off(sent, r), p - Off(sent, r))
    BY <1>1, <1>10, <1>11, <1>12
  <2>2. Parse(raw) = [msgs |-> SubSeq(sent, r + 1, q), off |-> Off(sent, q) - Off(sent, r)]
    BY <1>1, <1>13, <2>1, Parsed
  <2>3. QED
    BY <1>7, <1>10, <2>2
<1>15. q \in 0..Len(sent) /\ msgs \in Seq(Message)
  BY <1>1, <1>9, <1>13, <1>14
<1>16. routed' = SubSeq(sent, 1, q)
  <2>1. 1 \in 1..(Len(sent) + 1) /\ r \in (1 - 1)..Len(sent)
    BY <1>9
  <2>2. SubSeq(sent, 1, r) \o SubSeq(sent, r + 1, q) = SubSeq(sent, 1, q)
    BY <1>1, <1>13, <2>1, ConcatAdjacentSubSeq
  <2>3. QED
    BY <1>2, <1>8, <1>14, <2>2 DEF RoutedFirst
<1>17. PICK b \in Nat : b = Off(sent, q)
  BY <1>1, <1>15, <1>9, Offsets
<1>18. pbuf' = Slice(stream, b, p - b)
  <2>1. a <= b
    BY <1>1, <1>10, <1>13, <1>17, OffMono
  <2>2. PICK u \in Nat, v \in Nat, n \in Nat : u = b - a /\ v = p - b /\ n = p - a
    BY <1>11, <1>13, <1>17, <2>1
  <2>3. a + u = b /\ a + n <= Len(st) /\ b + v <= Len(st) /\ u + v = n /\ n \in Nat
    BY <1>11, <2>2
  <2>4. /\ Slice(st, a, n) \in Seq(Byte) /\ Len(Slice(st, a, n)) = n
        /\ \A i \in 1..n : Slice(st, a, n)[i] = st[a + i]
    BY <2>3, SliceOf
  <2>5. raw \in Seq(Byte) /\ Len(raw) = n /\ \A i \in 1..n : raw[i] = st[a + i]
    BY <1>10, <1>12, <2>2, <2>4
  <2>6. u + v <= Len(raw)
    BY <2>3, <2>5
  <2>7. /\ Slice(raw, u, v) \in Seq(Byte) /\ Len(Slice(raw, u, v)) = v
        /\ \A i \in 1..v : Slice(raw, u, v)[i] = raw[u + i]
    <3>1. PICK w \in Seq(Byte) : w = raw
      BY <2>5
    <3>2. u + v <= Len(w)
      BY <2>6, <3>1
    <3>3. /\ Slice(w, u, v) \in Seq(Byte) /\ Len(Slice(w, u, v)) = v
          /\ \A i \in 1..v : Slice(w, u, v)[i] = w[u + i]
      BY <3>2, SliceOf
    <3>4. QED
      BY <3>1, <3>3
  <2>8. /\ Slice(st, b, v) \in Seq(Byte) /\ Len(Slice(st, b, v)) = v
        /\ \A i \in 1..v : Slice(st, b, v)[i] = st[b + i]
    BY <2>3, SliceOf
  <2>9. \A i \in 1..v : Slice(raw, u, v)[i] = Slice(st, b, v)[i]
    <3>1. \A i \in 1..v : u + i \in 1..n /\ a + (u + i) = b + i
      BY <2>3
    <3>2. QED
      BY <2>5, <2>7, <2>8, <3>1
  <2>10. Slice(raw, u, v) = Slice(st, b, v)
    BY <2>7, <2>8, <2>9, SeqEqual
  <2>11. Unparsed(raw, off) = Slice(raw, u, v)
    BY <1>14, <1>17, <2>2, <2>3, <2>5 DEF Unparsed, Slice
  <2>12. QED
    BY <1>8, <1>10, <2>2, <2>10, <2>11
<1>19. PathInv'
  <2>1. pos' \in 0..Len(stream)'
    BY <1>3, <1>8, <1>10, <1>11
  <2>2. RoutedFirst(q)'
    <3>1. /\ routed' = SubSeq(sent, 1, q) /\ Off(sent, q) <= pos' /\ (q < Len(sent) => pos' < Off(sent, q + 1))
          /\ pbuf' = Slice(stream, Off(sent, q), pos' - Off(sent, q))
      BY <1>8, <1>10, <1>13, <1>16, <1>17, <1>18
    <3>2. QED
      BY <1>3, <3>1 DEF RoutedFirst, Off
  <2>3. \E z \in (0..Len(sent))' : RoutedFirst(z)'
    BY <1>3, <1>15, <2>2
  <2>4. sent' \in Seq(Message) /\ stream' = Encoded(sent')
    BY <1>1, <1>3
  <2>5. QED
    BY <1>3, <2>1, <2>3, <2>4 DEF PathInv
<1>20. QED
  BY <1>3, <1>8, <1>15, <1>19

(* The steps of tunConn do not touch the path.                             *)
LEMMA PathInvStutters ==
  ASSUME PathInv, UNCHANGED path
  PROVE  PathInv'
BY DEF PathInv, path, RoutedFirst, Off

(* The invariant holds in every state.                                     *)
LEMMA PathInvAlways == PathSpec => []PathInv
<1>1. PathInv /\ [PathNext]_pathVars => PathInv'
  <2> SUFFICES ASSUME PathInv, [PathNext]_pathVars
               PROVE  PathInv'
    OBVIOUS
  <2>1. CASE DatagramArrives
    BY <2>1, DatagramStep
  <2>2. CASE UNCHANGED path
    BY <2>2, PathInvStutters
  <2>3. QED
    BY <2>1, <2>2 DEF PathNext, pathVars
<1>2. QED
  BY <1>1, PathInitInv, PTL DEF PathSpec

(* The invariant says what Demuxed says.                                   *)
LEMMA PathInvDemuxed == PathInv => Demuxed
<1> SUFFICES ASSUME PathInv
             PROVE  Demuxed
  OBVIOUS
<1>1. sent \in Seq(Message) /\ stream = Encoded(sent) /\ pos \in 0..Len(stream)
  BY DEF PathInv
<1>2. PICK r \in 0..Len(sent) : RoutedFirst(r)
  BY DEF PathInv
<1>3. stream \in Seq(Byte) /\ Len(stream) \in Nat /\ Len(sent) \in Nat
  BY <1>1, EncodedOf
<1>4. PICK a \in Nat, x \in Nat : a = Off(sent, r) /\ x = pos
  BY <1>1, <1>3, Offsets
<1>5. a <= x /\ x <= Len(stream)
  BY <1>1, <1>2, <1>3, <1>4 DEF RoutedFirst
<1>6. routed = SubSeq(sent, 1, r) /\ routed \in Seq(Message) /\ Len(routed) = r
  BY <1>1, <1>2, PrefixOf DEF RoutedFirst
<1>7. IsPrefix(routed, sent)
  <2>1. SubSeq(routed, 1, r) = routed
    BY <1>6, SubSeqFull
  <2>2. QED
    BY <1>3, <1>6, <2>1 DEF IsPrefix
<1>8. pbuf = Slice(stream, a, x - a)
  BY <1>2, <1>4 DEF RoutedFirst
<1>9. Encoded(routed) \o pbuf = SubSeq(stream, 1, pos)
  <2>1. Encoded(routed) = SubSeq(stream, 1, a)
    BY <1>1, <1>4, <1>6, Offsets
  <2>2. 1 \in 1..(Len(stream) + 1) /\ a \in (1 - 1)..Len(stream) /\ x \in a..Len(stream) /\ a + (x - a) = x
    BY <1>3, <1>5
  <2>3. SubSeq(stream, 1, a) \o SubSeq(stream, a + 1, x) = SubSeq(stream, 1, x)
    BY <1>3, <2>2, ConcatAdjacentSubSeq
  <2>4. QED
    BY <1>4, <1>8, <2>1, <2>2, <2>3 DEF Slice
<1>10. ASSUME Len(routed) < Len(sent)
       PROVE  Len(pbuf) < Len(Chunk(sent[Len(routed) + 1]))
  <2>1. r \in 0..(Len(sent) - 1) /\ r + 1 \in 1..Len(sent) /\ r < Len(sent)
    BY <1>3, <1>6, <1>10
  <2>2. PICK m \in Message : m = sent[r + 1]
    BY <1>1, <2>1
  <2>3. PICK l \in Nat : l = Len(m.data)
    BY MessageOf
  <2>4. Off(sent, r + 1) = a + 4 + l
    BY <1>1, <1>4, <2>1, <2>2, <2>3, Offsets
  <2>5. x < a + 4 + l
    BY <1>2, <1>4, <2>1, <2>4 DEF RoutedFirst
  <2>6. Len(Chunk(m)) = 4 + l
    BY <2>3, MessageOf, ChunkOf
  <2>7. Len(pbuf) = x - a
    <3>1. PICK n \in Nat, st \in Seq(Byte) : n = x - a /\ st = stream
      BY <1>3, <1>5
    <3>2. a + n <= Len(st)
      BY <1>5, <3>1
    <3>3. Len(Slice(st, a, n)) = n
      BY <3>2, SliceOf
    <3>4. QED
      BY <1>8, <3>1, <3>3
  <2>8. QED
    BY <1>6, <2>2, <2>5, <2>6, <2>7
<1>11. QED
  BY <1>7, <1>9, <1>10 DEF Demuxed

(* For every byte size, every set of messages and every cut of their bytes *)
(* into frames and of the frames into datagrams, PTunDemux.Parse and the   *)
(* pump's pbuf hand route exactly the messages the device sent, in order,  *)
(* as soon as they are complete: no byte of a payload is taken for a       *)
(* header.                                                                 *)
THEOREM DemuxedAlways == PathSpec => []Demuxed
BY PathInvAlways, PathInvDemuxed, PTL

-----------------------------------------------------------------------------
(* StreamIntact.                                                           *)

(* The bytes on their way, and what an error says of them: the pump has    *)
(* ended, or is about to, only when the tunnel is down and all that came   *)
(* before that is in buf or read.                                          *)
TunInv ==
  /\ read \in Seq(Byte) /\ buf \in Seq(Byte) /\ tmp \in Seq(Byte) /\ chan \in Seq(Byte)
  /\ read \o buf \o tmp \o chan = RoutedTo(Chan, routed)
  /\ owed \in Nat /\ owed <= Len(RoutedTo(Chan, routed))
  /\ rerr => pump = "ended"
  /\ pump # "store" => tmp = <<>>
  /\ pump = "ended" => ~up /\ owed <= Len(read \o buf)
  /\ pump = "store" /\ tmp = <<>> => ~up /\ owed <= Len(read \o buf)
  /\ failed => rerr /\ buf = <<>>

(* Concatenation of bytes is associative.                                  *)
LEMMA ByteCat ==
  /\ \A a, b \in Seq(Byte) : a \o b \in Seq(Byte)
  /\ \A a, b, c \in Seq(Byte) : a \o (b \o c) = (a \o b) \o c
<1>1. \A a, b \in Seq(Byte) : a \o b \in Seq(Byte)
  OBVIOUS
<1>2. \A a, b, c \in Seq(Byte) : a \o (b \o c) = (a \o b) \o c
  BY ConcatAssociative
<1>3. QED
  BY <1>1, <1>2

(* No byte has arrived and no error was returned.                          *)
LEMMA TunInitInv == PathInit => TunInv
<1> SUFFICES ASSUME PathInit
             PROVE  TunInv
  OBVIOUS
<1>1. /\ read = <<>> /\ buf = <<>> /\ tmp = <<>> /\ chan = <<>> /\ routed = <<>> /\ owed = 0
      /\ ~rerr /\ ~failed /\ pump = "read"
  BY DEF PathInit, TunInit
<1>2. <<>> \o <<>> \o <<>> \o <<>> = <<>> /\ <<>> \in Seq(Byte)
  OBVIOUS
<1>3. RoutedTo(Chan, <<>>) = <<>>
  BY RoutedOf
<1>4. QED
  BY <1>1, <1>2, <1>3 DEF TunInv

(* What a datagram adds to the channel is what it routed to it.            *)
LEMMA TunDatagram ==
  ASSUME PathInv, TunInv, DatagramArrives
  PROVE  TunInv'
<1>1. PICK msgs \in Seq(Message) : /\ routed' = routed \o msgs /\ chan' = chan \o RoutedTo(Chan, msgs)
                                  /\ owed' = IF up THEN owed + Len(RoutedTo(Chan, msgs)) ELSE owed
  BY DatagramStep
<1>2. UNCHANGED <<up, tmp, pump, buf, rerr, read, failed>>
  BY DEF DatagramArrives, pumping, conn
<1>3. routed \in Seq(Message)
  <2>1. PICK r \in 0..Len(sent) : RoutedFirst(r)
    BY DEF PathInv
  <2>2. QED
    BY <2>1, PrefixOf DEF PathInv, RoutedFirst
<1>4. PICK x : x = RoutedTo(Chan, msgs)
  OBVIOUS
<1>5. x \in Seq(Byte) /\ RoutedTo(Chan, routed \o msgs) = RoutedTo(Chan, routed) \o x
  BY <1>3, <1>4, RoutedOf
<1>6. read \in Seq(Byte) /\ buf \in Seq(Byte) /\ tmp \in Seq(Byte) /\ chan \in Seq(Byte)
  BY DEF TunInv
<1>7. PICK y \in Seq(Byte) : y = read \o buf \o tmp
  <2>1. read \o buf \in Seq(Byte)
    BY <1>6, ByteCat, Zenon
  <2>2. read \o buf \o tmp \in Seq(Byte)
    BY <1>6, <2>1, ByteCat, Zenon
  <2>3. QED
    BY <2>2, Zenon
<1>8. y \o (chan \o x) = (y \o chan) \o x
  BY <1>5, <1>6, ByteCat, Zenon
<1>9. read' \o buf' \o tmp' \o chan' = RoutedTo(Chan, routed')
  BY <1>1, <1>2, <1>4, <1>5, <1>7, <1>8 DEF TunInv
<1>10. chan' \in Seq(Byte)
  BY <1>1, <1>4, <1>5, <1>6
<1>11. owed' \in Nat /\ owed' <= Len(RoutedTo(Chan, routed'))
  <2>1. PICK z \in Seq(Byte) : z = RoutedTo(Chan, routed)
    BY <1>3, RoutedOf
  <2>2. Len(z \o x) = Len(z) + Len(x) /\ Len(x) \in Nat /\ Len(z) \in Nat
    BY <1>5
  <2>3. owed \in Nat /\ owed <= Len(z) /\ owed' \in {owed, owed + Len(x)}
    BY <1>1, <1>4, <2>1 DEF TunInv
  <2>4. RoutedTo(Chan, routed') = z \o x
    BY <1>1, <1>5, <2>1
  <2>5. QED
    BY <2>2, <2>3, <2>4
<1>12. ~up => owed' = owed
  BY <1>1
<1>13. QED
  BY <1>2, <1>6, <1>9, <1>10, <1>11, <1>12 DEF TunInv

(* tunConn's pump moves bytes from the channel to buf without loss, and    *)
(* ends only when there are none.                                          *)
LEMMA TunPump ==
  ASSUME TunInv, Pump, UNCHANGED path
  PROVE  TunInv'
<1>1. read \in Seq(Byte) /\ buf \in Seq(Byte) /\ tmp \in Seq(Byte) /\ chan \in Seq(Byte) /\ <<>> \in Seq(Byte)
  BY DEF TunInv
<1>2. routed' = routed /\ owed' = owed
  BY DEF path
<1>3. PICK y \in Seq(Byte) : y = read \o buf
  <2>1. read \o buf \in Seq(Byte)
    BY <1>1, ByteCat, Zenon
  <2>2. QED
    BY <2>1, Zenon
<1>4. CASE PumpReads
  <2>1. /\ pump = "read" /\ (chan # <<>> \/ ~up) /\ tmp' = chan /\ chan' = <<>> /\ pump' = "store"
        /\ UNCHANGED <<up, buf, rerr, read, failed>>
    BY <1>4 DEF PumpReads, conn
  <2>2. ~rerr /\ ~failed /\ tmp = <<>>
    BY <2>1 DEF TunInv
  <2>3. y \o <<>> = y /\ (y \o chan) \o <<>> = y \o chan
    BY <1>1
  <2>4. read' \o buf' \o tmp' \o chan' = RoutedTo(Chan, routed')
    BY <1>2, <1>3, <2>1, <2>2, <2>3 DEF TunInv
  <2>5. tmp' = <<>> => owed <= Len(y)
    <3>1. y \o <<>> \o <<>> = y
      BY <1>3
    <3>2. QED
      BY <1>3, <2>1, <2>2, <3>1 DEF TunInv
  <2>6. QED
    BY <1>1, <1>2, <1>3, <2>1, <2>2, <2>4, <2>5 DEF TunInv
<1>5. CASE PumpStores
  <2>1. /\ pump = "store" /\ buf' = buf \o tmp /\ tmp' = <<>>
        /\ IF tmp = <<>> THEN rerr' = TRUE /\ pump' = "ended" ELSE pump' = "read" /\ rerr' = rerr
        /\ UNCHANGED <<up, chan, read, failed>>
    BY <1>5 DEF PumpStores, Stored
  <2>2. ~rerr /\ ~failed
    BY <2>1 DEF TunInv
  <2>3. read \o (buf \o tmp) = y \o tmp
    BY <1>1, <1>3, ConcatAssociative
  <2>4. buf \o tmp \in Seq(Byte)
    BY <1>1
  <2>5. (read \o (buf \o tmp)) \o <<>> = read \o (buf \o tmp)
    BY <1>1, <2>4
  <2>6. read' \o buf' \o tmp' \o chan' = RoutedTo(Chan, routed')
    BY <1>2, <1>3, <2>1, <2>3, <2>5 DEF TunInv
  <2>7. pump' = "ended" => ~up /\ owed <= Len(read \o buf')
    <3>1. buf \o <<>> = buf
      BY <1>1
    <3>2. QED
      BY <2>1, <3>1 DEF TunInv
  <2>8. QED
    BY <1>1, <1>2, <2>1, <2>2, <2>4, <2>6, <2>7 DEF TunInv
<1>6. QED
  BY <1>4, <1>5 DEF Pump

(* Read takes the first bytes of buf.                                      *)
LEMMA TunRead ==
  ASSUME TunInv, ReadData, UNCHANGED path
  PROVE  TunInv'
<1>1. read \in Seq(Byte) /\ buf \in Seq(Byte) /\ tmp \in Seq(Byte) /\ chan \in Seq(Byte)
  BY DEF TunInv
<1>2. routed' = routed /\ owed' = owed /\ buf # <<>> /\ UNCHANGED <<up, tmp, pump, rerr, chan, failed>>
  BY DEF path, ReadData, pumping
<1>3. PICK k : /\ k = IF Len(buf) < ReadMax THEN Len(buf) ELSE ReadMax
               /\ read' = read \o SubSeq(buf, 1, k) /\ buf' = SubSeq(buf, k + 1, Len(buf))
  BY DEF ReadData, Rest
<1>4. Len(buf) \in Nat /\ k \in 0..Len(buf)
  BY <1>1, <1>3, TunConnAssumption
<1>5. SubSeq(buf, 1, k) \o SubSeq(buf, k + 1, Len(buf)) = buf
  <2>1. 1 \in 1..(Len(buf) + 1) /\ k \in (1 - 1)..Len(buf) /\ Len(buf) \in k..Len(buf)
    BY <1>4
  <2>2. SubSeq(buf, 1, k) \o SubSeq(buf, k + 1, Len(buf)) = SubSeq(buf, 1, Len(buf))
    BY <1>1, <2>1, ConcatAdjacentSubSeq
  <2>3. QED
    BY <1>1, <2>2, SubSeqFull
<1>6. SubSeq(buf, 1, k) \in Seq(Byte) /\ SubSeq(buf, k + 1, Len(buf)) \in Seq(Byte)
  BY <1>1, <1>4, PrefixOf
<1>7. read' \o buf' = read \o buf
  <2>1. PICK u \in Seq(Byte), v \in Seq(Byte), w \in Seq(Byte) :
          u = read /\ v = SubSeq(buf, 1, k) /\ w = SubSeq(buf, k + 1, Len(buf))
    BY <1>1, <1>6, Zenon
  <2>2. read' = u \o v /\ buf' = w /\ v \o w = buf
    BY <1>3, <1>5, <2>1, Zenon
  <2>3. u \o (v \o w) = (u \o v) \o w
    BY ByteCat, Zenon
  <2>4. QED
    BY <2>1, <2>2, <2>3, Zenon
<1>8. read' \in Seq(Byte) /\ buf' \in Seq(Byte)
  BY <1>1, <1>3, <1>6
<1>9. read' \o buf' \o tmp' \o chan' = RoutedTo(Chan, routed')
  BY <1>2, <1>7 DEF TunInv
<1>10. ~failed
  BY <1>2 DEF TunInv
<1>11. QED
  BY <1>1, <1>2, <1>7, <1>8, <1>9, <1>10 DEF TunInv

(* Every step of tunConn keeps the invariant.                              *)
LEMMA TunNextInv ==
  ASSUME TunInv, TunNext, UNCHANGED path
  PROVE  TunInv'
<1>1. routed' = routed /\ owed' = owed
  BY DEF path
<1>2. CASE Pump
  BY <1>2, TunPump
<1>3. CASE ReadData
  BY <1>3, TunRead
<1>4. CASE ReadError
  <2>1. /\ buf = <<>> /\ rerr /\ UNCHANGED <<chan, up, tmp, pump, buf, rerr, read>>
    BY <1>4 DEF ReadError, pumping, conn
  <2>2. QED
    BY <1>1, <2>1 DEF TunInv
<1>5. CASE TunnelDies
  <2>1. ~up' /\ UNCHANGED <<chan, tmp, pump, buf, rerr, read, failed>>
    BY <1>5 DEF TunnelDies, pumping, conn
  <2>2. QED
    BY <1>1, <2>1 DEF TunInv
<1>6. CASE ReadCall \/ ReadTimeout \/ ReadArms \/ ReadWaits \/ ReadWakes \/ TimerFires \/ SetReadDeadline \/ Tick
  <2>1. UNCHANGED <<chan, up, tmp, pump, buf, rerr, read, failed>>
    BY <1>6 DEF ReadCall, ReadTimeout, ReadArms, ReadWaits, ReadWakes, TimerFires, SetReadDeadline, Tick, pumping, conn
  <2>2. QED
    BY <1>1, <2>1 DEF TunInv
<1>7. QED
  BY <1>2, <1>3, <1>4, <1>5, <1>6 DEF TunNext, Read

(* So it holds in every state.                                             *)
LEMMA TunInvAlways == PathSpec => []TunInv
<1>1. PathInv /\ TunInv /\ [PathNext]_pathVars => TunInv'
  <2> SUFFICES ASSUME PathInv, TunInv, [PathNext]_pathVars
               PROVE  TunInv'
    OBVIOUS
  <2>1. CASE DatagramArrives
    BY <2>1, TunDatagram
  <2>2. CASE TunNext /\ UNCHANGED path
    BY <2>2, TunNextInv
  <2>3. CASE UNCHANGED pathVars
    BY <2>3 DEF pathVars, path, tunVars, pumping, conn, TunInv
  <2>4. QED
    BY <2>1, <2>2, <2>3 DEF PathNext
<1>2. QED
  BY <1>1, TunInitInv, PathInvAlways, PTL DEF PathSpec

(* From the device to the caller of tunConn.Read: through the channel, the *)
(* goroutine of tunConn.pump and its buf no byte is lost, doubled or       *)
(* overtaken, whatever deadlines are set and timers fire, and Read returns *)
(* the tunnel's error only after the last byte that came before its death. *)
THEOREM StreamIntactAlways == PathSpec => []StreamIntact
<1>1. TunInv => StreamIntact
  <2> SUFFICES ASSUME TunInv
               PROVE  StreamIntact
    OBVIOUS
  <2>1. read \in Seq(Byte) /\ read \o <<>> = read
    BY DEF TunInv
  <2>2. failed => owed <= Len(read)
    BY <2>1 DEF TunInv
  <2>3. owed \in Nat /\ Len(read) \in Nat
    BY <2>1 DEF TunInv
  <2>4. QED
    BY <2>2, <2>3 DEF StreamIntact, TunInv
<1>2. QED
  BY <1>1, TunInvAlways, PTL

-----------------------------------------------------------------------------
(* RoundTrip.                                                              *)

(* The bytes of out after o are exactly those of t.                        *)
EndsWith(out, o, t) == Len(out) = o + Len(t) /\ \A j \in 1..Len(t) : out[o + j] = t[j]

(* One turn of FrameTunnel's loop.                                         *)
IsPiece(s, c, i, k, m) ==
  /\ k \in 1..(Len(s) - i) /\ k \in 1..ChunkMax /\ i + k \in (i + 1)..Len(s)
  /\ FrameFrom(s, c)[i] = Chunk(m) \o FrameFrom(s, c)[i + k]
  /\ Chunk(m) \in Seq(Byte) /\ Len(Chunk(m)) = 4 + k
  /\ Chunk(m)[1] = DataType /\ Chunk(m)[2] = 1 /\ Chunk(m)[3] + Base * Chunk(m)[4] = k
  /\ \A j \in 1..k : Chunk(m)[4 + j] = s[i + j]

(* The chunk FrameTunnel makes next has a header DeframeTunnel knows.      *)
LEMMA PieceOf ==
  ASSUME NEW s \in Seq(Byte), NEW c \in 1..ChunkMax, NEW i \in 0..Len(s), i # Len(s),
         NEW k, k = Piece(s, c, i), NEW m, m = DataMsg(1, Slice(s, i, k))
  PROVE  IsPiece(s, c, i, k, m)
<1>1. PICK n \in Nat : n = Len(s)
  OBVIOUS
<1>2. ChunkMax \in Nat /\ Base * Base \in Nat /\ ChunkMax < Base * Base /\ c \in Nat \ {0} /\ 1 \in Byte
  <2>1. Base * Base \in Nat /\ Base \in Nat /\ Base > 1
    BY FramingAssumption
  <2>2. ChunkMax \in 1..(Base * Base - 1)
    BY FramingAssumption
  <2>3. QED
    BY <2>1, <2>2 DEF Byte
<1>3. k \in 1..(n - i) /\ k \in 1..ChunkMax /\ i + k \in (i + 1)..n
  BY <1>1, <1>2 DEF Piece
<1>4. PICK d : d = Slice(s, i, k)
  OBVIOUS
<1>5. d \in Seq(Byte) /\ Len(d) = k /\ \A j \in 1..k : d[j] = s[i + j]
  <2> HIDE DEF Piece
  <2>1. PICK x \in Nat, y \in Nat : x = i /\ y = k
    <3>1. i \in Nat /\ k \in Nat
      BY <1>1, <1>3
    <3>2. QED
      BY <3>1, Zenon
  <2>2. x + y <= Len(s)
    BY <1>1, <1>3, <2>1
  <2>3. /\ Slice(s, x, y) \in Seq(Byte) /\ Len(Slice(s, x, y)) = y
        /\ \A j \in 1..y : Slice(s, x, y)[j] = s[x + j]
    BY <2>2, SliceOf
  <2>4. QED
    BY <1>4, <2>1, <2>3
<1>6. m.type = DataType /\ m.chan = 1 /\ m.data = d
  BY <1>4 DEF DataMsg
<1>7. m.type \in Byte /\ m.chan \in Byte /\ m.data \in Seq(Byte) /\ Len(m.data) < Base * Base /\ Len(m.data) = k
  <2>1. DataType \in Byte
    BY FramingAssumption DEF Byte
  <2>2. k < Base * Base
    BY <1>2, <1>3
  <2>3. QED
    BY <1>2, <1>5, <1>6, <2>1, <2>2
<1>8. /\ Chunk(m) \in Seq(Byte) /\ Len(Chunk(m)) = 4 + Len(m.data)
      /\ Chunk(m)[1] = m.type /\ Chunk(m)[2] = m.chan
      /\ Chunk(m)[3] + Base * Chunk(m)[4] = Len(m.data)
      /\ \A j \in 1..Len(m.data) : Chunk(m)[4 + j] = m.data[j]
  BY <1>7, ChunkOf
<1>9. FrameFrom(s, c)[i] = Chunk(m) \o FrameFrom(s, c)[i + k]
  <2>1. PICK f : f = FrameFrom(s, c)
    OBVIOUS
  <2>2. f = [x \in 0..Len(s) |-> IF x >= Len(s) THEN <<>>
               ELSE Chunk(DataMsg(1, Slice(s, x, Piece(s, c, x)))) \o f[x + Piece(s, c, x)]]
    BY <1>2, <2>1, FrameStep
  <2>3. ~(i >= Len(s))
    OBVIOUS
  <2>4. QED
    BY <2>1, <2>2, <2>3
<1>10. QED
  BY <1>1, <1>3, <1>5, <1>6, <1>7, <1>8, <1>9 DEF IsPiece

(* At the end of sock there is nothing left to frame.                      *)
LEMMA FrameEnd ==
  ASSUME NEW s \in Seq(Byte), NEW c \in 1..ChunkMax
  PROVE  FrameFrom(s, c)[Len(s)] = <<>>
<1>1. PICK f : f = FrameFrom(s, c)
  OBVIOUS
<1>2. c \in Nat \ {0}
  BY FramingAssumption
<1>3. f = [x \in 0..Len(s) |-> IF x >= Len(s) THEN <<>>
             ELSE Chunk(DataMsg(1, Slice(s, x, Piece(s, c, x)))) \o f[x + Piece(s, c, x)]]
  BY <1>1, <1>2, FrameStep
<1>4. Len(s) \in 0..Len(s) /\ Len(s) >= Len(s)
  OBVIOUS
<1>5. QED
  BY <1>1, <1>3, <1>4

(* FrameTunnel makes bytes.                                                *)
LEMMA FramedBytes ==
  ASSUME NEW s \in Seq(Byte), NEW c \in 1..ChunkMax
  PROVE  \A i \in 0..Len(s) : FrameFrom(s, c)[i] \in Seq(Byte)
<1> DEFINE S == {i \in 0..Len(s) : FrameFrom(s, c)[i] \in Seq(Byte)}
<1>1. PICK n \in Nat : n = Len(s)
  OBVIOUS
<1>2. n \in S
  <2>1. <<>> \in Seq(Byte) /\ Len(s) \in 0..Len(s)
    OBVIOUS
  <2>2. QED
    BY <1>1, <2>1, FrameEnd
<1>3. ASSUME NEW i \in 0..n, i # n, \A x \in (i + 1)..n : x \in S
      PROVE  i \in S
  <2>1. PICK k : k = Piece(s, c, i)
    OBVIOUS
  <2>2. PICK m : m = DataMsg(1, Slice(s, i, k))
    OBVIOUS
  <2>3. /\ i + k \in (i + 1)..n
        /\ FrameFrom(s, c)[i] = Chunk(m) \o FrameFrom(s, c)[i + k]
        /\ Chunk(m) \in Seq(Byte)
    <3>1. IsPiece(s, c, i, k, m)
      BY <1>1, <1>3, <2>1, <2>2, PieceOf, Zenon
    <3>2. QED
      BY <1>1, <3>1 DEF IsPiece
  <2>4. FrameFrom(s, c)[i + k] \in Seq(Byte)
    BY <1>3, <2>3
  <2>5. FrameFrom(s, c)[i] \in Seq(Byte)
    BY <2>3, <2>4, ByteCat, Zenon
  <2>6. QED
    BY <1>1, <2>5
<1>4. 0..n \subseteq S
  <2> HIDE DEF S
  <2>1. QED
    BY <1>2, <1>3, DownInduction
<1>5. QED
  BY <1>1, <1>4

(* DeframeTunnel undoes FrameTunnel, from every chunk on.                  *)
LEMMA Unframed ==
  ASSUME NEW s \in Seq(Byte), NEW c \in 1..ChunkMax, NEW out \in Seq(Byte), NEW i \in 0..Len(s), NEW o \in Nat,
         EndsWith(out, o, FrameFrom(s, c)[i])
  PROVE  DeframeFrom(out)[o] = SubSeq(s, i + 1, Len(s))
<1> DEFINE S == {x \in 0..Len(s) : \A y \in Nat : EndsWith(out, y, FrameFrom(s, c)[x]) =>
                                     DeframeFrom(out)[y] = SubSeq(s, x + 1, Len(s))}
<1>1. PICK n \in Nat : n = Len(s)
  OBVIOUS
<1>2. \A y \in 0..Len(out) : DeframeFrom(out)[y] =
        IF y + 4 > Len(out) THEN <<>> ELSE DeframePiece(out, y) \o DeframeFrom(out)[DeframeNext(out, y)]
  <2>1. PICK f : f = DeframeFrom(out)
    OBVIOUS
  <2>2. f = [off \in 0..Len(out) |->
              IF off + PTunHdrLen > Len(out) THEN <<>> ELSE DeframePiece(out, off) \o f[DeframeNext(out, off)]]
    BY <2>1, DeframeStep
  <2>3. QED
    BY <2>1, <2>2 DEF PTunHdrLen
<1>3. n \in S
  <2>1. SUFFICES ASSUME NEW y \in Nat, EndsWith(out, y, FrameFrom(s, c)[n])
                 PROVE  DeframeFrom(out)[y] = SubSeq(s, n + 1, Len(s))
    BY <1>1
  <2>2. Len(out) = y + 0
    <3>1. FrameFrom(s, c)[n] = <<>> /\ Len(<<>>) = 0
      BY <1>1, FrameEnd
    <3>2. QED
      BY <2>1, <3>1 DEF EndsWith
  <2>3. y \in 0..Len(out) /\ y + 4 > Len(out)
    BY <2>2
  <2>4. SubSeq(s, n + 1, Len(s)) = <<>>
    BY <1>1
  <2>5. QED
    BY <1>2, <2>3, <2>4
<1>4. ASSUME NEW x \in 0..n, x # n, \A z \in (x + 1)..n : z \in S
      PROVE  x \in S
  <2>1. SUFFICES ASSUME NEW y \in Nat, EndsWith(out, y, FrameFrom(s, c)[x])
                 PROVE  DeframeFrom(out)[y] = SubSeq(s, x + 1, Len(s))
    BY <1>1
  <2>2. PICK k : k = Piece(s, c, x)
    OBVIOUS
  <2>3. PICK m : m = DataMsg(1, Slice(s, x, k))
    OBVIOUS
  <2>0. IsPiece(s, c, x, k, m)
    BY <1>1, <1>4, <2>2, <2>3, PieceOf, Zenon
  <2>4. /\ k \in 1..(n - x) /\ k \in 1..ChunkMax /\ x + k \in (x + 1)..n
        /\ FrameFrom(s, c)[x] = Chunk(m) \o FrameFrom(s, c)[x + k]
        /\ Chunk(m) \in Seq(Byte) /\ Len(Chunk(m)) = 4 + k
    BY <1>1, <2>0 DEF IsPiece
  <2>5. /\ Chunk(m)[1] = DataType /\ Chunk(m)[2] = 1 /\ Chunk(m)[3] + Base * Chunk(m)[4] = k
        /\ \A j \in 1..k : Chunk(m)[4 + j] = s[x + j]
    BY <2>0 DEF IsPiece
  <2>6. PICK h, t : h = Chunk(m) /\ t = FrameFrom(s, c)[x + k]
    OBVIOUS
  <2>7. h \in Seq(Byte) /\ t \in Seq(Byte) /\ Len(h) = 4 + k /\ Len(t) \in Nat /\ k \in Nat
    <3>1. x + k \in 0..Len(s)
      BY <1>1, <2>4
    <3>2. t \in Seq(Byte)
      BY <2>6, <3>1, FramedBytes
    <3>3. QED
      BY <2>4, <2>6, <3>2
  <2>8. /\ Len(out) = y + ((4 + k) + Len(t))
        /\ \A j \in 1..((4 + k) + Len(t)) : out[y + j] = IF j <= 4 + k THEN h[j] ELSE t[j - (4 + k)]
    <3>1. /\ h \o t \in Seq(Byte) /\ Len(h \o t) = Len(h) + Len(t)
          /\ \A j \in 1..(Len(h) + Len(t)) : (h \o t)[j] = IF j <= Len(h) THEN h[j] ELSE t[j - Len(h)]
      BY <2>7, ConcatProperties
    <3>2. EndsWith(out, y, h \o t)
      BY <2>1, <2>4, <2>6
    <3>3. QED
      BY <2>7, <3>1, <3>2 DEF EndsWith
  <2>9. PICK z \in Nat : z = y + 4 + k
    BY <2>7
  <2>10. /\ z <= Len(out) /\ Len(out) = z + Len(t) /\ y + 4 <= Len(out) /\ y \in 0..Len(out)
         /\ y + 4 + k = z
    BY <2>7, <2>8, <2>9
  <2>11. \A j \in 1..(4 + k) : out[y + j] = h[j]
    <3>1. \A j \in 1..(4 + k) : j \in 1..((4 + k) + Len(t)) /\ j <= 4 + k
      BY <2>7
    <3>2. QED
      BY <2>8, <3>1
  <2>12. out[y + 1] = DataType /\ out[y + 2] = 1 /\ out[y + 3] + Base * out[y + 4] = k
    <3>1. 1 \in 1..(4 + k) /\ 2 \in 1..(4 + k) /\ 3 \in 1..(4 + k) /\ 4 \in 1..(4 + k)
      BY <2>7
    <3>2. out[y + 1] = h[1] /\ out[y + 2] = h[2] /\ out[y + 3] = h[3] /\ out[y + 4] = h[4]
      BY <2>11, <3>1
    <3>3. QED
      BY <2>5, <2>6, <3>2
  <2>13. LenAt(out, y + 3) = k
    <3>1. (y + 3) + 1 = y + 4
      OBVIOUS
    <3>2. QED
      BY <2>12, <3>1 DEF LenAt
  <2>14. Chunked(out, y)
    <3>1. k > 0 /\ k <= ChunkMax
      BY <2>4, FramingAssumption
    <3>2. QED
      BY <2>12, <2>13, <3>1 DEF Chunked, IsData
  <2>15. Have(out, y) = k
    <3>1. ~(y + 4 + k > Len(out))
      BY <2>9, <2>10
    <3>2. QED
      BY <2>13, <3>1 DEF Have, PTunHdrLen
  <2>16. DeframePiece(out, y) = Slice(out, y + 4, k) /\ DeframeNext(out, y) = z
    BY <2>9, <2>14, <2>15 DEF DeframePiece, DeframeNext, PTunHdrLen
  <2>17. Slice(out, y + 4, k) = Slice(s, x, k)
    <3>1. PICK a \in Nat, b \in Nat, d \in Nat : a = y + 4 /\ b = x /\ d = k
      BY <2>7
    <3>2. a + d <= Len(out) /\ b + d <= Len(s)
      BY <1>1, <2>4, <2>9, <2>10, <3>1
    <3>3. SameBytes(out, a, s, b, d)
      <4>1. \A j \in 1..k : 4 + j \in 1..(4 + k) /\ (y + 4) + j = y + (4 + j)
        BY <2>7
      <4>2. \A j \in 1..k : out[(y + 4) + j] = s[x + j]
        BY <2>5, <2>6, <2>11, <4>1
      <4>3. QED
        BY <3>1, <4>2 DEF SameBytes
    <3>4. Slice(out, a, d) = Slice(s, b, d)
      BY <3>2, <3>3, SliceSame
    <3>5. QED
      BY <3>1, <3>4
  <2>18. DeframeFrom(out)[z] = SubSeq(s, (x + k) + 1, Len(s))
    <3>1. EndsWith(out, z, t)
      <4>1. \A j \in 1..Len(t) : /\ (4 + k) + j \in 1..((4 + k) + Len(t)) /\ ~((4 + k) + j <= 4 + k)
                                 /\ ((4 + k) + j) - (4 + k) = j /\ y + ((4 + k) + j) = z + j
        BY <2>7, <2>9
      <4>2. \A j \in 1..Len(t) : out[z + j] = t[j]
        BY <2>8, <4>1
      <4>3. QED
        BY <2>10, <4>2 DEF EndsWith
    <3>2. x + k \in S
      BY <1>4, <2>4
    <3>3. QED
      BY <2>6, <3>1, <3>2
  <2>19. DeframeFrom(out)[y] = Slice(s, x, k) \o SubSeq(s, (x + k) + 1, Len(s))
    <3>1. ~(y + 4 > Len(out))
      BY <2>10
    <3>2. DeframeFrom(out)[y] = DeframePiece(out, y) \o DeframeFrom(out)[DeframeNext(out, y)]
      BY <1>2, <2>10, <3>1, Zenon
    <3>3. QED
      BY <2>16, <2>17, <2>18, <3>2, Zenon
  <2>20. SubSeq(s, x + 1, x + k) \o SubSeq(s, (x + k) + 1, Len(s)) = SubSeq(s, x + 1, Len(s))
    <3>1. x + 1 \in 1..(Len(s) + 1) /\ x + k \in ((x + 1) - 1)..Len(s) /\ Len(s) \in (x + k)..Len(s)
      BY <1>1, <2>4
    <3>2. QED
      BY <3>1, ConcatAdjacentSubSeq
  <2>21. QED
    BY <2>19, <2>20 DEF Slice
<1>5. 0..n \subseteq S
  <2> HIDE DEF S
  <2>1. QED
    BY <1>3, <1>4, DownInduction
<1>6. QED
  BY <1>1, <1>5

(* So it does from the start, for every chunk size asked for.              *)
LEMMA DeframeFrame ==
  ASSUME NEW s \in Seq(Byte), NEW c \in 0..(ChunkMax + 1)
  PROVE  DeframeTunnel(FrameTunnel(s, c)) = s
<1>1. PICK b \in 1..ChunkMax : b = Clamped(c)
  BY FramingAssumption DEF Clamped
<1>2. PICK out : out = FrameFrom(s, b)[0]
  OBVIOUS
<1>3. 0 \in 0..Len(s) /\ out \in Seq(Byte)
  <2>1. 0 \in 0..Len(s)
    OBVIOUS
  <2>2. QED
    BY <1>2, <2>1, FramedBytes
<1>4. EndsWith(out, 0, FrameFrom(s, b)[0])
  <2>1. Len(out) = 0 + Len(out) /\ \A j \in 1..Len(out) : out[0 + j] = out[j]
    BY <1>3
  <2>2. QED
    BY <1>2, <2>1 DEF EndsWith
<1>5. DeframeFrom(out)[0] = SubSeq(s, 0 + 1, Len(s))
  <2>1. PICK o \in Nat, i \in 0..Len(s) : o = 0 /\ i = 0
    BY <1>3
  <2>2. EndsWith(out, o, FrameFrom(s, b)[i])
    BY <1>4, <2>1
  <2>3. DeframeFrom(out)[o] = SubSeq(s, i + 1, Len(s))
    BY <1>3, <2>2, Unframed
  <2>4. QED
    BY <2>1, <2>3
<1>6. SubSeq(s, 0 + 1, Len(s)) = s
  BY SubSeqFull
<1>7. QED
  BY <1>1, <1>2, <1>5, <1>6 DEF DeframeTunnel, FrameTunnel

(* "It is the inverse of DeframeTunnel" (tunnel.go:94): for every byte     *)
(* string the device may have sent, also one that looks like headers, and  *)
(* for every chunk size from 0 to beyond the maximum, DeframeTunnel gives  *)
(* back what FrameTunnel was given.                                        *)
THEOREM RoundTripAlways == PathSpec => []RoundTrip
<1>1. PathInv => RoundTrip
  <2> SUFFICES ASSUME PathInv
               PROVE  RoundTrip
    OBVIOUS
  <2>1. stream \in Seq(Byte) /\ pos \in 0..Len(stream)
    BY EncodedOf DEF PathInv
  <2>2. SubSeq(stream, 1, pos) \in Seq(Byte)
    BY <2>1, PrefixOf
  <2>3. QED
    BY <2>2, DeframeFrame DEF RoundTrip
<1>2. QED
  BY <1>1, PathInvAlways, PTL
=============================================================================
