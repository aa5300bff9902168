-------------------------- MODULE LifecycleProofs --------------------------
(***************************************************************************)
(* Proofs about Lifecycle, and through it about Dial, TunnelSetup and      *)
(* Teardown, for every set of addresses and relays, every link and any     *)
(* number of sessions.  Each stage has an invariant of its own, which its  *)
(* reset establishes and its steps preserve; the socket links them.        *)
(***************************************************************************)
EXTENDS Lifecycle, Integers, TLAPS

-----------------------------------------------------------------------------
(* The inductive invariant.                                                *)

(* Dial.                                                                   *)
DialBits ==
  /\ preReply \in BOOLEAN /\ coordUID \in BOOLEAN /\ gotRDT \in BOOLEAN /\ rdtOpen \in BOOLEAN
  /\ session \in BOOLEAN
DialInv ==
  /\ phase \in {"collect", "relay", "punch", "advance", "rdt", "up", "failed"}
  /\ session <=> phase = "up"
  /\ cands \subseteq D!Addr /\ epsLeft \subseteq Relay /\ relayChans \subseteq Relay
  /\ devAddr \in D!Addr \cup {NoAddr} /\ dstate \in {0, 1, 4}

(* setup: a reliable message the device can have, or has taken, was sent   *)
(* under its own number; a frame of the device's answers a message it has  *)
(* taken.                                                                  *)
Numbered(s) == <<s, S!SetupMsg[s + 1]>>
SetupBits ==
  synAcked \in BOOLEAN /\ sessionOpen \in BOOLEAN /\ ready \in BOOLEAN /\ knows \in BOOLEAN
SetupType ==
  /\ step \in {"hello", "helloRead", "finish", "top", "batch", "running", "failed"}
  /\ sends \in 0..(ChEvery - 1) /\ flight \subseteq S!ServerFlight
  /\ devConn \in {S!NoConn, S!DevConn}
  /\ txSeq \in {0, S!DataSeq} /\ rcvNext \in 0..3
  /\ dtls \in {"none", "hello", "done"} /\ devUnacked \subseteq {0, 1}
  /\ sess = IF step = "failed" THEN "closed" ELSE "open"
  /\ step = "running" => ready /\ txSeq = S!DataSeq
LinkInv ==
  /\ \A d \in toDev : d.type = "data" => /\ d.seq \in 0..2 /\ Numbered(d.seq) \in used
                                         /\ d.msg = S!SetupMsg[d.seq + 1]
  /\ \A d \in fromDev : d.type = "data" => /\ d.seq \in {0, 1} /\ d.seq < rcvNext /\ dtls = "done"
                                           /\ d.msg = "created" => d.seq = 1
  /\ \A s \in devUnacked : s < rcvNext /\ dtls = "done"
NumberInv ==
  /\ used \subseteq {Numbered(s) : s \in 0..2}
  /\ \A s \in 0..2 : s < rcvNext => Numbered(s) \in used
  /\ ready => dtls = "done" /\ rcvNext >= 2 /\ Numbered(2) \in used
SetupInv == SetupBits /\ SetupType /\ LinkInv /\ NumberInv

(* Teardown: whoever is past Session.Close has stopped the keepalive and   *)
(* closed the socket, and main is past it when it returns.                 *)
Labels == {"setup", "using", "wait8", "wait3", "returned", "openChannel", "smbDial", "mount",
           "setupOk", "setupErr", "setupLogoff", "umount", "logoff", "graceClose", "done"}
Out(g) == closing[g] = "out"
UseInv ==
  /\ pc \in [T!Goroutine -> Labels]
  /\ closing \in [T!Goroutine -> {"out", "once", "wake", "select", "stop", "socket"}]
  /\ \A g \in T!Goroutine : closing[g] = "socket" => stopKA
  /\ pc[Main] \in {"wait3", "returned"} /\ Out(Main) => ~sock /\ stopKA
  /\ pc[Helper] = "done" /\ Out(Helper) => ~sock /\ stopKA

(* The socket is Dial's until an error return, and main's next Dial finds  *)
(* none open.                                                              *)
StageInv ==
  /\ stage \in {"dial", "open", "use", "rest"} /\ dials \in 1..MaxDials
  /\ sock \in BOOLEAN
  /\ stage = "dial" => (sock <=> phase # "failed")
  /\ stage = "rest" => ~sock

Inv == DialBits /\ DialInv /\ SetupInv /\ UseInv /\ StageInv
-----------------------------------------------------------------------------
(* Dial.                                                                   *)

DialSock == sock \in BOOLEAN /\ (sock <=> phase # "failed")

LEMMA DialBitsStep ==
  ASSUME DialBits, D!Next
  PROVE  DialBits'
<1> USE DEF DialBits, D!local, D!device
<1>1. CASE D!CollectReply
  <2>1. preReply' = TRUE /\ UNCHANGED <<coordUID, gotRDT, rdtOpen, session>>
    BY <1>1 DEF D!CollectReply
  <2>2. QED
    BY <2>1, Zenon
<1>2. CASE D!CollectEnds
  <2>1. coordUID' \in {coordUID, TRUE} /\ UNCHANGED <<preReply, gotRDT, rdtOpen, session>>
    BY <1>2 DEF D!CollectEnds, D!Fail
  <2>2. QED
    BY <2>1, Zenon
<1>3. CASE D!RdtSend
  <2>1. rdtOpen' \in BOOLEAN
    <3>1. rdtOpen' = rdtOpen \/ rdtOpen' = (devAddr \in D!Dev)
      BY <1>3, Zenon DEF D!RdtSend, D!PeerIsDevice
    <3>2. CASE rdtOpen' = rdtOpen
      BY <3>2, Zenon
    <3>3. CASE rdtOpen' = (devAddr \in D!Dev)
      BY <3>3
    <3>4. QED
      BY <3>1, <3>2, <3>3
  <2>2. UNCHANGED <<preReply, coordUID, gotRDT, session>>
    BY <1>3 DEF D!RdtSend
  <2>3. QED
    BY <2>1, <2>2, Zenon
<1>4. CASE D!RdtAcked
  <2>1. gotRDT' = TRUE /\ UNCHANGED <<preReply, coordUID, rdtOpen, session>>
    BY <1>4 DEF D!RdtAcked
  <2>2. QED
    BY <2>1, Zenon
<1>5. CASE D!Established
  <2>1. session' = TRUE /\ UNCHANGED <<preReply, coordUID, rdtOpen, gotRDT>>
    BY <1>5 DEF D!Established
  <2>2. QED
    BY <2>1, Zenon
<1>6. CASE \/ D!PrecheckFails \/ D!PunchExpires \/ D!AdvanceExpires
           \/ D!CollectAddrs \/ D!Coordinate \/ D!RelayEnds \/ D!HandleRelay0103
           \/ D!PunchSend \/ D!PunchBack \/ D!AdvanceSend \/ D!AdvanceRead
  BY <1>6 DEF D!PrecheckFails, D!PunchExpires, D!AdvanceExpires, D!Fail, D!CollectAddrs, D!Coordinate,
              D!RelayEnds, D!HandleRelay0103, D!PunchSend, D!PunchBack, D!AdvanceSend, D!AdvanceRead
<1>7. QED
  BY <1>1, <1>2, <1>3, <1>4, <1>5, <1>6 DEF D!Next

LEMMA FailStep ==
  ASSUME DialInv, D!Fail, phase # "up"
  PROVE  DialInv' /\ (DialSock => DialSock')
<1>1. /\ phase' = "failed" /\ sock' = FALSE
      /\ UNCHANGED <<cands, relayChans, epsLeft, devAddr, session, dstate>>
  BY DEF D!Fail, D!FailedSocket, D!device
<1>2. DialInv'
  BY <1>1 DEF DialInv
<1>3. sock' \in BOOLEAN /\ ~sock'
  BY <1>1, Zenon
<1>4. QED
  BY <1>1, <1>2, <1>3 DEF DialSock

(* A step that neither ends Dial nor touches the socket.                   *)
LEMMA DialStep ==
  ASSUME DialInv, D!Next
  PROVE  DialInv' /\ (DialSock => DialSock')
<1> USE DEF D!local, D!device
<1>1. CASE D!PrecheckFails \/ D!PunchExpires \/ D!AdvanceExpires
  BY <1>1, FailStep DEF D!PrecheckFails, D!PunchExpires, D!AdvanceExpires
<1>2. CASE D!CollectEnds
  <2>1. CASE D!Fail
    BY <1>2, <2>1, FailStep DEF D!CollectEnds
  <2>2. CASE ~D!Fail
    <3>1. /\ phase = "collect" /\ phase' \in {"relay", "punch"} /\ sock' = sock
          /\ epsLeft' = epsLeft \/ epsLeft' \in SUBSET Relay
          /\ UNCHANGED <<cands, relayChans, devAddr, session, dstate>>
      BY <1>2, <2>2 DEF D!CollectEnds
    <3>2. QED
      BY <3>1 DEF DialInv, DialSock
  <2>3. QED
    BY <2>1, <2>2
<1>3. CASE D!CollectAddrs \/ D!HandleRelay0103
  <2>1. /\ cands' \subseteq cands \cup D!Addr
        /\ UNCHANGED <<phase, sock, relayChans, epsLeft, devAddr, session, dstate>>
    BY <1>3 DEF D!CollectAddrs, D!HandleRelay0103, D!Addr, D!Dev
  <2>2. QED
    BY <2>1 DEF DialInv, DialSock
<1>4. CASE D!CollectReply
  BY <1>4 DEF D!CollectReply, DialInv, DialSock
<1>5. CASE D!Coordinate
  BY <1>5 DEF D!Coordinate, DialInv, DialSock
<1>6. CASE D!RelayEnds
  BY <1>6 DEF D!RelayEnds, DialInv, DialSock
<1>7. CASE D!PunchSend
  <2>1. /\ phase = "punch" /\ dstate' \in {dstate, 0, 1}
        /\ UNCHANGED <<phase, sock, cands, relayChans, epsLeft, devAddr, session>>
    BY <1>7 DEF D!PunchSend
  <2>2. QED
    BY <2>1 DEF DialInv, DialSock
<1>8. CASE D!PunchBack
  BY <1>8 DEF D!PunchBack, DialInv, DialSock
<1>9. CASE D!AdvanceSend
  BY <1>9 DEF D!AdvanceSend, DialInv, DialSock
<1>10. CASE D!AdvanceRead
  BY <1>10 DEF D!AdvanceRead, DialInv, DialSock
<1>11. CASE D!RdtSend
  BY <1>11 DEF D!RdtSend, DialInv, DialSock
<1>12. CASE D!RdtAcked
  BY <1>12 DEF D!RdtAcked, DialInv, DialSock
<1>13. CASE D!Established
  <2>1. session'
    BY <1>13, Zenon DEF D!Established
  <2>2. QED
    BY <1>13, <2>1 DEF D!Established, DialInv, DialSock
<1>14. QED
  BY <1>1, <1>2, <1>3, <1>4, <1>5, <1>6, <1>7, <1>8, <1>9, <1>10, <1>11, <1>12, <1>13 DEF D!Next

LEMMA DialResets == DialReset => DialBits' /\ DialInv'
<1> SUFFICES ASSUME DialReset
             PROVE  DialBits' /\ DialInv'
  OBVIOUS
<1>1. DialBits' /\ ~session'
  BY Zenon DEF DialReset, DialBits
<1>2. DialInv'
  BY <1>1 DEF DialReset, DialInv
<1>3. QED
  BY <1>1, <1>2
-----------------------------------------------------------------------------
(* TunnelSetup.                                                            *)

(* The link adds nothing to what is sent on it, and taking adds nothing.   *)
LEMMA CarriedOf ==
  ASSUME NEW net, NEW dgs, NEW n \in S!Carried(net, dgs)
  PROVE  n \subseteq net \cup dgs
<1>1. PICK E \in SUBSET dgs : n = net \cup E
  BY DEF S!Carried
<1>2. QED
  BY <1>1

LEMMA TakenOf ==
  ASSUME NEW net, NEW d, NEW n \in S!Taken(net, d)
  PROVE  n \subseteq net
BY DEF S!Taken

(* LinkInv, each direction for itself: what one datagram must satisfy.     *)
ToFits(d) == d.type = "data" => /\ d.seq \in 0..2 /\ Numbered(d.seq) \in used
                                /\ d.msg = S!SetupMsg[d.seq + 1]
FromFits(d) == d.type = "data" => /\ d.seq \in {0, 1} /\ d.seq < rcvNext /\ dtls = "done"
                                  /\ d.msg = "created" => d.seq = 1

LEMMA LinkParts ==
  LinkInv <=> /\ \A d \in toDev : ToFits(d)
              /\ \A d \in fromDev : FromFits(d)
              /\ \A s \in devUnacked : s < rcvNext /\ dtls = "done"
BY DEF LinkInv, ToFits, FromFits

(* A datagram that is not a reliable frame fits either direction.          *)
LEMMA PlainFits ==
  ASSUME NEW d, d.type # "data"
  PROVE  ToFits(d) /\ ToFits(d)' /\ FromFits(d) /\ FromFits(d)'
BY DEF ToFits, FromFits

LEMMA PlainTypes ==
  ASSUME NEW t, t # "data", NEW c, NEW s
  PROVE  /\ S!Msg(t).type # "data" /\ S!AckOf(c, s).type # "data"
         /\ [type |-> t, conn |-> c].type # "data"
BY DEF S!Msg, S!AckOf

(* What only moves datagrams that are not reliable frames keeps LinkInv.   *)
LEMMA LinkKept ==
  ASSUME LinkInv, UNCHANGED <<used, rcvNext, dtls, devUnacked>>,
         \A d \in toDev' : d \in toDev \/ d.type # "data",
         \A d \in fromDev' : d \in fromDev \/ d.type # "data"
  PROVE  LinkInv'
BY DEF LinkInv

(* The client's steps before setup, and those of setup that send no        *)
(* numbered message.                                                       *)
LEMMA HandshakeStep ==
  ASSUME SetupInv,
         S!HelloSend \/ S!HelloRead \/ S!FinishSend \/ S!FinishRead
           \/ S!SetupTop \/ S!BatchEnd \/ S!Lose
  PROVE  SetupInv'
<1> USE DEF SetupInv, S!client, S!device
<1>1. UNCHANGED <<devConn, synAcked, sessionOpen, ready, txSeq, sess, used, dtls, knows, rcvNext, devUnacked>>
  BY DEF S!HelloSend, S!HelloRead, S!FinishSend, S!FinishRead, S!SetupTop, S!BatchEnd, S!Lose
<1>2. \A d \in toDev' : d \in toDev \/ d.type # "data"
  <2>1. CASE S!HelloSend
    <3>1. toDev' = toDev \/ toDev' \in S!Carried(toDev, {S!Msg("CH")})
      BY <2>1 DEF S!HelloSend
    <3>2. QED
      BY <3>1, CarriedOf, PlainTypes
  <2>2. CASE S!FinishSend
    BY <2>2, CarriedOf, PlainTypes DEF S!FinishSend
  <2>3. CASE S!SetupTop
    <3>1. PICK dgs : /\ toDev' = toDev \/ toDev' \in S!Carried(toDev, dgs)
                     /\ \A d \in dgs : d.type # "data"
      BY <2>3, PlainTypes DEF S!SetupTop
    <3>2. QED
      BY <3>1, CarriedOf
  <2>4. CASE S!HelloRead \/ S!FinishRead \/ S!BatchEnd \/ S!Lose
    BY <2>4 DEF S!HelloRead, S!FinishRead, S!BatchEnd, S!Lose
  <2>5. QED
    BY <2>1, <2>2, <2>3, <2>4
<1>3. fromDev' \subseteq fromDev
  BY TakenOf DEF S!HelloSend, S!HelloRead, S!FinishSend, S!FinishRead, S!SetupTop, S!BatchEnd, S!Lose
<1>4. LinkInv'
  BY <1>1, <1>2, <1>3, LinkKept
<1>5. flight' \subseteq S!ServerFlight
  BY DEF SetupType, S!HelloSend, S!HelloRead, S!FinishSend, S!FinishRead, S!SetupTop, S!BatchEnd, S!Lose
<1>6. sends' \in 0..(ChEvery - 1)
  <2>1. ChEvery \in Nat \ {0} /\ sends \in Nat
    BY LifecycleAssumption DEF S!SetupAssumption, SetupType
  <2>2. (sends + 1) % ChEvery \in 0..(ChEvery - 1)
    BY <2>1
  <2>3. sends' \in {sends, (sends + 1) % ChEvery}
    BY DEF S!HelloSend, S!HelloRead, S!FinishSend, S!FinishRead, S!SetupTop, S!BatchEnd, S!Lose
  <2>4. QED
    BY <2>2, <2>3 DEF SetupType
<1>7. /\ step' \in {"hello", "helloRead", "finish", "top", "batch"} /\ step # "failed" 
      \/ step' = step
  BY DEF S!HelloSend, S!HelloRead, S!FinishSend, S!FinishRead, S!SetupTop, S!BatchEnd, S!Lose
<1>8. SetupType'
  BY <1>1, <1>5, <1>6, <1>7 DEF SetupType
<1>9. SetupBits' /\ NumberInv'
  BY <1>1 DEF SetupBits, NumberInv
<1>10. QED
  BY <1>4, <1>8, <1>9

(* sendRDT of a setup message: it goes on the link with its own number.    *)
LEMMA SendStep ==
  ASSUME LinkInv, used \subseteq {Numbered(s) : s \in 0..2},
         NEW s \in 0..2, NEW acks, \A d \in acks : d.type # "data", S!SetupSend(s, acks),
         fromDev' \subseteq fromDev, UNCHANGED <<rcvNext, dtls, devUnacked>>
  PROVE  /\ LinkInv' /\ used' \subseteq {Numbered(r) : r \in 0..2}
         /\ used \subseteq used' /\ Numbered(s) \in used'
<1>0. PICK m : m = S!Reliable(devConn, s, S!SetupMsg[s + 1])
  OBVIOUS
<1>1. used' = used \cup {Numbered(s)}
  BY DEF S!SetupSend, Numbered
<1>2. m.type = "data" /\ m.seq = s /\ m.msg = S!SetupMsg[s + 1]
  BY <1>0 DEF S!Reliable
<1>3. toDev' \subseteq toDev \cup (acks \cup {m})
  BY <1>0, CarriedOf DEF S!SetupSend
<1>4. ToFits(m)'
  BY <1>1, <1>2 DEF ToFits
<1>5. \A d \in toDev' : ToFits(d)'
  <2> SUFFICES ASSUME NEW d \in toDev'
               PROVE  ToFits(d)'
    OBVIOUS
  <2>1. CASE d \in toDev
    <3>1. ToFits(d)
      BY <2>1, LinkParts
    <3>2. QED
      BY <3>1, <1>1 DEF ToFits
  <2>2. CASE d \in acks
    BY <2>2, PlainFits
  <2>3. QED
    BY <1>3, <1>4, <2>1, <2>2
<1>6. LinkInv'
  <2>1. \A d \in fromDev' : FromFits(d)'
    BY LinkParts DEF FromFits
  <2>2. \A r \in devUnacked' : r < rcvNext' /\ dtls' = "done"
    BY LinkParts
  <2>3. QED
    BY <1>5, <2>1, <2>2 DEF LinkInv, ToFits, FromFits
<1>7. QED
  BY <1>1, <1>6

LEMMA RecvStep ==
  ASSUME SetupInv, S!SetupRecv
  PROVE  SetupInv'
<1> USE DEF SetupInv, S!device
<1>1. PICK d \in fromDev : /\ S!RecvSyn(d) \/ S!RecvSynAck(d) \/ S!RecvData(d)
                           /\ fromDev' \in S!Taken(fromDev, d)
  BY DEF S!SetupRecv
<1>2. /\ fromDev' \subseteq fromDev
      /\ step = "batch" /\ UNCHANGED <<step, sends, flight, txSeq, sess, dtls, knows, rcvNext, devUnacked>>
  BY <1>1, TakenOf DEF S!SetupRecv
<1>3. CASE S!RecvSyn(d)
  <2>1. /\ devConn' \in {S!NoConn, S!DevConn}
        /\ UNCHANGED <<synAcked, sessionOpen, ready, used, toDev>>
    BY <1>3 DEF S!RecvSyn, SetupType
  <2>2. LinkInv'
    BY <1>2, <2>1, LinkKept
  <2>3. SetupBits' /\ SetupType' /\ NumberInv'
    BY <1>2, <2>1 DEF SetupBits, SetupType, NumberInv
  <2>4. QED
    BY <2>2, <2>3
<1>4. CASE S!RecvSynAck(d)
  <2>1. synAcked' = TRUE /\ UNCHANGED <<devConn, sessionOpen, ready>>
    BY <1>4 DEF S!RecvSynAck
  <2>2. SetupBits' 
    BY <1>2, <2>1, Zenon DEF SetupBits
  <2>3. SetupType'
    BY <1>2, <2>1 DEF SetupType
  <2>4. CASE synAcked
    <3>1. UNCHANGED <<toDev, used>>
      BY <1>4, <2>4 DEF S!RecvSynAck
    <3>2. LinkInv' /\ NumberInv'
      BY <1>2, <2>1, <3>1, LinkKept DEF NumberInv
    <3>3. QED
      BY <2>2, <2>3, <3>2
  <2>5. CASE ~synAcked
    <3>1. S!SetupSend(0, {})
      BY <1>4, <2>5 DEF S!RecvSynAck
    <3>2. LinkInv' /\ used' \subseteq {Numbered(r) : r \in 0..2} /\ used \subseteq used'
      BY <1>2, <3>1, SendStep DEF NumberInv
    <3>3. NumberInv'
      BY <1>2, <2>1, <3>2 DEF NumberInv
    <3>4. QED
      BY <2>2, <2>3, <3>2, <3>3
  <2>6. QED
    BY <2>4, <2>5
<1>5. CASE S!RecvData(d)
  <2> DEFINE ack == {S!AckOf(devConn, d.seq)}
  <2>1. \A a \in ack : a.type # "data"
    BY DEF S!AckOf
  <2>2. d.type = "data" /\ UNCHANGED <<devConn, synAcked>>
    BY <1>5 DEF S!RecvData
  <2>3. CASE S!IsCreated(d) /\ ~ready /\ ready' = TRUE /\ S!SetupSend(2, ack) /\ UNCHANGED sessionOpen
    <3>1. /\ LinkInv' /\ used' \subseteq {Numbered(r) : r \in 0..2}
          /\ used \subseteq used' /\ Numbered(2) \in used'
      <4> HIDE DEF ack
      <4>1. QED
        BY <1>2, <2>1, <2>3, SendStep DEF NumberInv
    <3>2. SetupBits' /\ ready'
      BY <1>2, <2>2, <2>3, Zenon DEF SetupBits
    <3>3. SetupType'
      BY <1>2, <2>2, <3>2 DEF SetupType
    <3>4. d.seq = 1 /\ 1 < rcvNext /\ dtls = "done"
      BY <2>2, <2>3 DEF LinkInv, S!IsCreated
    <3>5. NumberInv'
      BY <1>2, <3>1, <3>4 DEF NumberInv, SetupType
    <3>6. QED
      BY <3>1, <3>2, <3>3, <3>5
  <2>4. CASE ~S!IsCreated(d) /\ ~sessionOpen /\ sessionOpen' = TRUE /\ S!SetupSend(1, ack) /\ UNCHANGED ready
    <3>1. LinkInv' /\ used' \subseteq {Numbered(r) : r \in 0..2} /\ used \subseteq used'
      <4> HIDE DEF ack
      <4>1. QED
        BY <1>2, <2>1, <2>4, SendStep DEF NumberInv
    <3>2. SetupBits'
      BY <1>2, <2>2, <2>4, Zenon DEF SetupBits
    <3>3. SetupType' /\ NumberInv'
      BY <1>2, <2>2, <2>4, <3>1 DEF SetupType, NumberInv
    <3>4. QED
      BY <3>1, <3>2, <3>3
  <2>5. CASE toDev' \in S!Carried(toDev, ack) /\ UNCHANGED <<sessionOpen, ready, used>>
    <3>1. \A e \in toDev' : e \in toDev \/ e.type # "data"
      BY <2>1, <2>5, CarriedOf
    <3>2. LinkInv'
      BY <1>2, <2>5, <3>1, LinkKept
    <3>3. SetupBits' /\ SetupType' /\ NumberInv'
      BY <1>2, <2>2, <2>5 DEF SetupBits, SetupType, NumberInv
    <3>4. QED
      BY <3>2, <3>3
  <2>6. QED
    BY <1>5, <2>3, <2>4, <2>5, Zenon DEF S!RecvData
<1>6. QED
  BY <1>1, <1>3, <1>4, <1>5

(* setup returns, well or not.                                             *)
LEMMA EndStep ==
  ASSUME SetupInv, S!SetupDone \/ S!OpenFails
  PROVE  SetupInv'
<1> USE DEF SetupInv, S!device
<1>1. /\ UNCHANGED <<sends, flight, devConn, synAcked, sessionOpen, ready, used, toDev, fromDev>>
      /\ UNCHANGED <<dtls, knows, rcvNext, devUnacked>>
  BY DEF S!SetupDone, S!OpenFails
<1>2. LinkInv' /\ SetupBits' /\ NumberInv'
  BY <1>1 DEF LinkInv, SetupBits, NumberInv
<1>3. SetupType'
  BY <1>1 DEF SetupType, S!SetupDone, S!OpenFails, S!Released
<1>4. QED
  BY <1>2, <1>3

(* The device takes a datagram: a reliable frame only when it is next, so  *)
(* what it has taken was sent.                                             *)
LEMMA DeviceStep ==
  ASSUME SetupInv, S!DeviceRecv
  PROVE  SetupInv'
<1> USE DEF SetupInv, S!client
<1>1. PICK d \in toDev : /\ S!DeviceData(d) \/ S!DeviceControl(d)
                         /\ toDev' \in S!Taken(toDev, d)
  BY DEF S!DeviceRecv
<1>2. /\ toDev' \subseteq toDev /\ UNCHANGED fromDev
      /\ UNCHANGED <<step, sends, flight, devConn, synAcked, sessionOpen, ready, txSeq, sess, used>>
  BY <1>1, TakenOf DEF S!DeviceRecv
<1>3. CASE S!DeviceData(d)
  <2>1. CASE d.conn = S!DevConn /\ d.seq = rcvNext
    <3>1. /\ d.type = "data" /\ dtls = "done" /\ rcvNext' = rcvNext + 1 /\ UNCHANGED <<dtls, knows>>
          /\ devUnacked' = devUnacked \cup ({d.seq} \cap {0, 1})
      BY <1>3, <2>1 DEF S!DeviceData
    <3>2. rcvNext \in 0..2 /\ Numbered(rcvNext) \in used
      BY <2>1, <3>1 DEF LinkInv
    <3>3. \A s \in devUnacked' : s < rcvNext' /\ dtls' = "done"
      BY <2>1, <3>1, <3>2 DEF LinkInv, SetupType
    <3>4. LinkInv'
      BY <1>2, <3>1, <3>2, <3>3 DEF LinkInv
    <3>5. SetupBits' /\ SetupType'
      BY <1>2, <3>1, <3>2 DEF SetupBits, SetupType
    <3>6. \A s \in 0..2 : s < rcvNext' => Numbered(s) \in used'
      <4> SUFFICES ASSUME NEW s \in 0..2, s < rcvNext'
                   PROVE  Numbered(s) \in used
        BY <1>2
      <4>1. s < rcvNext \/ s = rcvNext
        BY <3>1, <3>2
      <4>2. QED
        BY <3>2, <4>1 DEF NumberInv
    <3>7. NumberInv'
      BY <1>2, <3>1, <3>2, <3>6 DEF NumberInv
    <3>8. QED
      BY <3>4, <3>5, <3>7
  <2>2. CASE ~(d.conn = S!DevConn /\ d.seq = rcvNext)
    <3>1. UNCHANGED <<dtls, knows, rcvNext, devUnacked>>
      BY <1>3, <2>2 DEF S!DeviceData
    <3>2. QED
      BY <1>2, <3>1 DEF LinkInv, SetupBits, SetupType, NumberInv
  <2>3. QED
    BY <2>1, <2>2
<1>4. CASE S!DeviceControl(d)
  <2>1. knows' \in BOOLEAN
    BY <1>4, Zenon DEF S!DeviceControl, SetupBits
  <2>2. /\ dtls' \in {"none", "hello", "done"} /\ (dtls = "done" => dtls' = "done")
        /\ devUnacked' \subseteq devUnacked /\ UNCHANGED rcvNext
    BY <1>4 DEF S!DeviceControl, SetupType
  <2>3. LinkInv'
    BY <1>2, <2>2 DEF LinkInv
  <2>4. SetupBits' /\ SetupType' /\ NumberInv'
    BY <1>2, <2>1, <2>2 DEF SetupBits, SetupType, NumberInv
  <2>5. QED
    BY <2>3, <2>4
<1>5. QED
  BY <1>1, <1>3, <1>4

(* The device answers what it has taken.                                   *)
LEMMA SayStep ==
  ASSUME SetupInv, S!DeviceSend
  PROVE  SetupInv'
<1> USE DEF SetupInv, S!client, S!device
<1>1. PICK d \in S!DeviceSays : fromDev' \in S!Carried(fromDev, {d})
  BY DEF S!DeviceSend
<1>2. /\ UNCHANGED toDev /\ UNCHANGED <<dtls, knows, rcvNext, devUnacked>>
      /\ UNCHANGED <<step, sends, flight, devConn, synAcked, sessionOpen, ready, txSeq, sess, used>>
  BY DEF S!DeviceSend
<1>3. FromFits(d)
  <2>1. CASE \E t \in {"SH", "SKE", "SHD", "Fin", "syn", "synAck"} : d = S!Msg(t)
    BY <2>1, PlainTypes DEF FromFits
  <2>2. CASE \E s \in devUnacked : d = [type |-> "data", seq |-> s, msg |-> IF s = 0 THEN "sessionOk" ELSE "created"]
    <3>1. PICK s \in devUnacked : d = [type |-> "data", seq |-> s, msg |-> IF s = 0 THEN "sessionOk" ELSE "created"]
      BY <2>2
    <3>2. s \in {0, 1} /\ s < rcvNext /\ dtls = "done"
      BY DEF SetupType, LinkInv
    <3>3. d.seq = s /\ (d.msg = "created" => s # 0)
      BY <3>1
    <3>4. QED
      BY <3>2, <3>3 DEF FromFits
  <2>3. QED
    BY <2>1, <2>2 DEF S!DeviceSays, S!ServerFlight
<1>4. fromDev' \subseteq fromDev \cup {d}
  BY <1>1, CarriedOf
<1>5. LinkInv'
  BY <1>2, <1>3, <1>4 DEF LinkInv, FromFits
<1>6. SetupBits' /\ SetupType' /\ NumberInv'
  BY <1>2 DEF SetupBits, SetupType, NumberInv
<1>7. QED
  BY <1>5, <1>6

LEMMA SetupStep ==
  ASSUME SetupInv, S!Next
  PROVE  SetupInv'
BY HandshakeStep, RecvStep, EndStep, DeviceStep, SayStep DEF S!Next

LEMMA SetupResets == SetupReset => SetupInv'
<1> SUFFICES ASSUME SetupReset
             PROVE  SetupInv'
  OBVIOUS
<1>1. SetupBits' /\ ~ready'
  BY Zenon DEF SetupReset, SetupBits
<1>2. ChEvery \in Nat \ {0}
  BY LifecycleAssumption DEF S!SetupAssumption
<1>3. SetupType'
  BY <1>2 DEF SetupReset, SetupType
<1>4. LinkInv' /\ NumberInv'
  BY <1>1 DEF SetupReset, LinkInv, NumberInv
<1>5. QED
  BY <1>1, <1>3, <1>4 DEF SetupInv
-----------------------------------------------------------------------------
(* Teardown.                                                               *)

LEMMA Goroutines == Main # Helper /\ T!Goroutine = {Main, Helper}
BY LifecycleAssumption DEF T!GoroutineAssumption, T!Goroutine

(* A step of Tunnel.Close: only the last one lets its caller go on, and    *)
(* then the keepalive has been told to stop, by it or by the other.        *)
LEMMA CloseStep ==
  ASSUME UseInv, NEW g \in T!Goroutine, T!TunnelClose(g)
  PROVE  UseInv'
<1> USE DEF T!shared, T!InClose
<1>1. UNCHANGED pc /\ closing \in [T!Goroutine -> {"out", "once", "wake", "select", "stop", "socket"}]
  BY DEF UseInv, T!TunnelClose, T!CloseOnce, T!CloseWake, T!CloseSelect, T!CloseStop, T!CloseSocket
<1>2. CASE T!CloseOnce(g) \/ T!CloseWake(g) \/ T!CloseSelect(g)
  <2>1. PICK to \in {"wake", "select", "stop", "socket"} :
          /\ closing' = [closing EXCEPT ![g] = to] /\ UNCHANGED <<stopKA, sock>>
          /\ to = "socket" => stopKA
    BY <1>2 DEF T!CloseOnce, T!CloseWake, T!CloseSelect, T!AfterStopped
  <2>2. QED
    BY <1>1, <2>1, Goroutines DEF UseInv, Out
<1>3. CASE T!CloseStop(g)
  <2>1. closing' = [closing EXCEPT ![g] = "socket"] /\ stopKA' = TRUE /\ UNCHANGED sock
    BY <1>3 DEF T!CloseStop
  <2>2. stopKA'
    BY <2>1, Zenon
  <2>3. QED
    BY <1>1, <2>1, <2>2, Goroutines DEF UseInv, Out
<1>4. CASE T!CloseSocket(g)
  <2>1. closing[g] = "socket" /\ closing' = [closing EXCEPT ![g] = "out"] /\ sock' = FALSE /\ UNCHANGED stopKA
    BY <1>4 DEF T!CloseSocket
  <2>2. ~sock' /\ stopKA'
    <3>1. stopKA
      BY <2>1 DEF UseInv
    <3>2. QED
      BY <2>1, <3>1, Zenon
  <2>3. QED
    BY <1>1, <2>1, <2>2, Goroutines DEF UseInv, Out
<1>5. QED
  BY <1>2, <1>3, <1>4 DEF T!TunnelClose

(* A goroutine goes to a label that promises nothing.                      *)
LEMMA GotoStep ==
  ASSUME UseInv, NEW l \in Labels \ {"wait3", "returned", "done"},
         NEW g \in T!Goroutine, T!Goto(g, l), UNCHANGED <<closing, stopKA, sock>>
  PROVE  UseInv'
<1>1. pc' = [pc EXCEPT ![g] = l]
  BY DEF T!Goto
<1>2. QED
  BY <1>1, Goroutines DEF UseInv, Out

(* A goroutine goes to any label by way of Tunnel.Close.                   *)
LEMMA CloseThenStep ==
  ASSUME UseInv, NEW l \in Labels, NEW g \in T!Goroutine, T!CloseThen(g, l)
  PROVE  UseInv'
<1>1. /\ pc' = [pc EXCEPT ![g] = l] /\ closing' = [closing EXCEPT ![g] = "once"]
      /\ UNCHANGED <<stopKA, sock>>
  BY DEF T!CloseThen, T!Goto, T!shared
<1>2. QED
  BY <1>1, Goroutines DEF UseInv, Out

LEMMA UseStep ==
  ASSUME UseInv, T!Next
  PROVE  UseInv'
<1> USE DEF T!shared, Labels
<1> Main \in T!Goroutine /\ Helper \in T!Goroutine
  BY Goroutines
<1>1. CASE \E g \in T!Goroutine : T!TunnelClose(g)
  BY <1>1, CloseStep
<1>2. CASE T!PumpFails \/ T!PumpExits \/ T!KeepaliveStops
  BY <1>2 DEF T!PumpFails, T!PumpExits, T!KeepaliveStops, UseInv, Out
<1>3. CASE T!SetupStep \/ T!SetupBreaks \/ T!GraceStep \/ T!GraceBreaks
  <2>1. PICK l \in Labels \ {"wait3", "returned", "done"} : T!Goto(Helper, l)
    BY <1>3 DEF T!SetupStep, T!SetupBreaks, T!GraceStep, T!GraceBreaks, T!Answers, T!Breaks
  <2>2. UNCHANGED <<closing, stopKA, sock>>
    BY <1>3 DEF T!SetupStep, T!SetupBreaks, T!GraceStep, T!GraceBreaks, T!Answers, T!Breaks
  <2>3. QED
    BY <2>1, <2>2, GotoStep
<1>4. CASE T!GraceClose \/ T!ConnectErr \/ T!ConnectTimeout \/ T!CloserForces
  BY <1>4, CloseThenStep DEF T!GraceClose, T!ConnectErr, T!ConnectTimeout, T!CloserForces
<1>5. CASE T!ConnectOk
  BY <1>5, GotoStep DEF T!ConnectOk
<1>6. CASE T!CloserStarts
  <2>1. /\ pc' = [pc EXCEPT ![Main] = "wait8", ![Helper] = "umount"]
        /\ UNCHANGED <<closing, stopKA, sock>>
    BY <1>6 DEF T!CloserStarts
  <2>2. QED
    BY <2>1, Goroutines DEF UseInv, Out
<1>7. CASE T!CloserDone \/ T!CloserAbandons
  <2>1. ~sock /\ stopKA
    BY <1>7 DEF T!CloserDone, T!CloserAbandons, T!Is, UseInv, Out
  <2>2. pc' = [pc EXCEPT ![Main] = "returned"] /\ UNCHANGED <<closing, stopKA, sock>>
    BY <1>7 DEF T!CloserDone, T!CloserAbandons, T!Goto
  <2>3. QED
    BY <2>1, <2>2, Goroutines DEF UseInv, Out
<1>8. QED
  BY <1>1, <1>2, <1>3, <1>4, <1>5, <1>6, <1>7 DEF T!Next

LEMMA UseResets == UseReset => UseInv'
BY Goroutines DEF UseReset, UseInv, Out, Labels

(* Closing the socket in another stage disturbs nothing.                   *)
LEMMA UseKept ==
  ASSUME UseInv, UNCHANGED useLocals, ~sock' \/ UNCHANGED sock
  PROVE  UseInv'
BY DEF UseInv, Out, useLocals

(* The socket stays a Boolean in Tunnel.Close.                             *)
LEMMA UseSock ==
  ASSUME sock \in BOOLEAN, T!Next
  PROVE  sock' \in BOOLEAN
<1>1. sock' = sock \/ sock' = FALSE
  BY DEF T!Next, T!TunnelClose, T!CloseOnce, T!CloseWake, T!CloseSelect, T!CloseStop, T!CloseSocket,
         T!PumpFails, T!PumpExits, T!KeepaliveStops, T!SetupStep, T!SetupBreaks, T!GraceStep,
         T!GraceBreaks, T!GraceClose, T!Answers, T!Breaks, T!ConnectOk, T!ConnectErr, T!ConnectTimeout,
         T!CloserStarts, T!CloserDone, T!CloserForces, T!CloserAbandons, T!CloseThen, T!shared
<1>2. QED
  BY <1>1, Zenon
-----------------------------------------------------------------------------
(* The stages.                                                             *)

LEMMA InitInv == Init => Inv
<1> SUFFICES ASSUME Init
             PROVE  Inv
  OBVIOUS
<1> USE DEF Init
<1>1. DialBits /\ ~session /\ sock \in BOOLEAN /\ sock
  BY Zenon DEF D!Init, DialBits
<1>2. DialInv
  BY <1>1 DEF D!Init, DialInv
<1>3. SetupBits /\ ~ready
  BY Zenon DEF S!Init, SetupBits
<1>4. ChEvery \in Nat \ {0} /\ MaxDials \in Nat \ {0}
  BY LifecycleAssumption DEF S!SetupAssumption
<1>5. SetupType
  BY <1>4 DEF S!Init, SetupType
<1>6. LinkInv /\ NumberInv
  BY <1>3 DEF S!Init, LinkInv, NumberInv
<1>7. UseInv
  BY Goroutines DEF T!Init, UseInv, Out, Labels
<1>8. StageInv
  BY <1>1, <1>4 DEF StageInv, D!Init
<1>9. QED
  BY <1>1, <1>2, <1>3, <1>5, <1>6, <1>7, <1>8 DEF Inv, SetupInv

(* A returned Dial takes no step.                                          *)
LEMMA DialLive == D!Next => phase # "failed"
BY DEF D!Next, D!PrecheckFails, D!PunchExpires, D!AdvanceExpires, D!CollectAddrs, D!CollectReply,
       D!CollectEnds, D!Coordinate, D!RelayEnds, D!HandleRelay0103, D!PunchSend, D!PunchBack,
       D!AdvanceSend, D!AdvanceRead, D!RdtSend, D!RdtAcked, D!Established

LEMMA NextInv == Inv /\ [Next]_vars => Inv'
<1> SUFFICES ASSUME Inv, [Next]_vars
             PROVE  Inv'
  OBVIOUS
<1> USE DEF Inv, ours, dialLocals, setupLocals, useLocals
<1> UNCHANGED dialLocals => DialBits' /\ DialInv'
  BY DEF DialBits, DialInv
<1> UNCHANGED setupLocals => SetupInv'
  BY DEF SetupInv, SetupBits, SetupType, LinkInv, NumberInv
<1>1. CASE InDial
  <2> USE <1>1 DEF InDial
  <2>1. DialBits' /\ DialInv'
    BY DialBitsStep, DialStep
  <2>2. DialSock /\ sock
    BY DialLive DEF StageInv, DialSock
  <2>3. DialSock'
    BY <2>2, DialStep
  <2>4. UseInv'
    BY <2>2 DEF UseInv, Out
  <2>5. StageInv'
    BY <2>3 DEF StageInv, DialSock
  <2>6. QED
    BY <2>1, <2>4, <2>5
<1>2. CASE InOpen
  <2> USE <1>2 DEF InOpen
  <2>1. SetupInv'
    BY SetupStep
  <2>2. UseInv' /\ StageInv'
    BY UseKept DEF StageInv
  <2>3. QED
    BY <2>1, <2>2
<1>3. CASE InUse
  <2> USE <1>3 DEF InUse
  <2>1. UseInv' /\ sock' \in BOOLEAN
    BY UseStep, UseSock DEF StageInv
  <2>2. StageInv'
    BY <2>1 DEF StageInv
  <2>3. QED
    BY <2>1, <2>2
<1>4. CASE AuthFails
  <2> USE <1>4 DEF AuthFails
  <2>1. sock' \in BOOLEAN /\ ~sock'
    BY Zenon
  <2>2. UseInv' /\ StageInv'
    BY <2>1, UseKept DEF StageInv
  <2>3. QED
    BY <2>2
<1>5. CASE DialUp
  <2> USE <1>5 DEF DialUp
  <2>1. DialBits' /\ DialInv' /\ UseInv'
    BY DialResets, UseKept
  <2>2. StageInv'
    BY DEF StageInv
  <2>3. QED
    BY <2>1, <2>2
<1>6. CASE DialDown
  <2> USE <1>6 DEF DialDown
  <2>1. UseInv' /\ StageInv'
    BY UseKept DEF StageInv
  <2>2. QED
    BY <2>1
<1>7. CASE OpenUp
  <2> USE <1>7 DEF OpenUp
  <2>1. SetupInv' /\ UseInv' /\ StageInv'
    BY SetupResets, UseKept DEF StageInv
  <2>2. QED
    BY <2>1
<1>8. CASE OpenDown
  <2> USE <1>8 DEF OpenDown
  <2>1. sess = "closed"
    BY DEF SetupInv, SetupType
  <2>2. sock' \in BOOLEAN /\ ~sock'
    BY <2>1
  <2>3. UseInv' /\ StageInv'
    BY <2>2, UseKept DEF StageInv
  <2>4. QED
    BY <2>3
<1>9. CASE UseOver
  <2> USE <1>9 DEF UseOver
  <2>1. ~sock
    BY DEF T!AllEnded, UseInv, Out
  <2>2. UseInv' /\ StageInv'
    BY <2>1, UseKept DEF StageInv
  <2>3. QED
    BY <2>2
<1>10. CASE Redial
  <2> USE <1>10 DEF Redial
  <2>1. DialBits' /\ DialInv' /\ SetupInv' /\ UseInv'
    BY DialResets, SetupResets, UseResets
  <2>2. sock' \in BOOLEAN /\ sock'
    BY Zenon
  <2>3. phase' = "collect" /\ dials' \in 1..MaxDials
    BY LifecycleAssumption DEF DialReset, StageInv
  <2>4. StageInv'
    BY <2>2, <2>3 DEF StageInv
  <2>5. QED
    BY <2>1, <2>4
<1>11. CASE UNCHANGED vars
  <2>1. UseInv' /\ StageInv'
    BY <1>11, UseKept DEF StageInv, vars
  <2>2. QED
    BY <1>11, <2>1 DEF vars
<1>12. QED
  BY <1>1, <1>2, <1>3, <1>4, <1>5, <1>6, <1>7, <1>8, <1>9, <1>10, <1>11 DEF Next

LEMMA Invariant == Spec => []Inv
BY InitInv, NextInv, PTL DEF Spec

-----------------------------------------------------------------------------
(* The theorems.                                                           *)

(* Every stage's variables have their types; in particular an error return *)
(* of Dial has closed its socket (session.go's fail) and one of OpenTunnel *)
(* has closed its Session (the deferred function of tunnelconn.go).        *)
THEOREM TypeCorrect == Spec => []TypeOK
<1>1. Inv => TypeOK
  <2> SUFFICES ASSUME Inv
               PROVE  TypeOK
    OBVIOUS
  <2>1. ASSUME stage = "dial"
        PROVE  D!TypeOK
    <3>1. (sock <=> phase # "failed") /\ sock \in BOOLEAN
      BY <2>1 DEF Inv, StageInv
    <3>2. sock = (phase # "failed")
      BY <3>1
    <3>3. session = (phase = "up")
      BY DEF Inv, DialBits, DialInv
    <3>4. {preReply, coordUID, gotRDT, rdtOpen} \subseteq BOOLEAN
      BY Zenon DEF Inv, DialBits
    <3>5. QED
      BY <3>2, <3>3, <3>4 DEF Inv, DialInv, D!TypeOK
  <2>2. {synAcked, sessionOpen, ready, knows} \subseteq BOOLEAN
    BY Zenon DEF Inv, SetupInv, SetupBits
  <2>3. S!TypeOK
    BY <2>2 DEF Inv, SetupInv, SetupType, S!TypeOK
  <2>4. stage \in {"dial", "open", "use", "rest"} /\ dials \in 0..MaxDials
    BY LifecycleAssumption DEF Inv, StageInv
  <2>5. QED
    BY <2>1, <2>3, <2>4 DEF TypeOK
<1>2. QED
  BY <1>1, Invariant, PTL

(* setup is ready only when the device has taken the session and the       *)
(* channel message, in that order, and finished its handshake, whatever    *)
(* the link lost, repeated or reordered.                                   *)
THEOREM CreatedWhenReadyAlways == Spec => []CreatedWhenReady
<1>1. Inv => CreatedWhenReady
  BY DEF Inv, SetupInv, NumberInv, CreatedWhenReady, S!CreatedWhenReady
<1>2. QED
  BY <1>1, Invariant, PTL

(* The reliable numbers setup used are 0, 1 and 2, one message each, and   *)
(* the pump's first is the next one: no two frames share a number.         *)
THEOREM NumbersHandedOverAlways == Spec => []NumbersHandedOver
<1>1. Inv => NumbersHandedOver
  <2> SUFFICES ASSUME Inv, step = "running"
               PROVE  used = {<<s, S!SetupMsg[s + 1]>> : s \in 0..(txSeq - 1)}
    BY DEF NumbersHandedOver, S!NumbersHandedOver
  <2>1. txSeq = 3 /\ ready
    BY DEF Inv, SetupInv, SetupType, S!DataSeq
  <2>2. rcvNext >= 2 /\ Numbered(2) \in used /\ rcvNext \in 0..3
    BY <2>1 DEF Inv, SetupInv, NumberInv, SetupType
  <2>3. \A s \in 0..2 : Numbered(s) \in used
    <3> SUFFICES ASSUME NEW s \in 0..2
                 PROVE  Numbered(s) \in used
      OBVIOUS
    <3>1. s < rcvNext \/ s = 2
      BY <2>2
    <3>2. QED
      BY <2>2, <3>1 DEF Inv, SetupInv, NumberInv
  <2>4. used = {Numbered(s) : s \in 0..2}
    BY <2>3 DEF Inv, SetupInv, NumberInv
  <2>5. 0..(txSeq - 1) = 0..2
    BY <2>1
  <2>6. QED
    BY <2>4, <2>5 DEF Numbered
<1>2. QED
  BY <1>1, Invariant, PTL

(* Where setup leaves the connection to the pump (tunnelconn.go: txSeq = 3 *)
(* and go pump): the device's next number is 2 or 3; of the frames under   *)
(* way it can still take at most connectAddr under 2; and what it still    *)
(* sends, or has under way, are its frames 0 and 1, which setup consumed.  *)
(* These are the states GoBackN (FirstSeq, SetupSeq) and Inbound (Echoes,  *)
(* FirstData) start from.                                                  *)
HandedOver ==
  step = "running" =>
    /\ txSeq = 3 /\ rcvNext \in {2, 3}
    /\ \A d \in toDev : d.type = "data" /\ d.seq >= rcvNext => d.seq = 2 /\ d.msg = "connectAddr"
    /\ \A d \in fromDev : d.type = "data" => d.seq \in {0, 1}
    /\ devUnacked \subseteq {0, 1}

(* So it is for every link that loses, copies and reorders, however often  *)
(* setup and the device have repeated themselves.                          *)
THEOREM HandedOverAlways == Spec => []HandedOver
<1>1. Inv => HandedOver
  <2> SUFFICES ASSUME Inv, step = "running"
               PROVE  /\ txSeq = 3 /\ rcvNext \in {2, 3}
                      /\ \A d \in toDev : d.type = "data" /\ d.seq >= rcvNext => d.seq = 2 /\ d.msg = "connectAddr"
                      /\ \A d \in fromDev : d.type = "data" => d.seq \in {0, 1}
                      /\ devUnacked \subseteq {0, 1}
    BY DEF HandedOver
  <2>1. txSeq = 3 /\ ready /\ rcvNext \in 0..3 /\ devUnacked \subseteq {0, 1}
    BY DEF Inv, SetupInv, SetupType, S!DataSeq
  <2>2. rcvNext \in {2, 3}
    BY <2>1 DEF Inv, SetupInv, NumberInv
  <2>3. ASSUME NEW d \in toDev, d.type = "data", d.seq >= rcvNext
        PROVE  d.seq = 2 /\ d.msg = "connectAddr"
    <3>1. d.seq \in 0..2 /\ d.msg = S!SetupMsg[d.seq + 1]
      BY <2>3 DEF Inv, SetupInv, LinkInv
    <3>2. d.seq = 2
      BY <2>2, <2>3, <3>1
    <3>3. QED
      BY <3>1, <3>2 DEF S!SetupMsg
  <2>4. \A d \in fromDev : d.type = "data" => d.seq \in {0, 1}
    BY DEF Inv, SetupInv, LinkInv
  <2>5. QED
    BY <2>1, <2>2, <2>3, <2>4
<1>2. QED
  BY <1>1, Invariant, PTL

(* When connect has failed or its closer has returned, the socket is       *)
(* closed and the keepalive told to stop (main.go:492-493), although two   *)
(* goroutines may be inside Tunnel.Close at once.                          *)
THEOREM ReturnedReleasedAlways == Spec => []ReturnedReleased
<1>1. Inv => ReturnedReleased
  BY DEF Inv, UseInv, Out, ReturnedReleased, T!ReturnedReleased
<1>2. QED
  BY <1>1, Invariant, PTL

(* However a session ended, or failed to begin, no socket of it is open    *)
(* when main comes to the next Dial: the device, which takes one session   *)
(* at a time, is free.  For any number of sessions.                        *)
THEOREM OneSessionAlways == Spec => []OneSession
<1>1. Inv => OneSession
  BY DEF Inv, StageInv, OneSession
<1>2. QED
  BY <1>1, Invariant, PTL
=============================================================================
