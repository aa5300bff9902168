---------------------------- MODULE TunnelSetup ----------------------------
(***************************************************************************)
(* OpenTunnel of kalay/tunnelconn.go from the dialled session to the start *)
(* of the pump: the two DTLS flights and setup, the RDT SYN and the        *)
(* P2PTunnel session, channel and connect messages that use the reliable   *)
(* sequence numbers 0, 1 and 2.  GoBackN starts where this module ends.    *)
(*                                                                         *)
(* The device is external.  It is modelled by what the client needs of it: *)
(* it answers each handshake message, repeats its SYN, its SYN ACK and its *)
(* unacknowledged reliable frames, and takes reliable frames in order and  *)
(* only under its own connection id.  Both directions of the link lose,    *)
(* duplicate and reorder datagrams.                                        *)
(***************************************************************************)
EXTENDS Integers, FiniteSets

CONSTANTS
  ChEvery,   \* iterations of the flight 1 loop per ClientHello (8 in the code)
  LinkCap    \* the most datagrams the link holds each way; more are lost

(* Assumed by Lifecycle.                                                   *)
SetupAssumption == ChEvery \in Nat \ {0} /\ LinkCap \in Nat \ {0}

NoConn == 0      \* devConn before the device's SYN
DevConn == 1     \* the connection id the device chose
ServerFlight == {"SH", "SKE", "SHD"}
SetupMsg == <<"session", "portConnect", "connectAddr">>

(* Datagrams to the device and from it.                                    *)
Msg(t) == [type |-> t]
Reliable(conn, s, m) == [type |-> "data", conn |-> conn, seq |-> s, msg |-> m]
AckOf(conn, s) == [type |-> "ack", conn |-> conn, seq |-> s]

VARIABLES
  step,        \* where OpenTunnel is
  sends,       \* flight 1 iterations, modulo ChEvery
  flight,      \* the messages of the server's flight that have arrived
  devConn, synAcked, sessionOpen, ready,
  txSeq,
  sess,        \* the dialled Session: open or closed
  used,        \* history: the reliable sequence numbers and messages sent
  toDev, fromDev,
  dtls,        \* device: "none", "hello" (flight sent), "done"
  knows,       \* device: it has the client's SYN
  rcvNext,     \* device: the next reliable frame it takes
  devUnacked   \* device: its reliable frames not yet acknowledged

client == <<step, sends, flight, devConn, synAcked, sessionOpen, ready, txSeq, sess, used>>
device == <<dtls, knows, rcvNext, devUnacked>>
vars == <<client, toDev, fromDev, device>>

Init ==
  /\ step = "hello" /\ sends = 0 /\ flight = {}
  /\ devConn = NoConn /\ synAcked = FALSE /\ sessionOpen = FALSE /\ ready = FALSE
  /\ txSeq = 0 /\ sess = "open" /\ used = {}
  /\ toDev = {} /\ fromDev = {}
  /\ dtls = "none" /\ knows = FALSE
  /\ rcvNext = 0 /\ devUnacked = {}

(* Each of the datagrams D joins the link or is lost.                      *)
Carried(net, D) == {n \in {net \cup E : E \in SUBSET D} : n = net \/ Cardinality(n) <= LinkCap}

(* A datagram is taken off the link, or a copy of it is.                   *)
Taken(net, d) == {net, net \ {d}}

-----------------------------------------------------------------------------
(* The DTLS handshake.                                                     *)

(* Flight 1: the ClientHello is replayed at every ChEvery-th iteration.    *)
HelloSend ==
  /\ step = "hello" /\ flight # ServerFlight
  /\ toDev' \in IF sends = 0 THEN Carried(toDev, {Msg("CH")}) ELSE {toDev}
  /\ sends' = (sends + 1) % ChEvery
  /\ step' = "helloRead"
  /\ UNCHANGED <<flight, devConn, synAcked, sessionOpen, ready, txSeq, sess, used, fromDev, device>>

(* One read: a record of the server's flight, any other record, or the     *)
(* read deadline.                                                          *)
HelloRead ==
  /\ step = "helloRead"
  /\ \/ \E d \in fromDev : /\ flight' = flight \cup ({d.type} \cap ServerFlight)
                           /\ fromDev' \in Taken(fromDev, d)
     \/ UNCHANGED <<flight, fromDev>>
  /\ step' = "hello"
  /\ UNCHANGED <<sends, devConn, synAcked, sessionOpen, ready, txSeq, sess, used, toDev, device>>

(* Flight 2, ClientKeyExchange to Finished in one datagram, is sent once.  *)
FinishSend ==
  /\ step = "hello" /\ flight = ServerFlight
  /\ toDev' \in Carried(toDev, {Msg("flight2")})
  /\ step' = "finish"
  /\ UNCHANGED <<sends, flight, devConn, synAcked, sessionOpen, ready, txSeq, sess, used, fromDev, device>>

FinishRead ==
  /\ step = "finish"
  /\ \E d \in fromDev : /\ step' = IF d.type = "Fin" THEN "top" ELSE "finish"
                        /\ fromDev' \in Taken(fromDev, d)
  /\ UNCHANGED <<sends, flight, devConn, synAcked, sessionOpen, ready, txSeq, sess, used, toDev, device>>

-----------------------------------------------------------------------------
(* setup.                                                                  *)

(* The top of the loop, with the keepalive when its 300 ms have passed.    *)
SetupTop ==
  /\ step = "top" /\ ~ready
  /\ \/ toDev' \in Carried(toDev, {Msg("syn")} \cup
                     (IF devConn # NoConn THEN {[type |-> "synAck", conn |-> devConn]} ELSE {}))
     \/ UNCHANGED toDev
  /\ step' = "batch"
  /\ UNCHANGED <<sends, flight, devConn, synAcked, sessionOpen, ready, txSeq, sess, used, fromDev, device>>

(* sendRDT of setup message s: no buffer keeps it.                         *)
SetupSend(s, acks) ==
  /\ toDev' \in Carried(toDev, acks \cup {Reliable(devConn, s, SetupMsg[s + 1])})
  /\ used' = used \cup {<<s, SetupMsg[s + 1]>>}

RecvSyn(d) ==
  /\ d.type = "syn"
  /\ devConn' = IF devConn = NoConn THEN DevConn ELSE devConn
  /\ UNCHANGED <<synAcked, sessionOpen, ready, used, toDev>>

RecvSynAck(d) ==
  /\ d.type = "synAck"
  /\ synAcked' = TRUE
  /\ IF synAcked THEN UNCHANGED <<toDev, used>> ELSE SetupSend(0, {})
  /\ UNCHANGED <<devConn, sessionOpen, ready>>

(* Mutant of IsCreated: any answer of the device counts as the channel's.  *)
IsCreatedAny(d) == d.msg \in {"sessionOk", "created"}

IsCreated(d) == d.msg = "created"

(* Every reliable frame is acknowledged by its own number.                 *)
RecvData(d) ==
  /\ d.type = "data"
  /\ LET ack == {AckOf(devConn, d.seq)}
     IN \/ /\ IsCreated(d) /\ ~ready
           /\ ready' = TRUE /\ SetupSend(2, ack) /\ UNCHANGED sessionOpen
        \/ /\ ~IsCreated(d) /\ ~sessionOpen
           /\ sessionOpen' = TRUE /\ SetupSend(1, ack) /\ UNCHANGED ready
        \/ /\ IF IsCreated(d) THEN ready ELSE sessionOpen
           /\ toDev' \in Carried(toDev, ack)
           /\ UNCHANGED <<sessionOpen, ready, used>>
  /\ UNCHANGED <<devConn, synAcked>>

(* One frame of the batch readRDT returned; after ready the rest of the    *)
(* batch is still answered.                                                *)
SetupRecv ==
  /\ step = "batch"
  /\ \E d \in fromDev :
       /\ RecvSyn(d) \/ RecvSynAck(d) \/ RecvData(d)
       /\ fromDev' \in Taken(fromDev, d)
  /\ UNCHANGED <<step, sends, flight, txSeq, sess, device>>

BatchEnd ==
  /\ step = "batch"
  /\ step' = "top"
  /\ UNCHANGED <<sends, flight, devConn, synAcked, sessionOpen, ready, txSeq, sess, used, toDev, fromDev, device>>

(* Mutant of DataSeq: the pump would reuse connectAddr's number.           *)
DataSeqShort == 2

DataSeq == 3

SetupDone ==
  /\ step = "top" /\ ready
  /\ txSeq' = DataSeq
  /\ step' = "running"
  /\ UNCHANGED <<sends, flight, devConn, synAcked, sessionOpen, ready, sess, used, toDev, fromDev, device>>

(* Mutant of Released: the deferred close is missing.                      *)
ReleasedNever == sess

(* The deferred function, on every return that is not ok.                  *)
Released == "closed"

(* A deadline passes, or the server's key exchange is unusable.            *)
OpenFails ==
  /\ step \in {"hello", "finish"} \/ (step = "top" /\ ~ready)
  /\ step' = "failed"
  /\ sess' = Released
  /\ UNCHANGED <<sends, flight, devConn, synAcked, sessionOpen, ready, txSeq, used, toDev, fromDev, device>>

-----------------------------------------------------------------------------
(* The device, external.                                                   *)

(* In order, under its own id: message 0 opens the session, 1 creates the  *)
(* channel, and each is answered with a reliable frame of the same number; *)
(* 2 connects the channel.                                                 *)
DeviceData(d) ==
  /\ d.type = "data" /\ dtls = "done"
  /\ IF d.conn = DevConn /\ d.seq = rcvNext
     THEN /\ rcvNext' = rcvNext + 1
          /\ devUnacked' = devUnacked \cup ({d.seq} \cap {0, 1})
     ELSE UNCHANGED <<rcvNext, devUnacked>>
  /\ UNCHANGED <<dtls, knows>>

DeviceControl(d) ==
  /\ d.type # "data"
  /\ dtls' = CASE d.type = "CH" /\ dtls = "none" -> "hello"
               [] d.type = "flight2" /\ dtls = "hello" -> "done"
               [] OTHER -> dtls
  /\ knows' = (knows \/ d.type = "syn")
  /\ devUnacked' = IF d.type = "ack" THEN devUnacked \ {d.seq} ELSE devUnacked
  /\ UNCHANGED rcvNext

DeviceRecv ==
  /\ \E d \in toDev : /\ DeviceData(d) \/ DeviceControl(d)
                      /\ toDev' \in Taken(toDev, d)
  /\ UNCHANGED <<client, fromDev>>

(* What the device has to say: its handshake flight or Finished, its SYN,  *)
(* its SYN ACK once it has the client's SYN, its unacknowledged frames.    *)
DeviceSays ==
  {Msg(t) : t \in CASE dtls = "none" -> {}
                    [] dtls = "hello" -> ServerFlight
                    [] OTHER -> {"Fin", "syn"} \cup (IF knows THEN {"synAck"} ELSE {})}
  \cup {[type |-> "data", seq |-> s, msg |-> IF s = 0 THEN "sessionOk" ELSE "created"] : s \in devUnacked}

DeviceSend ==
  /\ \E d \in DeviceSays : fromDev' \in Carried(fromDev, {d}) \ {fromDev}
  /\ UNCHANGED <<client, toDev, device>>

Lose ==
  \/ (\E d \in toDev : toDev' = toDev \ {d}) /\ UNCHANGED <<client, fromDev, device>>
  \/ (\E d \in fromDev : fromDev' = fromDev \ {d}) /\ UNCHANGED <<client, toDev, device>>

Next ==
  \/ HelloSend \/ HelloRead \/ FinishSend \/ FinishRead
  \/ SetupTop \/ SetupRecv \/ BatchEnd \/ SetupDone \/ OpenFails
  \/ DeviceRecv \/ DeviceSend \/ Lose

Spec == Init /\ [][Next]_vars

(* The client's goroutine runs, and the device takes what stays on the     *)
(* link.  Nothing here retransmits for the client.                         *)
FairSpec == Spec /\ WF_vars(SetupTop \/ BatchEnd \/ SetupDone) /\ SF_vars(DeviceRecv)

-----------------------------------------------------------------------------
(* Properties.                                                             *)

(* Every variable has its type, and a session is closed exactly when       *)
(* OpenTunnel has failed, since the caller then has no handle to close.    *)
TypeOK ==
  /\ step \in {"hello", "helloRead", "finish", "top", "batch", "running", "failed"}
  /\ sends \in 0..(ChEvery - 1) /\ flight \subseteq ServerFlight
  /\ devConn \in {NoConn, DevConn}
  /\ {synAcked, sessionOpen, ready, knows} \subseteq BOOLEAN
  /\ txSeq \in {0, DataSeq} /\ rcvNext \in 0..3
  /\ dtls \in {"none", "hello", "done"} /\ devUnacked \subseteq {0, 1}
  /\ sess = IF step = "failed" THEN "closed" ELSE "open"

(* setup: the tunnel is handed over only when the device has taken the     *)
(* session and channel messages in that order, and so answered both.       *)
CreatedWhenReady == ready => dtls = "done" /\ rcvNext >= 2

(* setup numbers one message 0, one 1 and one 2, and the pump continues    *)
(* with the first number it left free: no two frames share a number.       *)
NumbersHandedOver ==
  step = "running" => used = {<<s, SetupMsg[s + 1]>> : s \in 0..(txSeq - 1)}

-----------------------------------------------------------------------------
(* What the source says of itself and TLC refutes (README, section 3).     *)

(* "Go-back-N buffers every reliable frame ... retransmits the unacked     *)
(* window" (gobackn.go:12-14): connectAddr, the reliable frame setup sends *)
(* last, reaches the device of a tunnel that is up.  The pump does not     *)
(* resend it either: its window starts at txSeq.                           *)
ConnectReaches == step = "running" ~> rcvNext = 3
=============================================================================
