------------------------------- MODULE Dial --------------------------------
(***************************************************************************)
(* Dial of kalay/session.go: collecting the device's candidate addresses,  *)
(* relay coordination, the hole-punch, the advance to the connected state, *)
(* the RDT control handshake and the Session that results, on one socket.  *)
(* Every phase is a loop that sends, reads until a deadline and looks at   *)
(* what it reads; a packet of no interest to the phase is dropped.         *)
(*                                                                         *)
(* The masters, the relays and the device are external.  A packet to them  *)
(* is delivered or lost when it is sent; the device's answers can be read  *)
(* for as long as they are true, since it repeats them.  A host that is    *)
(* not the device may send anything at any time.                           *)
(***************************************************************************)
EXTENDS Naturals, FiniteSets

CONSTANTS
  DevPublic,   \* the device's public address
  DevLan,      \* the device's LAN address
  Master,      \* addresses of masters, advertised among the others
  Other,       \* public addresses that are not the device's
  Relay,       \* the relay endpoints a precheck reply may list
  NoAddr

(* Assumed by Lifecycle.                                                   *)
AddrAssumption ==
  /\ {DevPublic, DevLan} \cap (Master \cup Other) = {} /\ DevPublic # DevLan
  /\ Master \cap Other = {} /\ NoAddr \notin {DevPublic, DevLan} \cup Master \cup Other

Dev == {DevPublic, DevLan}
Addr == Dev \cup Master \cup Other

VARIABLES
  phase,      \* where Dial is
  sock,       \* the socket is open
  cands,      \* candSet, then cands
  preReply,   \* the 0201 reply has been kept
  coordUID,   \* the relay coordination has its UID (not nil)
  relayChans, \* the relay channels established
  epsLeft,    \* relay endpoints not tried yet
  devAddr,
  gotRDT,
  session,    \* the Session exists and its keepalive runs
  dstate,     \* device: session state, 0, 1 or 4
  rdtOpen     \* device: the RDT control channel is open

local == <<phase, sock, cands, preReply, coordUID, relayChans, epsLeft, devAddr, gotRDT, session>>
device == <<dstate, rdtOpen>>
vars == <<local, device>>

Init ==
  /\ phase = "collect" /\ sock = TRUE
  /\ cands = {} /\ preReply = FALSE /\ coordUID = FALSE
  /\ relayChans = {} /\ epsLeft = {}
  /\ devAddr = NoAddr /\ gotRDT = FALSE /\ session = FALSE
  /\ dstate = 0 /\ rdtOpen = FALSE

(* Mutant of FailedSocket: an error return forgets the socket.             *)
FailedSocketOpen == TRUE

FailedSocket == FALSE

(* An error return closes the socket.                                      *)
Fail ==
  /\ phase' = "failed" /\ sock' = FailedSocket
  /\ UNCHANGED <<cands, preReply, coordUID, relayChans, epsLeft, devAddr, gotRDT, session, device>>

-----------------------------------------------------------------------------
(* 0 and 1: precheck, KNOCK and the candidates.                            *)

(* BuildPrecheck0201Ex fails.                                              *)
PrecheckFails == phase = "collect" /\ cands = {} /\ ~preReply /\ Fail

(* Public, and not a master's.                                             *)
Usable(a) == a # DevLan /\ a \notin Master

(* An address list arrives, from an auth-master or the KNOCK master.       *)
CollectAddrs ==
  /\ phase = "collect"
  /\ \E A \in SUBSET Addr : cands' = cands \cup {a \in A : Usable(a)}
  /\ UNCHANGED <<phase, sock, preReply, coordUID, relayChans, epsLeft, devAddr, gotRDT, session, device>>

CollectReply ==
  /\ phase = "collect" /\ ~preReply
  /\ preReply' = TRUE
  /\ UNCHANGED <<phase, sock, cands, coordUID, relayChans, epsLeft, devAddr, gotRDT, session, device>>

(* 3 s are over.  A reply that decodes gives the UID and the relays.       *)
CollectEnds ==
  /\ phase = "collect"
  /\ \/ cands = {} /\ Fail
     \/ /\ cands # {} /\ preReply
        /\ phase' = "relay" /\ coordUID' = TRUE /\ epsLeft' \in SUBSET Relay
        /\ UNCHANGED <<sock, cands, preReply, relayChans, devAddr, gotRDT, session, device>>
     \/ /\ cands # {}
        /\ phase' = "punch"
        /\ UNCHANGED <<sock, cands, preReply, coordUID, relayChans, epsLeft, devAddr, gotRDT, session, device>>

(* 1b: Coordinate with one endpoint succeeds, and the setup messages are   *)
(* sent on its channel, or it times out and is passed over.                *)
Coordinate ==
  /\ phase = "relay"
  /\ \E e \in epsLeft : /\ epsLeft' = epsLeft \ {e}
                        /\ relayChans' \in {relayChans, relayChans \cup {e}}
  /\ UNCHANGED <<phase, sock, cands, preReply, coordUID, devAddr, gotRDT, session, device>>

RelayEnds ==
  /\ phase = "relay" /\ epsLeft = {}
  /\ phase' = "punch"
  /\ UNCHANGED <<sock, cands, preReply, coordUID, relayChans, epsLeft, devAddr, gotRDT, session, device>>

-----------------------------------------------------------------------------
(* 2 to 4: the device.                                                     *)

(* handleRelay0103: the relay passes on the device's addresses, which      *)
(* become candidates; the 0408 that answers it has no effect the client    *)
(* can see here.                                                           *)
HandleRelay0103 ==
  /\ phase \in {"punch", "advance"}
  /\ \E A \in {{DevPublic}, Dev} : cands' = cands \cup A
  /\ UNCHANGED <<phase, sock, preReply, coordUID, relayChans, epsLeft, devAddr, gotRDT, session, device>>

(* DIRECT state 01 to every candidate.                                     *)
PunchSend ==
  /\ phase = "punch"
  /\ dstate' \in IF dstate = 0 /\ cands \cap Dev # {} THEN {0, 1} ELSE {dstate}
  /\ UNCHANGED <<local, rdtOpen>>

(* The source of the first 4e6d names the address all session data goes to;*)
(* nobody asks whether it was a candidate.  The device may send one that a *)
(* relay has asked for before any DIRECT reaches it.                       *)
PunchBack ==
  /\ phase = "punch"
  /\ \E a \in Addr : /\ devAddr' = a
                      /\ dstate' = IF dstate = 0 /\ a \in Dev THEN 1 ELSE dstate
  /\ phase' = "advance"
  /\ UNCHANGED <<sock, cands, preReply, coordUID, relayChans, epsLeft, gotRDT, session, rdtOpen>>

(* The peer is the device.                                                 *)
PeerIsDevice == devAddr \in Dev

(* DIRECT state 02, which moves a punched device to state 04.              *)
AdvanceSend ==
  /\ phase = "advance"
  /\ dstate' \in IF PeerIsDevice /\ dstate = 1 THEN {1, 4} ELSE {dstate}
  /\ UNCHANGED <<local, rdtOpen>>

DeviceConnState == 4

(* A 4e6d of the peer's host in state 04; a burst of state 04 answers it.  *)
AdvanceRead ==
  /\ phase = "advance"
  /\ PeerIsDevice => dstate = DeviceConnState
  /\ phase' = "rdt"
  /\ UNCHANGED <<sock, cands, preReply, coordUID, relayChans, epsLeft, devAddr, gotRDT, session, device>>

(* 10 s or 8 s are over.                                                   *)
PunchExpires == phase = "punch" /\ Fail
AdvanceExpires == phase = "advance" /\ Fail

(* 1704 and 2704; the SYN opens the channel.                               *)
RdtSend ==
  /\ phase = "rdt" /\ ~gotRDT
  /\ rdtOpen' \in {rdtOpen, PeerIsDevice}
  /\ UNCHANGED <<local, dstate>>

RdtAcked ==
  /\ phase = "rdt" /\ ~gotRDT
  /\ PeerIsDevice => rdtOpen
  /\ gotRDT' = TRUE
  /\ UNCHANGED <<phase, sock, cands, preReply, coordUID, relayChans, epsLeft, devAddr, session, device>>

(* The loop ends with the 2804 or after 4 s, and the Session is built.     *)
Established ==
  /\ phase = "rdt"
  /\ phase' = "up" /\ session' = TRUE
  /\ UNCHANGED <<sock, cands, preReply, coordUID, relayChans, epsLeft, devAddr, gotRDT, device>>

Next ==
  \/ PrecheckFails \/ CollectAddrs \/ CollectReply \/ CollectEnds
  \/ Coordinate \/ RelayEnds \/ HandleRelay0103
  \/ PunchSend \/ PunchBack \/ PunchExpires
  \/ AdvanceSend \/ AdvanceRead \/ AdvanceExpires
  \/ RdtSend \/ RdtAcked \/ Established

Spec == Init /\ [][Next]_vars

-----------------------------------------------------------------------------
(* Properties.                                                             *)

(* Every variable has its type, and the socket is open until an error      *)
(* return: it is Dial's to close until a Session owns it.                  *)
TypeOK ==
  /\ phase \in {"collect", "relay", "punch", "advance", "rdt", "up", "failed"}
  /\ sock = (phase # "failed") /\ session = (phase = "up")
  /\ cands \subseteq Addr /\ {preReply, coordUID, gotRDT, rdtOpen} \subseteq BOOLEAN
  /\ epsLeft \subseteq Relay /\ relayChans \subseteq Relay
  /\ devAddr \in Addr \cup {NoAddr} /\ dstate \in {0, 1, 4}

-----------------------------------------------------------------------------
(* What the source says of itself and TLC refutes (README, section 3).     *)

(* "opens the reliable-data channel, which the device requires before      *)
(* accepting DTLS data" (session.go:518-519): a Session handed out has it. *)
RdtRequired == session => rdtOpen
=============================================================================
