----------------------------- MODULE Lifecycle -----------------------------
(***************************************************************************)
(* The sessions of one process, one after the other: Dial, OpenTunnel      *)
(* (TunnelSetup), connect and its closer (Teardown), and again Dial, as    *)
(* the retry loop of connect and the passes of cmd/download do it.  The    *)
(* device admits one session at a time, so every way out of every stage    *)
(* must have let go of the socket before the next Dial.                    *)
(*                                                                         *)
(* The three modules run in turn on one socket.  What a stage keeps in     *)
(* locals is gone when it returns: its variables go back to their initial  *)
(* values.  Goroutines a session leaves behind touch only its own Tunnel;  *)
(* the next Dial is modelled after they have ended.                        *)
(***************************************************************************)
EXTENDS Naturals, FiniteSets

CONSTANTS
  DevPublic, DevLan, Master, Other, Relay, NoAddr,   \* Dial
  ChEvery, LinkCap,                                  \* TunnelSetup
  Main, Helper,                                      \* Teardown
  MaxDials                                           \* bound: sessions tried

VARIABLES
  stage,    \* "dial", "open", "use" or "rest"
  dials,    \* sessions tried
  sock,     \* the socket, shared by the stages
  phase, cands, preReply, coordUID, relayChans, epsLeft, devAddr, gotRDT, session,
  dstate, rdtOpen,
  step, sends, flight, devConn, synAcked, sessionOpen, ready, txSeq, sess, used,
  toDev, fromDev, dtls, knows, rcvNext, devUnacked,
  pc, closing, closed, woken, stopKA, ka, mounted, panicked

D == INSTANCE Dial
S == INSTANCE TunnelSetup
T == INSTANCE Teardown

ASSUME LifecycleAssumption ==
  D!AddrAssumption /\ S!SetupAssumption /\ T!GoroutineAssumption /\ MaxDials \in Nat \ {0}

ours == <<stage, dials>>
dialLocals == <<phase, cands, preReply, coordUID, relayChans, epsLeft, devAddr, gotRDT, session, dstate, rdtOpen>>
setupLocals == <<step, sends, flight, devConn, synAcked, sessionOpen, ready, txSeq, sess, used,
                 toDev, fromDev, dtls, knows, rcvNext, devUnacked>>
useLocals == <<pc, closing, closed, woken, stopKA, ka, mounted, panicked>>
vars == <<ours, sock, dialLocals, setupLocals, useLocals>>

(* What a stage's variables are when it starts again.                      *)
DialReset ==
  /\ phase' = "collect" /\ cands' = {} /\ preReply' = FALSE /\ coordUID' = FALSE
  /\ relayChans' = {} /\ epsLeft' = {} /\ devAddr' = NoAddr /\ gotRDT' = FALSE
  /\ session' = FALSE /\ dstate' = 0 /\ rdtOpen' = FALSE
SetupReset ==
  /\ step' = "hello" /\ sends' = 0 /\ flight' = {} /\ devConn' = S!NoConn
  /\ synAcked' = FALSE /\ sessionOpen' = FALSE /\ ready' = FALSE /\ txSeq' = 0
  /\ sess' = "open" /\ used' = {} /\ toDev' = {} /\ fromDev' = {}
  /\ dtls' = "none" /\ knows' = FALSE /\ rcvNext' = 0 /\ devUnacked' = {}
UseReset ==
  /\ pc' = [g \in T!Goroutine |-> IF g = Main THEN "setup" ELSE "openChannel"]
  /\ closing' = [g \in T!Goroutine |-> "out"]
  /\ closed' = FALSE /\ woken' = FALSE /\ stopKA' = FALSE
  /\ ka' = TRUE /\ mounted' = FALSE /\ panicked' = FALSE

Init ==
  /\ stage = "dial" /\ dials = 1
  /\ D!Init /\ S!Init /\ T!Init

-----------------------------------------------------------------------------
(* The stages and the ways between them.                                   *)

InDial == stage = "dial" /\ D!Next /\ UNCHANGED <<ours, setupLocals, useLocals>>
InOpen == stage = "open" /\ S!Next /\ UNCHANGED <<ours, sock, dialLocals, useLocals>>
InUse == stage = "use" /\ T!Next /\ UNCHANGED <<ours, dialLocals, setupLocals>>

(* seestar.Dial returns an error of the cloud's (a login, no credentials   *)
(* while the device is busy) before a socket is opened.                    *)
AuthFails ==
  /\ stage = "dial" /\ D!Init
  /\ stage' = "rest" /\ sock' = FALSE
  /\ UNCHANGED <<dials, dialLocals, setupLocals, useLocals>>

(* Dial returns a Session, and OpenTunnel starts on it.                    *)
DialUp ==
  /\ stage = "dial" /\ phase = "up"
  /\ stage' = "open" /\ DialReset
  /\ UNCHANGED <<dials, sock, setupLocals, useLocals>>

DialDown ==
  /\ stage = "dial" /\ phase = "failed"
  /\ stage' = "rest"
  /\ UNCHANGED <<dials, sock, dialLocals, setupLocals, useLocals>>

(* OpenTunnel returns a Tunnel, which connect and its closer use.          *)
OpenUp ==
  /\ stage = "open" /\ step = "running"
  /\ stage' = "use" /\ SetupReset
  /\ UNCHANGED <<dials, sock, dialLocals, useLocals>>

(* It returns an error, its Session closed or not.                         *)
OpenDown ==
  /\ stage = "open" /\ step = "failed"
  /\ stage' = "rest" /\ sock' = (sess = "open")
  /\ UNCHANGED <<dials, dialLocals, setupLocals, useLocals>>

UseOver ==
  /\ stage = "use" /\ T!AllEnded
  /\ stage' = "rest"
  /\ UNCHANGED <<dials, sock, dialLocals, setupLocals, useLocals>>

(* After a rest the next session is dialled, on a new socket.              *)
Redial ==
  /\ stage = "rest" /\ ~panicked /\ dials < MaxDials
  /\ stage' = "dial" /\ dials' = dials + 1
  /\ sock' = TRUE /\ DialReset /\ SetupReset /\ UseReset

Next == InDial \/ InOpen \/ InUse \/ AuthFails \/ DialUp \/ DialDown \/ OpenUp \/ OpenDown \/ UseOver \/ Redial

Spec == Init /\ [][Next]_vars

(* In the last stage every goroutine runs and every timer fires.  The      *)
(* device owes no answer, and while the tunnel lives main owes no end to   *)
(* its use of the share: the walk of enumerate reads directories without a *)
(* limit (main.go:353).  In a dead tunnel its calls fail like the others.  *)
Using(A) == stage = "use" /\ A /\ UNCHANGED <<ours, dialLocals, setupLocals>>
FairSpec ==
  /\ Spec
  /\ WF_vars(Using(T!TunnelClose(Main))) /\ WF_vars(Using(T!TunnelClose(Helper)))
  /\ WF_vars(Using(T!PumpExits)) /\ WF_vars(Using(T!KeepaliveStops))
  /\ WF_vars(Using(T!SetupBreaks \/ T!GraceBreaks \/ T!GraceClose))
  /\ WF_vars(Using(T!ConnectOk \/ T!ConnectErr \/ T!ConnectTimeout))
  /\ WF_vars(Using(T!CloserStarts /\ T!Unblocked))
  /\ WF_vars(Using(T!CloserDone \/ T!CloserForces \/ T!CloserAbandons))

-----------------------------------------------------------------------------
(* Properties.                                                             *)

(* The stages have their types (Dial.tla and TunnelSetup.tla say what      *)
(* that includes: a failed Dial or OpenTunnel has closed its socket).      *)
TypeOK ==
  /\ stage \in {"dial", "open", "use", "rest"} /\ dials \in 0..MaxDials
  /\ (stage = "dial" => D!TypeOK) /\ S!TypeOK

(* setup returns a Tunnel only after the device has taken its session and  *)
(* created its channel.                                                    *)
CreatedWhenReady == S!CreatedWhenReady

(* The pump's numbers carry on where setup's ended: no number is used for  *)
(* two messages.                                                           *)
NumbersHandedOver == S!NumbersHandedOver

(* "drops the UDP socket and keepalive ... and releases the device's       *)
(* single session" (main.go:492-493): so it is whenever main is past       *)
(* connect's errors or the closer, in whichever call the other goroutine   *)
(* is.                                                                     *)
ReturnedReleased == T!ReturnedReleased

(* "The device rejects a second concurrent Kalay session"                  *)
(* (tunnelconn.go:620-621): whichever stage ends and however, no socket is *)
(* left open when main comes to the next Dial.                             *)
OneSession == stage = "rest" => ~sock

(* Main is at work in a living tunnel, where nothing limits it.            *)
UsesShare == pc[Main] = "using" /\ ~closed

(* The watchdogs of connect and closer over time: unless main goes on      *)
(* using the share of a living tunnel, main returns whatever the device    *)
(* does, the keepalive loop ends, and so does the goroutine left in an SMB *)
(* call.                                                                   *)
Everybody == (stage = "use" /\ ~UsesShare) ~> (panicked \/ T!AllEnded \/ UsesShare)

-----------------------------------------------------------------------------
(* What the source says of itself and TLC refutes (README, section 3).     *)

(* "the tunnel is force-closed, which drops the UDP socket and keepalive,  *)
(* unblocks the stuck calls" (main.go:492-493): while the stuck goroutine, *)
(* once unblocked, closes the same tunnel.  Two goroutines in              *)
(* Session.Close do not bring the process down (session.go:656-663).       *)
NoDoubleClose == T!NoDoubleClose
=============================================================================
