----------------------------- MODULE Teardown ------------------------------
(***************************************************************************)
(* The life of one tunnel in cmd/download/main.go: connect, which sets up  *)
(* SMB in a goroutine of its own under a 35 s limit, and the closer it     *)
(* returns, which unmounts in a goroutine and force-closes the tunnel if   *)
(* that takes longer than 8 s; with Tunnel.Close (kalay/tunnelconn.go),    *)
(* Session.Close and the keepalive loop (kalay/session.go).  Tunnel.Close  *)
(* is run by up to two goroutines at once, and is a step per shared object *)
(* it touches.                                                             *)
(*                                                                         *)
(* SMB calls (external) finish, or block until the tunnel's readers are    *)
(* woken with t.closed closed.  cmd/upload's deferred teardown is the same *)
(* protocol with the last wait shortened.                                  *)
(***************************************************************************)
EXTENDS Naturals, FiniteSets

CONSTANTS Main, Helper    \* the main goroutine; the setup or teardown goroutine

(* Assumed by Lifecycle.                                                   *)
GoroutineAssumption == Main # Helper

Goroutine == {Main, Helper}

VARIABLES
  pc,        \* per goroutine; the helper is "none" before it starts
  closing,   \* per goroutine: its step inside Tunnel.Close, or "out"
  closed,    \* t.closed is closed
  woken,     \* the readers have been woken since t.closed was closed
  stopKA,    \* s.stopKA is closed
  sock,      \* the UDP socket is open
  ka,        \* the keepalive loop runs
  mounted,   \* the device holds an SMB mount
  panicked   \* a closed channel was closed again: the process is gone

shared == <<closed, woken, stopKA, sock>>
vars == <<pc, closing, shared, ka, mounted, panicked>>

Init ==
  /\ pc = [g \in Goroutine |-> IF g = Main THEN "setup" ELSE "openChannel"]
  /\ closing = [g \in Goroutine |-> "out"]
  /\ closed = FALSE /\ woken = FALSE /\ stopKA = FALSE
  /\ sock = TRUE /\ ka = TRUE /\ mounted = FALSE /\ panicked = FALSE

Goto(g, label) == pc' = [pc EXCEPT ![g] = label]

(* A goroutine is between two statements, not inside Tunnel.Close.         *)
Is(g, label) == ~panicked /\ pc[g] = label /\ closing[g] = "out"

(* A goroutine moves to label by way of Tunnel.Close.                      *)
CloseThen(g, label) ==
  /\ Goto(g, label)
  /\ closing' = [closing EXCEPT ![g] = "once"]
  /\ UNCHANGED <<shared, ka, mounted, panicked>>

-----------------------------------------------------------------------------
(* Tunnel.Close and, from "select" on, Session.Close.                      *)

InClose(g, step, after) ==
  /\ ~panicked /\ closing[g] = step
  /\ closing' = [closing EXCEPT ![g] = after]
  /\ UNCHANGED <<pc, mounted>>

(* closeMu.Do(close(t.closed)).                                            *)
CloseOnce(g) ==
  /\ InClose(g, "once", "wake")
  /\ closed' = TRUE
  /\ UNCHANGED <<woken, stopKA, sock, ka, panicked>>

(* rerr, and the two broadcasts.                                           *)
CloseWake(g) ==
  /\ InClose(g, "wake", "select")
  /\ woken' = TRUE
  /\ UNCHANGED <<closed, stopKA, sock, ka, panicked>>

(* Mutant of AfterStopped: whoever finds stopKA closed has nothing to do.  *)
AfterStoppedReturn == "out"

AfterStopped == "socket"

(* select on stopKA: closed already, or default.                           *)
CloseSelect(g) ==
  /\ InClose(g, "select", IF stopKA THEN AfterStopped ELSE "stop")
  /\ UNCHANGED <<shared, ka, panicked>>

(* close(s.stopKA).                                                        *)
CloseStop(g) ==
  /\ InClose(g, "stop", "socket")
  /\ stopKA' = TRUE
  /\ panicked' = stopKA
  /\ UNCHANGED <<closed, woken, sock, ka>>

(* pc.Close(); a second one returns an error, which nobody looks at.       *)
CloseSocket(g) ==
  /\ InClose(g, "socket", "out")
  /\ sock' = FALSE
  /\ UNCHANGED <<closed, woken, stopKA, ka, panicked>>

TunnelClose(g) == CloseOnce(g) \/ CloseWake(g) \/ CloseSelect(g) \/ CloseStop(g) \/ CloseSocket(g)

(* The pump gives the tunnel up, and closes t.closed itself; or it finds   *)
(* t.closed closed.  Its deferred function wakes the readers.  It leaves   *)
(* the session open and the keepalive running.                             *)
PumpFails ==
  /\ ~panicked /\ ~closed
  /\ closed' = TRUE /\ woken' = TRUE
  /\ UNCHANGED <<pc, closing, stopKA, sock, ka, mounted, panicked>>

PumpExits ==
  /\ ~panicked /\ closed /\ ~woken
  /\ woken' = TRUE
  /\ UNCHANGED <<pc, closing, closed, stopKA, sock, ka, mounted, panicked>>

(* The keepalive loop returns at the next select after stopKA closes;      *)
(* until then its ticks write to the device.                               *)
KeepaliveStops ==
  /\ ~panicked /\ ka /\ stopKA
  /\ ka' = FALSE
  /\ UNCHANGED <<pc, closing, shared, mounted, panicked>>

-----------------------------------------------------------------------------
(* SMB calls.                                                              *)

(* The device answers, or a limit the call itself has (OpenChannel's 12 s, *)
(* DialContext's 20 s) passes.                                             *)
Answers(g, label, next, m) ==
  /\ Is(g, label) /\ sock
  /\ Goto(g, next) /\ mounted' = m
  /\ UNCHANGED <<closing, shared, ka, panicked>>

(* Mutant of Unblocked: a woken reader with nothing to read waits again.   *)
UnblockedNot == FALSE

(* A blocked call fails once its reader has been woken and sees t.closed.  *)
Unblocked == woken /\ closed

Breaks(g, label, next) ==
  /\ Is(g, label) /\ Unblocked
  /\ Goto(g, next)
  /\ UNCHANGED <<closing, shared, ka, mounted, panicked>>

(* The goroutine of connect: OpenChannel, DialContext, Mount, then resCh.  *)
(* A failed mount logs off first.                                          *)
SetupStep ==
  \/ Answers(Helper, "openChannel", "smbDial", FALSE)
  \/ Answers(Helper, "openChannel", "setupErr", FALSE)
  \/ Answers(Helper, "smbDial", "mount", FALSE)
  \/ Answers(Helper, "smbDial", "setupErr", FALSE)
  \/ Answers(Helper, "mount", "setupOk", TRUE)
  \/ Answers(Helper, "mount", "setupLogoff", FALSE)
  \/ Answers(Helper, "setupLogoff", "setupErr", FALSE)

SetupBreaks ==
  \/ Breaks(Helper, "openChannel", "setupErr")
  \/ Breaks(Helper, "smbDial", "setupErr")
  \/ Breaks(Helper, "mount", "setupLogoff")
  \/ Breaks(Helper, "setupLogoff", "setupErr")

(* The goroutine of closer.                                                *)
GraceStep ==
  \/ Answers(Helper, "umount", "logoff", FALSE)
  \/ Answers(Helper, "logoff", "graceClose", mounted)

GraceBreaks ==
  \/ Breaks(Helper, "umount", "logoff")
  \/ Breaks(Helper, "logoff", "graceClose")

GraceClose == Is(Helper, "graceClose") /\ CloseThen(Helper, "done")

-----------------------------------------------------------------------------
(* The main goroutine.                                                     *)

(* resCh delivers a mounted share, and connect returns its closer.         *)
ConnectOk ==
  /\ Is(Main, "setup") /\ Is(Helper, "setupOk")
  /\ Goto(Main, "using")
  /\ UNCHANGED <<closing, shared, ka, mounted, panicked>>

ConnectErr ==
  /\ Is(Main, "setup") /\ Is(Helper, "setupErr")
  /\ CloseThen(Main, "returned")

(* 35 s.  The setup goroutine is left behind.                              *)
ConnectTimeout == Is(Main, "setup") /\ CloseThen(Main, "returned")

(* closer starts its goroutine and waits.                                  *)
CloserStarts ==
  /\ Is(Main, "using")
  /\ pc' = [pc EXCEPT ![Main] = "wait8", ![Helper] = "umount"]
  /\ UNCHANGED <<closing, shared, ka, mounted, panicked>>

CloserDone ==
  /\ Is(Main, "wait8") \/ Is(Main, "wait3")
  /\ Is(Helper, "done")
  /\ Goto(Main, "returned")
  /\ UNCHANGED <<closing, shared, ka, mounted, panicked>>

(* 8 s, then 3 s more.                                                     *)
CloserForces == Is(Main, "wait8") /\ CloseThen(Main, "wait3")

CloserAbandons ==
  /\ Is(Main, "wait3")
  /\ Goto(Main, "returned")
  /\ UNCHANGED <<closing, shared, ka, mounted, panicked>>

-----------------------------------------------------------------------------
Next ==
  \/ \E g \in Goroutine : TunnelClose(g)
  \/ PumpFails \/ PumpExits \/ KeepaliveStops
  \/ SetupStep \/ SetupBreaks \/ GraceStep \/ GraceBreaks \/ GraceClose
  \/ ConnectOk \/ ConnectErr \/ ConnectTimeout
  \/ CloserStarts \/ CloserDone \/ CloserForces \/ CloserAbandons

Spec == Init /\ [][Next]_vars

-----------------------------------------------------------------------------
(* Properties.                                                             *)

(* "drops the UDP socket and keepalive, unblocks the stuck calls and       *)
(* releases the device's single session" (main.go:492-493), and the last   *)
(* message of closer, "socket already closed, so session IS released":     *)
(* when connect has failed or closer has returned, the socket is closed    *)
(* and the keepalive told to stop.                                         *)
ReturnedReleased == (pc[Main] = "returned" /\ closing[Main] = "out") => ~sock /\ stopKA

(* Main is back, the keepalive loop has ended, and so has the goroutine    *)
(* that may have been left behind in an SMB call.                          *)
AllEnded ==
  /\ pc[Main] = "returned" /\ closing[Main] = "out" /\ ~ka
  /\ pc[Helper] \in {"setupOk", "setupErr", "done"}

-----------------------------------------------------------------------------
(* What the source says of itself and TLC refutes (README, section 3).     *)

(* Of the same comment: force-closing is how a stuck teardown ends well,   *)
(* so two goroutines in Tunnel.Close must not bring the process down.      *)
NoDoubleClose == ~panicked
=============================================================================
