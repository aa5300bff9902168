------------------------------ MODULE TunConn ------------------------------
(***************************************************************************)
(* tunConn of cmd/download/main.go (and, word for word, of cmd/upload):    *)
(* the net.Conn that go-smb2 is given.  A pump goroutine moves the         *)
(* channel's bytes into buf; Read waits on a condition variable with a     *)
(* deadline, for which it arms a timer whose only job is to broadcast.     *)
(*                                                                         *)
(* c.mu is held for the length of a step, except between the arming of the *)
(* timer and the wait, where it shows.  Time is a counter.  The channel is *)
(* as Channels leaves it: it gives what its buffer holds, and then an      *)
(* error once the tunnel is dead.                                          *)
(***************************************************************************)
EXTENDS Integers, Sequences

CONSTANTS
  MaxNow,       \* bound: the clock
  MaxSets,      \* bound: calls of SetReadDeadline
  ReadMax       \* the longest p a caller reads into

ASSUME TunConnAssumption == MaxNow \in Nat \ {0} /\ MaxSets \in Nat /\ ReadMax \in Nat \ {0}

NoDeadline == -1

VARIABLES
  chan,      \* the channel's buffer: bytes routed to it and not read
  up,        \* the tunnel and the channel are alive
  tmp,       \* the pump: bytes read from the channel, not yet in buf
  pump,      \* the pump: "read", "store" or "ended"
  buf, rerr, rdl,
  reader,    \* the caller of Read: "idle", "loop", "armed" (holds c.mu), "wait"
  timers,    \* the times of the timers that have not fired or been stopped
  mine,      \* the timer of this turn of the loop, or NoDeadline
  now,
  sets,      \* SetReadDeadline calls so far
  read,      \* history: the bytes Read has returned
  failed     \* history: Read has returned rerr

conn == <<buf, rerr, rdl>>
pumping == <<tmp, pump>>
reading == <<reader, timers, mine>>
tunVars == <<chan, up, pumping, conn, reading, now, sets, read, failed>>

TunInit ==
  /\ chan = <<>> /\ up = TRUE
  /\ tmp = <<>> /\ pump = "read"
  /\ buf = <<>> /\ rerr = FALSE /\ rdl = NoDeadline
  /\ reader = "idle" /\ timers = {} /\ mine = NoDeadline
  /\ now = 0 /\ sets = 0 /\ read = <<>> /\ failed = FALSE

MuFree == reader # "armed"

(* A broadcast reaches a reader that waits, and only one that waits.       *)
Broadcast == IF reader = "wait" THEN "woken" ELSE reader

-----------------------------------------------------------------------------
(* pump.                                                                   *)

(* c.ch.Read: data if there is any, else the error of a dead channel.      *)
PumpReads ==
  /\ pump = "read" /\ (chan # <<>> \/ ~up)
  /\ tmp' = chan /\ chan' = <<>>
  /\ pump' = "store"
  /\ UNCHANGED <<up, conn, reading, now, sets, read, failed>>

Stored == buf \o tmp

(* Under c.mu: append, or note the error, which ends the pump; broadcast.  *)
PumpStores ==
  /\ pump = "store" /\ MuFree
  /\ buf' = Stored /\ tmp' = <<>>
  /\ IF tmp = <<>> THEN rerr' = TRUE /\ pump' = "ended" ELSE pump' = "read" /\ UNCHANGED rerr
  /\ reader' = Broadcast
  /\ UNCHANGED <<chan, up, rdl, timers, mine, now, sets, read, failed>>

-----------------------------------------------------------------------------
(* Read.                                                                   *)

ReadCall ==
  /\ reader = "idle" /\ ~failed
  /\ reader' = "loop"
  /\ UNCHANGED <<chan, up, pumping, conn, timers, mine, now, sets, read, failed>>

(* Mutant of Rest: what did not fit into p is dropped.                     *)
RestDropped(k) == <<>>

Rest(k) == SubSeq(buf, k + 1, Len(buf))

ReadData ==
  /\ reader = "loop" /\ buf # <<>>
  /\ LET k == IF Len(buf) < ReadMax THEN Len(buf) ELSE ReadMax
     IN read' = read \o SubSeq(buf, 1, k) /\ buf' = Rest(k)
  /\ reader' = "idle"
  /\ UNCHANGED <<chan, up, pumping, rerr, rdl, timers, mine, now, sets, failed>>

ReadError ==
  /\ reader = "loop" /\ buf = <<>> /\ rerr
  /\ failed' = TRUE /\ reader' = "idle"
  /\ UNCHANGED <<chan, up, pumping, conn, timers, mine, now, sets, read>>

(* time.Now().After(c.rdl).                                                *)
Expired == rdl # NoDeadline /\ now > rdl

ReadTimeout ==
  /\ reader = "loop" /\ buf = <<>> /\ ~rerr /\ Expired
  /\ reader' = "idle"
  /\ UNCHANGED <<chan, up, pumping, conn, timers, mine, now, sets, read, failed>>

(* Otherwise a timer for the deadline, if there is one, is armed...        *)
ReadArms ==
  /\ reader = "loop" /\ buf = <<>> /\ ~rerr /\ ~Expired
  /\ timers' = IF rdl = NoDeadline THEN timers ELSE timers \cup {rdl}
  /\ mine' = rdl
  /\ reader' = "armed"
  /\ UNCHANGED <<chan, up, pumping, conn, now, sets, read, failed>>

(* ...and cond.Wait queues the reader and releases c.mu.                   *)
ReadWaits ==
  /\ reader = "armed"
  /\ reader' = "wait"
  /\ UNCHANGED <<chan, up, pumping, conn, timers, mine, now, sets, read, failed>>

(* Woken, it stops its timer, which may have started to run already.       *)
ReadWakes ==
  /\ reader = "woken"
  /\ timers' \in {timers \ {mine}} \cup (IF now >= mine THEN {timers} ELSE {})
  /\ mine' = NoDeadline
  /\ reader' = "loop"
  /\ UNCHANGED <<chan, up, pumping, conn, now, sets, read, failed>>

-----------------------------------------------------------------------------
(* Timers, deadlines and the clock.                                        *)

(* Mutant of CallbackMayRun: the callback broadcasts without c.mu.         *)
CallbackMayRunAnyway == TRUE

(* The callback takes c.mu.                                                *)
CallbackMayRun == MuFree

TimerFires ==
  /\ CallbackMayRun
  /\ \E t \in timers : t <= now /\ timers' = timers \ {t}
  /\ reader' = Broadcast
  /\ UNCHANGED <<chan, up, pumping, conn, mine, now, sets, read, failed>>

(* SetReadDeadline, from any goroutine; a deadline may lie in the past.    *)
SetReadDeadline ==
  /\ sets < MaxSets /\ sets' = sets + 1 /\ MuFree
  /\ rdl' \in {NoDeadline} \cup (0..(MaxNow - 1))
  /\ reader' = Broadcast
  /\ UNCHANGED <<chan, up, pumping, buf, rerr, timers, mine, now, read, failed>>

Tick ==
  /\ now < MaxNow /\ now' = now + 1
  /\ UNCHANGED <<chan, up, pumping, conn, reading, sets, read, failed>>

TunnelDies ==
  /\ up /\ up' = FALSE
  /\ UNCHANGED <<chan, pumping, conn, reading, now, sets, read, failed>>

Pump == PumpReads \/ PumpStores
Read == ReadData \/ ReadError \/ ReadTimeout \/ ReadArms \/ ReadWaits \/ ReadWakes

TunNext == Pump \/ ReadCall \/ Read \/ TimerFires \/ SetReadDeadline \/ Tick \/ TunnelDies

-----------------------------------------------------------------------------
(* Properties.                                                             *)

(* A Read that never returns has nothing to return: no byte, no error and  *)
(* no deadline.  In particular a deadline set before or during it, or the  *)
(* death of the tunnel, is never slept through, although the timer, the    *)
(* pump and SetReadDeadline only broadcast.                                *)
ReadReturns ==
  (<>[](reader # "idle")) => <>[](buf = <<>> /\ ~rerr /\ rdl = NoDeadline)
=============================================================================
