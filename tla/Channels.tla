------------------------------ MODULE Channels ------------------------------
(***************************************************************************)
(* The channels of a tunnel (kalay/tunnelconn.go): OpenChannel, the pump's *)
(* route, the blocking Reads, Close and the ways a tunnel dies.  The two   *)
(* reliable streams between pump and device are queues here; GoBackN and   *)
(* Inbound model how they are made reliable.                               *)
(*                                                                         *)
(* Each caller makes one OpenChannel.  A data chunk is <<idx, owner, k>>:  *)
(* the k-th chunk the device sent on the connection that owner asked for,  *)
(* although the wire carries only its index.                               *)
(***************************************************************************)
EXTENDS Integers, Sequences

CONSTANTS
  Caller,       \* goroutines that each open one extra channel
  None,         \* no caller
  IdxHi,        \* the highest extra channel index, 0xfe in the code
  MaxData,      \* chunks the device sends on one connection
  MayDie        \* whether the tunnel fails or is closed

ASSUME NoneAssumption == None \notin Caller
ASSUME IdxAssumption == IdxHi \in Nat /\ IdxHi >= 2
ASSUME DataAssumption == MaxData \in Nat /\ MayDie \in BOOLEAN

Ctrl == "ctrl"      \* the reader of the control channel, Tunnel.Read
ASSUME CtrlAssumption == Ctrl \notin Caller

Reader == Caller \cup {Ctrl}
CtrlIdx == 1

VARIABLES
  pendingV,     \* the caller whose open is in flight, or None
  sentPortConn, \* its portConnect has been sent
  nextIdx,      \* next index to propose
  idxOf,        \* the index each caller was given, 0 before that
  cpc,          \* where each caller is in OpenChannel and after
  done,         \* callers with a completion in their done channel
  chans,        \* buffers by channel index; the control channel's is rbuf
  reader,       \* each reader's state in its Read
  got,          \* history: the chunks each reader was given
  pump,         \* "run", "unwind" (deferred broadcasts due) or "exited"
  closed,       \* the tunnel's closed channel is closed
  rerr,         \* the terminal error is set
  closer,       \* Tunnel.Close: "idle", "wake" (broadcasts due) or "done"
  toDev,        \* client to device, in order
  fromDev,      \* device to client, in order
  devChan,      \* device: the caller each index was created for
  connected,    \* device: indices connected to their port
  created,      \* history: callers whose channel the device has created
  devSent       \* device: chunks sent per owner

opens == <<pendingV, sentPortConn, nextIdx, idxOf, cpc, done>>
reads == <<reader, got>>
death == <<pump, closed, rerr, closer>>
device == <<toDev, fromDev, devChan, connected, created, devSent>>
vars == <<opens, chans, reads, death, device>>

Init ==
  /\ pendingV = None /\ sentPortConn = FALSE /\ nextIdx = 2
  /\ idxOf = [c \in Caller |-> 0]
  /\ cpc = [c \in Caller |-> "idle"]
  /\ done = {}
  /\ chans = [i \in {CtrlIdx} |-> <<>>]
  /\ reader = [r \in Reader |-> "idle"]
  /\ got = [r \in Reader |-> <<>>]
  /\ pump = "run" /\ closed = FALSE /\ rerr = FALSE /\ closer = "idle"
  /\ toDev = <<>> /\ fromDev = <<>>
  /\ devChan = [i \in {CtrlIdx} |-> Ctrl]
  /\ connected = {CtrlIdx}
  /\ created = {}
  /\ devSent = [r \in Reader |-> 0]

-----------------------------------------------------------------------------
(* OpenChannel.                                                            *)

(* Mutant of NextIdx: the index does not move on.                          *)
NextIdxSame(i) == i

NextIdx(i) == IF i + 1 > IdxHi THEN 2 ELSE i + 1

OpenBusy(c) ==
  /\ cpc[c] = "idle" /\ pendingV # None
  /\ cpc' = [cpc EXCEPT ![c] = "failed"]
  /\ UNCHANGED <<pendingV, sentPortConn, nextIdx, idxOf, done, chans, reads, death, device>>

(* Under povmu: the open is published to the pump ...                      *)
OpenPublish(c) ==
  /\ cpc[c] = "idle" /\ pendingV = None
  /\ pendingV' = c /\ sentPortConn' = FALSE
  /\ idxOf' = [idxOf EXCEPT ![c] = nextIdx]
  /\ nextIdx' = NextIdx(nextIdx)
  /\ cpc' = [cpc EXCEPT ![c] = "register"]
  /\ UNCHANGED <<done, chans, reads, death, device>>

With(f, i, v) == [j \in DOMAIN f \cup {i} |-> IF j = i THEN v ELSE f[j]]
Without(f, i) == [j \in DOMAIN f \ {i} |-> f[j]]

(* ... and then, under vmu, its buffer is registered.                      *)
OpenRegister(c) ==
  /\ cpc[c] = "register"
  /\ chans' = With(chans, idxOf[c], <<>>)
  /\ cpc' = [cpc EXCEPT ![c] = "wait"]
  /\ UNCHANGED <<pendingV, sentPortConn, nextIdx, idxOf, done, reads, death, device>>

Broadcast(S) == [r \in Reader |-> IF r \in S /\ reader[r] = "blocked" THEN "ready" ELSE reader[r]]

(* Mutant of DropChan: readers are woken but the buffer stays registered.  *)
DropChanKeeps(i) ==
  /\ chans' = chans
  /\ reader' = Broadcast(Caller)

DropChan(i) ==
  /\ chans' = Without(chans, i)
  /\ reader' = Broadcast(Caller)

OpenSucceeds(c) ==
  /\ cpc[c] = "wait" /\ c \in done
  /\ cpc' = [cpc EXCEPT ![c] = "open"]
  /\ UNCHANGED <<pendingV, sentPortConn, nextIdx, idxOf, done, chans, reads, death, device>>

OpenClosed(c) ==
  /\ cpc[c] = "wait" /\ closed
  /\ DropChan(idxOf[c])
  /\ cpc' = [cpc EXCEPT ![c] = "failed"]
  /\ UNCHANGED <<pendingV, sentPortConn, nextIdx, idxOf, done, got, death, device>>

(* Mutant of Withdrawn: the timed-out open stays pending.                  *)
WithdrawnNever(c) == pendingV

Withdrawn(c) == IF pendingV = c THEN None ELSE pendingV

OpenTimeout(c) ==
  /\ cpc[c] = "wait"
  /\ pendingV' = Withdrawn(c)
  /\ DropChan(idxOf[c])
  /\ cpc' = [cpc EXCEPT ![c] = "failed"]
  /\ UNCHANGED <<sentPortConn, nextIdx, idxOf, done, got, death, device>>

(* chanConn.Close, from any goroutine, a concurrent Read or not.           *)
CloseChan(c) ==
  /\ cpc[c] = "open"
  /\ DropChan(idxOf[c])
  /\ cpc' = [cpc EXCEPT ![c] = "closed"]
  /\ UNCHANGED <<pendingV, sentPortConn, nextIdx, idxOf, done, got, death, device>>

-----------------------------------------------------------------------------
(* Read, of the control channel and of a chanConn.                         *)

IndexOf(r) == IF r = Ctrl THEN CtrlIdx ELSE idxOf[r]

ReadCall(r) ==
  /\ reader[r] = "idle"
  /\ r # Ctrl => cpc[r] \in {"open", "closed"}
  /\ reader' = [reader EXCEPT ![r] = "ready"]
  /\ UNCHANGED <<opens, chans, got, death, device>>

(* The condition under which a Read with nothing buffered returns an error.*)
ReadDead(r) == IF r = Ctrl THEN rerr ELSE closed

(* One turn of Read's loop, with its mutex held.                           *)
ReadTurn(r) ==
  /\ reader[r] = "ready"
  /\ LET i == IndexOf(r)
     IN \/ /\ i \in DOMAIN chans /\ chans[i] # <<>>
           /\ got' = [got EXCEPT ![r] = Append(@, Head(chans[i]))]
           /\ chans' = [chans EXCEPT ![i] = Tail(@)]
           /\ reader' = [reader EXCEPT ![r] = "idle"]
        \/ /\ i \in DOMAIN chans => chans[i] = <<>> /\ ReadDead(r)
           /\ reader' = [reader EXCEPT ![r] = "failed"]
           /\ UNCHANGED <<got, chans>>
        \/ /\ i \in DOMAIN chans /\ chans[i] = <<>> /\ ~ReadDead(r)
           /\ reader' = [reader EXCEPT ![r] = "blocked"]
           /\ UNCHANGED <<got, chans>>
  /\ UNCHANGED <<opens, death, device>>

-----------------------------------------------------------------------------
(* The pump.                                                               *)

PumpPortConnect ==
  /\ pump = "run" /\ pendingV # None /\ ~sentPortConn
  /\ toDev' = Append(toDev, [type |-> "portConnect", idx |-> idxOf[pendingV], owner |-> pendingV])
  /\ sentPortConn' = TRUE
  /\ UNCHANGED <<pendingV, nextIdx, idxOf, cpc, done, chans, reads, death,
                 fromDev, devChan, connected, created, devSent>>

Routable(type) == pump = "run" /\ fromDev # <<>> /\ Head(fromDev).type = type

(* route, 0x02: to rbuf, to the channel's buffer, or dropped.              *)
RouteData ==
  /\ Routable("data")
  /\ LET m == Head(fromDev)
     IN  IF m.idx \in DOMAIN chans
         THEN /\ chans' = [chans EXCEPT ![m.idx] = Append(@, <<m.idx, m.owner, m.k>>)]
              /\ reader' = Broadcast(IF m.idx = CtrlIdx THEN {Ctrl} ELSE Caller)
         ELSE UNCHANGED <<chans, reader>>
  /\ fromDev' = Tail(fromDev)
  /\ UNCHANGED <<opens, got, death, toDev, devChan, connected, created, devSent>>

(* route, 0x0d: whatever channel the reply is for, the pending open is     *)
(* completed.                                                              *)
RouteCreated ==
  /\ Routable("created")
  /\ fromDev' = Tail(fromDev)
  /\ IF pendingV # None /\ sentPortConn
     THEN /\ toDev' = Append(toDev, [type |-> "connectAddr", idx |-> idxOf[pendingV],
                                     owner |-> pendingV])
          /\ done' = done \cup {pendingV}
          /\ pendingV' = None
     ELSE UNCHANGED <<toDev, done, pendingV>>
  /\ UNCHANGED <<sentPortConn, nextIdx, idxOf, cpc, chans, reads, death,
                 devChan, connected, created, devSent>>

(* fail: the error is recorded and the tunnel closed, nobody is woken yet. *)
PumpFail ==
  /\ MayDie /\ pump = "run" /\ ~closed
  /\ pump' = "unwind" /\ closed' = TRUE /\ rerr' = TRUE
  /\ UNCHANGED <<opens, chans, reads, closer, device>>

PumpSeesClosed ==
  /\ pump = "run" /\ closed
  /\ pump' = "unwind"
  /\ UNCHANGED <<opens, chans, reads, closed, rerr, closer, device>>

(* Mutant of Woken: only the control channel's readers are woken.          *)
WokenCtrl == {Ctrl}

Woken == Reader

(* The pump's deferred function.                                           *)
PumpExit ==
  /\ pump = "unwind"
  /\ rerr' = TRUE
  /\ reader' = Broadcast(Woken)
  /\ pump' = "exited"
  /\ UNCHANGED <<opens, chans, got, closed, closer, device>>

(* Tunnel.Close.                                                           *)
CloseTunnel ==
  /\ MayDie /\ closer = "idle"
  /\ closed' = TRUE
  /\ closer' = "wake"
  /\ UNCHANGED <<opens, chans, reads, pump, rerr, device>>

CloseWakes ==
  /\ closer = "wake"
  /\ rerr' = TRUE
  /\ reader' = Broadcast(Woken)
  /\ closer' = "done"
  /\ UNCHANGED <<opens, chans, got, pump, closed, device>>

-----------------------------------------------------------------------------
(* The device.                                                             *)

DeviceStep ==
  /\ toDev # <<>>
  /\ toDev' = Tail(toDev)
  /\ LET m == Head(toDev)
     IN \/ /\ m.type = "portConnect"
           /\ devChan' = With(devChan, m.idx, m.owner)
           /\ connected' = connected \ {m.idx}
           /\ created' = created \cup {m.owner}
           /\ fromDev' = Append(fromDev, [type |-> "created", idx |-> m.idx])
        \/ /\ m.type = "connectAddr"
           /\ connected' = connected \cup ({m.idx} \cap DOMAIN devChan)
           /\ UNCHANGED <<devChan, created, fromDev>>
  /\ UNCHANGED <<opens, chans, reads, death, devSent>>

DeviceData(i) ==
  /\ i \in connected
  /\ LET r == devChan[i]
     IN  /\ devSent[r] < MaxData
         /\ devSent' = [devSent EXCEPT ![r] = @ + 1]
         /\ fromDev' = Append(fromDev, [type |-> "data", idx |-> i, owner |-> r,
                                        k |-> devSent[r] + 1])
  /\ UNCHANGED <<opens, chans, reads, death, toDev, devChan, connected, created>>

-----------------------------------------------------------------------------

CallerStep(c) ==
  \/ OpenRegister(c) \/ OpenSucceeds(c) \/ OpenClosed(c) \/ OpenTimeout(c)

PumpStep ==
  \/ PumpPortConnect \/ RouteData \/ RouteCreated \/ PumpSeesClosed \/ PumpExit

Next ==
  \/ \E c \in Caller : OpenBusy(c) \/ OpenPublish(c) \/ CallerStep(c) \/ CloseChan(c)
  \/ \E r \in Reader : ReadCall(r) \/ ReadTurn(r)
  \/ PumpStep \/ PumpFail
  \/ CloseTunnel \/ CloseWakes
  \/ DeviceStep \/ \E i \in connected : DeviceData(i)

Spec == Init /\ [][Next]_vars

(* Goroutines that can run do run, and OpenChannel's timer fires.  Nobody  *)
(* has to open, close or read, and the device owes nothing.                *)
FairSpec ==
  /\ Spec
  /\ \A r \in Reader : WF_vars(ReadTurn(r))
  /\ WF_vars(PumpStep) /\ WF_vars(CloseWakes)

-----------------------------------------------------------------------------
(* Properties.                                                             *)

Chunk == (1..IdxHi) \X Reader \X (1..MaxData)

(* Every variable keeps the shape its Go declaration gives it.             *)
TypeOK ==
  /\ pendingV \in Caller \cup {None} /\ sentPortConn \in BOOLEAN
  /\ nextIdx \in 2..IdxHi /\ idxOf \in [Caller -> {0} \cup 2..IdxHi]
  /\ cpc \in [Caller -> {"idle", "register", "wait", "open", "failed", "closed"}]
  /\ done \subseteq Caller
  /\ CtrlIdx \in DOMAIN chans /\ DOMAIN chans \subseteq 1..IdxHi
  /\ \A i \in DOMAIN chans : chans[i] \in Seq(Chunk)
  /\ reader \in [Reader -> {"idle", "ready", "blocked", "failed"}]
  /\ got \in [Reader -> Seq(Chunk)]
  /\ pump \in {"run", "unwind", "exited"} /\ closer \in {"idle", "wake", "done"}
  /\ closed \in BOOLEAN /\ rerr \in BOOLEAN

(* "the opens themselves are serialised", and one that gave up does not    *)
(* block the next: while the tunnel lives, the pending open belongs to a   *)
(* caller that still waits for it and has not been answered.               *)
PendingOwned ==
  ~closed /\ pendingV # None =>
    cpc[pendingV] \in {"register", "wait"} /\ pendingV \notin done

(* A reader is given only chunks of its own connection, in the order the   *)
(* device sent them, although the wire carries only an index: through opens*)
(* that time out and are answered late, replies that complete another open,*)
(* and channels closed while their data is under way.  It takes an index of*)
(* its own for every open: once they wrap, WrapSafe is refuted.            *)
NoCrossTalk ==
  \A r \in Reader : \A i \in DOMAIN got[r] :
    got[r][i][2] = r /\ (i > 1 => got[r][i - 1][3] < got[r][i][3])

(* Every way out of OpenChannel and of a channel gives its buffer back: no *)
(* buffer is registered for a caller that is gone.                         *)
BuffersOwned ==
  \A i \in DOMAIN chans \ {CtrlIdx} :
    \E c \in Caller : idxOf[c] = i /\ cpc[c] \in {"wait", "open"}

(* "unblocking readers": once the tunnel is dead, whether Close or the pump*)
(* closed it, there comes a time when no Read is in progress, wherever its *)
(* reader was between looking at closed and waiting on the condition       *)
(* variable.                                                               *)
ReadersReturn ==
  closed ~> \A r \in Reader : reader[r] \in {"idle", "failed"}

(* Two channels in use never share an index: so it is while there are no   *)
(* more opens than indices.                                                *)
IndexUnique ==
  \A c, d \in Caller :
    /\ c # d
    /\ cpc[c] \in {"register", "wait", "open"} /\ cpc[d] \in {"register", "wait", "open"}
    => idxOf[c] # idxOf[d]

-----------------------------------------------------------------------------
(* What the source says of itself and TLC refutes (README, section 3).     *)

(* "a 0x0d channel-created reply completes a pending open": a caller whose *)
(* OpenChannel returned has a channel the device has created.              *)
OpenConfirmed == \A c \in Caller : cpc[c] = "open" => c \in created

(* "Registering the buffer here makes route accept this channel": a caller *)
(* reads every chunk the device sent it, from the first on.                *)
NothingDropped == \A c \in Caller : \A i \in DOMAIN got[c] : got[c][i][3] = i

(* "every open must use a fresh index ... wrapping is safe because the     *)
(* device has freed the low indices by then" (tunnelconn.go:630-632): an   *)
(* open never gets the index of a channel that is open.  OpenChannel does  *)
(* not look whether the index it has come round to is in use.              *)
WrapSafe ==
  \A c, d \in Caller :
    c # d /\ cpc[c] = "open" /\ cpc[d] \in {"wait", "open"} => idxOf[c] # idxOf[d]

=============================================================================
