----------------------------- MODULE FetchFile -----------------------------
(***************************************************************************)
(* The download of one file by cmd/download/main.go: streamWalk's presence *)
(* check and failure count, fetchWithTimeout, and fetchFile with its pool  *)
(* of range readers.  A fetch that times out returns while its workers are *)
(* still running; they may finish a read and write it after the next fetch *)
(* of the same file has begun.  One that is stuck before it has any is     *)
(* left behind, and may yet go on until its session is closed.  The        *)
(* process may be killed at any point and started again.                   *)
(*                                                                         *)
(* The local disk is two names, dest and dest.part, that refer to inodes;  *)
(* an open file stays usable after its name is removed.  A file is a       *)
(* function from range numbers to Data or Hole.  The SMB share and the     *)
(* device's file, which may be rewritten, are external.                    *)
(***************************************************************************)
EXTENDS Integers, FiniteSets

CONSTANTS
  Worker,     \* the readers of one fetch (SMB_PARALLEL)
  Fetches,    \* bound on the fetches of a behaviour
  MaxFails,   \* maxFails
  Sizes,      \* the device file's size in ranges, by version
  Stale       \* the size of a .part file an earlier process may have left

ASSUME FetchAssumption ==
  /\ Fetches \in Nat \ {0} /\ MaxFails \in Nat \ {0} /\ Stale \in Nat
  /\ DOMAIN Sizes \subseteq Nat \ {0} /\ 1 \in DOMAIN Sizes
  /\ \A v \in DOMAIN Sizes : Sizes[v] \in Nat

Fetch == 1..Fetches
Absent == -1            \* a name that refers to no file
Old == 0                \* the inode of a .part from an earlier process
Hole == 0               \* a range never written, which reads back as zeros
Data == 1               \* a range read from the device
Inode == 0..Fetches

VARIABLES
  version,    \* the device file's version
  part, dest, \* the inodes the names dest.part and dest refer to
  file,       \* per inode, its ranges
  walk,       \* the walk: "idle", "fetch", "closing" after a fetch that failed,
              \* or "stopped" (nothing to do)
  cur,        \* the fetch the walk waits for, or has waited for last
  failCount,
  state,      \* per fetch: "none", "open", "run", its outcome "aborted" (an error) or "committed"
              \* while the deferred rf.Close runs, "returned"
  live,       \* per fetch: its session is open
  fd,         \* per fetch: the inode it writes
  size,       \* per fetch: the size it read with Stat
  next,       \* per fetch: the next range in its jobs channel
  done, rerr, \* per fetch
  wk,         \* per fetch and worker: its step and its range
  committed   \* history: the size of the file last renamed to dest

remote == <<version, live>>
disk == <<part, dest, file, committed>>
walker == <<walk, cur, failCount>>
fetch == <<state, fd, size, next, done, rerr>>
vars == <<remote, disk, walker, fetch, wk>>

At(step, r) == [step |-> step, range |-> r]

Init ==
  /\ version = 1 /\ live = [a \in Fetch |-> FALSE]
  /\ part \in {Absent, Old} /\ dest = Absent /\ committed = 0
  /\ file = [i \in Inode |-> IF i = Old THEN [r \in 1..Stale |-> Data] ELSE <<>>]
  /\ walk = "idle" /\ cur = 0 /\ failCount = 0
  /\ state = [a \in Fetch |-> "none"]
  /\ fd = [a \in Fetch |-> Absent] /\ size = [a \in Fetch |-> 0] /\ next = [a \in Fetch |-> 1]
  /\ done = [a \in Fetch |-> 0] /\ rerr = [a \in Fetch |-> FALSE]
  /\ wk = [a \in Fetch |-> [w \in Worker |-> At("idle", 0)]]

-----------------------------------------------------------------------------
(* streamWalk and fetchWithTimeout.                                        *)

(* os.Stat finds the file at the listed size.                              *)
Present == dest # Absent /\ committed = Sizes[version]

GivenUp == failCount >= MaxFails

(* A new session lists the file and finds it missing or of another size.   *)
WalkFetches ==
  /\ walk = "idle" /\ cur < Fetches
  /\ ~Present /\ ~GivenUp
  /\ cur' = cur + 1 /\ walk' = "fetch"
  /\ state' = [state EXCEPT ![cur + 1] = "open"]
  /\ live' = [live EXCEPT ![cur + 1] = TRUE]
  /\ UNCHANGED <<version, disk, failCount, fd, size, next, done, rerr, wk>>

(* Present, or given up on: a pass that fetches nothing ends the loop.     *)
WalkSkips ==
  /\ walk = "idle" /\ (Present \/ GivenUp)
  /\ walk' = "stopped"
  /\ UNCHANGED <<remote, disk, cur, failCount, fetch, wk>>

(* The walk gives up a pass after a failure: errReconnect, then closer.    *)
WalkFailed ==
  /\ walk' = "closing" /\ failCount' = failCount + 1
  /\ UNCHANGED <<remote, cur>>

(* closer has logged off, or after 8 s closes the tunnel by force.  Until  *)
(* then the session can be used by a fetch that was left behind.           *)
SessionCloses ==
  /\ walk = "closing" /\ live[cur]
  /\ live' = [live EXCEPT ![cur] = FALSE]
  /\ UNCHANGED <<version, disk, walker, fetch, wk>>

(* The rest before the next connect.  Assumed of its 4 s: a fetch left     *)
(* behind, whose calls all fail once the session is closed, has come to    *)
(* its end by then.                                                        *)
WalkRested ==
  /\ walk = "closing" /\ ~live[cur] /\ state[cur] # "run"
  /\ walk' = "idle"
  /\ UNCHANGED <<remote, disk, cur, failCount, fetch, wk>>

(* The walk has not gone on from fetch cur.                                *)
Waits == walk \in {"fetch", "closing"}

(* hardCap + 20 s: fetchFile is stuck in an SMB call of its own, Open,     *)
(* Stat or Close, as its loop never waits longer than a tick.              *)
FetchWedged ==
  /\ walk = "fetch" /\ state[cur] \in {"open", "aborted", "committed"}
  /\ WalkFailed
  /\ UNCHANGED <<disk, fetch, wk>>

-----------------------------------------------------------------------------
(* fetchFile.                                                              *)

(* Open, Stat and the creation of dest.part.  The inode is the one the     *)
(* name refers to, truncated (O_TRUNC), or a new one.                      *)
FetchOpens(a) ==
  /\ state[a] = "open" /\ live[a]
  /\ LET i == IF part # Absent THEN part ELSE a
     IN /\ part' = i
        /\ file' = [file EXCEPT ![i] = <<>>]
        /\ fd' = [fd EXCEPT ![a] = i]
  /\ size' = [size EXCEPT ![a] = Sizes[version]]
  /\ state' = [state EXCEPT ![a] = "run"]
  /\ UNCHANGED <<remote, dest, committed, walker, next, done, rerr, wk>>

(* Open, Stat or the local create fails; an abandoned fetch sees this at   *)
(* the latest when its session is closed.                                  *)
FetchOpenFails(a) ==
  /\ state[a] = "open"
  /\ state' = [state EXCEPT ![a] = "returned"]
  /\ IF walk = "fetch" /\ cur = a THEN WalkFailed ELSE UNCHANGED <<remote, walker>>
  /\ UNCHANGED <<disk, fd, size, next, done, rerr, wk>>

Set(a, w, step, r) == wk' = [wk EXCEPT ![a][w] = At(step, r)]

(* A worker receives a range, or finds the channel closed and empty.       *)
WorkerTakes(a, w) ==
  /\ state[a] # "open" /\ fd[a] # Absent /\ wk[a][w].step = "idle"
  /\ IF next[a] <= size[a]
     THEN Set(a, w, "read", next[a]) /\ next' = [next EXCEPT ![a] = @ + 1]
     ELSE Set(a, w, "exit", 0) /\ UNCHANGED next
  /\ UNCHANGED <<remote, disk, walker, state, fd, size, done, rerr>>

(* ReadAt returns the range; past the end of a file that has shrunk it     *)
(* returns a short count and io.EOF, which is no error.  A reply may still *)
(* be in the process's buffers when the session is closed.                 *)
WorkerReads(a, w) ==
  /\ wk[a][w].step = "read"
  /\ IF wk[a][w].range <= Sizes[version]
     THEN Set(a, w, "write", wk[a][w].range)
     ELSE Set(a, w, "idle", 0)
  /\ UNCHANGED <<remote, disk, walker, fetch>>

(* ReadAt or WriteAt fails: the first error is kept, the worker returns.   *)
WorkerFails(a, w) ==
  /\ wk[a][w].step \in {"read", "write"}
  /\ rerr' = [rerr EXCEPT ![a] = TRUE]
  /\ Set(a, w, "exit", 0)
  /\ UNCHANGED <<remote, disk, walker, state, fd, size, next, done>>

(* WriteAt extends the file, leaving holes before the range if need be,    *)
(* and only then is the range counted.                                     *)
WorkerWrites(a, w) ==
  /\ wk[a][w].step = "write"
  /\ LET r == wk[a][w].range
         old == file[fd[a]]
         ranges == DOMAIN old \cup 1..r
     IN file' = [file EXCEPT ![fd[a]] =
                   [k \in ranges |-> IF k = r THEN Data
                                     ELSE IF k \in DOMAIN old THEN old[k] ELSE Hole]]
  /\ done' = [done EXCEPT ![a] = @ + 1]
  /\ Set(a, w, "idle", 0)
  /\ UNCHANGED <<remote, part, dest, committed, walker, state, fd, size, next, rerr>>

Finished(a) == \A w \in Worker : wk[a][w].step = "exit"

(* Mutant of Unlinked: abort leaves the partial file behind.               *)
UnlinkedNot == part

Unlinked == Absent

(* abort: the name goes, the workers keep the inode.                       *)
Abort(a) ==
  /\ part' = Unlinked
  /\ state' = [state EXCEPT ![a] = "aborted"]
  /\ UNCHANGED <<remote, dest, file, committed, walker, fd, size, next, done, rerr, wk>>

(* Mutant of AllCounted: a fetch without an error is taken to be whole.    *)
AllCountedAnyway(a) == TRUE

AllCounted(a) == done[a] = size[a]

(* The ticker finds no bytes, a stall, or the hard cap.  select may choose *)
(* it when finished is closed as well.                                     *)
FetchTimesOut(a) == state[a] = "run" /\ Abort(a)

FetchFails(a) ==
  /\ state[a] = "run" /\ Finished(a)
  /\ rerr[a] \/ ~AllCounted(a)
  /\ Abort(a)

Whole(a) == state[a] = "run" /\ Finished(a) /\ ~rerr[a] /\ AllCounted(a)

(* os.Rename.                                                              *)
FetchCommits(a) ==
  /\ Whole(a) /\ part # Absent
  /\ dest' = part /\ part' = Absent /\ committed' = size[a]
  /\ state' = [state EXCEPT ![a] = "committed"]
  /\ UNCHANGED <<remote, file, walker, fd, size, next, done, rerr, wk>>

(* It fails, and dest.part stays.                                          *)
RenameFails(a) ==
  /\ Whole(a)
  /\ state' = [state EXCEPT ![a] = "aborted"]
  /\ UNCHANGED <<remote, disk, walker, fd, size, next, done, rerr, wk>>

(* rf.Close has returned.  The result of a fetch the walk has given up on  *)
(* stays in its channel; a success ends with the pass and its session.     *)
FetchReturns(a) ==
  /\ state[a] \in {"aborted", "committed"}
  /\ state' = [state EXCEPT ![a] = "returned"]
  /\ \/ ~(walk = "fetch" /\ cur = a) /\ UNCHANGED <<remote, walker>>
     \/ walk = "fetch" /\ cur = a /\ state[a] = "aborted" /\ WalkFailed
     \/ /\ walk = "fetch" /\ cur = a /\ state[a] = "committed"
        /\ walk' = "idle" /\ live' = [live EXCEPT ![a] = FALSE]
        /\ UNCHANGED <<version, cur, failCount>>
  /\ UNCHANGED <<disk, fd, size, next, done, rerr, wk>>

-----------------------------------------------------------------------------
(* The environment.                                                        *)

(* The process is killed, with every goroutine in it, and started again.   *)
Crash ==
  /\ Waits /\ cur < Fetches
  /\ walk' = "idle" /\ failCount' = 0
  /\ live' = [a \in Fetch |-> FALSE]
  /\ state' = [a \in Fetch |-> IF a <= cur THEN "returned" ELSE "none"]
  /\ wk' = [a \in Fetch |-> [w \in Worker |-> At(IF a <= cur THEN "exit" ELSE "idle", 0)]]
  /\ UNCHANGED <<version, disk, cur, fd, size, next, done, rerr>>

(* The device rewrites its file.                                           *)
DeviceRewrites ==
  /\ version + 1 \in DOMAIN Sizes
  /\ version' = version + 1
  /\ UNCHANGED <<live, disk, walker, fetch, wk>>

Step(a) ==
  \/ FetchOpens(a) \/ FetchOpenFails(a) \/ FetchTimesOut(a) \/ FetchFails(a) \/ FetchCommits(a)
  \/ RenameFails(a) \/ FetchReturns(a)
  \/ \E w \in Worker : \/ WorkerTakes(a, w) \/ WorkerReads(a, w)
                       \/ WorkerFails(a, w) \/ WorkerWrites(a, w)

Next ==
  \/ WalkFetches \/ WalkSkips \/ FetchWedged \/ SessionCloses \/ WalkRested
  \/ \E a \in Fetch : Step(a)
  \/ Crash \/ DeviceRewrites

Spec == Init /\ [][Next]_vars

-----------------------------------------------------------------------------
(* Properties.                                                             *)

Ended == {"aborted", "committed", "returned"}

(* Every variable has its type.                                            *)
TypeOK ==
  /\ version \in DOMAIN Sizes /\ live \in [Fetch -> BOOLEAN]
  /\ {part, dest} \subseteq Inode \cup {Absent} /\ committed \in Nat
  /\ walk \in {"idle", "fetch", "closing", "stopped"} /\ cur \in 0..Fetches
  /\ failCount \in 0..MaxFails
  /\ state \in [Fetch -> {"none", "open", "run"} \cup Ended]
  /\ \A a \in Fetch : /\ fd[a] \in Inode \cup {Absent}
                      /\ done[a] \in 0..size[a] /\ next[a] \in 1..(size[a] + 1)
  /\ \A a \in Fetch : \A w \in Worker : wk[a][w].step \in {"idle", "read", "write", "exit"}

(* "renamed only once every byte is on disk" (README.md:107): the file     *)
(* dest has every range of the size it was fetched at, no hole and no      *)
(* tail, whatever leftover .part, abandoned workers, short reads or kills  *)
(* came before.                                                            *)
CommitComplete ==
  dest # Absent => /\ DOMAIN file[dest] = 1..committed
                   /\ \A r \in 1..committed : file[dest][r] # Hole

(* "Unlinking while workers still hold the fd is safe: their writes land   *)
(* in the unreachable inode" (main.go:218-219): no worker of a fetch that  *)
(* has returned can still write to a file that has a name.                 *)
LateWritesUnreachable ==
  \A a \in Fetch : (state[a] \in Ended /\ \E w \in Worker : wk[a][w].step \in {"read", "write"})
                   => fd[a] \notin {part, dest}

-----------------------------------------------------------------------------
(* The promise.                                                            *)

Torn == -2

(* The size of a whole file; a file with a hole has none.                  *)
Content(i) ==
  IF i = Absent THEN Absent
  ELSE IF \E r \in DOMAIN file[i] : file[i][r] = Hole THEN Torn ELSE Cardinality(DOMAIN file[i])

Promise == INSTANCE ArchiveFile WITH
  device <- Sizes[version],
  local <- Content(dest),
  opened <- IF Waits /\ state[cur] = "run" THEN size[cur] ELSE Absent,
  fetching <- Waits

(* What main.go:585-588 builds on: a fetch, with its timeouts, abandoned   *)
(* workers and kills, is seen by the walk and by a reader of the archive   *)
(* as one change of the name to a whole file, before the walk goes on, or  *)
(* as none.                                                                *)
Refines == Promise!Spec
=============================================================================
