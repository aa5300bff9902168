-------------------------- MODULE FetchFileProofs --------------------------
(***************************************************************************)
(* Proofs about FetchFile for every number of workers and of fetches,      *)
(* every sequence of device files and every leftover .part: what the name  *)
(* dest refers to is whole, abandoned workers write where no name leads,   *)
(* and a fetch implements ArchiveFile.                                     *)
(***************************************************************************)
EXTENDS FetchFile, FiniteSetTheorems, TLAPS

-----------------------------------------------------------------------------
(* The inductive invariant.                                                *)

WorkerState == [step : {"idle", "read", "write", "exit"}, range : Nat]

TypeInv ==
  /\ version \in DOMAIN Sizes /\ live \in [Fetch -> BOOLEAN]
  /\ part \in Inode \cup {Absent} /\ dest \in Inode \cup {Absent} /\ committed \in Nat
  /\ file = [i \in Inode |-> file[i]]
  /\ walk \in {"idle", "fetch", "closing", "stopped"} /\ cur \in 0..Fetches
  /\ state \in [Fetch -> {"none", "open", "run"} \cup Ended]
  /\ fd \in [Fetch -> Inode \cup {Absent}] /\ size \in [Fetch -> Nat]
  /\ next \in [Fetch -> Nat \ {0}] /\ done \in [Fetch -> Nat]
  /\ wk \in [Fetch -> [Worker -> WorkerState]]

(* The names: they never share an inode, and the inode numbered by the     *)
(* current fetch has no name before that fetch opens.                      *)
NameInv ==
  /\ Waits => cur > 0
  /\ part # Absent => part # dest
  /\ part <= cur /\ dest <= cur
  /\ \A a \in Fetch : a = cur /\ state[a] = "open" => part < a /\ dest < a

Active(a, w) == wk[a][w].step \in {"read", "write"}

(* Only the fetch the walk has not gone on from has a session and runs,    *)
(* and it writes the inode that dest.part refers to.                       *)
FetchInv(a) ==
  /\ live[a] => a = cur /\ Waits
  /\ a > cur => state[a] = "none"
  /\ state[a] = "run" => a = cur /\ Waits /\ fd[a] = part /\ part # Absent
  /\ state[a] \in {"none", "open"} => fd[a] = Absent /\ next[a] = 1 /\ done[a] = 0
  /\ fd[a] = Absent => \A w \in Worker : ~Active(a, w)
  /\ fd[a] <= a

(* A fetch that has ended with a goroutine still to come holds an inode    *)
(* that has lost its name.                                                 *)
LateInv(a) ==
  (state[a] \in Ended /\ fd[a] # Absent /\ \E w \in Worker : wk[a][w].step # "exit")
  => fd[a] \notin {part, dest}

Written(i) == {r \in DOMAIN file[i] : file[i][r] # Hole}

(* While a fetch runs, done counts the ranges that are on disk: the ranges *)
(* in the workers' hands are different ones, taken from the channel and    *)
(* not yet written.                                                        *)
CountInv(a) ==
  state[a] = "run" =>
    /\ DOMAIN file[part] \subseteq 1..size[a]
    /\ Cardinality(Written(part)) = done[a]
    /\ \A r \in Written(part) : r < next[a]
    /\ \A w \in Worker : Active(a, w) => /\ wk[a][w].range \in 1..size[a]
                                         /\ wk[a][w].range < next[a]
                                         /\ wk[a][w].range \notin Written(part)
    /\ \A w, v \in Worker : w # v /\ Active(a, w) /\ Active(a, v) => wk[a][w].range # wk[a][v].range

Inv ==
  /\ TypeInv /\ NameInv
  /\ \A a \in Fetch : FetchInv(a) /\ LateInv(a) /\ CountInv(a)
  /\ CommitComplete
LEMMA InitInv == Init => Inv
<1> SUFFICES ASSUME Init
             PROVE  Inv
  OBVIOUS
<1> USE FetchAssumption DEF Init, Fetch, Inode, Absent, Old, At, Waits
<1>1. TypeInv
  <2>1. live \in [Fetch -> BOOLEAN]
    BY Zenon
  <2>2. wk \in [Fetch -> [Worker -> WorkerState]]
    BY DEF WorkerState
  <2>3. file = [i \in Inode |-> file[i]]
    BY Zenon
  <2>4. /\ state \in [Fetch -> {"none", "open", "run"} \cup Ended]
        /\ fd \in [Fetch -> Inode \cup {Absent}] /\ size \in [Fetch -> Nat]
        /\ next \in [Fetch -> Nat \ {0}] /\ done \in [Fetch -> Nat]
    OBVIOUS
  <2>5. version \in DOMAIN Sizes /\ cur \in 0..Fetches /\ part \in Inode \cup {Absent}
    OBVIOUS
  <2>6. QED
    BY <2>1, <2>2, <2>3, <2>4, <2>5 DEF TypeInv
<1>2. NameInv
  BY DEF NameInv
<1>3. \A a \in Fetch : FetchInv(a) /\ LateInv(a) /\ CountInv(a)
  BY DEF FetchInv, LateInv, CountInv, Active, Ended
<1>4. CommitComplete
  BY DEF CommitComplete
<1>5. QED
  BY <1>1, <1>2, <1>3, <1>4 DEF Inv

-----------------------------------------------------------------------------
(* The walk and the environment.                                           *)

LEMMA WalkFetchesInv == Inv /\ WalkFetches => Inv'
<1> SUFFICES ASSUME Inv, WalkFetches
             PROVE  Inv'
  OBVIOUS
<1> USE FetchAssumption DEF Inv, WalkFetches, Fetch, Inode, Absent, disk, Waits
<1>1. TypeInv'
  <2>1. cur + 1 \in Fetch /\ cur' \in 0..Fetches
    BY DEF TypeInv
  <2>2. live' \in [Fetch -> BOOLEAN]
    BY <2>1, Zenon DEF TypeInv
  <2>3. QED
    BY <2>1, <2>2 DEF TypeInv
<1>2. NameInv'
  <2>1. /\ walk' = "fetch" /\ cur' = cur + 1 /\ cur \in 0..Fetches
        /\ part' = part /\ dest' = dest /\ part \in Int /\ dest \in Int
    BY DEF TypeInv
  <2>2. part <= cur /\ dest <= cur /\ (part # Absent => part # dest)
    BY DEF NameInv
  <2>3. QED
    BY <2>1, <2>2 DEF NameInv
<1>3. ASSUME NEW a \in Fetch
      PROVE  FetchInv(a)' /\ LateInv(a)' /\ CountInv(a)'
  <2>1. FetchInv(a) /\ LateInv(a) /\ CountInv(a)
    OBVIOUS
  <2>2. state[cur + 1] = "none" /\ cur + 1 \in Fetch
    BY DEF TypeInv, FetchInv
  <2>3. FetchInv(a)'
    <3>1. live'[a] => live[a] \/ a = cur + 1
      BY Zenon DEF TypeInv
    <3>2. live[a] => a = cur /\ Waits
      BY <2>1 DEF FetchInv
    <3>3. live'[a] => a = cur' /\ Waits'
      BY <3>1, <3>2
    <3>4. /\ a # cur + 1 => state'[a] = state[a]
          /\ a = cur + 1 => state'[a] = "open" /\ state[a] = "none"
      BY <2>2 DEF TypeInv
    <3>5. state[a] # "run"
      BY <2>1 DEF FetchInv
    <3>6. a > cur' => state'[a] = "none"
      BY <2>1, <3>4 DEF TypeInv, FetchInv
    <3>7. fd' = fd /\ next' = next /\ done' = done /\ wk' = wk /\ part' = part
      OBVIOUS
    <3> HIDE DEF WalkFetches
    <3>8. QED
      BY <2>1, <3>3, <3>4, <3>5, <3>6, <3>7 DEF FetchInv, Active
  <2>4. LateInv(a)'
    BY <2>1, <2>2 DEF TypeInv, LateInv, Ended
  <2>5. CountInv(a)'
    BY <2>1, <2>2 DEF TypeInv, CountInv, FetchInv, Active, Written
  <2>6. QED
    BY <2>3, <2>4, <2>5
<1>4. CommitComplete'
  BY DEF CommitComplete
<1>5. QED
  BY <1>1, <1>2, <1>3, <1>4

(* A step of the walk alone: it leaves a fetch that failed, closes that    *)
(* fetch's session, or goes on when the session is closed and the fetch is *)
(* not running.                                                            *)
LEMMA WalkOnlyInv ==
  ASSUME Inv, Waits, UNCHANGED <<disk, fetch, wk, version, cur>>,
         live' \in [Fetch -> BOOLEAN], \A a \in Fetch : live'[a] => live[a],
         \/ walk' \in {walk, "closing"}
         \/ walk' = "idle" /\ state[cur] # "run" /\ ~live[cur]
  PROVE  Inv'
<1> USE FetchAssumption DEF Inv, Fetch, Inode, Absent, disk, fetch, Waits
<1>1. TypeInv'
  BY DEF TypeInv
<1>2. NameInv'
  BY DEF TypeInv, NameInv
<1>3. ASSUME NEW a \in Fetch
      PROVE  FetchInv(a)' /\ LateInv(a)' /\ CountInv(a)'
  <2>1. FetchInv(a) /\ LateInv(a) /\ CountInv(a)
    OBVIOUS
  <2>2. FetchInv(a)'
    BY <2>1 DEF TypeInv, FetchInv, Active
  <2>3. LateInv(a)'
    BY <2>1 DEF LateInv
  <2>4. CountInv(a)'
    BY <2>1 DEF CountInv, Active, Written
  <2>5. QED
    BY <2>2, <2>3, <2>4
<1>4. CommitComplete'
  BY DEF CommitComplete
<1>5. QED
  BY <1>1, <1>2, <1>3, <1>4

LEMMA FetchWedgedInv == Inv /\ FetchWedged => Inv'
<1> SUFFICES ASSUME Inv, FetchWedged
             PROVE  Inv'
  OBVIOUS
<1>1. Waits /\ walk' = "closing" /\ UNCHANGED <<disk, fetch, wk, version, cur, live>>
  BY DEF FetchWedged, WalkFailed, Waits, remote
<1>2. live' \in [Fetch -> BOOLEAN]
  BY <1>1 DEF Inv, TypeInv
<1>3. QED
  BY <1>1, <1>2, WalkOnlyInv

LEMMA SessionClosesInv == Inv /\ SessionCloses => Inv'
<1> SUFFICES ASSUME Inv, SessionCloses
             PROVE  Inv'
  OBVIOUS
<1>1. Waits /\ walk' = walk /\ UNCHANGED <<disk, fetch, wk, version, cur>>
  BY DEF SessionCloses, Waits, walker
<1>2. live' \in [Fetch -> BOOLEAN] /\ \A a \in Fetch : live'[a] => live[a]
  BY Zenon DEF SessionCloses, Inv, TypeInv
<1>3. QED
  BY <1>1, <1>2, WalkOnlyInv

LEMMA WalkRestedInv == Inv /\ WalkRested => Inv'
<1> SUFFICES ASSUME Inv, WalkRested
             PROVE  Inv'
  OBVIOUS
<1>1. /\ Waits /\ walk' = "idle" /\ UNCHANGED <<disk, fetch, wk, version, cur, live>>
      /\ state[cur] # "run" /\ ~live[cur]
  BY DEF WalkRested, Waits, remote
<1>2. live' \in [Fetch -> BOOLEAN]
  BY <1>1 DEF Inv, TypeInv
<1>3. QED
  BY <1>1, <1>2, WalkOnlyInv

LEMMA CrashInv == Inv /\ Crash => Inv'
<1> SUFFICES ASSUME Inv, Crash
             PROVE  Inv'
  OBVIOUS
<1> USE FetchAssumption DEF Inv, Crash, Fetch, Inode, Absent, disk, Waits
<1>1. TypeInv'
  <2>1. live' \in [Fetch -> BOOLEAN]
    BY Zenon
  <2>2. wk' \in [Fetch -> [Worker -> WorkerState]]
    BY DEF WorkerState, At
  <2>3. QED
    BY <2>1, <2>2 DEF TypeInv, Ended
<1>2. NameInv'
  BY DEF TypeInv, NameInv
<1>3. ASSUME NEW a \in Fetch
      PROVE  FetchInv(a)' /\ LateInv(a)' /\ CountInv(a)'
  <2>1. FetchInv(a)
    OBVIOUS
  <2>2. ~live'[a] /\ cur' = cur /\ state'[a] \in {"none", "returned"}
    BY Zenon
  <2>3. FetchInv(a)'
    BY <2>1, <2>2 DEF TypeInv, FetchInv, Active, At
  <2>4. LateInv(a)'
    BY <2>1, <2>2 DEF TypeInv, LateInv, FetchInv, At, Ended
  <2>5. CountInv(a)'
    BY <2>2 DEF CountInv
  <2>6. QED
    BY <2>3, <2>4, <2>5
<1>4. CommitComplete'
  BY DEF CommitComplete
<1>5. QED
  BY <1>1, <1>2, <1>3, <1>4

(* The walk's and the device's other steps change nothing of Inv.          *)
LEMMA OthersInv == Inv /\ (WalkSkips \/ DeviceRewrites \/ UNCHANGED vars) => Inv'
<1> SUFFICES ASSUME Inv, WalkSkips \/ DeviceRewrites \/ UNCHANGED vars
             PROVE  Inv'
  OBVIOUS
<1> USE FetchAssumption DEF Inv, remote, disk, walker, fetch, Waits
<1>1. /\ UNCHANGED <<live, disk, cur, fetch, wk>> /\ version' \in DOMAIN Sizes
      /\ walk' = walk \/ (walk = "idle" /\ walk' = "stopped")
  <2>1. CASE WalkSkips
    BY <2>1 DEF WalkSkips, TypeInv
  <2>2. CASE DeviceRewrites
    BY <2>2 DEF DeviceRewrites, TypeInv
  <2>3. CASE UNCHANGED vars
    BY <2>3 DEF vars, TypeInv
  <2>4. QED
    BY <2>1, <2>2, <2>3
<1>2. TypeInv'
  BY <1>1 DEF TypeInv
<1>3. NameInv'
  BY <1>1 DEF NameInv
<1>4. ASSUME NEW a \in Fetch
      PROVE  FetchInv(a)' /\ LateInv(a)' /\ CountInv(a)'
  <2>1. FetchInv(a) /\ LateInv(a) /\ CountInv(a)
    OBVIOUS
  <2>2. FetchInv(a)'
    BY <1>1, <2>1 DEF FetchInv, Active
  <2>3. LateInv(a)' /\ CountInv(a)'
    BY <1>1, <2>1 DEF LateInv, CountInv, Active, Written
  <2>4. QED
    BY <2>2, <2>3
<1>5. CommitComplete'
  BY <1>1 DEF CommitComplete
<1>6. QED
  BY <1>2, <1>3, <1>4, <1>5
-----------------------------------------------------------------------------
(* fetchFile.                                                              *)

LEMMA FetchOpensInv == ASSUME NEW a \in Fetch, Inv, FetchOpens(a) PROVE Inv'
<1> USE FetchAssumption DEF Fetch, Inode, Absent, remote, walker, Waits
<1> DEFINE i == IF part # Absent THEN part ELSE a
<1>0. TypeInv /\ NameInv /\ CommitComplete
  BY DEF Inv
<1>1. /\ a = cur /\ Waits /\ state[a] = "open"
      /\ fd[a] = Absent /\ next[a] = 1 /\ done[a] = 0
      /\ i \in Inode /\ i # dest /\ i # Absent /\ i <= a
  <2>1. FetchInv(a)
    BY DEF Inv
  <2>2. QED
    BY <1>0, <2>1 DEF FetchOpens, TypeInv, NameInv, FetchInv
<1>2. /\ part' = i /\ dest' = dest /\ cur' = cur /\ walk' = walk /\ live' = live /\ wk' = wk
      /\ fd' = [fd EXCEPT ![a] = i] /\ next' = next /\ done' = done
      /\ state' = [state EXCEPT ![a] = "run"] /\ size' = [size EXCEPT ![a] = Sizes[version]]
      /\ file' = [file EXCEPT ![i] = <<>>] /\ committed' = committed /\ version' = version
  BY DEF FetchOpens
<1> HIDE DEF i
<1>3. TypeInv'
  <2>1. file' = [j \in Inode |-> file'[j]]
    BY <1>0, <1>2 DEF TypeInv
  <2>2. QED
    BY <1>0, <1>1, <1>2, <2>1 DEF TypeInv
<1>4. NameInv'
  BY <1>0, <1>1, <1>2 DEF TypeInv, NameInv
<1>5. ASSUME NEW b \in Fetch
      PROVE  FetchInv(b)' /\ LateInv(b)' /\ CountInv(b)'
  <2>1. FetchInv(b) /\ LateInv(b)
    BY DEF Inv
  <2>2. FetchInv(b)'
    BY <1>0, <1>1, <1>2, <2>1 DEF TypeInv, FetchInv, Active
  <2>3. LateInv(b)'
    BY <1>0, <1>1, <1>2, <2>1 DEF TypeInv, LateInv, FetchInv, Ended, i
  <2>4. CountInv(b)'
    <3>1. SUFFICES ASSUME b = a
                   PROVE  CountInv(b)'
      BY <1>0, <1>1, <1>2, <2>1 DEF TypeInv, CountInv, FetchInv
    <3>2. file'[part'] = <<>>
      BY <1>0, <1>1, <1>2 DEF TypeInv
    <3>3. Written(part)' = {} /\ DOMAIN file'[part'] = {}
      BY <3>2 DEF Written
    <3>4. Cardinality({}) = 0
      BY FS_EmptySet
    <3>5. \A w \in Worker : ~Active(a, w)'
      BY <1>1, <1>2, <2>1, <3>1 DEF FetchInv, Active
    <3>6. done'[a] = 0
      BY <1>1, <1>2
    <3>7. QED
      BY <3>1, <3>3, <3>4, <3>5, <3>6 DEF CountInv
  <2>5. QED
    BY <2>2, <2>3, <2>4
<1>6. CommitComplete'
  BY <1>0, <1>1, <1>2 DEF TypeInv, CommitComplete
<1>7. QED
  BY <1>3, <1>4, <1>5, <1>6 DEF Inv

(* A step that ends a fetch without touching the disk: it moves from one   *)
(* state that is not "run" to "returned", or the walk leaves it.           *)
LEMMA ReturnInv ==
  ASSUME NEW a \in Fetch, Inv, state[a] \in {"open", "aborted", "committed"},
         state' = [state EXCEPT ![a] = "returned"],
         UNCHANGED <<disk, fd, size, next, done, wk, version, cur>>,
         live' \in [Fetch -> BOOLEAN],
         walk' \in {"idle", "fetch", "closing", "stopped"},
         \/ walk' = walk \/ (Waits /\ walk' = "closing")
         \/ cur = a /\ walk' = "idle" /\ ~live'[a],
         \A b \in Fetch : live'[b] => live[b]
  PROVE  Inv'
<1> USE FetchAssumption DEF Fetch, Inode, Absent, disk, Waits
<1>0. TypeInv /\ NameInv /\ CommitComplete
  BY DEF Inv
<1>1. TypeInv'
  BY <1>0 DEF TypeInv, Ended
<1>2. NameInv'
  BY <1>0 DEF TypeInv, NameInv
<1>3. ASSUME NEW b \in Fetch
      PROVE  FetchInv(b)' /\ LateInv(b)' /\ CountInv(b)'
  <2>1. FetchInv(b) /\ LateInv(b) /\ CountInv(b) /\ FetchInv(a)
    BY DEF Inv
  <2>2. FetchInv(b)'
    BY <1>0, <2>1 DEF TypeInv, FetchInv, Active
  <2>3. LateInv(b)'
    BY <1>0, <2>1 DEF TypeInv, LateInv, FetchInv, Ended
  <2>4. CountInv(b)'
    BY <1>0, <2>1 DEF TypeInv, CountInv, FetchInv, Active, Written
  <2>5. QED
    BY <2>2, <2>3, <2>4
<1>4. CommitComplete'
  BY <1>0 DEF CommitComplete
<1>5. QED
  BY <1>1, <1>2, <1>3, <1>4 DEF Inv

LEMMA FetchOpenFailsInv == ASSUME NEW a \in Fetch, Inv, FetchOpenFails(a) PROVE Inv'
<1>0. TypeInv /\ NameInv
  BY DEF Inv
<1>1. CASE walk = "fetch" /\ cur = a
  <2>1. WalkFailed
    BY <1>1 DEF FetchOpenFails
  <2>2. UNCHANGED <<version, live, cur>> /\ Waits /\ walk' = "closing"
    BY <1>1, <2>1 DEF WalkFailed, Waits, remote
  <2>3. QED
    BY <1>0, <2>2, ReturnInv DEF FetchOpenFails, TypeInv
<1>2. CASE ~(walk = "fetch" /\ cur = a)
  <2>1. UNCHANGED <<version, live, walk, cur>>
    BY <1>2 DEF FetchOpenFails, remote, walker
  <2>2. QED
    BY <1>0, <2>1, ReturnInv DEF FetchOpenFails, TypeInv
<1>3. QED
  BY <1>1, <1>2

LEMMA FetchReturnsInv == ASSUME NEW a \in Fetch, Inv, FetchReturns(a) PROVE Inv'
<1>0. TypeInv /\ NameInv
  BY DEF Inv
<1>1. CASE UNCHANGED <<remote, walker>>
  BY <1>0, <1>1, ReturnInv DEF FetchReturns, TypeInv, remote, walker
<1>2. CASE walk = "fetch" /\ cur = a /\ WalkFailed
  <2>1. UNCHANGED <<version, live, cur>> /\ Waits /\ walk' = "closing"
    BY <1>2 DEF WalkFailed, Waits, remote
  <2>2. QED
    BY <1>0, <2>1, ReturnInv DEF FetchReturns, TypeInv
<1>3. CASE /\ walk = "fetch" /\ cur = a /\ state[a] = "committed"
           /\ walk' = "idle" /\ live' = [live EXCEPT ![a] = FALSE]
           /\ UNCHANGED <<version, cur, failCount>>
  <2>1. live' \in [Fetch -> BOOLEAN] /\ ~live'[a] /\ \A b \in Fetch : live'[b] => live[b]
    BY <1>0, <1>3, Zenon DEF TypeInv
  <2>2. QED
    BY <1>0, <1>3, <2>1, ReturnInv DEF FetchReturns
<1>4. QED
  BY <1>1, <1>2, <1>3 DEF FetchReturns

LEMMA AbortInv ==
  ASSUME NEW a \in Fetch, Inv, state[a] = "run", Abort(a)
  PROVE  Inv'
<1> USE FetchAssumption DEF Fetch, Inode, Absent, remote, walker, Waits
<1>0. TypeInv /\ NameInv /\ CommitComplete
  BY DEF Inv
<1>1. /\ part' = Absent /\ state' = [state EXCEPT ![a] = "aborted"]
      /\ UNCHANGED <<version, live, dest, file, committed, walk, cur, fd, size, next, done, wk>>
  BY DEF Abort, Unlinked
<1>2. TypeInv'
  BY <1>0, <1>1 DEF TypeInv, Ended
<1>3. NameInv'
  BY <1>0, <1>1 DEF TypeInv, NameInv
<1>4. ASSUME NEW b \in Fetch
      PROVE  FetchInv(b)' /\ LateInv(b)' /\ CountInv(b)'
  <2>1. FetchInv(b) /\ LateInv(b) /\ FetchInv(a)
    BY DEF Inv
  <2>2. FetchInv(b)'
    BY <1>0, <1>1, <2>1 DEF TypeInv, FetchInv, Active
  <2>3. LateInv(b)'
    BY <1>0, <1>1, <2>1 DEF TypeInv, NameInv, LateInv, FetchInv, Ended
  <2>4. CountInv(b)'
    BY <1>0, <1>1, <2>1 DEF TypeInv, CountInv, FetchInv
  <2>5. QED
    BY <2>2, <2>3, <2>4
<1>5. CommitComplete'
  BY <1>0, <1>1 DEF CommitComplete
<1>6. QED
  BY <1>2, <1>3, <1>4, <1>5 DEF Inv

LEMMA FiniteRanges ==
  ASSUME NEW n \in Nat, NEW S, S \subseteq 1..n
  PROVE  IsFiniteSet(S)
<1>1. IsFiniteSet(1..n)
  BY FS_Interval
<1>2. QED
  BY <1>1, FS_Subset

(* A count of n ranges among 1..n misses none.                             *)
LEMMA CountAll ==
  ASSUME NEW n \in Nat, NEW S, S \subseteq 1..n, Cardinality(S) = n
  PROVE  S = 1..n
<1>1. IsFiniteSet(1..n) /\ Cardinality(1..n) = n
  BY FS_Interval
<1>2. QED
  BY <1>1, FS_Subset

LEMMA FetchCommitsInv == ASSUME NEW a \in Fetch, Inv, FetchCommits(a) PROVE Inv'
<1> USE FetchAssumption DEF Fetch, Inode, Absent, remote, walker, Waits
<1>0. TypeInv /\ NameInv /\ FetchInv(a) /\ CountInv(a)
  BY DEF Inv
<1>1. /\ state[a] = "run" /\ done[a] = size[a] /\ part # Absent
      /\ \A w \in Worker : wk[a][w].step = "exit"
      /\ dest' = part /\ part' = Absent /\ committed' = size[a]
      /\ state' = [state EXCEPT ![a] = "committed"]
      /\ UNCHANGED <<version, live, file, walk, cur, fd, size, next, done, wk>>
  BY DEF FetchCommits, Whole, Finished, AllCounted
<1>2. TypeInv'
  BY <1>0, <1>1 DEF TypeInv, Ended
<1>3. NameInv'
  BY <1>0, <1>1 DEF TypeInv, NameInv
<1>4. ASSUME NEW b \in Fetch
      PROVE  FetchInv(b)' /\ LateInv(b)' /\ CountInv(b)'
  <2>1. FetchInv(b) /\ LateInv(b)
    BY DEF Inv
  <2>2. FetchInv(b)'
    BY <1>0, <1>1, <2>1 DEF TypeInv, FetchInv, Active
  <2>3. LateInv(b)'
    BY <1>0, <1>1, <2>1 DEF TypeInv, LateInv, FetchInv, Ended
  <2>4. CountInv(b)'
    BY <1>0, <1>1, <2>1 DEF TypeInv, CountInv, FetchInv
  <2>5. QED
    BY <2>2, <2>3, <2>4
<1>5. CommitComplete'
  <2>1. Written(part) \subseteq 1..size[a] /\ Cardinality(Written(part)) = size[a] /\ size[a] \in Nat
    BY <1>0, <1>1 DEF CountInv, Written, TypeInv
  <2>2. Written(part) = 1..size[a]
    BY <2>1, CountAll
  <2>3. DOMAIN file[part] = 1..size[a] /\ \A r \in 1..size[a] : file[part][r] # Hole
    BY <1>0, <1>1, <2>2 DEF CountInv, Written
  <2>4. QED
    BY <1>1, <2>3 DEF CommitComplete
<1>6. QED
  BY <1>2, <1>3, <1>4, <1>5 DEF Inv

(* dest.part keeps its name, but no worker is left that could write to it. *)
LEMMA RenameFailsInv == ASSUME NEW a \in Fetch, Inv, RenameFails(a) PROVE Inv'
<1> USE FetchAssumption DEF Fetch, Inode, Absent, remote, disk, walker, Waits
<1>0. TypeInv /\ NameInv /\ CommitComplete
  BY DEF Inv
<1>1. /\ state[a] = "run" /\ \A w \in Worker : wk[a][w].step = "exit"
      /\ state' = [state EXCEPT ![a] = "aborted"]
      /\ UNCHANGED <<version, live, part, dest, file, committed, walk, cur, fd, size, next, done, wk>>
  BY DEF RenameFails, Whole, Finished
<1>2. TypeInv'
  BY <1>0, <1>1 DEF TypeInv, Ended
<1>3. NameInv'
  BY <1>0, <1>1 DEF TypeInv, NameInv
<1>4. ASSUME NEW b \in Fetch
      PROVE  FetchInv(b)' /\ LateInv(b)' /\ CountInv(b)'
  <2>1. FetchInv(b) /\ LateInv(b) /\ CountInv(b)
    BY DEF Inv
  <2>2. FetchInv(b)'
    BY <1>0, <1>1, <2>1 DEF TypeInv, FetchInv, Active
  <2>3. LateInv(b)'
    BY <1>0, <1>1, <2>1 DEF TypeInv, LateInv, Ended
  <2>4. CountInv(b)'
    BY <1>0, <1>1, <2>1 DEF TypeInv, CountInv, Active, Written
  <2>5. QED
    BY <2>2, <2>3, <2>4
<1>5. CommitComplete'
  BY <1>0, <1>1 DEF CommitComplete
<1>6. QED
  BY <1>2, <1>3, <1>4, <1>5 DEF Inv
-----------------------------------------------------------------------------
(* The workers.                                                            *)

(* A worker's step other than a write: it holds no range it did not hold,  *)
(* or the one it takes from the channel.                                   *)
LEMMA WorkerInv ==
  ASSUME NEW a \in Fetch, NEW w \in Worker, Inv, NEW s \in WorkerState,
         wk' = [wk EXCEPT ![a][w] = s],
         fd[a] # Absent, wk[a][w].step # "exit",
         \/ next' = next /\ (s.step \in {"read", "write"} => Active(a, w) /\ s.range = wk[a][w].range)
         \/ next' = [next EXCEPT ![a] = @ + 1] /\ s.range = next[a] /\ next[a] <= size[a],
         state[a] # "open", UNCHANGED <<remote, disk, walker, state, fd, size, done>>
  PROVE  Inv'
<1> USE FetchAssumption DEF Fetch, Inode, Absent, remote, disk, walker, Waits
<1>0. TypeInv /\ NameInv /\ CommitComplete
  BY DEF Inv
<1>1. /\ next' \in [Fetch -> Nat \ {0}] /\ next'[a] >= next[a]
      /\ \A b \in Fetch : b # a => next'[b] = next[b]
  <2>1. next \in [Fetch -> Nat \ {0}] /\ a \in Fetch
    BY <1>0 DEF TypeInv
  <2>2. CASE next' = next
    BY <2>1, <2>2
  <2>3. CASE next' = [next EXCEPT ![a] = @ + 1]
    <3>1. next[a] + 1 \in Nat \ {0}
      BY <2>1
    <3>2. QED
      BY <2>1, <2>3, <3>1
  <2>4. QED
    BY <2>2, <2>3
<1>2. /\ wk' \in [Fetch -> [Worker -> WorkerState]] /\ wk'[a][w] = s
      /\ \A v \in Worker : v # w => wk'[a][v] = wk[a][v]
      /\ \A b \in Fetch : b # a => wk'[b] = wk[b]
  BY <1>0 DEF TypeInv
<1>3. TypeInv'
  BY <1>0, <1>1, <1>2 DEF TypeInv
<1>4. NameInv'
  BY <1>0 DEF NameInv
<1>5. ASSUME NEW b \in Fetch
      PROVE  FetchInv(b)' /\ LateInv(b)' /\ CountInv(b)'
  <2>1. FetchInv(b) /\ LateInv(b) /\ CountInv(b)
    BY DEF Inv
  <2>2. CASE b # a
    <3>1. FetchInv(b)'
      BY <1>1, <1>2, <2>1, <2>2 DEF FetchInv, Active
    <3>2. LateInv(b)'
      BY <1>2, <2>1, <2>2 DEF LateInv
    <3>3. CountInv(b)'
      BY <1>1, <1>2, <2>1, <2>2 DEF CountInv, Active, Written
    <3>4. QED
      BY <3>1, <3>2, <3>3
  <2>3. CASE b = a
    <3>1. state[a] \in {"run"} \cup Ended
      BY <1>0, <2>1, <2>3 DEF TypeInv, FetchInv
    <3>2. FetchInv(b)'
      BY <1>0, <1>1, <2>1, <2>3, <3>1 DEF FetchInv, Ended
    <3>3. LateInv(b)'
      BY <2>1, <2>3 DEF LateInv
    <3>4. CountInv(b)'
      <4> SUFFICES ASSUME state[a] = "run"
                   PROVE  CountInv(a)'
        BY <2>3 DEF CountInv
      <4>1. /\ Written(part)' = Written(part) /\ DOMAIN file[part] \subseteq 1..size[a]
            /\ Cardinality(Written(part)) = done[a]
            /\ \A r \in Written(part) : r < next[a]
        BY <2>1, <2>3 DEF CountInv, Written
      <4>2. /\ next[a] \in Nat /\ next'[a] \in Nat /\ size[a] \in Nat
            /\ Written(part) \subseteq Nat
        <5>1. next[a] \in Nat /\ next'[a] \in Nat /\ size[a] \in Nat
          BY <1>0, <1>1 DEF TypeInv
        <5>2. Written(part) \subseteq DOMAIN file[part]
          BY DEF Written
        <5>3. QED
          BY <4>1, <5>1, <5>2
      <4>3. ASSUME NEW v \in Worker, Active(a, v)
            PROVE  /\ wk[a][v].range \in 1..size[a] /\ wk[a][v].range < next[a]
                   /\ wk[a][v].range \notin Written(part)
                   /\ \A u \in Worker : u # v /\ Active(a, u) => wk[a][u].range # wk[a][v].range
        BY <2>1, <2>3, <4>3 DEF CountInv
      <4>4. ASSUME NEW v \in Worker, v # w, Active(a, v)'
            PROVE  Active(a, v) /\ wk'[a][v] = wk[a][v]
        BY <1>2, <4>4 DEF Active
      <4>5. ASSUME Active(a, w)'
            PROVE  /\ s.range \in 1..size[a] /\ s.range < next'[a] /\ s.range \notin Written(part)
                   /\ \A u \in Worker : u # w /\ Active(a, u) => wk[a][u].range # s.range
        <5>1. s.step \in {"read", "write"}
          BY <1>2, <4>5 DEF Active
        <5>2. CASE next' = next /\ Active(a, w) /\ s.range = wk[a][w].range
          BY <4>3, <5>2
        <5>3. CASE next' = [next EXCEPT ![a] = @ + 1] /\ s.range = next[a] /\ next[a] <= size[a]
          <6>1. next'[a] = next[a] + 1 /\ next[a] # 0
            BY <1>0, <5>3 DEF TypeInv
          <6>2. \A u \in Worker : Active(a, u) => wk[a][u].range # next[a]
            BY <4>2, <4>3
          <6>3. next[a] \notin Written(part)
            BY <4>1, <4>2
          <6>4. QED
            BY <4>2, <5>3, <6>1, <6>2, <6>3
        <5>4. QED
          BY <5>1, <5>2, <5>3
      <4>6. \A v \in Worker : Active(a, v)' => /\ wk'[a][v].range \in 1..size[a]
                                                /\ wk'[a][v].range < next'[a]
                                                /\ wk'[a][v].range \notin Written(part)
        BY <1>1, <1>2, <4>2, <4>3, <4>4, <4>5
      <4>7. ASSUME NEW v \in Worker, NEW u \in Worker, u # v, Active(a, v)', Active(a, u)'
            PROVE  wk'[a][v].range # wk'[a][u].range
        BY <1>2, <4>3, <4>4, <4>5, <4>7
      <4>8. \A r \in Written(part) : r < next'[a]
        BY <1>1, <4>1, <4>2
      <4>9. QED
        BY <4>1, <4>6, <4>7, <4>8 DEF CountInv
    <3>5. QED
      BY <3>2, <3>3, <3>4
  <2>4. QED
    BY <2>2, <2>3
<1>6. CommitComplete'
  BY <1>0 DEF CommitComplete
<1>7. QED
  BY <1>3, <1>4, <1>5, <1>6 DEF Inv

(* A worker with a range belongs to a fetch that has opened.               *)
LEMMA ActiveOpened ==
  ASSUME Inv, NEW a \in Fetch, NEW w \in Worker, Active(a, w)
  PROVE  /\ fd[a] \in Inode /\ fd[a] # Absent /\ state[a] \in {"run"} \cup Ended
         /\ wk[a][w] \in WorkerState /\ fd[a] # dest
<1> USE FetchAssumption DEF Fetch, Inode, Absent
<1>1. TypeInv /\ NameInv /\ FetchInv(a) /\ LateInv(a)
  BY DEF Inv
<1>2. fd[a] \in Inode /\ fd[a] # Absent /\ state[a] \in {"run"} \cup Ended /\ wk[a][w] \in WorkerState
  BY <1>1 DEF TypeInv, FetchInv
<1>3. fd[a] # dest
  BY <1>1, <1>2 DEF NameInv, FetchInv, LateInv, Active
<1>4. QED
  BY <1>2, <1>3

LEMMA WorkerTakesInv ==
  ASSUME NEW a \in Fetch, NEW w \in Worker, Inv, WorkerTakes(a, w)
  PROVE  Inv'
<1>1. next[a] \in Nat /\ TypeInv
  BY DEF Inv, TypeInv
<1>2. CASE next[a] <= size[a]
  <2>1. At("read", next[a]) \in WorkerState /\ At("read", next[a]).range = next[a]
    BY <1>1 DEF At, WorkerState
  <2>2. QED
    BY <1>2, <2>1, WorkerInv DEF WorkerTakes, Set
<1>3. CASE ~(next[a] <= size[a])
  <2>1. At("exit", 0) \in WorkerState /\ At("exit", 0).step = "exit"
    BY DEF At, WorkerState
  <2>2. QED
    BY <1>3, <2>1, WorkerInv DEF WorkerTakes, Set
<1>4. QED
  BY <1>2, <1>3

LEMMA WorkerReadsInv ==
  ASSUME NEW a \in Fetch, NEW w \in Worker, Inv, WorkerReads(a, w)
  PROVE  Inv'
<1>1. Active(a, w)
  BY DEF WorkerReads, Active
<1>2. /\ fd[a] # Absent /\ state[a] # "open" /\ wk[a][w] \in WorkerState /\ wk[a][w].step # "exit"
      /\ next' = next /\ UNCHANGED <<remote, disk, walker, state, fd, size, done>>
  BY <1>1, ActiveOpened DEF WorkerReads, Ended, fetch
<1>3. CASE wk[a][w].range <= Sizes[version]
  <2>1. /\ At("write", wk[a][w].range) \in WorkerState
        /\ At("write", wk[a][w].range).range = wk[a][w].range
    BY <1>2 DEF At, WorkerState
  <2>2. QED
    BY <1>1, <1>2, <1>3, <2>1, WorkerInv DEF WorkerReads, Set
<1>4. CASE ~(wk[a][w].range <= Sizes[version])
  <2>1. At("idle", 0) \in WorkerState /\ At("idle", 0).step = "idle"
    BY DEF At, WorkerState
  <2>2. QED
    BY <1>2, <1>4, <2>1, WorkerInv DEF WorkerReads, Set
<1>5. QED
  BY <1>3, <1>4

LEMMA WorkerFailsInv ==
  ASSUME NEW a \in Fetch, NEW w \in Worker, Inv, WorkerFails(a, w)
  PROVE  Inv'
<1>1. Active(a, w)
  BY DEF WorkerFails, Active
<1>2. fd[a] # Absent /\ state[a] # "open" /\ wk[a][w].step # "exit"
  BY <1>1, ActiveOpened DEF WorkerFails, Ended
<1>3. At("exit", 0) \in WorkerState /\ At("exit", 0).step = "exit"
  BY DEF At, WorkerState
<1>4. QED
  BY <1>2, <1>3, WorkerInv DEF WorkerFails, Set

LEMMA WorkerWritesInv ==
  ASSUME NEW a \in Fetch, NEW w \in Worker, Inv, WorkerWrites(a, w)
  PROVE  Inv'
<1> USE FetchAssumption DEF Fetch, Inode, Absent, remote, walker, Waits
<1> DEFINE r == wk[a][w].range
           old == file[fd[a]]
           new == [k \in DOMAIN old \cup 1..r |->
                     IF k = r THEN Data ELSE IF k \in DOMAIN old THEN old[k] ELSE Hole]
<1>0. TypeInv /\ NameInv /\ CommitComplete
  BY DEF Inv
<1>1. /\ file' = [file EXCEPT ![fd[a]] = new]
      /\ done' = [done EXCEPT ![a] = @ + 1] /\ wk' = [wk EXCEPT ![a][w] = At("idle", 0)]
      /\ UNCHANGED <<version, live, part, dest, committed, walk, cur, state, fd, size, next>>
  BY DEF WorkerWrites, Set
<1>2. Active(a, w)
  BY DEF WorkerWrites, Active
<1>3. /\ fd[a] \in Inode /\ fd[a] # Absent /\ fd[a] # dest
      /\ state[a] \in {"run"} \cup Ended /\ r \in Nat /\ wk[a][w].step # "exit"
  BY <1>2, ActiveOpened DEF WorkerState, Active
<1>4. file'[fd[a]] = new /\ \A i \in Inode : i # fd[a] => file'[i] = file[i]
  BY <1>0, <1>1, <1>3 DEF TypeInv
<1>5. /\ wk' \in [Fetch -> [Worker -> WorkerState]] /\ wk'[a][w].step = "idle"
      /\ \A v \in Worker : v # w => wk'[a][v] = wk[a][v]
      /\ \A b \in Fetch : b # a => wk'[b] = wk[b]
  BY <1>0, <1>1 DEF TypeInv, WorkerState, At
<1>6. TypeInv'
  <2>1. file' = [i \in Inode |-> file'[i]]
    BY <1>0, <1>1 DEF TypeInv
  <2>2. done' \in [Fetch -> Nat]
    <3>1. done \in [Fetch -> Nat] /\ done[a] + 1 \in Nat
      BY <1>0 DEF TypeInv
    <3>2. QED
      BY <1>1, <3>1
  <2>3. QED
    BY <1>0, <1>1, <1>5, <2>1, <2>2 DEF TypeInv
<1>7. NameInv'
  BY <1>0, <1>1 DEF NameInv
<1>8. ASSUME NEW b \in Fetch
      PROVE  FetchInv(b)' /\ LateInv(b)' /\ CountInv(b)'
  <2>1. FetchInv(b) /\ LateInv(b) /\ CountInv(b) /\ FetchInv(a) /\ LateInv(a)
    BY DEF Inv
  <2>2. FetchInv(b)'
    <3>1. done'[b] = done[b] \/ b = a
      BY <1>0, <1>1 DEF TypeInv
    <3>2. \A v \in Worker : Active(b, v)' => Active(b, v)
      BY <1>5 DEF Active
    <3>3. QED
      BY <1>1, <1>3, <2>1, <3>1, <3>2 DEF FetchInv, Ended
  <2>3. LateInv(b)'
    BY <1>1, <1>3, <1>5, <2>1 DEF LateInv
  <2>4. CountInv(b)'
    <3> SUFFICES ASSUME state[b] = "run"
                 PROVE  CountInv(b)'
      BY <1>1 DEF CountInv
    <3>1. CASE b # a
      <4>1. fd[a] # part /\ part \in Inode
        BY <1>0, <1>3, <2>1, <3>1 DEF FetchInv, LateInv, TypeInv
      <4>2. file'[part'] = file[part]
        BY <1>1, <1>4, <4>1
      <4>3. Written(part)' = Written(part)
        BY <4>2 DEF Written
      <4>4. done'[b] = done[b] /\ wk'[b] = wk[b]
        BY <1>0, <1>1, <1>5, <3>1 DEF TypeInv
      <4>5. QED
        BY <1>1, <2>1, <4>2, <4>3, <4>4 DEF CountInv, Active
    <3>2. CASE b = a
      <4>1. fd[a] = part /\ file'[part'] = new /\ old = file[part]
        BY <1>1, <1>4, <2>1, <3>2 DEF FetchInv
      <4>2. CountInv(a) /\ size[a] \in Nat /\ next[a] \in Nat /\ done[a] \in Nat
        BY <1>0, <2>1, <3>2 DEF TypeInv
      <4>3. r \in 1..size[a] /\ r < next[a] /\ r \notin Written(part)
        BY <1>2, <3>2, <4>2 DEF CountInv
      <4>4. DOMAIN file'[part'] \subseteq 1..size[a]
        BY <3>2, <4>1, <4>2, <4>3 DEF CountInv
      <4>5. Written(part)' = Written(part) \cup {r}
        BY <4>1, <4>3 DEF Written, Hole, Data
      <4>6. Cardinality(Written(part)') = done'[a]
        <5>1. Written(part) \subseteq 1..size[a]
          BY <3>2, <4>2 DEF CountInv, Written
        <5>2. IsFiniteSet(Written(part))
          BY <4>2, <5>1, FiniteRanges
        <5>3. Cardinality(Written(part) \cup {r}) = Cardinality(Written(part)) + 1
          BY <4>3, <5>2, FS_AddElement
        <5>4. done'[a] = done[a] + 1 /\ Cardinality(Written(part)) = done[a]
          BY <1>0, <1>1, <3>2, <4>2 DEF CountInv, TypeInv
        <5>5. QED
          BY <4>5, <5>3, <5>4
      <4>7. \A k \in Written(part)' : k < next[a]
        BY <3>2, <4>2, <4>3, <4>5 DEF CountInv
      <4>8. ASSUME NEW v \in Worker, Active(a, v)'
            PROVE  /\ v # w /\ Active(a, v) /\ wk'[a][v] = wk[a][v]
                   /\ wk[a][v].range # r
        BY <1>2, <1>5, <3>2, <4>2, <4>8 DEF CountInv, Active
      <4>9. \A v \in Worker : Active(a, v)' => /\ wk'[a][v].range \in 1..size[a]
                                                /\ wk'[a][v].range < next[a]
                                                /\ wk'[a][v].range \notin Written(part)'
        BY <3>2, <4>2, <4>5, <4>8 DEF CountInv
      <4>10. \A u, v \in Worker : u # v /\ Active(a, u)' /\ Active(a, v)'
                                  => wk'[a][u].range # wk'[a][v].range
        BY <3>2, <4>2, <4>8 DEF CountInv
      <4>11. QED
        BY <1>1, <3>2, <4>4, <4>6, <4>7, <4>9, <4>10 DEF CountInv
    <3>3. QED
      BY <3>1, <3>2
  <2>5. QED
    BY <2>2, <2>3, <2>4
<1>9. CommitComplete'
  BY <1>0, <1>1, <1>3, <1>4 DEF CommitComplete, TypeInv
<1>10. QED
  BY <1>6, <1>7, <1>8, <1>9 DEF Inv

-----------------------------------------------------------------------------
(* The theorems.                                                           *)

LEMMA NextInv == Inv /\ [Next]_vars => Inv'
<1> SUFFICES ASSUME Inv, [Next]_vars
             PROVE  Inv'
  OBVIOUS
<1>1. CASE WalkFetches
  BY <1>1, WalkFetchesInv
<1>2. CASE WalkSkips \/ DeviceRewrites \/ UNCHANGED vars
  BY <1>2, OthersInv
<1>3. CASE FetchWedged \/ SessionCloses \/ WalkRested
  BY <1>3, FetchWedgedInv, SessionClosesInv, WalkRestedInv
<1>4. ASSUME NEW a \in Fetch, Step(a)
      PROVE  Inv'
  <2>1. CASE FetchOpens(a)
    BY <2>1, FetchOpensInv
  <2>2. CASE FetchOpenFails(a)
    BY <2>2, FetchOpenFailsInv
  <2>3. CASE FetchTimesOut(a) \/ FetchFails(a)
    BY <2>3, AbortInv DEF FetchTimesOut, FetchFails
  <2>4. CASE FetchCommits(a) \/ RenameFails(a)
    BY <2>4, FetchCommitsInv, RenameFailsInv
  <2>5. CASE FetchReturns(a)
    BY <2>5, FetchReturnsInv
  <2>6. ASSUME NEW w \in Worker,
               WorkerTakes(a, w) \/ WorkerReads(a, w) \/ WorkerFails(a, w) \/ WorkerWrites(a, w)
        PROVE  Inv'
    BY <2>6, WorkerTakesInv, WorkerReadsInv, WorkerFailsInv, WorkerWritesInv
  <2>7. QED
    BY <1>4, <2>1, <2>2, <2>3, <2>4, <2>5, <2>6 DEF Step
<1>5. CASE Crash
  BY <1>5, CrashInv
<1>6. QED
  BY <1>1, <1>2, <1>3, <1>4, <1>5 DEF Next

LEMMA Invariant == Spec => []Inv
BY InitInv, NextInv, PTL DEF Spec

(* "renamed only once every byte is on disk": for any number of workers    *)
(* and of abandoned fetches and any leftover .part, what dest refers to    *)
(* has every range of the size it was opened at, no hole and no tail.      *)
THEOREM CommitCompleteAlways == Spec => []CommitComplete
<1>1. Inv => CommitComplete
  BY DEF Inv
<1>2. QED
  BY <1>1, Invariant, PTL

(* "Unlinking while workers still hold the fd is safe": no goroutine of a  *)
(* fetch that has ended can still write to a file that has a name.         *)
THEOREM LateWritesUnreachableAlways == Spec => []LateWritesUnreachable
<1>1. Inv => LateWritesUnreachable
  BY ActiveOpened DEF Inv, LateInv, LateWritesUnreachable, Active
<1>2. QED
  BY <1>1, Invariant, PTL
-----------------------------------------------------------------------------
(* The refinement of ArchiveFile.                                          *)

(* What the promise sees of a state: the size of the file under the name,  *)
(* and the size of the file that this fetch has opened.                    *)
Local == IF dest = Absent THEN Absent ELSE committed
Opened == IF Waits /\ state[cur] = "run" THEN size[cur] ELSE Absent

(* The file under the name is whole, so its content is its size.           *)
LEMMA ContentIsLocal == Inv => Content(dest) = Local
<1> SUFFICES ASSUME Inv, dest # Absent
             PROVE  Content(dest) = committed
  BY DEF Content, Local
<1>1. /\ DOMAIN file[dest] = 1..committed /\ committed \in Nat
      /\ \A r \in 1..committed : file[dest][r] # Hole
  BY DEF Inv, TypeInv, CommitComplete
<1>2. Cardinality(1..committed) = committed
  BY <1>1, FS_Interval
<1>3. QED
  BY <1>1, <1>2 DEF Content

LEMMA ContentIsLocalNext == Inv' => Content(dest)' = Local'
<1>1. (Inv => Content(dest) = Local)'
  BY ContentIsLocal, PTL
<1>2. QED
  BY <1>1

LEMMA InitRefines == Init => Promise!Init
BY DEF Init, Promise!Init, Content, Waits

(* A step that shows neither in the name, nor in the walk, nor in what is  *)
(* opened.                                                                 *)
LEMMA Stutters ==
  ASSUME Inv, Inv', version' = version, Local' = Local, Opened' = Opened,
         Waits' = Waits
  PROVE  UNCHANGED Promise!vars
<1>1. Content(dest)' = Content(dest) /\ Sizes[version]' = Sizes[version]
  BY ContentIsLocal, ContentIsLocalNext
<1>2. QED
  BY <1>1, Zenon DEF Promise!vars, Opened
(* The walk goes on, and what was opened, if anything, is given up.        *)
LEMMA EndsOrGivesUp ==
  ASSUME Inv, Inv', version' = version, Local' = Local, Opened' = Absent,
         Waits, Opened # Absent \/ ~Waits'
  PROVE  Promise!Next
<1>1. Content(dest)' = Content(dest) /\ Sizes[version]' = Sizes[version]
  BY ContentIsLocal, ContentIsLocalNext
<1>2. CASE Opened = Absent
  <2>1. Waits' = FALSE
    BY <1>2 DEF Waits
  <2>2. Promise!End
    BY <1>1, <1>2, <2>1, Zenon DEF Promise!End, Opened
  <2>3. QED
    BY <2>2 DEF Promise!Next
<1>3. CASE Opened # Absent
  <2>0. Waits \in BOOLEAN /\ Waits' \in BOOLEAN
    BY DEF Waits
  <2>1. Waits' \in {Waits, FALSE}
    BY <2>0
  <2>2. Promise!GiveUp
    BY <1>1, <1>3, <2>1, Zenon DEF Promise!GiveUp, Opened
  <2>3. QED
    BY <2>2 DEF Promise!Next
<1>4. QED
  BY <1>2, <1>3

LEMMA WalkRefines ==
  ASSUME Inv, Inv', WalkFetches \/ WalkSkips \/ FetchWedged \/ SessionCloses \/ WalkRested \/ Crash \/ DeviceRewrites
  PROVE  [Promise!Next]_(Promise!vars)
<1> USE FetchAssumption DEF Absent
<1>0. TypeInv /\ NameInv /\ Content(dest) = Local /\ Content(dest)' = Local' /\ TypeInv'
  BY ContentIsLocal, ContentIsLocalNext DEF Inv
<1>1. CASE WalkFetches
  <2>1. Local' = Local /\ version' = version /\ Opened = Absent /\ ~Waits /\ Waits'
    BY <1>1 DEF WalkFetches, Local, Opened, Waits, disk
  <2>2. Opened' = Absent
    BY <1>0, <1>1 DEF WalkFetches, Opened, TypeInv, Fetch
  <2>3. Local # Sizes[version]
    BY <1>0, <1>1 DEF WalkFetches, Present, Local, TypeInv
  <2>4. Promise!Begin
    BY <1>0, <2>1, <2>2, <2>3 DEF Promise!Begin, Opened, Waits
  <2>5. QED
    BY <2>4 DEF Promise!Next
<1>2. CASE WalkSkips
  <2>1. version' = version /\ Local' = Local /\ Opened' = Opened /\ Waits' = Waits
    BY <1>2 DEF WalkSkips, Local, Opened, Waits, remote, disk
  <2>2. QED
    BY <2>1, Stutters
<1>3. CASE FetchWedged \/ SessionCloses
  <2>1. version' = version /\ Local' = Local /\ Opened' = Opened /\ Waits' = Waits
    BY <1>3 DEF FetchWedged, SessionCloses, WalkFailed, Local, Opened, Waits, remote, disk, walker, fetch
  <2>2. QED
    BY <2>1, Stutters
<1>4. CASE WalkRested
  <2>1. /\ version' = version /\ Local' = Local /\ Opened' = Absent
        /\ Waits /\ ~Waits'
    BY <1>4 DEF WalkRested, Local, Opened, Waits, remote, disk
  <2>2. QED
    BY <2>1, EndsOrGivesUp
<1>5. CASE Crash
  <2>1. /\ version' = version /\ Local' = Local /\ Opened' = Absent
        /\ Waits /\ ~Waits'
    BY <1>5 DEF Crash, Local, Opened, Waits, disk
  <2>2. QED
    BY <2>1, EndsOrGivesUp
<1>6. CASE DeviceRewrites
  <2>1. Local' = Local /\ Opened' = Opened /\ walk' = walk
    BY <1>6 DEF DeviceRewrites, Local, Opened, Waits, disk, walker, fetch
  <2>2. CASE Sizes[version]' # Sizes[version]
    <3>1. Promise!Rewrite
      BY <1>0, <2>1, <2>2 DEF Promise!Rewrite, Opened, Waits
    <3>2. QED
      BY <3>1 DEF Promise!Next
  <2>3. CASE Sizes[version]' = Sizes[version]
    BY <1>0, <2>1, <2>3 DEF Promise!vars, Opened, Waits
  <2>4. QED
    BY <2>2, <2>3
<1>7. QED
  BY <1>1, <1>2, <1>3, <1>4, <1>5, <1>6

LEMMA FetchRefines ==
  ASSUME Inv, Inv', NEW a \in Fetch,
         \/ FetchOpens(a) \/ FetchOpenFails(a) \/ FetchTimesOut(a) \/ FetchFails(a)
         \/ FetchCommits(a) \/ RenameFails(a) \/ FetchReturns(a)
  PROVE  [Promise!Next]_(Promise!vars)
<1> USE FetchAssumption DEF Absent
<1>0. /\ TypeInv /\ NameInv /\ FetchInv(a) /\ Content(dest) = Local /\ Content(dest)' = Local'
      /\ size[a] \in Nat /\ version \in DOMAIN Sizes /\ DOMAIN state = Fetch /\ DOMAIN size = Fetch
  BY ContentIsLocal, ContentIsLocalNext DEF Inv, TypeInv
<1>1. CASE FetchOpens(a)
  <2>1. /\ a = cur /\ Waits /\ Opened = Absent
        /\ version' = version /\ Local' = Local /\ walk' = walk /\ cur' = cur
    BY <1>0, <1>1 DEF FetchOpens, FetchInv, Local, Opened, remote, walker
  <2>2. Opened' = Sizes[version]
    BY <1>0, <1>1, <2>1 DEF FetchOpens, Opened, Waits
  <2>3. Promise!Open
    BY <1>0, <2>1, <2>2 DEF Promise!Open, Opened, Waits
  <2>4. QED
    BY <2>3 DEF Promise!Next
<1>2. CASE FetchOpenFails(a)
  <2>1. version' = version /\ Local' = Local /\ Waits' = Waits /\ Opened' = Opened
    BY <1>0, <1>2 DEF FetchOpenFails, WalkFailed, Local, Opened, Waits, disk, remote, walker
  <2>2. QED
    BY <2>1, Stutters
<1>3. CASE FetchTimesOut(a) \/ FetchFails(a) \/ RenameFails(a)
  <2>1. /\ Waits /\ cur = a /\ state[a] = "run" /\ state' = [state EXCEPT ![a] = "aborted"]
        /\ UNCHANGED <<version, dest, committed, walk, cur, size>>
    BY <1>0, <1>3 DEF FetchTimesOut, FetchFails, RenameFails, Whole, Abort, FetchInv, remote, disk, walker
  <2>2. Opened = size[a] /\ Opened' = Absent /\ Local' = Local
    BY <1>0, <2>1 DEF Opened, Local, Waits
  <2>3. Opened # Absent
    BY <1>0, <2>2
  <2>4. QED
    BY <2>1, <2>2, <2>3, EndsOrGivesUp
<1>4. CASE FetchCommits(a)
  <2>1. /\ Waits /\ cur = a /\ version' = version /\ walk' = walk
        /\ Opened = size[a] /\ Opened' = Absent /\ Local' = size[a]
    BY <1>0, <1>4 DEF FetchCommits, Whole, FetchInv, Opened, Local, Waits, remote, walker
  <2>2. Opened # Absent
    BY <1>0, <2>1
  <2>3. Promise!Place
    BY <1>0, <2>1, <2>2 DEF Promise!Place, Opened, Waits
  <2>4. QED
    BY <2>3 DEF Promise!Next
<1>5. CASE FetchReturns(a)
  <2>1. version' = version /\ Local' = Local
    BY <1>5 DEF FetchReturns, WalkFailed, Local, disk, remote
  <2>2. CASE walk = "fetch" /\ cur = a /\ walk' = "idle"
    <3>1. Waits /\ ~Waits' /\ Opened' = Absent
      BY <2>2 DEF Opened, Waits
    <3>2. QED
      BY <2>1, <3>1, EndsOrGivesUp
  <2>3. CASE walk' = walk \/ (walk = "fetch" /\ walk' = "closing")
    <3>1. Waits' = Waits /\ Opened' = Opened
      BY <1>0, <1>5, <2>3 DEF FetchReturns, WalkFailed, Opened, Waits, walker
    <3>2. QED
      BY <2>1, <3>1, Stutters
  <2>4. QED
    BY <1>5, <2>2, <2>3 DEF FetchReturns, WalkFailed, walker
<1>6. QED
  BY <1>1, <1>2, <1>3, <1>4, <1>5

(* No worker's step shows in the archive.                                  *)
LEMMA WorkerRefines ==
  ASSUME Inv, Inv', NEW a \in Fetch, NEW w \in Worker,
         WorkerTakes(a, w) \/ WorkerReads(a, w) \/ WorkerFails(a, w) \/ WorkerWrites(a, w)
  PROVE  UNCHANGED Promise!vars
<1>1. version' = version /\ Local' = Local /\ Opened' = Opened /\ walk' = walk
  <2>1. UNCHANGED <<version, dest, committed, walk, cur, state, size>>
    BY DEF WorkerTakes, WorkerReads, WorkerFails, WorkerWrites, remote, disk, walker, fetch
  <2>2. QED
    BY <2>1 DEF Local, Opened, Waits
<1>2. QED
  BY <1>1, Stutters DEF Waits

LEMMA NextRefines == Inv /\ Inv' /\ [Next]_vars => [Promise!Next]_(Promise!vars)
<1> SUFFICES ASSUME Inv, Inv', [Next]_vars
             PROVE  [Promise!Next]_(Promise!vars)
  OBVIOUS
<1>1. CASE WalkFetches \/ WalkSkips \/ FetchWedged \/ SessionCloses \/ WalkRested \/ Crash \/ DeviceRewrites
  BY <1>1, WalkRefines
<1>2. ASSUME NEW a \in Fetch, Step(a)
      PROVE  [Promise!Next]_(Promise!vars)
  BY <1>2, FetchRefines, WorkerRefines DEF Step
<1>3. CASE UNCHANGED vars
  <2>1. version' = version /\ Local' = Local /\ Opened' = Opened /\ walk' = walk
    BY <1>3 DEF vars, remote, disk, walker, fetch, Local, Opened, Waits
  <2>2. QED
    BY <2>1, Stutters DEF Waits
<1>4. QED
  BY <1>1, <1>2, <1>3 DEF Next

(* What main.go:585-588 builds on: a fetch, with its timeouts, abandoned   *)
(* workers and kills, is seen as one change of the name to a whole file    *)
(* before the walk goes on, or as none.                                    *)
THEOREM FetchImplementsPromise == Spec => Refines
<1>1. Init => Promise!Init
  BY InitRefines
<1>2. Inv /\ Inv' /\ [Next]_vars => [Promise!Next]_(Promise!vars)
  BY NextRefines
<1>3. QED
  BY <1>1, <1>2, Invariant, PTL DEF Spec, Refines, Promise!Spec
=============================================================================
