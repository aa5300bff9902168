------------------------------- MODULE Mirror ------------------------------
(***************************************************************************)
(* The main program of cmd/download/main.go over a whole tree: passes of   *)
(* streamWalk that fetch what is missing as they find it, reconnecting     *)
(* after every failure; LIST_ONLY; the manifest; and the final walk that   *)
(* compares the device with the local archive.                             *)
(*                                                                         *)
(* A path is the sequence of its segments under ROOT, a file's content its *)
(* size (the presence check looks at nothing else), and a size of 0 means  *)
(* there is no such file.  A fetch is an ArchiveFile, as FetchFile is: it  *)
(* puts the file it opened in place whole, or leaves the named file alone. *)
(* The manifest is written in one step.                                    *)
(* connect gives a share or an error, or never returns: its requests to    *)
(* the cloud go through http.DefaultClient, which has no time limit.  The  *)
(* telescope goes on writing while it is read.                             *)
(***************************************************************************)
EXTENDS Naturals, Sequences, FiniteSets, SequencesExt

CONSTANTS
  Dir,           \* the directories, <<>> among them
  File,          \* the paths at which files may exist
  Targets,       \* TARGETS: first segments; empty means no restriction
  Excluded,      \* the files EXCLUDE_EXT skips
  Size,          \* the sizes a file may have
  MaxFails,      \* maxFails (4 in the code)
  EnumAttempts,  \* attempts of enumerate (6 in the code)
  MaxFaults,     \* bound: connect and ReadDir errors
  MaxRewrites,   \* bound: files the telescope writes during the run
  MaxKills       \* bound: kills and restarts

ASSUME MirrorAssumption ==
  /\ <<>> \in Dir /\ Dir \cap File = {} /\ Excluded \subseteq File
  /\ IsFiniteSet(Dir \cup File)
  /\ \A p \in Dir \cup File : /\ p \in Seq({p[i] : i \in DOMAIN p})
                             /\ \A n \in 0..Len(p) : n < Len(p) => SubSeq(p, 1, n) \in Dir
  /\ Size \subseteq Nat \ {0} /\ MaxFails \in Nat \ {0} /\ EnumAttempts \in Nat \ {0}
  /\ {MaxFaults, MaxRewrites, MaxKills} \subseteq Nat

Absent == 0

VARIABLES
  pc,          \* "connect", "walk", "fetch", "enum", "enumWalk", "wedged", "exit"
  listOnly,    \* LIST_ONLY is set
  todo,        \* what is left of this walk, depth first: directories to read, listed files
  pass,        \* the entries seen on this walk (pass; files, in enumerate)
  got,         \* a file was downloaded in this pass
  opened,      \* the size of the file the current fetch has opened
  failCount,   \* per file
  attempt,     \* attempts left to enumerate
  manifest,    \* the entries of _device_manifest.tsv
  verdict,     \* what the program said last: none, complete, incomplete, unconfirmed
  local,       \* the archive: per file its size
  device,      \* the device: per file its size
  quiet,       \* history: the files not written since this walk began
  versions,    \* history, per file: the contents it has had on the device
  fetches,     \* history, per file: the successful fetches
  faults, rewrites, kills

history == <<quiet, versions, fetches>>
bounds == <<faults, rewrites, kills>>
walking == <<todo, pass, got, opened>>
vars == <<pc, listOnly, walking, failCount, attempt, manifest, verdict, local, device, history, bounds>>

Entry(path, size) == [path |-> path, size |-> size]

Init ==
  /\ listOnly \in BOOLEAN
  /\ pc = IF listOnly THEN "enum" ELSE "connect"
  /\ todo = <<>> /\ pass = <<>> /\ got = FALSE /\ opened = Absent
  /\ failCount = [f \in File |-> 0] /\ attempt = EnumAttempts
  /\ manifest = <<>> /\ verdict = "none"
  /\ local \in [File -> Size \cup {Absent}] /\ device \in [File -> Size \cup {Absent}]
  /\ quiet = File /\ versions = [f \in File |-> 1] /\ fetches = [f \in File |-> 0]
  /\ faults = 0 /\ rewrites = 0 /\ kills = 0

-----------------------------------------------------------------------------
(* The scope and the walks.                                                *)

(* The first segment decides, for directories and for files.               *)
InScope(path) == Targets = {} \/ path = <<>> \/ path[1] \in Targets

WantFile(f) == f \notin Excluded

(* Out-of-scope directories and unwanted files are passed over where they  *)
(* stand.                                                                  *)
Kept(path) == InScope(path) /\ (path \in File => WantFile(path))

(* What a walk has to do after a ReadDir of dir: the subdirectories and    *)
(* files kept, with the sizes they have now, in the order listed.          *)
Listing(dir) ==
  LET here == {p \in (Dir \cup File) \ {<<>>} :
                 Front(p) = dir /\ Kept(p) /\ (p \in File => device[p] # Absent)}
  IN {[i \in DOMAIN s |-> Entry(s[i], IF s[i] \in File THEN device[s[i]] ELSE 0)] :
        s \in SetToSeqs(here)}

(* A walk begins at the root with an empty list.                           *)
WalkFrom(label) ==
  /\ pc' = label
  /\ todo' = <<Entry(<<>>, 0)>>
  /\ quiet' = File

AtDir == todo # <<>> /\ Head(todo).path \in Dir
AtFile == todo # <<>> /\ Head(todo).path \in File

(* ReadDir of the next directory.                                          *)
ReadsDir ==
  /\ AtDir
  /\ \E entries \in Listing(Head(todo).path) : todo' = entries \o Tail(todo)

(* One of the environment's bounded errors.                                *)
Fault == faults < MaxFaults /\ faults' = faults + 1 /\ UNCHANGED <<rewrites, kills>>

-----------------------------------------------------------------------------
(* streamWalk and the loop around it.                                      *)

(* Mutant of Restarted: pass is not emptied when the session is replaced.  *)
RestartedKeeping == pass

(* pass = pass[:0].                                                        *)
Restarted == <<>>

(* connect returns a share; a pass begins.                                 *)
Connect ==
  /\ pc = "connect"
  /\ WalkFrom("walk")
  /\ got' = FALSE /\ pass' = Restarted
  /\ UNCHANGED <<listOnly, opened, failCount, attempt, manifest, verdict, local, device, versions, fetches, bounds>>

(* connect fails; the program rests and tries again, for ever.             *)
ConnectFails ==
  /\ pc = "connect" /\ Fault
  /\ UNCHANGED <<pc, listOnly, walking, failCount, attempt, manifest, verdict, local, device, history>>

WalkDir ==
  /\ pc = "walk" /\ ReadsDir
  /\ UNCHANGED <<pc, listOnly, pass, got, opened, failCount, attempt, manifest, verdict, local, device, history, bounds>>

(* ReadDir fails, or its 45 s pass: closer, a rest, connect.               *)
WalkDirFails ==
  /\ pc = "walk" /\ AtDir /\ Fault
  /\ pc' = "connect" /\ todo' = <<>>
  /\ UNCHANGED <<listOnly, pass, got, opened, failCount, attempt, manifest, verdict, local, device, history>>

(* Mutant of Present: a file that is there is taken to be the right one.   *)
PresentAnySize(e) == local[e.path] # Absent

(* Mutant of Present: the local file is not looked at.                     *)
PresentNever(e) == FALSE

(* The local file exists with the size just listed.                        *)
Present(e) == local[e.path] = e.size

GivenUp(e) == failCount[e.path] >= MaxFails

(* A file that is present, or given up, is only noted.                     *)
WalkPasses ==
  /\ pc = "walk" /\ AtFile
  /\ LET e == Head(todo)
     IN (Present(e) \/ GivenUp(e)) /\ pass' = Append(pass, e)
  /\ todo' = Tail(todo)
  /\ UNCHANGED <<pc, listOnly, got, opened, failCount, attempt, manifest, verdict, local, device, history, bounds>>

(* Any other is fetched, whatever size it has by the time it is opened.    *)
WalkFetches ==
  /\ pc = "walk" /\ AtFile
  /\ LET e == Head(todo)
     IN ~Present(e) /\ ~GivenUp(e) /\ pass' = Append(pass, e) /\ opened' = device[e.path]
  /\ pc' = "fetch"
  /\ UNCHANGED <<listOnly, todo, got, failCount, attempt, manifest, verdict, local, device, history, bounds>>

(* Mutant of Counted: the failures are counted anew in every session.      *)
CountedPerSession(f) == [g \in File |-> IF g = f THEN 1 ELSE 0]

Counted(f) == [failCount EXCEPT ![f] = @ + 1]

(* The file opened is renamed into place.                                  *)
InPlace(f) ==
  /\ opened # Absent
  /\ local' = [local EXCEPT ![f] = opened]
  /\ fetches' = [fetches EXCEPT ![f] = @ + 1]

(* fetchWithTimeout returns nil.                                           *)
FetchOk ==
  /\ pc = "fetch" /\ InPlace(Head(todo).path)
  /\ pc' = "walk" /\ todo' = Tail(todo) /\ got' = TRUE /\ opened' = Absent
  /\ UNCHANGED <<listOnly, pass, failCount, attempt, manifest, verdict, device, quiet, versions, bounds>>

(* It returns an error, for which no bound is assumed: errReconnect, closer*)
(* and a rest.  The file may be in place all the same, if closing the      *)
(* remote one hangs or a fetch left behind completes before closer does.   *)
FetchFails ==
  /\ pc = "fetch"
  /\ failCount' = Counted(Head(todo).path)
  /\ InPlace(Head(todo).path) \/ UNCHANGED <<local, fetches>>
  /\ pc' = "connect" /\ todo' = <<>> /\ opened' = Absent
  /\ UNCHANGED <<listOnly, pass, got, attempt, manifest, verdict, device, quiet, versions, bounds>>

(* A complete walk that downloaded nothing ends the loop.                  *)
PassLabel == IF got THEN "connect" ELSE "enum"

PassEnds ==
  /\ pc = "walk" /\ todo = <<>>
  /\ manifest' = pass
  /\ pc' = PassLabel
  /\ attempt' = EnumAttempts
  /\ UNCHANGED <<listOnly, walking, failCount, verdict, local, device, history, bounds>>

-----------------------------------------------------------------------------
(* enumerate, for LIST_ONLY and for the verification.                      *)

EnumConnect ==
  /\ pc = "enum" /\ attempt > 0
  /\ WalkFrom("enumWalk")
  /\ pass' = <<>>
  /\ UNCHANGED <<listOnly, got, opened, failCount, attempt, manifest, verdict, local, device, versions, fetches, bounds>>

(* connect or a ReadDir fails; the next attempt starts over.               *)
EnumFails ==
  /\ pc = "enum" \/ (pc = "enumWalk" /\ AtDir)
  /\ attempt > 0 /\ Fault
  /\ pc' = "enum" /\ attempt' = attempt - 1
  /\ todo' = <<>>
  /\ UNCHANGED <<listOnly, pass, got, opened, failCount, manifest, verdict, local, device, history>>

EnumDir ==
  /\ pc = "enumWalk" /\ ReadsDir
  /\ UNCHANGED <<pc, listOnly, pass, got, opened, failCount, attempt, manifest, verdict, local, device, history, bounds>>

(* walk reads directories without a time limit: a listing that never comes *)
(* is waited for, with the session held.                                   *)
EnumWedges ==
  /\ pc = "enumWalk" /\ AtDir
  /\ pc' = "wedged"
  /\ UNCHANGED <<listOnly, walking, failCount, attempt, manifest, verdict, local, device, history, bounds>>

EnumFile ==
  /\ pc = "enumWalk" /\ AtFile
  /\ pass' = Append(pass, Head(todo)) /\ todo' = Tail(todo)
  /\ UNCHANGED <<pc, listOnly, got, opened, failCount, attempt, manifest, verdict, local, device, history, bounds>>

EnumExhausted ==
  /\ pc = "enum" /\ attempt = 0
  /\ verdict' = "unconfirmed" /\ pc' = "exit"
  /\ UNCHANGED <<listOnly, walking, failCount, attempt, manifest, local, device, history, bounds>>

(* The list is sorted before it is written; no property looks at the order.*)
ListDone ==
  /\ pc = "enumWalk" /\ todo = <<>> /\ listOnly
  /\ manifest' = pass /\ pc' = "exit"
  /\ UNCHANGED <<listOnly, walking, failCount, attempt, verdict, local, device, history, bounds>>

Missing == {e \in ToSet(pass) : local[e.path] = Absent}
Mismatch == {e \in ToSet(pass) : local[e.path] \notin {Absent, e.size}}

(* Mutant of Accounted: a size mismatch does not count.                    *)
AccountedMissing == Missing = {}

Accounted == Missing = {} /\ Mismatch = {}

VerifyDone ==
  /\ pc = "enumWalk" /\ todo = <<>> /\ ~listOnly
  /\ verdict' = IF Accounted THEN "complete" ELSE "incomplete"
  /\ pc' = "exit"
  /\ UNCHANGED <<listOnly, walking, failCount, attempt, manifest, local, device, history, bounds>>

-----------------------------------------------------------------------------
(* The environment.                                                        *)

(* The telescope writes, replaces or removes a file during the run.        *)
Rewrite ==
  /\ rewrites < MaxRewrites /\ rewrites' = rewrites + 1
  /\ pc \notin {"exit", "wedged"}
  /\ \E f \in File, s \in Size \cup {Absent} :
       /\ s # device[f]
       /\ device' = [device EXCEPT ![f] = s]
       /\ quiet' = quiet \ {f}
       /\ versions' = [versions EXCEPT ![f] = @ + 1]
  /\ UNCHANGED <<pc, listOnly, walking, failCount, attempt, manifest, verdict, local, fetches, faults, kills>>

(* The process is killed and started again: only the archive remains.      *)
Kill ==
  /\ kills < MaxKills /\ kills' = kills + 1
  /\ pc # "exit"
  /\ pc' = IF listOnly THEN "enum" ELSE "connect"
  /\ todo' = <<>> /\ pass' = <<>> /\ got' = FALSE /\ opened' = Absent
  /\ failCount' = [f \in File |-> 0] /\ attempt' = EnumAttempts
  /\ UNCHANGED <<listOnly, manifest, verdict, local, device, history, faults, rewrites>>

Download ==
  \/ Connect \/ ConnectFails \/ WalkDir \/ WalkDirFails \/ WalkPasses \/ WalkFetches
  \/ FetchOk \/ FetchFails \/ PassEnds
  \/ EnumConnect \/ EnumFails \/ EnumDir \/ EnumWedges \/ EnumFile \/ EnumExhausted
  \/ ListDone \/ VerifyDone

Next == Download \/ Rewrite \/ Kill

Spec == Init /\ [][Next]_vars

(* The call the program is in has no time limit: connect, in either loop.  *)
(* (ReadDir in enumerate has none either: EnumWedges.)                     *)
Connecting == pc = "connect" \/ (pc = "enum" /\ attempt > 0)

(* The program runs, and comes back from every call that has a time limit  *)
(* (ReadDir in a pass, a fetch); nothing is asked of the device.           *)
FairSpec == Spec /\ WF_vars(~Connecting /\ Download)

-----------------------------------------------------------------------------
(* Properties.                                                             *)

(* In scope as TARGETS and EXCLUDE_EXT say: under a top-level directory    *)
(* that is named, and not of an excluded type.                             *)
Wanted(f) == (Targets = {} \/ \E t \in Targets : IsPrefix(<<t>>, f)) /\ f \notin Excluded

(* "A manifest is written" (main.go:402): whatever failed on the way, what *)
(* is written lists each wanted file of the device once and no other file, *)
(* with its size unless the telescope wrote it during that very walk.      *)
ManifestWhole ==
  [][manifest' # manifest =>
       /\ \A f \in quiet : Wanted(f) /\ device[f] # Absent
            => Cardinality({i \in DOMAIN manifest' : manifest'[i] = Entry(f, device[f])}) = 1
       /\ \A i \in DOMAIN manifest' : Wanted(manifest'[i].path)
       /\ \A i, j \in DOMAIN manifest' : i # j => manifest'[i].path # manifest'[j].path]_vars

(* "VERIFIED COMPLETE: every one of the ... device files is present        *)
(* locally at matching size" (main.go:697) and, of a file given up, "the   *)
(* final verify reports it missing" (main.go:628): the verdict is right    *)
(* about every file the telescope left alone during the verification.      *)
VerdictTrue ==
  [][verdict' # verdict =>
       LET ok(f) == Wanted(f) /\ device[f] # Absent => local[f] = device[f]
       IN /\ verdict' = "complete" => \A f \in quiet : ok(f)
          /\ verdict' = "incomplete" => \E f \in File : f \notin quiet \/ ~ok(f)]_vars

(* "a complete walk that downloaded nothing: everything present or given   *)
(* up" (main.go:666): when the loop ends that is so, for every file the    *)
(* telescope left alone during its last pass.                              *)
NothingLeft ==
  [][pc = "walk" /\ pc' = "enum" =>
       \A f \in quiet : Wanted(f) /\ device[f] # Absent
                         => local[f] = device[f] \/ failCount[f] >= MaxFails]_vars

(* "Resume is a per-file local presence check, so re-walking after a       *)
(* reconnect is idempotent" (main.go:586-587): through any number of       *)
(* passes, reconnects and restarts a file is downloaded no more often than *)
(* it has had contents, although sizes are listed, opened and compared at  *)
(* three times.                                                            *)
OncePerVersion == \A f \in File : fetches[f] <= versions[f]

(* The program does not go round for ever: with sessions that fail         *)
(* finitely often, and fetches that may all fail, it comes to its end or   *)
(* to a call without a time limit that never returns, which is a connect   *)
(* or a ReadDir of enumerate and nothing else.                             *)
MirrorEnds == <>[](pc \in {"exit", "wedged"} \/ Connecting)

-----------------------------------------------------------------------------
(* What the source says of itself and TLC refutes (README, section 3).     *)

(* "bounds an SMB ReadDir, turning a wedged listing into a recoverable     *)
(* error" (main.go:326): enumerate does not use it.                        *)
WedgeRecovered == pc # "wedged"
=============================================================================
