------------------------------- MODULE Upload ------------------------------
(***************************************************************************)
(* cmd/upload/main.go: one session in which every file of a list is        *)
(* written to the device.  mkdirP makes the directories; writeOneFile      *)
(* reads the local file in chunks into a bounded queue, from which a pool  *)
(* of goroutines writes them at their offsets, and then compares the       *)
(* device's size with the size listed at the start; the first failure ends *)
(* the program with os.Exit(1).                                            *)
(*                                                                         *)
(* A file is a number of cells.  SMB calls (external) succeed or fail; a   *)
(* failed WriteAt has written some first part of its chunk.  A device file *)
(* is the set of cells written to it, and its size the end of the last.    *)
(* Somebody may go on editing the local files.                             *)
(***************************************************************************)
EXTENDS Integers, Sequences, FiniteSets, FiniteSetsExt

CONSTANTS
  Paths,      \* the destinations, in order: sequences of segments, ROOT first
  Worker,     \* UPLOAD_WORKERS goroutines
  Chunk,      \* UPLOAD_CHUNK, in cells
  PerWorker,  \* queued chunks per worker (2 in the code)
  MaxSize,    \* bound: the cells of a local file
  MaxEdits    \* bound: changes of local files during the run

ASSUME UploadAssumption ==
  /\ Paths \in Seq({Paths[i] : i \in DOMAIN Paths}) /\ Paths # <<>>
  /\ \A i \in DOMAIN Paths : Paths[i] # <<>>
  /\ \A i, j \in DOMAIN Paths : Paths[i] = Paths[j] => i = j
  /\ IsFiniteSet(Worker) /\ {Chunk, PerWorker, MaxSize, MaxEdits} \subseteq Nat

Item == DOMAIN Paths
QueueCap == PerWorker * Cardinality(Worker)
Idle == <<0, 0>>       \* a goroutine waiting for a job
Gone == <<-1, 0>>      \* one that has returned
NoFile == {-1}

VARIABLES
  pc,         \* the main goroutine
  item,       \* the file it is at
  seg,        \* mkdirP: the segments made so far
  expect,     \* per item: its size when the list was made
  size,       \* per item: the local file's size now
  off,        \* how much of it has been queued
  chunk,      \* the chunk read last: its offset and length
  jobs,       \* the queue: <<offset, length>>
  open,       \* the queue is not closed yet
  worker,     \* per goroutine: Idle, Gone, or the job it is writing
  n,          \* cells written
  err,        \* a read error, or the first error of what follows
  writeErr,
  dirs,       \* device: its directories
  files,      \* device, per item: NoFile or the cells written
  reported,   \* the items whose line has been printed
  code,       \* exit status, -1 while running
  released,   \* Umount, Logoff or Close has ended the session
  edits

fileVars == <<off, chunk, jobs, open, worker, n, err, writeErr>>
localVars == <<expect, size, edits>>
deviceVars == <<dirs, files>>
vars == <<pc, item, seg, localVars, fileVars, deviceVars, reported, code, released>>

Dirname(i) == SubSeq(Paths[i], 1, Len(Paths[i]) - 1)

Init ==
  /\ pc = "connect" /\ item = 1 /\ seg = 0
  /\ size \in [Item -> 0..MaxSize] /\ expect = size /\ edits = 0
  /\ off = 0 /\ chunk = Idle /\ jobs = <<>> /\ open = FALSE /\ worker = [w \in Worker |-> Gone]
  /\ n = 0 /\ err = FALSE /\ writeErr = FALSE
  /\ dirs \in {{}, {Dirname(1)}} /\ files = [i \in Item |-> NoFile]
  /\ reported = {} /\ code = -1 /\ released = FALSE

(* os.Exit ends every goroutine and runs no deferred function.             *)
Exit(status, closes) ==
  /\ pc' = "exit" /\ code' = status /\ released' = closes
  /\ UNCHANGED <<item, seg, localVars, fileVars, deviceVars, reported>>

-----------------------------------------------------------------------------
(* main.                                                                   *)

(* Dial, OpenChannel, DialContext and Mount; what fails is closed first.   *)
Connect ==
  /\ pc = "connect"
  /\ pc' = "mkdir"
  /\ UNCHANGED <<item, seg, localVars, fileVars, deviceVars, reported, code, released>>

ConnectFails == pc = "connect" /\ Exit(1, TRUE)

(* mkdirP, a segment at a time: an error is tolerated if the directory is  *)
(* there all the same.                                                     *)
Segment == SubSeq(Paths[item], 1, seg + 1)

Parent == SubSeq(Paths[item], 1, seg)

Mkdir ==
  /\ pc = "mkdir" /\ seg < Len(Dirname(item))
  /\ \/ (seg = 0 \/ Parent \in dirs) /\ Segment \notin dirs /\ dirs' = dirs \cup {Segment}
     \/ Segment \in dirs /\ UNCHANGED dirs
  /\ seg' = seg + 1
  /\ UNCHANGED <<pc, item, localVars, fileVars, files, reported, code, released>>

(* Mkdir fails and so does Stat, or what is there is no directory.         *)
MkdirFails == pc = "mkdir" /\ seg < Len(Dirname(item)) /\ Exit(1, FALSE)

-----------------------------------------------------------------------------
(* writeOneFile.                                                           *)

(* Open and Create, which truncates; the workers start.                    *)
Create ==
  /\ pc = "mkdir" /\ seg = Len(Dirname(item)) /\ (seg = 0 \/ Dirname(item) \in dirs)
  /\ files' = [files EXCEPT ![item] = {}]
  /\ off' = 0 /\ chunk' = Idle /\ jobs' = <<>> /\ open' = TRUE /\ worker' = [w \in Worker |-> Idle]
  /\ n' = 0 /\ err' = FALSE /\ writeErr' = FALSE
  /\ pc' = "read"
  /\ UNCHANGED <<item, seg, localVars, dirs, reported, code, released>>

CreateFails == pc = "mkdir" /\ seg = Len(Dirname(item)) /\ Exit(1, FALSE)

(* r of lf.Read(b).                                                        *)
ReadSize == Min({Chunk, size[item] - off})

(* A chunk is read.  With a Chunk of 0 nothing is, without end.            *)
ReadChunk ==
  /\ pc = "read" /\ off < size[item] /\ ReadSize > 0
  /\ chunk' = <<off, ReadSize>>
  /\ pc' = "send"
  /\ UNCHANGED <<item, seg, localVars, off, jobs, open, worker, n, err, writeErr, deviceVars, reported, code, released>>

(* jobs <- blocks while the queue is full.                                 *)
SendChunk ==
  /\ pc = "send" /\ Len(jobs) < QueueCap
  /\ jobs' = Append(jobs, chunk) /\ off' = off + chunk[2]
  /\ pc' = "read"
  /\ UNCHANGED <<item, seg, localVars, chunk, open, worker, n, err, writeErr, deviceVars, reported, code, released>>

(* EOF, or a read error; close(jobs).                                      *)
ReadEnds ==
  /\ pc = "read"
  /\ err' \in {b \in BOOLEAN : b \/ off >= size[item]}
  /\ open' = FALSE /\ pc' = "wait"
  /\ UNCHANGED <<item, seg, localVars, off, chunk, jobs, worker, n, writeErr, deviceVars, reported, code, released>>

WorkerTakes(w) ==
  /\ pc \in {"read", "send", "wait"} /\ worker[w] = Idle /\ jobs # <<>>
  /\ worker' = [worker EXCEPT ![w] = Head(jobs)] /\ jobs' = Tail(jobs)
  /\ UNCHANGED <<pc, item, seg, localVars, off, chunk, open, n, err, writeErr, deviceVars, reported, code, released>>

(* WriteAt returns: how much it wrote, and an error if that is not all.    *)
Wrote(w, k) ==
  /\ files' = [files EXCEPT ![item] = @ \cup (worker[w][1]..(worker[w][1] + k - 1))]
  /\ n' = n + k

WorkerWrites(w) ==
  /\ worker[w] \notin {Idle, Gone}
  /\ Wrote(w, worker[w][2])
  /\ worker' = [worker EXCEPT ![w] = Idle]
  /\ UNCHANGED <<pc, item, seg, localVars, off, chunk, jobs, open, err, writeErr, dirs, reported, code, released>>

(* Mutant of AfterError: a worker that failed stops.                       *)
AfterErrorGone == Gone

(* It goes on draining the queue.                                          *)
AfterError == Idle

WorkerFails(w) ==
  /\ worker[w] \notin {Idle, Gone}
  /\ \E k \in 0..(worker[w][2] - 1) : Wrote(w, k)
  /\ writeErr' = TRUE
  /\ worker' = [worker EXCEPT ![w] = AfterError]
  /\ UNCHANGED <<pc, item, seg, localVars, off, chunk, jobs, open, err, dirs, reported, code, released>>

(* The queue is closed and empty.                                          *)
WorkerEnds(w) ==
  /\ worker[w] = Idle /\ ~open /\ jobs = <<>>
  /\ worker' = [worker EXCEPT ![w] = Gone]
  /\ UNCHANGED <<pc, item, seg, localVars, off, chunk, jobs, open, n, err, writeErr, deviceVars, reported, code, released>>

(* Mutant of Failed: the workers' error is forgotten.                      *)
FailedReading == err

Failed == err \/ writeErr

(* wg.Wait, then Close, whose error counts too.                            *)
Waited ==
  /\ pc = "wait" /\ \A w \in Worker : worker[w] = Gone
  /\ err' \in {Failed, TRUE}
  /\ pc' = "stat"
  /\ UNCHANGED <<item, seg, localVars, off, chunk, jobs, open, worker, n, writeErr, deviceVars, reported, code, released>>

DeviceSize == IF files[item] = {} THEN 0 ELSE Max(files[item]) + 1

SizeMatches == DeviceSize = expect[item]

(* The post-stat succeeds and agrees; the line is printed.                 *)
ItemDone ==
  /\ pc = "stat" /\ ~err /\ SizeMatches
  /\ reported' = reported \cup {item}
  /\ seg' = 0
  /\ IF item < Len(Paths) THEN item' = item + 1 /\ pc' = "mkdir" ELSE pc' = "teardown" /\ UNCHANGED item
  /\ UNCHANGED <<localVars, fileVars, deviceVars, code, released>>

(* Anything else, the post-stat's own failure included.                    *)
ItemFails == pc = "stat" /\ Exit(1, FALSE)

(* The deferred function: Teardown's closer with its last wait shortened.  *)
TeardownRuns == pc = "teardown" /\ Exit(0, TRUE)

-----------------------------------------------------------------------------
(* Somebody else writes a local file.                                      *)
Edit ==
  /\ pc # "exit" /\ edits < MaxEdits /\ edits' = edits + 1
  /\ \E i \in Item, s \in 0..MaxSize : s # size[i] /\ size' = [size EXCEPT ![i] = s]
  /\ UNCHANGED <<pc, item, seg, expect, fileVars, deviceVars, reported, code, released>>

Main ==
  \/ Connect \/ ConnectFails \/ Mkdir \/ MkdirFails \/ Create \/ CreateFails
  \/ ReadChunk \/ SendChunk \/ ReadEnds \/ Waited \/ ItemDone \/ ItemFails \/ TeardownRuns
Work(w) == WorkerTakes(w) \/ WorkerWrites(w) \/ WorkerFails(w) \/ WorkerEnds(w)

Next == Main \/ (\E w \in Worker : Work(w)) \/ Edit

Spec == Init /\ [][Next]_vars

(* The steps that wait for nothing but the program's own queue, no read    *)
(* error among them; Teardown's closer has its time limits.                *)
MainLocal == ReadChunk \/ SendChunk \/ (off >= size[item] /\ ReadEnds) \/ TeardownRuns
WorkLocal(w) == WorkerTakes(w) \/ WorkerEnds(w)

(* The goroutines run.  No SMB call need ever return: "block forever on a  *)
(* wedged" tunnel is what the source says of them (main.go:233-234).       *)
Fairness == WF_vars(MainLocal) /\ \A w \in Worker : WF_vars(WorkLocal(w))
FairSpec == Spec /\ Fairness

-----------------------------------------------------------------------------
(* Properties.                                                             *)

(* Every variable has its type.                                            *)
TypeOK ==
  /\ pc \in {"connect", "mkdir", "read", "send", "wait", "stat", "teardown", "exit"}
  /\ item \in Item /\ seg \in 0..Len(Dirname(item))
  /\ {size, expect} \subseteq [Item -> 0..MaxSize]
  /\ Len(jobs) <= QueueCap
  /\ \A w \in Worker : worker[w] \in {Idle, Gone} \cup ((0..MaxSize) \X (1..MaxSize))
  /\ files \in [Item -> (SUBSET (0..(MaxSize - 1))) \cup {NoFile}]
  /\ reported \subseteq Item /\ code \in {-1, 0, 1}

(* writeOneFile "verifies the device's reported size" (main.go:315), which *)
(* says nothing of a hole that a failed chunk leaves below a later one.    *)
(* Still a file is reported only if it has every cell it was listed with   *)
(* and no other, whichever worker failed when and however the local file   *)
(* changed; and "done" (status 0) is said of a whole list, with the        *)
(* session given back.                                                     *)
ReportedWhole ==
  /\ \A i \in reported : files[i] = 0..(expect[i] - 1)
  /\ code = 0 => reported = Item /\ released

(* A call on the device is under way: connecting, Mkdir and Create, the    *)
(* Close after wg.Wait, the post-stat, or a worker's WriteAt.              *)
InCall ==
  \/ pc \in {"connect", "mkdir", "stat"}
  \/ pc = "wait" /\ \A w \in Worker : worker[w] = Gone
  \/ \E w \in Worker : worker[w] \notin {Idle, Gone}

(* The run ends whatever fails, unless a call on the device never returns: *)
(* the goroutines do not come to wait on each other, the reader on a queue *)
(* that nobody drains or main on workers that have no job.                 *)
UploadEnds == <>[](code # -1 \/ InCall)

-----------------------------------------------------------------------------
(* What the source says of itself and TLC refutes (README, section 3).     *)

(* "force-close the tunnel if they do not finish in time, releasing the    *)
(* device's single session" (main.go:233-235): a session that was opened   *)
(* is given back before the process ends.                                  *)
ExitReleases == code # -1 => released
=============================================================================
