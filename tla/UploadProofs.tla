---------------------------- MODULE UploadProofs ---------------------------
(***************************************************************************)
(* Proofs about Upload for every list of files, every number of workers,   *)
(* every chunk and queue size and every edit of the local files.           *)
(***************************************************************************)
EXTENDS Upload, FiniteSetTheorems, TLAPS

-----------------------------------------------------------------------------
(* The inductive invariant.                                                *)

Job == Nat \X (Nat \ {0})

Cells(j) == j[1]..(j[1] + j[2] - 1)

Busy(w) == worker[w] \notin {Idle, Gone}

Writing == {"read", "send", "wait"}

TypeInv ==
  /\ pc \in {"connect", "mkdir", "read", "send", "wait", "stat", "teardown", "exit"}
  /\ item \in Item /\ off \in Nat /\ size \in [Item -> Nat] /\ expect \in [Item -> Nat]
  /\ jobs \in Seq(Job) /\ worker \in [Worker -> {Idle, Gone} \cup Job]
  /\ files = [i \in Item |-> files[i]]
  /\ open \in BOOLEAN /\ err \in BOOLEAN /\ writeErr \in BOOLEAN

(* Goroutines are there only while a file is being written; one that has   *)
(* returned left the queue closed and empty.                               *)
PoolInv ==
  /\ pc \notin Writing => jobs = <<>> /\ \A w \in Worker : worker[w] = Gone
  /\ pc \in {"read", "send"} => open
  /\ jobs # <<>> => Worker # {}
  /\ pc \in Writing => \A w \in Worker : worker[w] = Gone => ~open /\ jobs = <<>>

(* What has been read so far is on the device, in the queue or in a        *)
(* worker's hands, unless a write has failed, and nothing else is.         *)
Held(c) ==
  \/ c \in files[item]
  \/ \E k \in DOMAIN jobs : c \in Cells(jobs[k])
  \/ \E w \in Worker : Busy(w) /\ c \in Cells(worker[w])
CoverInv ==
  /\ pc = "send" => chunk[1] = off /\ chunk \in Job
  /\ pc \in Writing =>
       /\ files[item] \subseteq 0..(off - 1)
       /\ \A k \in DOMAIN jobs : jobs[k][1] + jobs[k][2] <= off
       /\ \A w \in Worker : Busy(w) => worker[w][1] + worker[w][2] <= off
       /\ ~writeErr => \A c \in 0..(off - 1) : Held(c)
  /\ pc = "stat" /\ ~err => files[item] = 0..(off - 1)

(* The files are reported one after the other.                             *)
ReportInv ==
  /\ \A i \in reported : i \in Item /\ files[i] = 0..(expect[i] - 1)
  /\ pc \in Writing \cup {"connect", "mkdir", "stat"} => reported = 1..(item - 1)
  /\ pc = "teardown" => reported = Item
  /\ code = 0 => pc = "exit" /\ reported = Item /\ released

Inv == TypeInv /\ PoolInv /\ CoverInv /\ ReportInv
-----------------------------------------------------------------------------
(* Facts about the operators.                                              *)

LEMMA ItemRange == Item = 1..Len(Paths) /\ Len(Paths) \in Nat \ {0}
<1>1. Paths \in Seq({Paths[i] : i \in DOMAIN Paths}) /\ Paths # <<>>
  BY UploadAssumption
<1>2. QED
  BY <1>1 DEF Item

LEMMA ReadSizeNat ==
  ASSUME TypeInv, ReadSize > 0
  PROVE  ReadSize \in Nat \ {0}
<1>1. Chunk \in Int /\ size[item] - off \in Int
  BY UploadAssumption DEF TypeInv
<1> DEFINE a == Chunk
           b == size[item] - off
<1>2. \E x \in {a, b} : \A y \in {a, b} : x <= y
  <2> HIDE DEF a, b
  <2>1. a \in Int /\ b \in Int
    BY <1>1 DEF a, b
  <2>2. QED
    BY <2>1
<1>3. ReadSize \in {a, b}
  BY <1>2 DEF ReadSize, Min
<1>4. QED
  BY <1>1, <1>3

(* The size of a device file without holes.                                *)
LEMMA WholeSize ==
  ASSUME NEW len \in Nat, files[item] = 0..(len - 1)
  PROVE  DeviceSize = len
<1>1. CASE len = 0
  BY <1>1 DEF DeviceSize
<1>2. CASE len > 0
  <2>1. \A x \in 0..(len - 1) : (\A y \in 0..(len - 1) : x >= y) <=> x = len - 1
    BY <1>2
  <2>2. Max(0..(len - 1)) = len - 1
    BY <1>2, <2>1 DEF Max
  <2>3. 0..(len - 1) # {}
    BY <1>2
  <2>4. QED
    BY <2>2, <2>3 DEF DeviceSize
<1>3. QED
  BY <1>1, <1>2

LEMMA TailOf ==
  ASSUME NEW S, NEW q \in Seq(S), q # <<>>
  PROVE  /\ Tail(q) \in Seq(S) /\ Head(q) \in S /\ Head(q) = q[1] /\ 1 \in DOMAIN q
         /\ \A k \in DOMAIN Tail(q) : k + 1 \in DOMAIN q /\ Tail(q)[k] = q[k + 1]
         /\ \A k \in DOMAIN q : k # 1 => k - 1 \in DOMAIN Tail(q) /\ Tail(q)[k - 1] = q[k]
OBVIOUS

LEMMA AppendOf ==
  ASSUME NEW S, NEW q \in Seq(S), NEW x \in S
  PROVE  /\ Append(q, x) \in Seq(S) /\ Append(q, x) # <<>>
         /\ \A k \in DOMAIN q : k \in DOMAIN Append(q, x) /\ Append(q, x)[k] = q[k]
         /\ Len(q) + 1 \in DOMAIN Append(q, x) /\ Append(q, x)[Len(q) + 1] = x
         /\ \A k \in DOMAIN Append(q, x) : k \in DOMAIN q \/ Append(q, x)[k] = x
OBVIOUS

(* A job is neither of the two marks of a goroutine without one.           *)
LEMMA JobBusy == \A j \in Job : /\ j # Idle /\ j # Gone /\ j[1] \in Nat /\ j[2] \in Nat \ {0}
<1> SUFFICES ASSUME NEW j \in Job
             PROVE  j # Idle /\ j # Gone /\ j[1] \in Nat /\ j[2] \in Nat \ {0}
  OBVIOUS
<1>1. j[1] \in Nat /\ j[2] \in Nat \ {0}
  BY DEF Job
<1>2. Idle[2] = 0 /\ Gone[2] = 0
  BY DEF Idle, Gone
<1>3. QED
  BY <1>1, <1>2

-----------------------------------------------------------------------------

LEMMA InitInv == Init => Inv
<1> SUFFICES ASSUME Init
             PROVE  Inv
  OBVIOUS
<1> USE DEF Init
<1>1. TypeInv
  <2>1. jobs \in Seq(Job)
    OBVIOUS
  <2>2. open \in BOOLEAN /\ err \in BOOLEAN /\ writeErr \in BOOLEAN
    BY Zenon
  <2>3. item \in Item
    BY ItemRange
  <2>4. size \in [Item -> Nat] /\ expect \in [Item -> Nat]
    BY UploadAssumption
  <2>5. worker \in [Worker -> {Idle, Gone} \cup Job]
    OBVIOUS
  <2>6. QED
    BY <2>1, <2>2, <2>3, <2>4, <2>5 DEF TypeInv
<1>2. PoolInv
  BY DEF PoolInv, Writing
<1>3. CoverInv
  BY DEF CoverInv, Writing
<1>4. ReportInv
  BY DEF ReportInv
<1>5. QED
  BY <1>1, <1>2, <1>3, <1>4 DEF Inv

(* A step of main outside writeOneFile that leaves the device's files and  *)
(* the goroutines alone.                                                   *)
LEMMA ExitInv ==
  ASSUME Inv, NEW status, NEW closes, Exit(status, closes), pc \notin Writing,
         status = 0 => closes /\ reported = Item
  PROVE  Inv'
<1> USE DEF Inv, Exit, localVars, fileVars, deviceVars, Writing
<1>1. TypeInv'
  BY DEF TypeInv
<1>2. PoolInv'
  BY DEF PoolInv
<1>3. CoverInv'
  BY DEF CoverInv
<1>4. ReportInv'
  BY DEF ReportInv
<1>5. QED
  BY <1>1, <1>2, <1>3, <1>4

LEMMA QuietInv ==
  ASSUME Inv, Connect \/ Mkdir \/ Edit \/ UNCHANGED vars
  PROVE  Inv'
<1> USE DEF Inv, localVars, fileVars, deviceVars
<1>1. /\ size' \in [Item -> Nat]
      /\ UNCHANGED <<item, expect, fileVars, files, reported, code, released>>
      /\ pc' = pc \/ (pc = "connect" /\ pc' = "mkdir")
  <2>1. CASE Connect
    BY <2>1 DEF Connect, TypeInv
  <2>2. CASE Mkdir
    BY <2>2 DEF Mkdir, TypeInv
  <2>3. CASE Edit
    <3>1. PICK i \in Item, s \in 0..MaxSize : size' = [size EXCEPT ![i] = s]
      BY <2>3 DEF Edit
    <3>2. s \in Nat
      BY UploadAssumption
    <3>3. size' \in [Item -> Nat]
      BY <3>1, <3>2 DEF TypeInv
    <3>4. QED
      BY <2>3, <3>3 DEF Edit
  <2>4. CASE UNCHANGED vars
    BY <2>4 DEF vars, TypeInv
  <2>5. QED
    BY <2>1, <2>2, <2>3, <2>4
<1>2. TypeInv'
  BY <1>1 DEF TypeInv
<1>3. PoolInv'
  BY <1>1 DEF PoolInv, Writing
<1>4. CoverInv'
  BY <1>1 DEF CoverInv, Held, Busy, Writing
<1>5. ReportInv'
  BY <1>1 DEF ReportInv, Writing
<1>6. QED
  BY <1>2, <1>3, <1>4, <1>5

LEMMA CreateInv == ASSUME Inv, Create PROVE Inv'
<1> USE DEF Inv, Create, localVars
<1>0. TypeInv /\ ReportInv /\ files' = [files EXCEPT ![item] = {}] /\ item' = item
  OBVIOUS
<1>1. files'[item] = {} /\ \A i \in Item : i # item => files'[i] = files[i]
  BY <1>0 DEF TypeInv
<1>2. TypeInv'
  <2>0. files = [i \in Item |-> files[i]]
    BY <1>0 DEF TypeInv
  <2>1. files' = [i \in Item |-> files'[i]]
    BY <1>0, <2>0
  <2>2. jobs' \in Seq(Job)
    OBVIOUS
  <2>3. open' \in BOOLEAN /\ err' \in BOOLEAN /\ writeErr' \in BOOLEAN
    BY Zenon
  <2>4. QED
    BY <2>1, <2>2, <2>3 DEF TypeInv
<1>3. PoolInv'
  <2>1. open'
    BY Zenon
  <2>2. QED
    BY <2>1 DEF PoolInv, Writing, Idle, Gone
<1>4. CoverInv'
  BY <1>1 DEF CoverInv, Writing, Busy
<1>5. ReportInv'
  <2>1. item \in Nat /\ reported = 1..(item - 1) /\ item \notin reported
    BY <1>0, ItemRange DEF TypeInv, ReportInv
  <2>2. QED
    BY <1>0, <1>1, <2>1 DEF ReportInv, Writing
<1>6. QED
  BY <1>2, <1>3, <1>4, <1>5

LEMMA ReadChunkInv == ASSUME Inv, ReadChunk PROVE Inv'
<1> USE DEF Inv, ReadChunk, localVars, deviceVars
<1>1. chunk' = <<off, ReadSize>> /\ off \in Nat /\ ReadSize \in Nat \ {0}
  BY ReadSizeNat DEF TypeInv
<1>2. chunk' \in Job /\ chunk'[1] = off
  BY <1>1 DEF Job
<1>3. TypeInv'
  BY DEF TypeInv
<1>4. PoolInv'
  BY DEF PoolInv, Writing
<1>5. CoverInv'
  BY <1>2 DEF CoverInv, Writing, Busy, Held
<1>6. ReportInv'
  BY DEF ReportInv, Writing
<1>7. QED
  BY <1>3, <1>4, <1>5, <1>6

LEMMA SendChunkInv == ASSUME Inv, SendChunk PROVE Inv'
<1> USE DEF localVars, deviceVars
<1>0. TypeInv /\ PoolInv /\ CoverInv /\ ReportInv
  BY DEF Inv
<1>1. /\ jobs' = Append(jobs, chunk) /\ off' = off + chunk[2]
      /\ pc = "send" /\ pc' = "read" /\ Len(jobs) < QueueCap
      /\ UNCHANGED <<item, size, expect, open, worker, err, writeErr, files, reported, code, released>>
  BY DEF SendChunk
<1>2. chunk \in Job /\ chunk[1] = off /\ chunk[2] \in Nat \ {0} /\ off \in Nat /\ off' \in Nat
  BY <1>0, <1>1, JobBusy DEF CoverInv, TypeInv
<1>3. /\ jobs' \in Seq(Job) /\ jobs' # <<>>
      /\ \A k \in DOMAIN jobs : k \in DOMAIN jobs' /\ jobs'[k] = jobs[k]
      /\ \E k \in DOMAIN jobs' : jobs'[k] = chunk
      /\ \A k \in DOMAIN jobs' : jobs'[k] = chunk \/ (k \in DOMAIN jobs /\ jobs'[k] = jobs[k])
  BY <1>0, <1>1, <1>2, AppendOf DEF TypeInv
<1>4. Worker # {}
  <2> SUFFICES ASSUME Worker = {}
               PROVE  FALSE
    OBVIOUS
  <2>1. QueueCap = 0
    BY FS_EmptySet, UploadAssumption DEF QueueCap
  <2>2. Len(jobs) \in Nat
    BY <1>0 DEF TypeInv
  <2>3. QED
    BY <1>1, <2>1, <2>2
<1>5. TypeInv'
  BY <1>0, <1>1, <1>2, <1>3 DEF TypeInv
<1>6. PoolInv'
  BY <1>0, <1>1, <1>4 DEF PoolInv, Writing
<1>7. CoverInv'
  <2>1. files'[item'] \subseteq 0..(off' - 1)
    BY <1>0, <1>1, <1>2 DEF CoverInv, Writing
  <2>2. \A k \in DOMAIN jobs' : jobs'[k][1] + jobs'[k][2] <= off'
    <3>1. \A k \in DOMAIN jobs : jobs[k][1] + jobs[k][2] <= off /\ jobs[k][1] \in Nat /\ jobs[k][2] \in Nat
      BY <1>0, <1>1, JobBusy DEF CoverInv, Writing, TypeInv
    <3>2. QED
      BY <1>1, <1>2, <1>3, <3>1
  <2>3. ASSUME NEW w \in Worker, Busy(w)
        PROVE  worker[w][1] + worker[w][2] <= off'
    <3>1. worker[w] \in Job
      BY <1>0, <2>3 DEF TypeInv, Busy
    <3>2. QED
      BY <1>0, <1>1, <1>2, <2>3, <3>1, JobBusy DEF CoverInv, Writing
  <2>4. ASSUME ~writeErr, NEW c \in 0..(off' - 1)
        PROVE  Held(c)'
    <3>1. CASE c < off
      <4>1. Held(c)
        BY <1>0, <1>1, <1>2, <2>4, <3>1 DEF CoverInv, Writing
      <4>2. QED
        BY <1>1, <1>3, <4>1 DEF Held, Busy
    <3>2. CASE c >= off
      <4>1. c \in Cells(chunk)
        BY <1>1, <1>2, <3>2 DEF Cells
      <4>2. QED
        BY <1>3, <4>1 DEF Held
    <3>3. QED
      BY <1>2, <3>1, <3>2
  <2>5. QED
    BY <1>1, <2>1, <2>2, <2>3, <2>4 DEF CoverInv, Writing, Busy
<1>8. ReportInv'
  BY <1>0, <1>1 DEF ReportInv, Writing
<1>9. QED
  BY <1>5, <1>6, <1>7, <1>8 DEF Inv
LEMMA ReadEndsInv == ASSUME Inv, ReadEnds PROVE Inv'
<1> USE DEF Inv, localVars, deviceVars
<1>0. /\ err' \in BOOLEAN /\ open' = FALSE /\ pc = "read" /\ pc' = "wait"
      /\ UNCHANGED <<item, size, expect, off, jobs, worker, writeErr, files, reported, code, released>>
  BY DEF ReadEnds
<1>1. open' \in BOOLEAN /\ ~open'
  BY <1>0, Zenon
<1>2. TypeInv'
  BY <1>0, <1>1 DEF TypeInv
<1>3. PoolInv'
  BY <1>0, <1>1 DEF PoolInv, Writing
<1>4. CoverInv'
  BY <1>0 DEF CoverInv, Writing, Busy, Held
<1>5. ReportInv'
  BY <1>0 DEF ReportInv, Writing
<1>6. QED
  BY <1>2, <1>3, <1>4, <1>5

-----------------------------------------------------------------------------
(* The workers.                                                            *)

LEMMA WorkerTakesInv == ASSUME Inv, NEW w \in Worker, WorkerTakes(w) PROVE Inv'
<1> USE DEF localVars, deviceVars
<1>0. TypeInv /\ PoolInv /\ CoverInv /\ ReportInv
  BY DEF Inv
<1>1. /\ pc \in Writing /\ worker[w] = Idle /\ jobs # <<>>
      /\ worker' = [worker EXCEPT ![w] = Head(jobs)] /\ jobs' = Tail(jobs)
      /\ UNCHANGED <<pc, item, size, expect, off, chunk, open, err, writeErr, files, reported, code, released>>
  BY DEF WorkerTakes, Writing
<1>2. /\ jobs' \in Seq(Job) /\ Head(jobs) \in Job /\ Head(jobs) = jobs[1] /\ 1 \in DOMAIN jobs
      /\ \A k \in DOMAIN jobs' : k + 1 \in DOMAIN jobs /\ jobs'[k] = jobs[k + 1]
      /\ \A k \in DOMAIN jobs : k # 1 => k - 1 \in DOMAIN jobs' /\ jobs'[k - 1] = jobs[k]
  BY <1>0, <1>1, TailOf DEF TypeInv
<1>3. worker'[w] = jobs[1] /\ \A v \in Worker : v # w => worker'[v] = worker[v]
  BY <1>0, <1>1, <1>2 DEF TypeInv
<1>4. Busy(w)' /\ ~Busy(w) /\ \A v \in Worker : v # w => (Busy(v)' <=> Busy(v))
  BY <1>1, <1>2, <1>3, JobBusy DEF Busy
<1>5. TypeInv'
  BY <1>0, <1>1, <1>2 DEF TypeInv
<1>6. PoolInv'
  <2>1. \A v \in Worker : worker[v] # Gone
    BY <1>0, <1>1 DEF PoolInv
  <2>2. \A v \in Worker : worker'[v] # Gone
    BY <1>2, <1>3, <2>1, JobBusy
  <2>3. QED
    BY <1>0, <1>1, <2>2 DEF PoolInv
<1>7. CoverInv'
  <2>1. \A k \in DOMAIN jobs' : jobs'[k][1] + jobs'[k][2] <= off
    BY <1>0, <1>1, <1>2 DEF CoverInv
  <2>2. \A v \in Worker : Busy(v)' => worker'[v][1] + worker'[v][2] <= off
    BY <1>0, <1>1, <1>2, <1>3, <1>4 DEF CoverInv
  <2>3. ASSUME NEW c, Held(c)
        PROVE  Held(c)'
    <3>1. CASE c \in files[item]
      BY <1>1, <3>1 DEF Held
    <3>2. ASSUME NEW k \in DOMAIN jobs, c \in Cells(jobs[k])
          PROVE  Held(c)'
      <4>1. CASE k = 1
        BY <1>3, <1>4, <3>2, <4>1 DEF Held
      <4>2. CASE k # 1
        BY <1>2, <3>2, <4>2 DEF Held
      <4>3. QED
        BY <4>1, <4>2
    <3>3. ASSUME NEW v \in Worker, Busy(v), c \in Cells(worker[v])
          PROVE  Held(c)'
      BY <1>3, <1>4, <3>3 DEF Held
    <3>4. QED
      BY <2>3, <3>1, <3>2, <3>3 DEF Held
  <2>4. QED
    BY <1>0, <1>1, <2>1, <2>2, <2>3 DEF CoverInv, Writing
<1>8. ReportInv'
  BY <1>0, <1>1 DEF ReportInv
<1>9. QED
  BY <1>5, <1>6, <1>7, <1>8 DEF Inv

(* A write returns, whole or, with an error, short.                        *)
LEMMA WroteInv ==
  ASSUME Inv, NEW w \in Worker, Busy(w), NEW k \in 0..worker[w][2],
         Wrote(w, k), writeErr' \in BOOLEAN, worker' = [worker EXCEPT ![w] = Idle],
         ~writeErr' => ~writeErr /\ k = worker[w][2],
         UNCHANGED <<pc, item, localVars, off, chunk, jobs, open, err, reported, code, released>>
  PROVE  Inv'
<1> USE DEF localVars
<1>0. TypeInv /\ PoolInv /\ CoverInv /\ ReportInv
  BY DEF Inv
<1>1. pc \in Writing
  BY <1>0 DEF PoolInv, Busy
<1> DEFINE j == worker[w]
<1>2. j \in Job /\ j[1] \in Nat /\ j[2] \in Nat \ {0} /\ j[1] + j[2] <= off /\ off \in Nat /\ k \in Nat
  <2>1. j \in Job /\ off \in Nat /\ j[1] + j[2] <= off
    BY <1>0, <1>1 DEF TypeInv, Busy, CoverInv
  <2>2. j[1] \in Nat /\ j[2] \in Nat \ {0}
    BY <2>1, JobBusy
  <2>3. QED
    BY <2>1, <2>2
<1>3. /\ files'[item] = files[item] \cup (j[1]..(j[1] + k - 1))
      /\ \A i \in Item : i # item => files'[i] = files[i]
      /\ files' = [i \in Item |-> files'[i]]
  BY <1>0 DEF Wrote, TypeInv
<1>4. worker'[w] = Idle /\ \A v \in Worker : v # w => worker'[v] = worker[v]
  BY <1>0 DEF TypeInv
<1>5. TypeInv'
  BY <1>0, <1>3 DEF TypeInv
<1>6. PoolInv'
  <2>1. Idle # Gone
    BY DEF Idle, Gone
  <2>2. QED
    BY <1>0, <1>1, <1>4, <2>1 DEF PoolInv
<1>7. CoverInv'
  <2>1. files'[item] \subseteq 0..(off - 1)
    <3>1. j[1]..(j[1] + k - 1) \subseteq 0..(off - 1)
      <4> HIDE DEF j
      <4> QED
        BY <1>2 DEF j
    <3>2. QED
      BY <1>0, <1>1, <1>3, <3>1 DEF CoverInv
  <2>2. \A v \in Worker : Busy(v)' => v # w /\ Busy(v) /\ worker'[v] = worker[v]
    BY <1>4 DEF Busy
  <2>3. ASSUME ~writeErr', NEW c, Held(c)
        PROVE  Held(c)'
    <3>1. CASE c \in files[item]
      BY <1>3, <3>1 DEF Held
    <3>2. ASSUME NEW h \in DOMAIN jobs, c \in Cells(jobs[h])
          PROVE  Held(c)'
      BY <3>2 DEF Held
    <3>3. ASSUME NEW v \in Worker, Busy(v), c \in Cells(worker[v])
          PROVE  Held(c)'
      <4>1. CASE v = w
        BY <1>3, <2>3, <3>3, <4>1 DEF Held, Cells
      <4>2. CASE v # w
        BY <1>4, <3>3, <4>2 DEF Held, Busy
      <4>3. QED
        BY <4>1, <4>2
    <3>4. QED
      BY <2>3, <3>1, <3>2, <3>3 DEF Held
  <2>4. QED
    BY <1>0, <1>1, <2>1, <2>2, <2>3 DEF CoverInv, Writing
<1>8. ReportInv'
  <2>1. item \in Nat /\ reported = 1..(item - 1) /\ item \notin reported
    BY <1>0, <1>1, ItemRange DEF TypeInv, ReportInv
  <2>2. QED
    BY <1>0, <1>3, <2>1 DEF ReportInv
<1>9. QED
  BY <1>5, <1>6, <1>7, <1>8 DEF Inv

LEMMA WorkerWritesInv == ASSUME Inv, NEW w \in Worker, WorkerWrites(w) PROVE Inv'
<1>1. Busy(w) /\ writeErr' = writeErr /\ writeErr \in BOOLEAN /\ worker[w] \in Job
  BY DEF WorkerWrites, Busy, Inv, TypeInv
<1>2. worker[w][2] \in 0..worker[w][2]
  BY <1>1, JobBusy
<1>3. /\ Wrote(w, worker[w][2]) /\ worker' = [worker EXCEPT ![w] = Idle]
      /\ UNCHANGED <<pc, item, localVars, off, chunk, jobs, open, err, reported, code, released>>
  BY DEF WorkerWrites
<1>4. writeErr' \in BOOLEAN /\ (~writeErr' => ~writeErr)
  BY <1>1, Zenon
<1>5. QED
  BY <1>1, <1>2, <1>3, <1>4, WroteInv

LEMMA WorkerFailsInv == ASSUME Inv, NEW w \in Worker, WorkerFails(w) PROVE Inv'
<1>1. Busy(w) /\ writeErr' = TRUE /\ worker[w] \in Job
  BY DEF WorkerFails, Busy, Inv, TypeInv
<1>2. PICK k \in 0..(worker[w][2] - 1) : Wrote(w, k)
  BY DEF WorkerFails
<1>3. k \in 0..worker[w][2]
  BY <1>1, <1>2, JobBusy
<1>4. writeErr' \in BOOLEAN /\ writeErr'
  BY <1>1, Zenon
<1>5. QED
  BY <1>1, <1>2, <1>3, <1>4, WroteInv DEF WorkerFails, AfterError

LEMMA WorkerEndsInv == ASSUME Inv, NEW w \in Worker, WorkerEnds(w) PROVE Inv'
<1> USE DEF localVars, deviceVars
<1>0. TypeInv /\ PoolInv /\ CoverInv /\ ReportInv
  BY DEF Inv
<1>1. /\ worker[w] = Idle /\ ~open /\ jobs = <<>> /\ worker' = [worker EXCEPT ![w] = Gone]
      /\ UNCHANGED <<pc, item, size, expect, off, chunk, jobs, open, err, writeErr, files, reported, code, released>>
  BY DEF WorkerEnds
<1>2. worker'[w] = Gone /\ \A v \in Worker : v # w => worker'[v] = worker[v]
  BY <1>0, <1>1 DEF TypeInv
<1>3. \A v \in Worker : /\ Busy(v)' <=> Busy(v)
                        /\ Busy(v) => worker'[v] = worker[v]
  BY <1>1, <1>2 DEF Busy
<1>4. TypeInv'
  BY <1>0, <1>1 DEF TypeInv
<1>5. PoolInv'
  BY <1>0, <1>1, <1>2 DEF PoolInv
<1>6. CoverInv'
  BY <1>0, <1>1, <1>3 DEF CoverInv, Held
<1>7. ReportInv'
  BY <1>0, <1>1 DEF ReportInv
<1>8. QED
  BY <1>4, <1>5, <1>6, <1>7 DEF Inv

-----------------------------------------------------------------------------
(* The end of a file.                                                      *)

LEMMA WaitedInv == ASSUME Inv, Waited PROVE Inv'
<1> USE DEF localVars, deviceVars
<1>0. TypeInv /\ PoolInv /\ CoverInv /\ ReportInv
  BY DEF Inv
<1>1. /\ pc = "wait" /\ pc' = "stat" /\ \A w \in Worker : worker[w] = Gone
      /\ UNCHANGED <<item, size, expect, off, jobs, open, worker, writeErr, files, reported, code, released>>
  BY DEF Waited
<1>2. err' \in BOOLEAN /\ (~err' => ~writeErr)
  <2>1. err \in BOOLEAN /\ writeErr \in BOOLEAN /\ (err' = (err \/ writeErr) \/ err' = TRUE)
    BY <1>0 DEF Waited, Failed, TypeInv
  <2>2. CASE err' = (err \/ writeErr)
    BY <2>1, <2>2, Zenon
  <2>3. CASE err' = TRUE
    BY <2>3, Zenon
  <2>4. QED
    BY <2>1, <2>2, <2>3
<1>3. jobs = <<>>
  BY <1>0, <1>1 DEF PoolInv, Writing
<1>4. TypeInv'
  BY <1>0, <1>1, <1>2 DEF TypeInv
<1>5. PoolInv'
  BY <1>1, <1>3 DEF PoolInv, Writing
<1>6. CoverInv'
  <2>1. ASSUME ~err'
        PROVE  files[item] = 0..(off - 1)
    <3>1. \A c \in 0..(off - 1) : Held(c)
      BY <1>0, <1>1, <1>2, <2>1 DEF CoverInv, Writing
    <3>2. \A c : Held(c) => c \in files[item]
      BY <1>1, <1>3 DEF Held, Busy
    <3>3. files[item] \subseteq 0..(off - 1)
      BY <1>0, <1>1 DEF CoverInv, Writing
    <3>4. QED
      BY <3>1, <3>2, <3>3
  <2>2. QED
    BY <1>1, <2>1 DEF CoverInv, Writing
<1>7. ReportInv'
  BY <1>0, <1>1 DEF ReportInv, Writing
<1>8. QED
  BY <1>4, <1>5, <1>6, <1>7 DEF Inv

LEMMA ItemDoneInv == ASSUME Inv, ItemDone PROVE Inv'
<1> USE DEF localVars, fileVars, deviceVars
<1>0. TypeInv /\ PoolInv /\ CoverInv /\ ReportInv
  BY DEF Inv
<1>1. /\ pc = "stat" /\ reported' = reported \cup {item}
      /\ IF item < Len(Paths) THEN item' = item + 1 /\ pc' = "mkdir" ELSE pc' = "teardown" /\ item' = item
      /\ UNCHANGED <<size, expect, off, chunk, jobs, open, worker, err, writeErr, files, code, released>>
  BY DEF ItemDone
<1>2. item \in Nat \ {0} /\ Len(Paths) \in Nat /\ item <= Len(Paths) /\ item' \in Item
  BY <1>0, <1>1, ItemRange DEF TypeInv
<1>3. files[item] = 0..(expect[item] - 1)
  <2>1. ~err /\ DeviceSize = expect[item]
    BY DEF ItemDone, SizeMatches
  <2>2. off \in Nat /\ files[item] = 0..(off - 1)
    BY <1>0, <1>1, <2>1 DEF TypeInv, CoverInv
  <2>3. QED
    BY <2>1, <2>2, WholeSize
<1>4. TypeInv'
  BY <1>0, <1>1, <1>2 DEF TypeInv
<1>5. PoolInv'
  BY <1>0, <1>1 DEF PoolInv, Writing
<1>6. CoverInv'
  BY <1>1 DEF CoverInv, Writing
<1>7. ReportInv'
  <2>1. reported' = 1..item
    BY <1>0, <1>1, <1>2 DEF ReportInv
  <2>2. \A i \in reported' : i \in Item /\ files[i] = 0..(expect[i] - 1)
    BY <1>0, <1>1, <1>3 DEF ReportInv, TypeInv
  <2>3. pc' = "mkdir" => reported' = 1..(item' - 1)
    BY <1>1, <1>2, <2>1
  <2>4. pc' = "teardown" => reported' = Item
    BY <1>1, <1>2, <2>1, ItemRange
  <2>5. QED
    BY <1>0, <1>1, <2>2, <2>3, <2>4 DEF ReportInv, Writing
<1>8. QED
  BY <1>4, <1>5, <1>6, <1>7 DEF Inv

-----------------------------------------------------------------------------
(* The theorem.                                                            *)

LEMMA NextInv == Inv /\ [Next]_vars => Inv'
<1> SUFFICES ASSUME Inv, [Next]_vars
             PROVE  Inv'
  OBVIOUS
<1>1. CASE Connect \/ Mkdir \/ Edit \/ UNCHANGED vars
  BY <1>1, QuietInv
<1>2. CASE ConnectFails \/ MkdirFails \/ CreateFails \/ ItemFails
  <2>1. pc \notin Writing /\ \E closes \in BOOLEAN : Exit(1, closes)
    BY <1>2 DEF ConnectFails, MkdirFails, CreateFails, ItemFails, Writing
  <2>2. QED
    BY <2>1, ExitInv
<1>3. CASE TeardownRuns
  <2>1. pc \notin Writing /\ Exit(0, TRUE) /\ reported = Item
    BY <1>3 DEF TeardownRuns, Writing, Inv, ReportInv
  <2>2. QED
    BY <2>1, ExitInv
<1>4. CASE Create
  BY <1>4, CreateInv
<1>5. CASE ReadChunk \/ SendChunk \/ ReadEnds
  BY <1>5, ReadChunkInv, SendChunkInv, ReadEndsInv
<1>6. CASE Waited \/ ItemDone
  BY <1>6, WaitedInv, ItemDoneInv
<1>7. ASSUME NEW w \in Worker, Work(w)
      PROVE  Inv'
  BY <1>7, WorkerTakesInv, WorkerWritesInv, WorkerFailsInv, WorkerEndsInv DEF Work
<1>8. QED
  BY <1>1, <1>2, <1>3, <1>4, <1>5, <1>6, <1>7 DEF Next, Main

LEMMA Invariant == Spec => []Inv
BY InitInv, NextInv, PTL DEF Spec

(* A file is reported only if it has every cell it was listed with and no  *)
(* other, although only its size is compared; "done" is said of the whole  *)
(* list: for any pool, chunk, queue and failure of any write, and however  *)
(* the local files change meanwhile.                                       *)
THEOREM ReportedWholeAlways == Spec => []ReportedWhole
<1>1. Inv => ReportedWhole
  BY DEF Inv, ReportInv, ReportedWhole
<1>2. QED
  BY <1>1, Invariant, PTL
=============================================================================
