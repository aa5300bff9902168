---------------------------- MODULE ProxyProofs ----------------------------
(***************************************************************************)
(* Proofs about Channels and Forwarder, the two modules cmd/proxy rests    *)
(* on: the channels of a tunnel, for every set of callers, every range of  *)
(* indices and any amount of data; and the mapped ports, for every number  *)
(* of ports, every set of connections, every stream length and every       *)
(* socket buffer.                                                          *)
(***************************************************************************)
EXTENDS Channels, Forwarder, FiniteSetTheorems, TLAPS

-----------------------------------------------------------------------------
(* The opens and the buffers.                                              *)

Index == 2..IdxHi
InUse == {"register", "wait", "open", "closed"}

OpenType ==
  /\ pendingV \in Caller \cup {None} /\ sentPortConn \in BOOLEAN
  /\ nextIdx \in Index /\ idxOf \in [Caller -> {0} \cup Index]
  /\ cpc \in [Caller -> {"idle", "register", "wait", "open", "failed", "closed"}]
  /\ done \subseteq Caller

(* A caller has an index and may be answered only after it has published   *)
(* its open.                                                               *)
Published ==
  /\ \A c \in Caller : cpc[c] = "idle" => idxOf[c] = 0 /\ c \notin done
  /\ \A c \in Caller : cpc[c] \in InUse => idxOf[c] \in Index
  /\ pendingV # None => idxOf[pendingV] \in Index

BufferKeys == CtrlIdx \in DOMAIN chans /\ DOMAIN chans \subseteq 1..IdxHi

OpenInv == OpenType /\ Published /\ BufferKeys /\ PendingOwned /\ BuffersOwned

LEMMA NextIdxType ==
  ASSUME NEW i \in Index
  PROVE  NextIdx(i) \in Index
BY IdxAssumption DEF Index, NextIdx

LEMMA OpenInit == Init => OpenInv
<1> SUFFICES ASSUME Init
             PROVE  OpenInv
  OBVIOUS
<1>1. nextIdx \in Index
  BY IdxAssumption DEF Init, Index
<1>2. OpenType
  BY <1>1, Zenon DEF Init, OpenType
<1>3. Published
  BY DEF Init, Published, InUse
<1>4. BufferKeys /\ PendingOwned /\ BuffersOwned
  BY IdxAssumption DEF Init, BufferKeys, PendingOwned, BuffersOwned, CtrlIdx
<1>5. QED
  BY <1>2, <1>3, <1>4 DEF OpenInv

(* Every way out of OpenChannel and chanConn.Close: the caller leaves, and *)
(* its buffer goes with it.                                                *)
LEMMA LeaveStep ==
  ASSUME OpenInv, NEW c \in Caller, cpc[c] \in {"wait", "open"},
         chans' = Without(chans, idxOf[c]),
         NEW l \in {"failed", "closed"}, cpc' = [cpc EXCEPT ![c] = l],
         pendingV' = pendingV \/ pendingV' = None,
         closed' \/ pendingV' # c,
         UNCHANGED <<sentPortConn, nextIdx, idxOf, done, closed>>
  PROVE  OpenInv'
<1> USE DEF OpenInv
<1>1. idxOf[c] \in Index
  BY DEF Published, InUse
<1>2. OpenType' /\ Published'
  BY <1>1 DEF OpenType, Published, InUse
<1>3. BufferKeys' /\ DOMAIN chans' = DOMAIN chans \ {idxOf[c]}
  BY <1>1 DEF BufferKeys, Without, Index, CtrlIdx
<1>4. PendingOwned'
  BY NoneAssumption DEF PendingOwned, OpenType
<1>5. BuffersOwned'
  BY <1>3 DEF BuffersOwned, OpenType
<1>6. QED
  BY <1>2, <1>3, <1>4, <1>5

(* Steps that leave the opens alone keep the keys of the buffers.          *)
LEMMA KeysKept ==
  ASSUME OpenInv, UNCHANGED opens, DOMAIN chans' = DOMAIN chans, closed' = closed \/ closed'
  PROVE  OpenInv'
BY DEF OpenInv, OpenType, Published, BufferKeys, PendingOwned, BuffersOwned, opens

LEMMA OpenStep ==
  ASSUME OpenInv, [Next]_vars
  PROVE  OpenInv'
<1> USE NoneAssumption, IdxAssumption
<1> USE DEF OpenInv
<1>1. ASSUME NEW c \in Caller, OpenBusy(c)
      PROVE  OpenInv'
  BY <1>1 DEF OpenBusy, OpenType, Published, InUse, BufferKeys, PendingOwned, BuffersOwned, death
<1>2. ASSUME NEW c \in Caller, OpenPublish(c)
      PROVE  OpenInv'
  <2> USE <1>2 DEF OpenPublish
  <2>1. OpenType'
    BY NextIdxType DEF OpenType
  <2>2. Published'
    BY DEF OpenType, Published, InUse
  <2>3. BufferKeys' /\ PendingOwned'
    BY DEF OpenType, Published, BufferKeys, PendingOwned
  <2>4. BuffersOwned'
    BY DEF OpenType, BuffersOwned
  <2>5. QED
    BY <2>1, <2>2, <2>3, <2>4
<1>3. ASSUME NEW c \in Caller, OpenRegister(c)
      PROVE  OpenInv'
  <2> USE <1>3 DEF OpenRegister
  <2>1. idxOf[c] \in Index /\ DOMAIN chans' = DOMAIN chans \cup {idxOf[c]}
    BY DEF Published, InUse, With
  <2>2. OpenType' /\ Published'
    BY DEF OpenType, Published, InUse
  <2>3. BufferKeys' /\ PendingOwned'
    BY <2>1 DEF OpenType, BufferKeys, PendingOwned, Index, death
  <2>4. BuffersOwned'
    BY <2>1 DEF OpenType, BuffersOwned
  <2>5. QED
    BY <2>2, <2>3, <2>4
<1>4. ASSUME NEW c \in Caller, OpenSucceeds(c)
      PROVE  OpenInv'
  <2> USE <1>4 DEF OpenSucceeds
  <2>1. OpenType' /\ Published' /\ BufferKeys'
    BY DEF OpenType, Published, InUse, BufferKeys
  <2>2. PendingOwned' /\ BuffersOwned'
    BY DEF OpenType, PendingOwned, BuffersOwned, death
  <2>3. QED
    BY <2>1, <2>2
<1>5. ASSUME NEW c \in Caller, OpenClosed(c)
      PROVE  OpenInv'
  BY <1>5, LeaveStep DEF OpenClosed, DropChan, death
<1>6. ASSUME NEW c \in Caller, OpenTimeout(c)
      PROVE  OpenInv'
  BY <1>6, LeaveStep DEF OpenTimeout, DropChan, Withdrawn, death
<1>7. ASSUME NEW c \in Caller, CloseChan(c)
      PROVE  OpenInv'
  <2>1. closed \/ pendingV # c
    BY <1>7 DEF CloseChan, PendingOwned
  <2>2. QED
    BY <1>7, <2>1, LeaveStep DEF CloseChan, DropChan, death
<1>8. ASSUME NEW r \in Reader, ReadCall(r) \/ ReadTurn(r)
      PROVE  OpenInv'
  BY <1>8, KeysKept DEF ReadCall, ReadTurn, death
<1>9. CASE PumpPortConnect
  BY <1>9 DEF PumpPortConnect, OpenType, Published, BufferKeys, PendingOwned, BuffersOwned, death
<1>10. CASE RouteData
  BY <1>10, KeysKept DEF RouteData, death
<1>11. CASE RouteCreated
  <2> USE <1>11 DEF RouteCreated
  <2>1. OpenType'
    BY DEF OpenType
  <2>2. Published'
    BY DEF OpenType, Published, Index
  <2>3. BufferKeys' /\ PendingOwned' /\ BuffersOwned'
    BY DEF BufferKeys, PendingOwned, BuffersOwned, death
  <2>4. QED
    BY <2>1, <2>2, <2>3
<1>12. CASE PumpFail \/ PumpSeesClosed \/ PumpExit \/ CloseTunnel \/ CloseWakes
  BY <1>12, KeysKept DEF PumpFail, PumpSeesClosed, PumpExit, CloseTunnel, CloseWakes
<1>13. CASE DeviceStep \/ \E i \in connected : DeviceData(i)
  BY <1>13, KeysKept DEF DeviceStep, DeviceData, death
<1>14. CASE UNCHANGED vars
  BY <1>14, KeysKept DEF vars, death
<1>15. QED
  BY <1>1, <1>2, <1>3, <1>4, <1>5, <1>6, <1>7, <1>8, <1>9, <1>10, <1>11, <1>12, <1>13, <1>14
  DEF Next, CallerStep, PumpStep

LEMMA SpecOpenInv == Spec => []OpenInv
BY OpenInit, OpenStep, PTL DEF Spec

(* "the opens themselves are serialised": for any number of callers, time- *)
(* outs and closes, the open the pump works on belongs to a caller that    *)
(* still waits in OpenChannel and has no answer yet.                       *)
THEOREM PendingOwnedAlways == Spec => []PendingOwned
BY SpecOpenInv, PTL DEF OpenInv

(* Every way out of OpenChannel and of chanConn.Close gives the buffer     *)
(* back, also when two callers have been given the same index: a buffer is *)
(* registered only for a caller that waits or has its channel open.        *)
THEOREM BuffersOwnedAlways == Spec => []BuffersOwned
BY SpecOpenInv, PTL DEF OpenInv
-----------------------------------------------------------------------------
(* Indices.  The wire names a connection by its index alone, so what       *)
(* follows needs a tunnel on which no index is proposed twice: at most as  *)
(* many opens as there are indices for them (253 in the code).             *)
FewCallers == IsFiniteSet(Caller) /\ Cardinality(Caller) < IdxHi

Given == {c \in Caller : idxOf[c] # 0}

(* No index has been given twice, and until everybody has one the next to  *)
(* be proposed is above all of them.                                       *)
IndexInv ==
  /\ \A c, d \in Given : idxOf[c] = idxOf[d] => c = d
  /\ \/ Given = Caller
     \/ Cardinality(Given) = nextIdx - 2 /\ \A c \in Given : idxOf[c] < nextIdx

LEMMA IndexInit == Init => IndexInv
<1> SUFFICES ASSUME Init
             PROVE  IndexInv
  OBVIOUS
<1>1. Given = {} /\ nextIdx = 2
  BY DEF Init, Given
<1>2. QED
  BY <1>1, FS_EmptySet DEF IndexInv

LEMMA PublishIndex ==
  ASSUME FewCallers, OpenInv, IndexInv, NEW c \in Caller, OpenPublish(c)
  PROVE  IndexInv'
<1> USE DEF OpenInv
<1>1. idxOf[c] = 0 /\ c \notin Given
  BY DEF OpenPublish, Published, Given
<1>2. /\ Given' = Given \cup {c}
      /\ idxOf' \in [Caller -> {0} \cup Index] /\ idxOf'[c] = nextIdx
      /\ \A d \in Given : idxOf'[d] = idxOf[d]
  BY <1>1, NextIdxType DEF OpenPublish, OpenType, Given, Index
<1>3. Given # Caller
  BY <1>1
<1>4. Cardinality(Given) = nextIdx - 2 /\ \A d \in Given : idxOf[d] < nextIdx
  BY <1>3 DEF IndexInv
<1>5. \A d, e \in Given' : idxOf'[d] = idxOf'[e] => d = e
  BY <1>2, <1>4 DEF IndexInv, OpenType, Index
<1>6. /\ IsFiniteSet(Caller) /\ Cardinality(Caller) \in Nat /\ IsFiniteSet(Given)
      /\ Cardinality(Given') = Cardinality(Given) + 1
      /\ Given' \subseteq Caller /\ Cardinality(Given') <= Cardinality(Caller)
      /\ Cardinality(Given') = Cardinality(Caller) => Given' = Caller
  <2>1. Given \subseteq Caller /\ Given' \subseteq Caller
    BY <1>2 DEF Given
  <2>2. IsFiniteSet(Caller) /\ Cardinality(Caller) \in Nat /\ IsFiniteSet(Given)
    BY <2>1, FS_Subset, FS_CardinalityType DEF FewCallers
  <2>3. Cardinality(Given') = Cardinality(Given) + 1
    BY <1>1, <1>2, <2>2, FS_AddElement
  <2>4. QED
    BY <2>1, <2>2, <2>3, FS_Subset
<1>7. CASE nextIdx + 1 <= IdxHi
  <2>1. nextIdx' = nextIdx + 1 /\ nextIdx \in Nat
    BY <1>7, IdxAssumption DEF OpenPublish, NextIdx, OpenType, Index
  <2>2. QED
    BY <1>2, <1>4, <1>5, <1>6, <2>1 DEF IndexInv, OpenType, Index
<1>8. CASE ~(nextIdx + 1 <= IdxHi)
  <2>1. nextIdx \in Nat /\ Cardinality(Given') >= Cardinality(Caller)
    BY <1>4, <1>6, <1>8, IdxAssumption DEF FewCallers, OpenType, Index
  <2>2. Given' = Caller
    BY <1>4, <1>6, <2>1
  <2>3. QED
    BY <1>5, <2>2 DEF IndexInv
<1>9. QED
  BY <1>7, <1>8

LEMMA IndexStep ==
  ASSUME FewCallers, OpenInv, IndexInv, [Next]_vars
  PROVE  IndexInv'
<1>1. CASE \E c \in Caller : OpenPublish(c)
  BY <1>1, PublishIndex
<1>2. CASE UNCHANGED <<idxOf, nextIdx>>
  BY <1>2 DEF IndexInv, Given
<1>3. QED
  BY <1>1, <1>2
  DEF Next, CallerStep, PumpStep, OpenBusy, OpenRegister, OpenSucceeds, OpenClosed, OpenTimeout,
      CloseChan, ReadCall, ReadTurn, PumpPortConnect, RouteData, RouteCreated, PumpFail,
      PumpSeesClosed, PumpExit, CloseTunnel, CloseWakes, DeviceStep, DeviceData, opens, vars

-----------------------------------------------------------------------------
(* Messages and chunks.                                                    *)

(* i is the index of reader r, and r has one.                              *)
Owned(i, r) == r \in Reader /\ i \in 1..IdxHi /\ i = IndexOf(r)

ToDevMsg == [type : {"portConnect", "connectAddr"}, idx : Index, owner : Caller]
CreatedMsg == [type : {"created"}, idx : Index]
DataMsg == [type : {"data"}, idx : 1..IdxHi, owner : Reader, k : 1..MaxData]
FromDevMsg == CreatedMsg \cup DataMsg

WireType ==
  /\ toDev \in Seq(ToDevMsg) /\ fromDev \in Seq(FromDevMsg)
  /\ DOMAIN devChan \subseteq 1..IdxHi /\ devChan \in [DOMAIN devChan -> Reader]
  /\ connected \subseteq DOMAIN devChan
  /\ devSent \in [Reader -> 0..MaxData]
  /\ \A i \in DOMAIN chans : chans[i] \in Seq(Chunk)
  /\ got \in [Reader -> Seq(Chunk)]

(* Whatever is on its way, at the device or buffered is under the index of *)
(* the caller it belongs to.                                               *)
WireOwned ==
  /\ \A j \in DOMAIN toDev : Owned(toDev[j].idx, toDev[j].owner)
  /\ \A i \in DOMAIN devChan : Owned(i, devChan[i])
  /\ \A j \in DOMAIN fromDev : fromDev[j].type = "data" => Owned(fromDev[j].idx, fromDev[j].owner)
  /\ \A i \in DOMAIN chans : \A j \in DOMAIN chans[i] : Owned(i, chans[i][j][2])
  /\ \A r \in Reader : \A j \in DOMAIN got[r] : got[r][j][2] = r

(* The chunks of one connection are in the order they were sent, from the  *)
(* reader back to the device.                                              *)
GotOrdered ==
  \A r \in Reader : \A a, b \in DOMAIN got[r] : a < b => got[r][a][3] < got[r][b][3]
ChansOrdered ==
  \A i \in DOMAIN chans :
    /\ \A a, b \in DOMAIN chans[i] : a < b => chans[i][a][3] < chans[i][b][3]
    /\ \A b \in DOMAIN chans[i] : \A a \in DOMAIN got[chans[i][b][2]] :
         got[chans[i][b][2]][a][3] < chans[i][b][3]
FromDevOrdered ==
  \A j \in DOMAIN fromDev : fromDev[j].type = "data" =>
    LET r == fromDev[j].owner
    IN /\ \A a \in DOMAIN got[r] : got[r][a][3] < fromDev[j].k
       /\ fromDev[j].idx \in DOMAIN chans =>
            \A b \in DOMAIN chans[fromDev[j].idx] : chans[fromDev[j].idx][b][3] < fromDev[j].k
       /\ \A h \in DOMAIN fromDev :
            h < j /\ fromDev[h].type = "data" /\ fromDev[h].owner = r => fromDev[h].k < fromDev[j].k
SentBound ==
  /\ \A r \in Reader : \A a \in DOMAIN got[r] : got[r][a][3] <= devSent[r]
  /\ \A i \in DOMAIN chans : \A b \in DOMAIN chans[i] : chans[i][b][3] <= devSent[chans[i][b][2]]
  /\ \A j \in DOMAIN fromDev : fromDev[j].type = "data" => fromDev[j].k <= devSent[fromDev[j].owner]
Ordered == GotOrdered /\ ChansOrdered /\ FromDevOrdered /\ SentBound

StreamInv == WireType /\ WireOwned /\ Ordered

LEMMA StreamInit == Init => StreamInv
<1> SUFFICES ASSUME Init
             PROVE  StreamInv
  OBVIOUS
<1>1. Ctrl \in Reader /\ CtrlIdx \in 1..IdxHi
  BY IdxAssumption DEF Reader, CtrlIdx
<1>2. WireType
  BY <1>1, DataAssumption DEF Init, WireType
<1>3. WireOwned
  BY <1>1 DEF Init, WireOwned, Owned, IndexOf
<1>4. Ordered
  BY DEF Init, Ordered, GotOrdered, ChansOrdered, FromDevOrdered, SentBound
<1>5. QED
  BY <1>2, <1>3, <1>4 DEF StreamInv

(* A reader keeps its index.                                               *)
LEMMA OwnedKept ==
  ASSUME OpenInv, idxOf' = idxOf \/ \E c \in Caller : OpenPublish(c),
         NEW i, NEW r, Owned(i, r)
  PROVE  Owned(i, r)'
<1>1. CASE idxOf' = idxOf
  BY <1>1 DEF Owned, IndexOf
<1>2. ASSUME NEW c \in Caller, OpenPublish(c)
      PROVE  Owned(i, r)'
  <2>1. idxOf[c] = 0
    BY <1>2 DEF OpenInv, Published, OpenPublish
  <2>2. r # Ctrl => r \in Caller /\ r # c
    BY <2>1 DEF Owned, IndexOf, Reader
  <2>3. r # Ctrl => idxOf'[r] = idxOf[r]
    BY <1>2, <2>2 DEF OpenPublish, OpenInv, OpenType
  <2>4. QED
    BY <2>3 DEF Owned, IndexOf
<1>3. QED
  BY <1>1, <1>2

(* Two readers never have the same index.                                  *)
LEMMA OwnerUnique ==
  ASSUME OpenInv, IndexInv, NEW i, NEW r, NEW q, Owned(i, r), Owned(i, q)
  PROVE  r = q
BY DEF OpenInv, OpenType, IndexInv, Owned, IndexOf, Given, Reader, CtrlIdx, Index

(* Steps that move no message and no chunk; buffers may be emptied or      *)
(* dropped.                                                                *)
LEMMA BuffersShrink ==
  ASSUME OpenInv, StreamInv, idxOf' = idxOf \/ \E c \in Caller : OpenPublish(c),
         \A i \in DOMAIN chans' : chans'[i] = <<>> \/ (i \in DOMAIN chans /\ chans'[i] = chans[i]),
         UNCHANGED <<got, toDev, fromDev, devChan, connected, devSent>>
  PROVE  StreamInv'
<1> USE DEF StreamInv
<1>1. WireType'
  <2>1. <<>> \in Seq(Chunk)
    OBVIOUS
  <2>2. \A i \in DOMAIN chans' : chans'[i] \in Seq(Chunk)
    BY <2>1, Zenon DEF WireType
  <2>3. QED
    BY <2>2, Zenon DEF WireType
<1>2. WireOwned'
  BY OwnedKept DEF WireOwned
<1>3. GotOrdered' /\ ChansOrdered'
  BY DEF Ordered, GotOrdered, ChansOrdered
<1>4. FromDevOrdered'
  <2>1. \A i \in DOMAIN chans' : \A b \in DOMAIN chans'[i] :
          i \in DOMAIN chans /\ b \in DOMAIN chans[i] /\ chans'[i][b] = chans[i][b]
    OBVIOUS
  <2> SUFFICES ASSUME NEW j \in DOMAIN fromDev, fromDev[j].type = "data",
                      fromDev[j].idx \in DOMAIN chans', NEW b \in DOMAIN chans'[fromDev[j].idx]
               PROVE  chans'[fromDev[j].idx][b][3] < fromDev[j].k
    BY DEF Ordered, FromDevOrdered
  <2>2. QED
    BY <2>1 DEF Ordered, FromDevOrdered
<1>5. SentBound'
  BY DEF Ordered, SentBound
<1>6. QED
  BY <1>1, <1>2, <1>3, <1>4, <1>5 DEF Ordered

(* Read takes the first chunk of its buffer.                               *)
LEMMA ReadStream ==
  ASSUME OpenInv, IndexInv, StreamInv, NEW r \in Reader, ReadTurn(r)
  PROVE  StreamInv'
<1> USE DEF StreamInv
<1> DEFINE i == IndexOf(r)
<1>1. idxOf' = idxOf /\ UNCHANGED <<toDev, fromDev, devChan, connected, devSent>>
  BY DEF ReadTurn, opens, device
<1>2. CASE UNCHANGED <<got, chans>>
  BY <1>1, <1>2, BuffersShrink
<1>3. ASSUME i \in DOMAIN chans, chans[i] # <<>>,
             got' = [got EXCEPT ![r] = Append(@, Head(chans[i]))],
             chans' = [chans EXCEPT ![i] = Tail(@)]
      PROVE  StreamInv'
  <2> DEFINE x == Head(chans[i])
  <2>1. chans[i] \in Seq(Chunk) /\ x \in Chunk /\ x = chans[i][1] /\ 1 \in DOMAIN chans[i]
    BY <1>3 DEF WireType
  <2>2. Owned(i, x[2])
    BY <1>3, <2>1 DEF WireOwned
  <2>3. Owned(i, r)
    BY <2>2 DEF Owned
  <2>4. x[2] = r
    BY <2>2, <2>3, OwnerUnique
  <2>5. /\ DOMAIN chans' = DOMAIN chans
        /\ \A h \in DOMAIN chans : h # i => chans'[h] = chans[h]
        /\ chans'[i] = Tail(chans[i])
        /\ \A b \in DOMAIN chans'[i] : b + 1 \in DOMAIN chans[i] /\ chans'[i][b] = chans[i][b + 1]
    BY <1>3, <2>1
  <2>6. /\ \A q \in Reader : q # r => got'[q] = got[q]
        /\ got[r] \in Seq(Chunk) /\ got'[r] = Append(got[r], x)
        /\ \A a \in DOMAIN got'[r] : (a \in DOMAIN got[r] /\ got'[r][a] = got[r][a])
                                     \/ (a = Len(got[r]) + 1 /\ got'[r][a] = x)
    BY <1>3, <2>1 DEF WireType
  <2> HIDE DEF x, i
  <2>7. WireType'
    BY <1>1, <1>3, <2>1, <2>5, <2>6 DEF WireType
  <2>8. WireOwned'
    <3>1. \A h \in DOMAIN chans' : \A b \in DOMAIN chans'[h] : Owned(h, chans'[h][b][2])
      BY <1>3, <2>5 DEF WireOwned
    <3>2. \A q \in Reader : \A a \in DOMAIN got'[q] : got'[q][a][2] = q
      BY <2>4, <2>6 DEF WireOwned
    <3>3. QED
      BY <1>1, <3>1, <3>2, OwnedKept DEF WireOwned
  <2>9. \A a \in DOMAIN got[r] : got[r][a][3] < x[3]
    BY <1>3, <2>1, <2>4 DEF Ordered, ChansOrdered
  <2>10. GotOrdered'
    <3> SUFFICES ASSUME NEW q \in Reader, NEW a \in DOMAIN got'[q], NEW b \in DOMAIN got'[q], a < b
                 PROVE  got'[q][a][3] < got'[q][b][3]
      BY DEF GotOrdered
    <3>1. CASE q # r
      BY <2>6, <3>1 DEF Ordered, GotOrdered
    <3>2. CASE q = r
      <4>1. a \in DOMAIN got[r] /\ got'[r][a] = got[r][a]
        BY <2>6, <3>2
      <4>2. QED
        BY <2>6, <2>9, <3>2, <4>1 DEF Ordered, GotOrdered
    <3>3. QED
      BY <3>1, <3>2
  <2>11. \A b \in DOMAIN chans'[i] : x[3] < chans'[i][b][3]
    BY <1>3, <2>1, <2>5 DEF Ordered, ChansOrdered
  <2>12. \A h \in DOMAIN chans : h # i => \A b \in DOMAIN chans[h] : chans[h][b][2] # r
    BY <2>3 DEF WireOwned, Owned
  <2>13. ChansOrdered'
    <3>1. \A h \in DOMAIN chans' : \A a, b \in DOMAIN chans'[h] : a < b => chans'[h][a][3] < chans'[h][b][3]
      BY <1>3, <2>1, <2>5 DEF Ordered, ChansOrdered
    <3>2. ASSUME NEW h \in DOMAIN chans', NEW b \in DOMAIN chans'[h], NEW a \in DOMAIN got'[chans'[h][b][2]]
          PROVE  got'[chans'[h][b][2]][a][3] < chans'[h][b][3]
      <4>1. CASE h # i
        <5>1. h \in DOMAIN chans /\ chans'[h] = chans[h] /\ b \in DOMAIN chans[h]
          BY <2>5, <3>2, <4>1
        <5>2. chans[h][b][2] \in Reader /\ chans[h][b][2] # r
          BY <2>12, <4>1, <5>1 DEF WireOwned, Owned
        <5>3. got'[chans[h][b][2]] = got[chans[h][b][2]]
          BY <2>6, <5>2
        <5>4. \A c \in DOMAIN got[chans[h][b][2]] : got[chans[h][b][2]][c][3] < chans[h][b][3]
          BY <5>1 DEF Ordered, ChansOrdered
        <5>5. QED
          BY <3>2, <5>1, <5>3, <5>4
      <4>2. CASE h = i
        <5>1. b + 1 \in DOMAIN chans[i] /\ chans'[i][b] = chans[i][b + 1]
          BY <2>5, <3>2, <4>2
        <5>2. chans[i][b + 1][2] = r
          BY <1>3, <2>3, <5>1, OwnerUnique DEF WireOwned
        <5>3. a \in DOMAIN got[r] => got[r][a][3] < chans[i][b + 1][3]
          BY <1>3, <5>1, <5>2 DEF Ordered, ChansOrdered
        <5>4. QED
          BY <2>6, <2>11, <3>2, <4>2, <5>1, <5>2, <5>3
      <4>3. QED
        BY <4>1, <4>2
    <3>3. QED
      BY <3>1, <3>2 DEF ChansOrdered
  <2>14. FromDevOrdered'
    <3> SUFFICES ASSUME NEW j \in DOMAIN fromDev, fromDev[j].type = "data"
                 PROVE  /\ \A a \in DOMAIN got'[fromDev[j].owner] : got'[fromDev[j].owner][a][3] < fromDev[j].k
                        /\ fromDev[j].idx \in DOMAIN chans' =>
                             \A b \in DOMAIN chans'[fromDev[j].idx] : chans'[fromDev[j].idx][b][3] < fromDev[j].k
                        /\ \A h \in DOMAIN fromDev :
                             h < j /\ fromDev[h].type = "data" /\ fromDev[h].owner = fromDev[j].owner
                             => fromDev[h].k < fromDev[j].k
      BY <1>1 DEF FromDevOrdered
    <3>1. Owned(fromDev[j].idx, fromDev[j].owner)
      BY DEF WireOwned
    <3>2. fromDev[j].owner = r => fromDev[j].idx = i
      BY <2>3, <3>1 DEF Owned
    <3>3. fromDev[j].owner = r => x[3] < fromDev[j].k
      BY <1>3, <2>1, <3>2 DEF Ordered, FromDevOrdered
    <3>4. \A a \in DOMAIN got'[fromDev[j].owner] : got'[fromDev[j].owner][a][3] < fromDev[j].k
      BY <2>6, <3>1, <3>3 DEF Ordered, FromDevOrdered, Owned
    <3>5. ASSUME fromDev[j].idx \in DOMAIN chans', NEW b \in DOMAIN chans'[fromDev[j].idx]
          PROVE  chans'[fromDev[j].idx][b][3] < fromDev[j].k
      <4>1. \A h \in DOMAIN chans : \A d \in DOMAIN chans'[h] :
              \E e \in DOMAIN chans[h] : chans'[h][d] = chans[h][e]
        BY <2>5
      <4>2. PICK e \in DOMAIN chans[fromDev[j].idx] :
              chans'[fromDev[j].idx][b] = chans[fromDev[j].idx][e]
        BY <2>5, <3>5, <4>1
      <4>3. QED
        BY <2>5, <3>5, <4>2 DEF Ordered, FromDevOrdered
    <3>6. QED
      BY <3>4, <3>5 DEF Ordered, FromDevOrdered
  <2>15. SentBound'
    <3>1. x[3] <= devSent[r]
      BY <1>3, <2>1, <2>4 DEF Ordered, SentBound
    <3>2. QED
      BY <1>1, <1>3, <2>5, <2>6, <3>1 DEF Ordered, SentBound
  <2>16. QED
    BY <2>7, <2>8, <2>10, <2>13, <2>14, <2>15 DEF Ordered
<1>4. QED
  BY <1>2, <1>3 DEF ReadTurn

(* What is left of a queue when its first message has been taken.          *)
LEMMA TailOf ==
  ASSUME NEW S, NEW q \in Seq(S), q # <<>>
  PROVE  /\ Tail(q) \in Seq(S) /\ Head(q) \in S /\ Head(q) = q[1] /\ 1 \in DOMAIN q
         /\ \A j \in DOMAIN Tail(q) : j + 1 \in DOMAIN q /\ Tail(q)[j] = q[j + 1]
OBVIOUS

LEMMA AppendOf ==
  ASSUME NEW S, NEW q \in Seq(S), NEW x \in S
  PROVE  /\ Append(q, x) \in Seq(S)
         /\ \A j \in DOMAIN Append(q, x) : \/ j \in DOMAIN q /\ Append(q, x)[j] = q[j]
                                           \/ j = Len(q) + 1 /\ Append(q, x)[j] = x
         /\ \A j \in DOMAIN q : j < Len(q) + 1
OBVIOUS

(* Messages to the device do not touch the order of what it sends; the     *)
(* pump drops the first message it got.                                    *)
LEMMA FromDevTail ==
  ASSUME WireType, WireOwned, Ordered, fromDev # <<>>, fromDev' = Tail(fromDev),
         UNCHANGED <<got, chans, devSent>>
  PROVE  Ordered'
<1>1. \A j \in DOMAIN fromDev' : j + 1 \in DOMAIN fromDev /\ fromDev'[j] = fromDev[j + 1]
  BY TailOf DEF WireType
<1>2. GotOrdered' /\ ChansOrdered'
  BY DEF Ordered, GotOrdered, ChansOrdered
<1>3. FromDevOrdered'
  <2> SUFFICES ASSUME NEW j \in DOMAIN fromDev', fromDev'[j].type = "data"
               PROVE  /\ \A a \in DOMAIN got[fromDev'[j].owner] : got[fromDev'[j].owner][a][3] < fromDev'[j].k
                      /\ fromDev'[j].idx \in DOMAIN chans =>
                           \A b \in DOMAIN chans[fromDev'[j].idx] : chans[fromDev'[j].idx][b][3] < fromDev'[j].k
                      /\ \A h \in DOMAIN fromDev' :
                           h < j /\ fromDev'[h].type = "data" /\ fromDev'[h].owner = fromDev'[j].owner
                           => fromDev'[h].k < fromDev'[j].k
    BY DEF FromDevOrdered
  <2>1. j \in Int /\ \A h \in DOMAIN fromDev' : h \in Int /\ (h < j => h + 1 < j + 1)
    BY <1>1 DEF WireType
  <2>2. QED
    BY <1>1, <2>1 DEF Ordered, FromDevOrdered
<1>4. SentBound'
  BY <1>1 DEF Ordered, SentBound
<1>5. QED
  BY <1>2, <1>3, <1>4 DEF Ordered

(* PumpPortConnect.                                                        *)
LEMMA PortConnectStream ==
  ASSUME OpenInv, StreamInv, PumpPortConnect
  PROVE  StreamInv'
<1> USE DEF StreamInv, PumpPortConnect
<1> DEFINE m == [type |-> "portConnect", idx |-> idxOf[pendingV], owner |-> pendingV]
<1>1. pendingV \in Caller /\ idxOf[pendingV] \in Index
  BY DEF OpenInv, OpenType, Published
<1>2. m \in ToDevMsg /\ Owned(m.idx, m.owner)
  BY <1>1, CtrlAssumption, IdxAssumption DEF ToDevMsg, Owned, IndexOf, Reader, Index
<1>3. toDev' = Append(toDev, m)
  OBVIOUS
<1> HIDE DEF m
<1>4. \A j \in DOMAIN toDev' : (j \in DOMAIN toDev /\ toDev'[j] = toDev[j]) \/ toDev'[j] = m
  BY <1>2, <1>3, AppendOf DEF WireType
<1>5. WireType'
  BY <1>2, <1>3, AppendOf DEF WireType, reads
<1>6. WireOwned'
  <2>1. \A j \in DOMAIN toDev' : Owned(toDev'[j].idx, toDev'[j].owner)
    BY <1>2, <1>4 DEF WireOwned
  <2>2. QED
    BY <2>1, OwnedKept DEF WireOwned, reads
<1>7. Ordered'
  BY DEF Ordered, GotOrdered, ChansOrdered, FromDevOrdered, SentBound, reads
<1>8. QED
  BY <1>5, <1>6, <1>7

(* RouteCreated: the reply is taken off, and the pending open, if any, is  *)
(* connected.                                                              *)
LEMMA RouteCreatedStream ==
  ASSUME OpenInv, StreamInv, RouteCreated
  PROVE  StreamInv'
<1> USE DEF StreamInv, RouteCreated
<1> DEFINE m == [type |-> "connectAddr", idx |-> idxOf[pendingV], owner |-> pendingV]
<1>1. fromDev # <<>> /\ fromDev' = Tail(fromDev) /\ idxOf' = idxOf
      /\ UNCHANGED <<chans, got, devChan, connected, devSent>>
  BY DEF Routable, reads
<1>2. toDev' = toDev \/ (toDev' = Append(toDev, m) /\ m \in ToDevMsg /\ Owned(m.idx, m.owner))
  <2>1. ASSUME pendingV # None
        PROVE  m \in ToDevMsg /\ Owned(m.idx, m.owner)
    <3>1. pendingV \in Caller /\ idxOf[pendingV] \in Index
      BY <2>1 DEF OpenInv, OpenType, Published
    <3>2. QED
      BY <3>1, CtrlAssumption, IdxAssumption DEF ToDevMsg, Owned, IndexOf, Reader, Index
  <2>2. QED
    BY <2>1
<1> HIDE DEF m
<1>3. toDev' \in Seq(ToDevMsg) /\ \A j \in DOMAIN toDev' : Owned(toDev'[j].idx, toDev'[j].owner)
  <2>1. CASE toDev' = toDev
    BY <2>1 DEF WireType, WireOwned
  <2>2. CASE toDev' = Append(toDev, m) /\ m \in ToDevMsg /\ Owned(m.idx, m.owner)
    <3>1. toDev' \in Seq(ToDevMsg)
          /\ \A j \in DOMAIN toDev' : (j \in DOMAIN toDev /\ toDev'[j] = toDev[j]) \/ toDev'[j] = m
      BY <2>2, AppendOf DEF WireType
    <3>2. QED
      BY <2>2, <3>1 DEF WireOwned
  <2>3. QED
    BY <1>2, <2>1, <2>2
<1>4. Tail(fromDev) \in Seq(FromDevMsg)
      /\ \A j \in DOMAIN fromDev' : j + 1 \in DOMAIN fromDev /\ fromDev'[j] = fromDev[j + 1]
  BY <1>1, TailOf DEF WireType
<1>5. WireType'
  BY <1>1, <1>3, <1>4, Zenon DEF WireType
<1>6. WireOwned'
  BY <1>1, <1>3, <1>4, OwnedKept DEF WireOwned
<1>7. Ordered'
  BY <1>1, FromDevTail
<1>8. QED
  BY <1>5, <1>6, <1>7

(* RouteData: the chunk goes to the buffer of its index, or is dropped.    *)
LEMMA RouteDataStream ==
  ASSUME OpenInv, IndexInv, StreamInv, RouteData
  PROVE  StreamInv'
<1> USE DEF StreamInv
<1> DEFINE m == Head(fromDev)
           x == <<m.idx, m.owner, m.k>>
           i == m.idx
<1>1. /\ fromDev # <<>> /\ m.type = "data" /\ fromDev' = Tail(fromDev) /\ idxOf' = idxOf
      /\ UNCHANGED <<got, toDev, devChan, connected, devSent>>
      /\ \/ i \in DOMAIN chans /\ chans' = [chans EXCEPT ![i] = Append(@, x)]
         \/ i \notin DOMAIN chans /\ chans' = chans
  BY DEF RouteData, Routable, opens
<1>2. /\ Tail(fromDev) \in Seq(FromDevMsg) /\ m \in FromDevMsg /\ m = fromDev[1] /\ 1 \in DOMAIN fromDev
      /\ \A j \in DOMAIN fromDev' : j + 1 \in DOMAIN fromDev /\ fromDev'[j] = fromDev[j + 1]
                                    /\ j \in Int /\ j >= 1
  BY <1>1, TailOf DEF WireType
<1>3. m \in DataMsg /\ x \in Chunk /\ Owned(i, m.owner)
  <2>1. m \in DataMsg
    BY <1>1, <1>2 DEF FromDevMsg, CreatedMsg
  <2>2. QED
    BY <1>1, <1>2, <2>1 DEF WireOwned, DataMsg, Chunk
<1>4. x[2] = m.owner /\ x[3] = m.k /\ m.k \in Int
  BY <1>3 DEF DataMsg
<1>5. CASE chans' = chans
  <2>1. WireType'
    BY <1>1, <1>2, <1>5 DEF WireType
  <2>2. WireOwned'
    BY <1>1, <1>2, <1>5, OwnedKept DEF WireOwned
  <2>3. Ordered'
    BY <1>1, <1>5, FromDevTail
  <2>4. QED
    BY <2>1, <2>2, <2>3
<1>6. CASE i \in DOMAIN chans /\ chans' = [chans EXCEPT ![i] = Append(@, x)]
  <2>1. /\ DOMAIN chans' = DOMAIN chans
        /\ \A h \in DOMAIN chans : h # i => chans'[h] = chans[h]
        /\ chans'[i] = Append(chans[i], x)
    BY <1>6
  <2>2. /\ chans[i] \in Seq(Chunk) /\ chans'[i] \in Seq(Chunk)
        /\ \A b \in DOMAIN chans'[i] : \/ b \in DOMAIN chans[i] /\ chans'[i][b] = chans[i][b]
                                       \/ b = Len(chans[i]) + 1 /\ chans'[i][b] = x
        /\ \A b \in DOMAIN chans[i] : b < Len(chans[i]) + 1
    BY <1>3, <1>6, <2>1, AppendOf DEF WireType
  <2> HIDE DEF x, i, m
  <2>3. WireType'
    BY <1>1, <1>2, <2>1, <2>2 DEF WireType
  <2>4. WireOwned'
    <3>1. \A h \in DOMAIN chans' : \A b \in DOMAIN chans'[h] : Owned(h, chans'[h][b][2])
      BY <1>3, <1>4, <1>6, <2>1, <2>2 DEF WireOwned
    <3>2. QED
      BY <1>1, <1>2, <3>1, OwnedKept DEF WireOwned
  <2>5. /\ \A a \in DOMAIN got[m.owner] : got[m.owner][a][3] < m.k
        /\ \A b \in DOMAIN chans[i] : chans[i][b][3] < m.k
    BY <1>1, <1>2, <1>6 DEF Ordered, FromDevOrdered, i
  <2>6. GotOrdered'
    BY <1>1 DEF Ordered, GotOrdered
  <2>7. ChansOrdered'
    <3>1. ASSUME NEW h \in DOMAIN chans', NEW a \in DOMAIN chans'[h], NEW b \in DOMAIN chans'[h], a < b
          PROVE  chans'[h][a][3] < chans'[h][b][3]
      <4>1. CASE h # i
        BY <2>1, <3>1, <4>1 DEF Ordered, ChansOrdered
      <4>2. CASE h = i
        <5>1. a \in DOMAIN chans[i] /\ chans'[i][a] = chans[i][a]
          BY <2>2, <3>1, <4>2
        <5>2. QED
          BY <1>4, <1>6, <2>2, <2>5, <3>1, <4>2, <5>1 DEF Ordered, ChansOrdered
      <4>3. QED
        BY <4>1, <4>2
    <3>2. ASSUME NEW h \in DOMAIN chans', NEW b \in DOMAIN chans'[h], NEW a \in DOMAIN got[chans'[h][b][2]]
          PROVE  got[chans'[h][b][2]][a][3] < chans'[h][b][3]
      <4>1. CASE h # i
        BY <2>1, <3>2, <4>1 DEF Ordered, ChansOrdered
      <4>2. CASE h = i
        BY <1>4, <1>6, <2>2, <2>5, <3>2, <4>2 DEF Ordered, ChansOrdered
      <4>3. QED
        BY <4>1, <4>2
    <3>3. QED
      BY <1>1, <3>1, <3>2 DEF ChansOrdered
  <2>8. FromDevOrdered'
    <3> SUFFICES ASSUME NEW j \in DOMAIN fromDev', fromDev'[j].type = "data"
                 PROVE  /\ \A a \in DOMAIN got[fromDev'[j].owner] : got[fromDev'[j].owner][a][3] < fromDev'[j].k
                        /\ fromDev'[j].idx \in DOMAIN chans' =>
                             \A b \in DOMAIN chans'[fromDev'[j].idx] : chans'[fromDev'[j].idx][b][3] < fromDev'[j].k
                        /\ \A h \in DOMAIN fromDev' :
                             h < j /\ fromDev'[h].type = "data" /\ fromDev'[h].owner = fromDev'[j].owner
                             => fromDev'[h].k < fromDev'[j].k
      BY <1>1 DEF FromDevOrdered
    <3>1. /\ j \in Int /\ j + 1 \in DOMAIN fromDev /\ fromDev'[j] = fromDev[j + 1] /\ 1 < j + 1
          /\ \A h \in DOMAIN fromDev' : h + 1 \in DOMAIN fromDev /\ fromDev'[h] = fromDev[h + 1]
                                        /\ (h < j => h + 1 < j + 1)
      BY <1>2
    <3>2. \A a \in DOMAIN got[fromDev'[j].owner] : got[fromDev'[j].owner][a][3] < fromDev'[j].k
      BY <3>1 DEF Ordered, FromDevOrdered
    <3>3. ASSUME NEW h \in DOMAIN fromDev', h < j, fromDev'[h].type = "data",
                 fromDev'[h].owner = fromDev'[j].owner
          PROVE  fromDev'[h].k < fromDev'[j].k
      BY <3>1, <3>3 DEF Ordered, FromDevOrdered
    <3>4. ASSUME fromDev'[j].idx \in DOMAIN chans', NEW b \in DOMAIN chans'[fromDev'[j].idx]
          PROVE  chans'[fromDev'[j].idx][b][3] < fromDev'[j].k
      <4>1. CASE fromDev'[j].idx # i
        BY <2>1, <3>1, <3>4, <4>1 DEF Ordered, FromDevOrdered
      <4>2. CASE fromDev'[j].idx = i
        <5>1. Owned(i, fromDev[j + 1].owner)
          BY <3>1, <4>2 DEF WireOwned
        <5>2. fromDev[j + 1].owner = m.owner
          BY <1>3, <5>1, OwnerUnique
        <5>3. m.k < fromDev[j + 1].k
          BY <1>1, <1>2, <3>1, <5>2 DEF Ordered, FromDevOrdered
        <5>4. b \in DOMAIN chans[i] => chans[i][b][3] < fromDev[j + 1].k
          BY <1>6, <3>1, <4>2 DEF Ordered, FromDevOrdered
        <5>5. QED
          BY <1>4, <2>2, <3>1, <3>4, <4>2, <5>3, <5>4
      <4>3. QED
        BY <4>1, <4>2
    <3>5. QED
      BY <3>2, <3>3, <3>4
  <2>9. SentBound'
    <3>1. m.k <= devSent[m.owner]
      BY <1>1, <1>2 DEF Ordered, SentBound
    <3>2. \A h \in DOMAIN chans' : \A b \in DOMAIN chans'[h] : chans'[h][b][3] <= devSent[chans'[h][b][2]]
      BY <1>4, <1>6, <2>1, <2>2, <3>1 DEF Ordered, SentBound
    <3>3. QED
      BY <1>1, <1>2, <3>2 DEF Ordered, SentBound
  <2>10. QED
    BY <2>3, <2>4, <2>6, <2>7, <2>8, <2>9 DEF Ordered
<1>7. QED
  BY <1>1, <1>5, <1>6

(* DeviceStep: a channel is created under the index its caller was given,  *)
(* or connected.                                                           *)
LEMMA DeviceStepStream ==
  ASSUME OpenInv, StreamInv, DeviceStep
  PROVE  StreamInv'
<1> USE DEF StreamInv
<1> DEFINE m == Head(toDev)
           x == [type |-> "created", idx |-> m.idx]
<1>1. /\ toDev # <<>> /\ toDev' = Tail(toDev) /\ idxOf' = idxOf /\ UNCHANGED <<chans, got, devSent>>
      /\ \/ /\ devChan' = With(devChan, m.idx, m.owner) /\ connected' = connected \ {m.idx}
            /\ fromDev' = Append(fromDev, x)
         \/ /\ connected' = connected \cup ({m.idx} \cap DOMAIN devChan)
            /\ UNCHANGED <<devChan, fromDev>>
  BY DEF DeviceStep, opens, reads
<1>2. /\ toDev' \in Seq(ToDevMsg) /\ m \in ToDevMsg /\ m = toDev[1] /\ 1 \in DOMAIN toDev
      /\ \A j \in DOMAIN toDev' : j + 1 \in DOMAIN toDev /\ toDev'[j] = toDev[j + 1]
  BY <1>1, TailOf DEF WireType
<1>3. m.owner \in Caller /\ m.idx \in Index /\ x \in CreatedMsg /\ Owned(m.idx, m.owner)
  BY <1>2 DEF ToDevMsg, CreatedMsg, WireOwned
<1>4. m.idx \in 1..IdxHi /\ m.owner \in Reader /\ x \in FromDevMsg
  BY <1>3 DEF Owned, FromDevMsg
<1>5. \A j \in DOMAIN toDev' : Owned(toDev'[j].idx, toDev'[j].owner)
  BY <1>2 DEF WireOwned
<1>6. CASE connected' = connected \cup ({m.idx} \cap DOMAIN devChan) /\ UNCHANGED <<devChan, fromDev>>
  <2>1. WireType'
    BY <1>1, <1>2, <1>6 DEF WireType
  <2>2. WireOwned'
    BY <1>1, <1>5, <1>6, OwnedKept DEF WireOwned
  <2>3. Ordered'
    BY <1>1, <1>6 DEF Ordered, GotOrdered, ChansOrdered, FromDevOrdered, SentBound
  <2>4. QED
    BY <2>1, <2>2, <2>3
<1>7. CASE /\ devChan' = With(devChan, m.idx, m.owner) /\ connected' = connected \ {m.idx}
           /\ fromDev' = Append(fromDev, x)
  <2> HIDE DEF m
  <2>1. /\ DOMAIN devChan' = DOMAIN devChan \cup {m.idx}
        /\ \A i \in DOMAIN devChan' : devChan'[i] = IF i = m.idx THEN m.owner ELSE devChan[i]
        /\ devChan' = [i \in DOMAIN devChan' |-> devChan'[i]]
    BY <1>7 DEF With
  <2>2. DOMAIN devChan' \subseteq 1..IdxHi /\ devChan' \in [DOMAIN devChan' -> Reader]
        /\ connected' \subseteq DOMAIN devChan'
    BY <1>4, <1>7, <2>1 DEF WireType
  <2>3. /\ fromDev' \in Seq(FromDevMsg) /\ x.type = "created"
        /\ \A j \in DOMAIN fromDev' : (j \in DOMAIN fromDev /\ fromDev'[j] = fromDev[j]) \/ fromDev'[j] = x
    BY <1>4, <1>7, AppendOf DEF WireType
  <2> HIDE DEF x
  <2>4. WireType'
    BY <1>1, <1>2, <2>2, <2>3, Zenon DEF WireType
  <2>5. WireOwned'
    <3>1. \A i \in DOMAIN devChan' : Owned(i, devChan'[i])
      BY <1>3, <2>1 DEF WireOwned
    <3>2. \A j \in DOMAIN fromDev' : fromDev'[j].type = "data" => Owned(fromDev'[j].idx, fromDev'[j].owner)
      BY <2>3 DEF WireOwned
    <3>3. QED
      BY <1>1, <1>5, <3>1, <3>2, OwnedKept DEF WireOwned
  <2>6. \A j \in DOMAIN fromDev' : fromDev'[j].type = "data" => j \in DOMAIN fromDev /\ fromDev'[j] = fromDev[j]
    BY <2>3
  <2>7. Ordered'
    BY <1>1, <2>6 DEF Ordered, GotOrdered, ChansOrdered, FromDevOrdered, SentBound
  <2>8. QED
    BY <2>4, <2>5, <2>7
<1>8. QED
  BY <1>1, <1>6, <1>7

(* DeviceData: the next chunk of a connection.                             *)
LEMMA DeviceDataStream ==
  ASSUME OpenInv, IndexInv, StreamInv, NEW i \in connected, DeviceData(i)
  PROVE  StreamInv'
<1> USE DEF StreamInv
<1> DEFINE r == devChan[i]
           x == [type |-> "data", idx |-> i, owner |-> r, k |-> devSent[r] + 1]
<1>1. /\ devSent[r] < MaxData /\ devSent' = [devSent EXCEPT ![r] = @ + 1]
      /\ fromDev' = Append(fromDev, x) /\ idxOf' = idxOf
      /\ UNCHANGED <<chans, got, toDev, devChan, connected>>
  BY DEF DeviceData, opens, reads
<1>2. i \in 1..IdxHi /\ i \in DOMAIN devChan /\ r \in Reader /\ Owned(i, r) /\ devSent[r] \in Nat
  BY DataAssumption DEF WireType, WireOwned
<1>3. x \in DataMsg /\ x \in FromDevMsg
  BY <1>1, <1>2, DataAssumption DEF DataMsg, FromDevMsg
<1>4. /\ fromDev' \in Seq(FromDevMsg)
      /\ \A j \in DOMAIN fromDev' : \/ j \in DOMAIN fromDev /\ fromDev'[j] = fromDev[j]
                                    \/ j = Len(fromDev) + 1 /\ fromDev'[j] = x
      /\ \A j \in DOMAIN fromDev : j < Len(fromDev) + 1
  BY <1>1, <1>3, AppendOf DEF WireType
<1>5. /\ devSent' \in [Reader -> 0..MaxData] /\ devSent'[r] = devSent[r] + 1
      /\ \A q \in Reader : devSent[q] <= devSent'[q] /\ devSent[q] \in Int /\ devSent'[q] \in Int
  BY <1>1, <1>2, DataAssumption DEF WireType
<1>6. x.type = "data" /\ x.idx = i /\ x.owner = r /\ x.k = devSent[r] + 1
  OBVIOUS
<1> HIDE DEF x, r
<1>7. WireType'
  BY <1>1, <1>4, <1>5, Zenon DEF WireType
<1>8. WireOwned'
  <2>1. \A j \in DOMAIN fromDev' : fromDev'[j].type = "data" => Owned(fromDev'[j].idx, fromDev'[j].owner)
    BY <1>2, <1>4, <1>6 DEF WireOwned
  <2>2. QED
    BY <1>1, <2>1, OwnedKept DEF WireOwned
<1>9. /\ \A a \in DOMAIN got[r] : got[r][a][3] < x.k
      /\ i \in DOMAIN chans => \A b \in DOMAIN chans[i] : chans[i][b][3] < x.k
      /\ \A h \in DOMAIN fromDev : fromDev[h].type = "data" /\ fromDev[h].owner = r => fromDev[h].k < x.k
  <2>1. \A a \in DOMAIN got[r] : got[r][a][3] < x.k
    <3>1. \A a \in DOMAIN got[r] : got[r][a][3] \in Int /\ got[r][a][3] <= devSent[r]
      BY <1>2 DEF Ordered, SentBound, WireType, Chunk
    <3>2. QED
      BY <1>2, <1>6, <3>1
  <2>2. ASSUME i \in DOMAIN chans, NEW b \in DOMAIN chans[i]
        PROVE  chans[i][b][3] < x.k
    <3>1. chans[i][b][2] = r
      BY <1>2, <2>2, OwnerUnique DEF WireOwned
    <3>2. chans[i][b][3] \in Int
      BY <2>2 DEF WireType, Chunk
    <3>3. QED
      BY <1>2, <1>6, <2>2, <3>1, <3>2 DEF Ordered, SentBound
  <2>3. ASSUME NEW h \in DOMAIN fromDev, fromDev[h].type = "data", fromDev[h].owner = r
        PROVE  fromDev[h].k < x.k
    <3>1. fromDev[h] \in DataMsg
      BY <2>3 DEF WireType, FromDevMsg, CreatedMsg
    <3>2. QED
      BY <1>2, <1>6, <2>3, <3>1 DEF Ordered, SentBound, DataMsg
  <2>4. QED
    BY <2>1, <2>2, <2>3
<1>10. GotOrdered' /\ ChansOrdered'
  BY <1>1 DEF Ordered, GotOrdered, ChansOrdered
<1>11. FromDevOrdered'
  <2> SUFFICES ASSUME NEW j \in DOMAIN fromDev', fromDev'[j].type = "data"
               PROVE  /\ \A a \in DOMAIN got[fromDev'[j].owner] : got[fromDev'[j].owner][a][3] < fromDev'[j].k
                      /\ fromDev'[j].idx \in DOMAIN chans =>
                           \A b \in DOMAIN chans[fromDev'[j].idx] : chans[fromDev'[j].idx][b][3] < fromDev'[j].k
                      /\ \A h \in DOMAIN fromDev' :
                           h < j /\ fromDev'[h].type = "data" /\ fromDev'[h].owner = fromDev'[j].owner
                           => fromDev'[h].k < fromDev'[j].k
    BY <1>1 DEF FromDevOrdered
  <2>1. CASE j \in DOMAIN fromDev /\ fromDev'[j] = fromDev[j]
    <3>1. \A h \in DOMAIN fromDev' : h < j => h \in DOMAIN fromDev /\ fromDev'[h] = fromDev[h]
      BY <1>4, <2>1 DEF WireType
    <3>2. QED
      BY <2>1, <3>1 DEF Ordered, FromDevOrdered
  <2>2. CASE j = Len(fromDev) + 1 /\ fromDev'[j] = x
    <3>1. \A h \in DOMAIN fromDev' : h < j => h \in DOMAIN fromDev /\ fromDev'[h] = fromDev[h]
      BY <1>4, <2>2 DEF WireType
    <3>2. QED
      BY <1>6, <1>9, <2>2, <3>1
  <2>3. QED
    BY <1>4, <2>1, <2>2
<1>12. SentBound'
  <2>1. ASSUME NEW q \in Reader, NEW a \in DOMAIN got[q]
        PROVE  got[q][a][3] <= devSent'[q]
    <3>1. got[q] \in Seq(Chunk)
      BY DEF WireType
    <3>2. got[q][a] \in Chunk
      BY <2>1, <3>1
    <3>3. got[q][a][3] \in Int
      BY <3>2 DEF Chunk
    <3>4. QED
      BY <1>5, <2>1, <3>3 DEF Ordered, SentBound
  <2>2. ASSUME NEW h \in DOMAIN chans, NEW b \in DOMAIN chans[h]
        PROVE  chans[h][b][3] <= devSent'[chans[h][b][2]]
    <3>1. chans[h][b] \in Chunk
      BY <2>2 DEF WireType
    <3>2. chans[h][b][2] \in Reader /\ chans[h][b][3] \in Int
      BY <3>1 DEF Chunk
    <3>3. QED
      BY <1>5, <2>2, <3>2 DEF Ordered, SentBound
  <2>3. ASSUME NEW j \in DOMAIN fromDev', fromDev'[j].type = "data"
        PROVE  fromDev'[j].k <= devSent'[fromDev'[j].owner]
    <3>1. CASE fromDev'[j] = x
      BY <1>2, <1>5, <1>6, <3>1
    <3>2. CASE j \in DOMAIN fromDev /\ fromDev'[j] = fromDev[j]
      <4>1. fromDev[j] \in DataMsg
        BY <2>3, <3>2 DEF WireType, FromDevMsg, CreatedMsg
      <4>2. fromDev[j].owner \in Reader /\ fromDev[j].k \in Int /\ fromDev[j].k <= devSent[fromDev[j].owner]
        BY <2>3, <3>2, <4>1 DEF DataMsg, Ordered, SentBound
      <4>3. QED
        BY <1>5, <3>2, <4>2
    <3>3. QED
      BY <1>4, <2>3, <3>1, <3>2
  <2>4. QED
    BY <1>1, <2>1, <2>2, <2>3 DEF SentBound
<1>13. QED
  BY <1>7, <1>8, <1>10, <1>11, <1>12 DEF Ordered

-----------------------------------------------------------------------------
CrossInv == OpenInv /\ IndexInv /\ StreamInv

LEMMA CrossStep ==
  ASSUME FewCallers, CrossInv, [Next]_vars
  PROVE  CrossInv'
<1> USE DEF CrossInv
<1>1. OpenInv'
  BY OpenStep
<1>2. IndexInv'
  BY IndexStep
<1>3. StreamInv'
  <2>1. ASSUME NEW c \in Caller, OpenBusy(c) \/ OpenPublish(c) \/ OpenSucceeds(c)
        PROVE  StreamInv'
    BY <2>1, BuffersShrink DEF OpenBusy, OpenPublish, OpenSucceeds, reads, device
  <2>2. ASSUME NEW c \in Caller, OpenRegister(c)
        PROVE  StreamInv'
    BY <2>2, BuffersShrink DEF OpenRegister, With, reads, device
  <2>3. ASSUME NEW c \in Caller, OpenClosed(c) \/ OpenTimeout(c) \/ CloseChan(c)
        PROVE  StreamInv'
    BY <2>3, BuffersShrink DEF OpenClosed, OpenTimeout, CloseChan, DropChan, Without, device
  <2>4. ASSUME NEW r \in Reader, ReadCall(r)
        PROVE  StreamInv'
    BY <2>4, BuffersShrink DEF ReadCall, opens, device
  <2>5. ASSUME NEW r \in Reader, ReadTurn(r)
        PROVE  StreamInv'
    BY <2>5, ReadStream
  <2>6. CASE PumpFail \/ PumpSeesClosed \/ PumpExit \/ CloseTunnel \/ CloseWakes
    BY <2>6, BuffersShrink
    DEF PumpFail, PumpSeesClosed, PumpExit, CloseTunnel, CloseWakes, opens, reads, device
  <2>7. CASE UNCHANGED vars
    BY <2>7, BuffersShrink DEF vars, opens, reads, device
  <2>8. QED
    BY <2>1, <2>2, <2>3, <2>4, <2>5, <2>6, <2>7, PortConnectStream, RouteDataStream,
       RouteCreatedStream, DeviceStepStream, DeviceDataStream
    DEF Next, CallerStep, PumpStep
<1>4. QED
  BY <1>1, <1>2, <1>3

(* A reader is given only chunks of its own connection and in the order    *)
(* the device sent them: true of any number of callers, opens that time    *)
(* out, replies taken for another's (route completes whichever open is     *)
(* pending) and channels closed with data on the way, as long as a tunnel  *)
(* is not asked for more channels than it has indices.                     *)
THEOREM NoCrossTalkAlways == FewCallers => (Spec => []NoCrossTalk)
<1> SUFFICES ASSUME FewCallers
             PROVE  Spec => []NoCrossTalk
  OBVIOUS
<1>1. Init => CrossInv
  BY OpenInit, IndexInit, StreamInit DEF CrossInv
<1>2. CrossInv /\ [Next]_vars => CrossInv'
  BY CrossStep
<1>3. CrossInv => NoCrossTalk
  <2> SUFFICES ASSUME CrossInv, NEW r \in Reader, NEW i \in DOMAIN got[r]
               PROVE  got[r][i][2] = r /\ (i > 1 => got[r][i - 1][3] < got[r][i][3])
    BY DEF NoCrossTalk
  <2>1. got[r] \in Seq(Chunk)
    BY DEF CrossInv, StreamInv, WireType
  <2>2. i \in Int /\ (i > 1 => i - 1 \in DOMAIN got[r] /\ i - 1 < i)
    BY <2>1
  <2>3. QED
    BY <2>2 DEF CrossInv, StreamInv, WireOwned, Ordered, GotOrdered
<1>4. QED
  BY <1>1, <1>2, <1>3, PTL DEF Spec

(* "every open must use a fresh index ... wrapping is safe": what TLC      *)
(* refutes in general holds within the same limit, so index reuse is the   *)
(* only way two channels come to share an index.                           *)
THEOREM IndexUniqueAlways == FewCallers => (Spec => []IndexUnique)
<1> SUFFICES ASSUME FewCallers
             PROVE  Spec => []IndexUnique
  OBVIOUS
<1> DEFINE I == OpenInv /\ IndexInv
<1>1. Init => I
  BY OpenInit, IndexInit
<1>2. I /\ [Next]_vars => I'
  BY OpenStep, IndexStep
<1>3. I => IndexUnique
  BY DEF OpenInv, Published, IndexInv, IndexUnique, Given, InUse, Index
<1>4. QED
  BY <1>1, <1>2, <1>3, PTL DEF Spec

-----------------------------------------------------------------------------
(* The mapped ports: main.                                                 *)

(* How far main has come decides whether there is a tunnel.                *)
MainInv ==
  /\ main \in {"bind", "dial", "open", "serve", "closing", "exit", "killed"}
  /\ mapped \in 0..Maps /\ tun \in {"none", "open", "closed"}
  /\ main = "bind" => mapped < Maps
  /\ main \in {"bind", "dial"} => tun = "none"
  /\ main = "exit" => tun # "open"
  /\ main = "closing" => tun = "closed"
  /\ clash \in BOOLEAN /\ (clash => main = "exit" /\ tun = "none")

(* Steps of the forwarder leave main's variables alone.                    *)
LEMMA PortKeepsMain ==
  ASSUME MainInv, UNCHANGED proc
  PROVE  MainInv'
BY DEF MainInv, proc

(* Every step of main keeps to that.                                       *)
LEMMA MainStep ==
  ASSUME MainInv, Main \/ Dial \/ SignalCloses \/ SignalKills
  PROVE  MainInv'
<1> USE ForwarderAssumption DEF MainInv
<1>1. CASE Bind
  BY <1>1 DEF Bind
<1>2. CASE BindFails
  BY <1>2 DEF BindFails
<1>3. CASE DialOk
  BY <1>3 DEF DialOk
<1>4. CASE DialFails
  BY <1>4 DEF DialFails
<1>5. CASE OpenOk
  BY <1>5 DEF OpenOk
<1>6. CASE OpenFails
  BY <1>6 DEF OpenFails, Closed
<1>7. CASE Start
  BY <1>7 DEF Start
<1>8. CASE SignalExits
  BY <1>8 DEF SignalExits
<1>9. CASE SignalCloses
  BY <1>9 DEF SignalCloses
<1>10. CASE SignalKills
  BY <1>10 DEF SignalKills
<1>11. QED
  BY <1>1, <1>2, <1>3, <1>4, <1>5, <1>6, <1>7, <1>8, <1>9, <1>10 DEF Main, Dial

-----------------------------------------------------------------------------
(* The mapped ports: the forwarder of one of them.                         *)

(* While the stream lives, only connections that were refused or have gone *)
(* are closed by the proxy; f.mu is held exactly across a write, and then  *)
(* to an attached client.                                                  *)
PortType ==
  /\ client \in Conn \cup {NoConn}
  /\ mu = IF loop = "write" THEN "readLoop" ELSE NoConn
  /\ loop \in {"read", "have", "write", "err", "ended"} /\ n \in 0..Last
  /\ readFor \in Conn \cup {NoConn}
  /\ pc \in [Conn -> {"idle", "queued", "accepted", "copy", "detach", "gone", "refused"}]
  /\ sock \in [Conn -> 0..SockCap]
  /\ strays \subseteq Conn
  /\ shut \subseteq Conn /\ peer \in [Conn -> BOOLEAN] /\ up \in BOOLEAN
AttachInv ==
  /\ loop = "write" => client # NoConn
  /\ loop \in {"err", "ended"} => ~up
  /\ up => \A c \in shut : pc[c] \in {"gone", "refused"}
  /\ \A c \in Conn : pc[c] = "copy" => client = c \/ c \in shut
PortInv == PortType /\ AttachInv

ProxyInv == MainInv /\ PortInv

(* main starts with no port bound and no connection made.                  *)
LEMMA ProxyInitInv == ProxyInit => ProxyInv
<1> SUFFICES ASSUME ProxyInit
             PROVE  ProxyInv
  OBVIOUS
<1>1. MainInv
  <2>1. mapped \in 0..Maps /\ mapped < Maps
    BY ForwarderAssumption DEF ProxyInit
  <2>2. QED
    BY <2>1, Zenon DEF ProxyInit, MainInv
<1>2. PortType
  BY ForwarderAssumption DEF ProxyInit, PortType
<1>3. AttachInv
  BY DEF ProxyInit, AttachInv
<1>4. QED
  BY <1>1, <1>2, <1>3 DEF ProxyInv, PortInv

(* A step of main touches nothing of the port but, on a signal, up.        *)
LEMMA MainKeepsPort ==
  ASSUME PortInv, UNCHANGED port, up' = up \/ up' = FALSE
  PROVE  PortInv'
<1>1. PortType'
  BY DEF PortInv, PortType, port, looping, conns
<1>2. AttachInv'
  BY DEF PortInv, PortType, AttachInv, port, looping, conns
<1>3. QED
  BY <1>1, <1>2 DEF PortInv

(* readLoop keeps the port consistent.                                     *)
LEMMA LoopStep ==
  ASSUME PortInv, ReadLoop
  PROVE  PortInv'
<1> USE ForwarderAssumption DEF PortInv, PortType, AttachInv, conns, looping
<1>1. CASE LoopRead
  BY <1>1 DEF LoopRead
<1>2. CASE LoopLock
  BY <1>2 DEF LoopLock
<1>3. CASE LoopWrite
  BY <1>3 DEF LoopWrite
<1>4. CASE LoopEnd
  BY <1>4 DEF LoopEnd
<1>5. QED
  BY <1>1, <1>2, <1>3, <1>4 DEF ReadLoop

(* So does every step of serve, for whichever connection.                  *)
LEMMA ServeStep ==
  ASSUME PortInv, NEW c \in Conn, Serve(c)
  PROVE  PortInv'
<1> USE ForwarderAssumption DEF PortInv, PortType, AttachInv, conns, looping
<1>1. CASE Accept(c)
  BY <1>1 DEF Accept
<1>2. CASE ServeAttach(c)
  BY <1>2 DEF ServeAttach, Busy
<1>3. CASE ServeRefuse(c)
  BY <1>3 DEF ServeRefuse, Unlocked
<1>4. CASE CopyEnds(c)
  BY <1>4 DEF CopyEnds
<1>5. CASE CopyFails(c)
  BY <1>5 DEF CopyFails
<1>6. CASE ServeDetach(c)
  BY <1>6 DEF ServeDetach, Detached
<1>7. QED
  BY <1>1, <1>2, <1>3, <1>4, <1>5, <1>6 DEF Serve

(* And whatever a client does.                                             *)
LEMMA ClientStep ==
  ASSUME PortInv, NEW c \in Conn, Arrive(c) \/ ClientReads(c) \/ ClientLeaves(c)
  PROVE  PortInv'
<1> USE ForwarderAssumption DEF PortInv, PortType, AttachInv, conns, looping
<1>1. CASE Arrive(c)
  BY <1>1 DEF Arrive
<1>2. CASE ClientReads(c)
  BY <1>2 DEF ClientReads
<1>3. CASE ClientLeaves(c)
  BY <1>3 DEF ClientLeaves
<1>4. QED
  BY <1>1, <1>2, <1>3

(* The invariant is inductive.                                             *)
LEMMA ProxyNextInv ==
  ASSUME ProxyInv, [ProxyNext]_proxyVars
  PROVE  ProxyInv'
<1>1. CASE Main \/ Dial \/ SignalCloses \/ SignalKills
  <2>1. UNCHANGED port /\ (up' = up \/ up' = FALSE)
    BY <1>1 DEF Main, Dial, Bind, BindFails, DialOk, DialFails, OpenOk, OpenFails, Start, SignalExits,
                SignalCloses, SignalKills
  <2>2. QED
    BY <1>1, <2>1, MainStep, MainKeepsPort DEF ProxyInv
<1>2. CASE ReadLoop
  <2>1. UNCHANGED proc
    BY <1>2 DEF ReadLoop, LoopRead, LoopLock, LoopWrite, LoopEnd
  <2>2. QED
    BY <1>2, <2>1, LoopStep, PortKeepsMain DEF ProxyInv
<1>3. ASSUME NEW c \in Conn, Serve(c)
      PROVE  ProxyInv'
  <2>1. UNCHANGED proc
    BY <1>3 DEF Serve, Accept, ServeAttach, ServeRefuse, CopyEnds, CopyFails, ServeDetach
  <2>2. QED
    BY <1>3, <2>1, ServeStep, PortKeepsMain DEF ProxyInv
<1>4. CASE StreamDies
  <2>1. UNCHANGED proc /\ UNCHANGED port /\ up' = FALSE
    BY <1>4 DEF StreamDies, port
  <2>2. QED
    BY <2>1, MainKeepsPort, PortKeepsMain DEF ProxyInv
<1>5. ASSUME NEW c \in Conn, Arrive(c) \/ ClientReads(c) \/ ClientLeaves(c)
      PROVE  ProxyInv'
  <2>1. UNCHANGED proc
    BY <1>5 DEF Arrive, ClientReads, ClientLeaves
  <2>2. QED
    BY <1>5, <2>1, ClientStep, PortKeepsMain DEF ProxyInv
<1>6. CASE UNCHANGED proxyVars
  BY <1>6, PortKeepsMain, MainKeepsPort DEF ProxyInv, proxyVars
<1>7. QED
  BY <1>1, <1>2, <1>3, <1>4, <1>5, <1>6 DEF ProxyNext

(* It holds in every state of the proxy.                                   *)
LEMMA ProxySpecInv == ProxySpec => []ProxyInv
BY ProxyInitInv, ProxyNextInv, PTL DEF ProxySpec

-----------------------------------------------------------------------------
(* The variables of main and of the forwarder keep their types, and f.mu   *)
(* is held only while readLoop writes to a client.                         *)
THEOREM ProxyTypeCorrect == ProxySpec => []ProxyTypeOK
<1>1. ProxyInv => ProxyTypeOK
  BY DEF ProxyInv, MainInv, PortInv, PortType, ProxyTypeOK
<1>2. QED
  BY <1>1, ProxySpecInv, PTL

(* "One client at a time per mapped port" (README.md:74): for any number   *)
(* of connections and any crossing of their attach, refuse and detach with *)
(* the end of the stream, serve and readLoop leave at most one connection  *)
(* copying into a live stream.                                             *)
THEOREM OneClientAlways == ProxySpec => []OneClient
<1>1. ProxyInv => OneClient
  <2> SUFFICES ASSUME ProxyInv
               PROVE  OneClient
    OBVIOUS
  <2> DEFINE C == {c \in Conn : pc[c] = "copy"}
  <2>1. ASSUME up
        PROVE  Cardinality(C) <= 1
    <3>1. C \subseteq {client}
      BY <2>1 DEF ProxyInv, PortInv, PortType, AttachInv
    <3>2. IsFiniteSet({client}) /\ Cardinality({client}) = 1
      BY FS_Singleton
    <3>3. QED
      BY <3>1, <3>2, FS_Subset
  <2>2. QED
    BY <2>1 DEF ProxyInv, PortInv, AttachInv, OneClient
<1>2. QED
  BY <1>1, ProxySpecInv, PTL

(* "Bind before dialling: a port clash then costs nothing" and "releasing  *)
(* the device session" (main.go:200, 242): wherever main, for any number   *)
(* of mapped ports, leaves by an error or by the signal handler, it has no *)
(* tunnel open, and after a clash it never had one.                        *)
THEOREM SessionSparedAlways == ProxySpec => []SessionSpared
<1>1. ProxyInv => SessionSpared
  BY DEF ProxyInv, MainInv, SessionSpared
<1>2. QED
  BY <1>1, ProxySpecInv, PTL
=============================================================================
