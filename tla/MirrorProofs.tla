--------------------------- MODULE MirrorProofs ----------------------------
(***************************************************************************)
(* Proofs about Mirror for every finite tree, every TARGETS and EXCLUDE,   *)
(* all sizes and any number of passes, faults, rewrites and restarts.      *)
(***************************************************************************)
EXTENDS Mirror, FiniteSetTheorems, TLAPS

Path == Dir \cup File
Item == [path : Path, size : Nat]
FileItem == [path : File, size : Nat]

-----------------------------------------------------------------------------
(* The inductive invariant.                                                *)

(* q is p or lies below it.                                                *)
Under(p, q) == Len(p) <= Len(q) /\ \A i \in 1..Len(p) : p[i] = q[i]

(* A walk that has noted p and has t left to do, when the files q have not *)
(* been written since it began and the device's sizes are dev.             *)

(* What it keeps is in scope.                                              *)
Clean(p, t) ==
  /\ \A i \in DOMAIN p : Kept(p[i].path)
  /\ \A i \in DOMAIN t : Kept(t[i].path)

(* No part of the tree is left to do twice, or to do again.                *)
Apart(p, t) ==
  /\ \A i, j \in DOMAIN p : i # j => p[i].path # p[j].path
  /\ \A i, j \in DOMAIN t : i # j => ~Under(t[i].path, t[j].path)
  /\ \A i \in DOMAIN t, j \in DOMAIN p : ~Under(t[i].path, p[j].path)

(* The sizes listed are right for the files left alone.                    *)
Right(e, q, dev) == e.path \in q => e.size = dev[e.path] /\ e.size # Absent
Sized(p, t, q, dev) ==
  /\ \A i \in DOMAIN p : Right(p[i], q, dev)
  /\ \A i \in DOMAIN t : Right(t[i], q, dev)

(* Every wanted file has been noted, or lies in what is left to do.        *)
Covered(p, t, q, dev) ==
  \A f \in q : Kept(f) /\ dev[f] # Absent
    => \/ \E i \in DOMAIN p : p[i] = Entry(f, dev[f])
       \/ \E i \in DOMAIN t : Under(t[i].path, f)

Walk(p, t, q, dev) == Clean(p, t) /\ Apart(p, t) /\ Sized(p, t, q, dev) /\ Covered(p, t, q, dev)

(* The file being fetched has been noted already.                          *)
Due == IF pc = "fetch" THEN Tail(todo) ELSE todo
WalkInv == pc \in {"walk", "fetch", "enumWalk"} => Walk(pass, Due, quiet, device)

(* In a pass that has downloaded nothing every file noted was present or   *)
(* given up, and is.                                                       *)
PassInv == pc = "walk" /\ ~got => \A i \in DOMAIN pass : Present(pass[i]) \/ GivenUp(pass[i])

(* When every version of a file has been fetched, the archive has the      *)
(* latest, the size last listed is its size, and it is not being fetched.  *)
Fetching(f) == pc = "fetch" /\ Head(todo).path = f
FileInv(f) ==
  /\ fetches[f] <= versions[f]
  /\ fetches[f] = versions[f] => /\ local[f] = device[f] /\ ~Fetching(f)
                                 /\ \A i \in DOMAIN todo : todo[i].path = f => todo[i].size = local[f]
  /\ Fetching(f) => opened = device[f] \/ fetches[f] + 1 < versions[f]
OnceInv == \A f \in File : FileInv(f)

TypeInv ==
  /\ pc \in {"connect", "walk", "fetch", "enum", "enumWalk", "wedged", "exit"}
  /\ todo \in Seq(Item) /\ pass \in Seq(FileItem) /\ quiet \subseteq File
  /\ local \in [File -> Nat] /\ device \in [File -> Nat] /\ opened \in Nat
  /\ versions \in [File -> Nat] /\ fetches \in [File -> Nat]
  /\ pc = "fetch" => /\ todo # <<>> /\ Head(todo).path \in File
                     /\ pass # <<>> /\ pass[Len(pass)] = Head(todo)

(* LIST_ONLY downloads nothing.                                            *)
ModeInv == listOnly => pc \in {"enum", "enumWalk", "wedged", "exit"}

Inv == TypeInv /\ WalkInv /\ PassInv /\ OnceInv
-----------------------------------------------------------------------------
(* Sequences.                                                              *)

LEMMA TailOf ==
  ASSUME NEW S, NEW s \in Seq(S), s # <<>>
  PROVE  /\ Len(s) \in Nat \ {0} /\ Head(s) = s[1] /\ s[1] \in S
         /\ Tail(s) \in Seq(S) /\ Len(Tail(s)) = Len(s) - 1 /\ DOMAIN Tail(s) = 1..(Len(s) - 1)
         /\ \A i \in 1..(Len(s) - 1) : Tail(s)[i] = s[i + 1]
OBVIOUS

LEMMA CatOf ==
  ASSUME NEW S, NEW a \in Seq(S), NEW b \in Seq(S)
  PROVE  /\ a \o b \in Seq(S) /\ DOMAIN (a \o b) = 1..(Len(a) + Len(b))
         /\ \A i \in 1..Len(a) : (a \o b)[i] = a[i]
         /\ \A i \in 1..Len(b) : (a \o b)[Len(a) + i] = b[i]
         /\ \A i \in (Len(a) + 1)..(Len(a) + Len(b)) : (a \o b)[i] = b[i - Len(a)]
OBVIOUS

LEMMA AppendOf ==
  ASSUME NEW S, NEW s \in Seq(S), NEW e \in S
  PROVE  /\ Append(s, e) \in Seq(S) /\ DOMAIN Append(s, e) = 1..(Len(s) + 1)
         /\ \A i \in 1..Len(s) : Append(s, e)[i] = s[i]
         /\ Append(s, e)[Len(s) + 1] = e
OBVIOUS

-----------------------------------------------------------------------------
(* Paths.                                                                  *)

Segment == UNION {{p[i] : i \in DOMAIN p} : p \in Path}

LEMMA PathSeq ==
  ASSUME NEW p \in Path
  PROVE  p \in Seq(Segment) /\ Len(p) \in Nat /\ DOMAIN p = 1..Len(p)
<1>1. p \in Seq({p[i] : i \in DOMAIN p})
  BY MirrorAssumption DEF Path
<1>2. Len(p) \in Nat /\ DOMAIN p = 1..Len(p)
  BY <1>1
<1>3. \A i \in 1..Len(p) : p[i] \in Segment
  BY <1>2 DEF Segment
<1>4. p \in [1..Len(p) -> Segment]
  BY <1>1, <1>2, <1>3
<1>5. QED
  BY <1>2, <1>4

LEMMA PathEq ==
  ASSUME NEW p \in Path, NEW q \in Path, Len(p) = Len(q), \A i \in 1..Len(p) : p[i] = q[i]
  PROVE  p = q
BY PathSeq

LEMMA UnderSelf ==
  ASSUME NEW p \in Path
  PROVE  Under(p, p)
BY PathSeq DEF Under

LEMMA RootOver ==
  ASSUME NEW p \in Path
  PROVE  Under(<<>>, p)
BY PathSeq DEF Under

(* A proper prefix of a path is a directory.                               *)
LEMMA PrefixDir ==
  ASSUME NEW p \in Path, NEW n \in 0..Len(p), n < Len(p)
  PROVE  /\ SubSeq(p, 1, n) \in Dir /\ Len(SubSeq(p, 1, n)) = n
         /\ \A i \in 1..n : SubSeq(p, 1, n)[i] = p[i]
<1>1. SubSeq(p, 1, n) \in Dir
  BY MirrorAssumption DEF Path
<1>2. p \in Seq(Segment) /\ Len(p) \in Nat
  BY PathSeq
<1>3. Len(SubSeq(p, 1, n)) = n /\ \A i \in 1..n : SubSeq(p, 1, n)[i] = p[i]
  BY <1>2
<1>4. QED
  BY <1>1, <1>3

LEMMA ParentOf ==
  ASSUME NEW c \in Path \ {<<>>}
  PROVE  /\ Front(c) \in Dir /\ Len(c) \in Nat \ {0} /\ Len(Front(c)) = Len(c) - 1
         /\ \A i \in 1..(Len(c) - 1) : Front(c)[i] = c[i]
<1>1. c \in Seq(Segment) /\ Len(c) \in Nat
  BY PathSeq
<1>2. Len(c) # 0
  BY <1>1
<1>3. PICK n \in 0..Len(c) : n = Len(c) - 1 /\ n < Len(c)
  <2>1. \A k \in Nat : k # 0 => k - 1 \in 0..k /\ k - 1 < k
    OBVIOUS
  <2>2. Len(c) - 1 \in 0..Len(c) /\ Len(c) - 1 < Len(c)
    BY <1>1, <1>2, <2>1, Zenon
  <2>3. QED
    BY <2>2, Zenon
<1>4. Front(c) = SubSeq(c, 1, n)
  BY <1>3 DEF Front
<1>5. /\ SubSeq(c, 1, n) \in Dir /\ Len(SubSeq(c, 1, n)) = n
      /\ \A i \in 1..n : SubSeq(c, 1, n)[i] = c[i]
  BY <1>3, PrefixDir
<1>6. QED
  BY <1>1, <1>2, <1>3, <1>4, <1>5

(* A file has nothing below it.                                            *)
LEMMA FileLeaf ==
  ASSUME NEW f \in File, NEW p \in Path, Under(f, p)
  PROVE  f = p
<1>1. f \in Path /\ Len(f) \in Nat /\ Len(p) \in Nat /\ Len(f) <= Len(p)
  BY PathSeq DEF Path, Under
<1>2. CASE Len(f) = Len(p)
  BY <1>1, <1>2, PathEq DEF Under
<1>3. CASE Len(f) < Len(p)
  <2>1. PICK d : d = SubSeq(p, 1, Len(f))
    OBVIOUS
  <2>2. d \in Dir /\ Len(d) = Len(f) /\ \A i \in 1..Len(f) : d[i] = p[i]
    BY <1>1, <1>3, <2>1, PrefixDir
  <2>3. d = f
    BY <1>1, <2>2, PathEq DEF Under, Path
  <2>4. QED
    BY <2>2, <2>3, MirrorAssumption
<1>4. QED
  BY <1>1, <1>2, <1>3

(* The children of a directory, and what lies over or below them.          *)
LEMMA ChildUnder ==
  ASSUME NEW c \in Path \ {<<>>}, NEW q \in Path
  PROVE  /\ Under(c, q) => Under(Front(c), q)
         /\ Under(q, c) => q = c \/ Under(q, Front(c))
<1>1. /\ Len(c) \in Nat \ {0} /\ Len(Front(c)) = Len(c) - 1 /\ Len(q) \in Nat
      /\ \A i \in 1..(Len(c) - 1) : Front(c)[i] = c[i]
  BY ParentOf, PathSeq
<1>2. Under(c, q) => Under(Front(c), q)
  BY <1>1 DEF Under
<1>3. ASSUME Under(q, c)
      PROVE  q = c \/ Under(q, Front(c))
  <2>1. CASE Len(q) = Len(c)
    BY <1>3, <2>1, PathEq DEF Under
  <2>2. CASE Len(q) < Len(c)
    BY <1>1, <1>3, <2>2 DEF Under
  <2>3. QED
    BY <1>1, <1>3, <2>1, <2>2 DEF Under
<1>4. QED
  BY <1>2, <1>3

LEMMA Siblings ==
  ASSUME NEW c \in Path \ {<<>>}, NEW e \in Path \ {<<>>}, Front(c) = Front(e), Under(c, e)
  PROVE  c = e
<1>1. Len(c) = Len(e)
  BY ParentOf
<1>2. QED
  BY <1>1, PathEq DEF Under

(* A file below a directory is one of its children or below one.           *)
LEMMA ChildOver ==
  ASSUME NEW d \in Dir, NEW f \in File, Under(d, f)
  PROVE  \E c \in Path \ {<<>>} : /\ Front(c) = d /\ Under(c, f) /\ c[1] = f[1]
                                  /\ c \in File => c = f
<1>1. d \in Path /\ f \in Path /\ f # <<>> /\ d # f
  BY MirrorAssumption DEF Path
<1>2. Len(d) \in Nat /\ Len(f) \in Nat /\ Len(d) < Len(f)
  <2>1. Len(d) \in Nat /\ Len(f) \in Nat /\ Len(d) <= Len(f)
    BY <1>1, PathSeq DEF Under
  <2>2. Len(d) # Len(f)
    BY <1>1, PathEq DEF Under
  <2>3. QED
    BY <2>1, <2>2
<1>3. PICK n \in 1..Len(f) : n = Len(d) + 1
  BY <1>2
<1>4. PICK c \in Path : Len(c) = n /\ \A i \in 1..n : c[i] = f[i]
  <2>1. CASE n = Len(f)
    BY <1>1, <2>1
  <2>2. CASE n < Len(f)
    <3>1. PICK c : c = SubSeq(f, 1, n)
      OBVIOUS
    <3>2. c \in Dir /\ Len(c) = n /\ \A i \in 1..n : c[i] = f[i]
      BY <1>1, <1>2, <1>3, <2>2, <3>1, PrefixDir
    <3>3. QED
      BY <3>2 DEF Path
  <2>3. QED
    BY <1>2, <2>1, <2>2
<1>5. c # <<>> /\ Under(c, f) /\ c[1] = f[1]
  BY <1>2, <1>3, <1>4 DEF Under
<1>6. Front(c) = d
  <2>1. PICK b : b = Front(c)
    OBVIOUS
  <2>2. b \in Path /\ Len(b) = n - 1 /\ \A i \in 1..(n - 1) : b[i] = c[i]
    BY <1>4, <1>5, <2>1, ParentOf DEF Path
  <2>3. Len(b) = Len(d) /\ \A i \in 1..Len(d) : b[i] = d[i]
    BY <1>2, <1>3, <1>4, <2>2 DEF Under
  <2>4. QED
    BY <1>1, <2>1, <2>2, <2>3, PathEq
<1>7. c \in File => c = f
  BY <1>1, <1>5, FileLeaf
<1>8. QED
  BY <1>5, <1>6, <1>7

(* The walk's tests on a directory and on a file are what TARGETS and      *)
(* EXCLUDE_EXT say of the file.                                            *)
LEMMA KeptWanted ==
  ASSUME NEW f \in File
  PROVE  Kept(f) <=> Wanted(f)
<1>1. f # <<>> /\ f \in Seq(Segment) /\ Len(f) \in Nat
  BY PathSeq, MirrorAssumption DEF Path
<1>2. Len(f) >= 1
  BY <1>1
<1>3. ASSUME NEW t \in Targets
      PROVE  IsPrefix(<<t>>, f) <=> f[1] = t
  <2>1. Len(<<t>>) = 1 /\ Len(<<t>>) <= Len(f)
    BY <1>2
  <2>2. PICK a : a = SubSeq(<<t>>, 1, 1)
    OBVIOUS
  <2>3. PICK b : b = SubSeq(f, 1, 1)
    OBVIOUS
  <2>4. <<t>> \in Seq({t})
    OBVIOUS
  <2>5. a \in Seq({t}) /\ Len(a) = 1 /\ a[1] = t
    BY <2>1, <2>2, <2>4
  <2>6. b \in Seq(Segment) /\ Len(b) = 1 /\ b[1] = f[1]
    BY <1>1, <1>2, <2>3
  <2>7. a = b <=> f[1] = t
    BY <2>5, <2>6
  <2>8. QED
    BY <2>1, <2>2, <2>3, <2>7 DEF IsPrefix
<1>4. QED
  BY <1>1, <1>3 DEF Kept, InScope, WantFile, Wanted

-----------------------------------------------------------------------------
(* The steps of a walk.                                                    *)

(* It begins at the root.                                                  *)
LEMMA WalkStarts ==
  ASSUME NEW dev
  PROVE  Walk(<<>>, <<Entry(<<>>, 0)>>, File, dev) /\ <<Entry(<<>>, 0)>> \in Seq(Item)
<1>1. PICK t : t = <<Entry(<<>>, 0)>>
  OBVIOUS
<1>2. <<>> \in Path /\ <<>> \notin File
  BY MirrorAssumption DEF Path
<1>3. DOMAIN t = {1} /\ t[1].path = <<>>
  BY <1>1 DEF Entry
<1>4. t \in Seq(Item)
  BY <1>1, <1>2 DEF Item, Entry
<1>5. Clean(<<>>, t)
  BY <1>2, <1>3 DEF Clean, Kept, InScope
<1>6. Apart(<<>>, t)
  BY <1>3 DEF Apart
<1>7. Sized(<<>>, t, File, dev)
  BY <1>2, <1>3 DEF Sized, Right
<1>8. Covered(<<>>, t, File, dev)
  <2>1. \A f \in File : Under(t[1].path, f)
    BY <1>3, RootOver DEF Path
  <2>2. QED
    BY <1>3, <2>1 DEF Covered
<1>9. QED
  BY <1>1, <1>4, <1>5, <1>6, <1>7, <1>8 DEF Walk

(* A file is noted: it moves from what is left to what has been seen.      *)
LEMMA WalkNotes ==
  ASSUME NEW p \in Seq(FileItem), NEW t \in Seq(Item), t # <<>>, Head(t).path \in File,
         NEW q \in SUBSET File, NEW dev, Walk(p, t, q, dev)
  PROVE  Walk(Append(p, Head(t)), Tail(t), q, dev) /\ Append(p, Head(t)) \in Seq(FileItem)
<1>1. PICK e : e = Head(t)
  OBVIOUS
<1>2. PICK n : n = Append(p, e)
  OBVIOUS
<1>3. PICK r : r = Tail(t)
  OBVIOUS
<1>4. /\ Len(t) \in Nat \ {0} /\ DOMAIN t = 1..Len(t) /\ e = t[1] /\ e \in Item
      /\ DOMAIN r = 1..(Len(t) - 1) /\ \A i \in DOMAIN r : r[i] = t[i + 1]
  BY <1>1, <1>3, TailOf
<1>5. \A i \in DOMAIN r : i + 1 \in DOMAIN t /\ i + 1 # 1 /\ r[i] = t[i + 1]
  BY <1>4
<1>6. e \in FileItem
  BY <1>1, <1>4 DEF Item, FileItem
<1>7. /\ Len(p) \in Nat /\ DOMAIN p = 1..Len(p) /\ n \in Seq(FileItem)
      /\ DOMAIN n = 1..(Len(p) + 1) /\ n[Len(p) + 1] = e /\ \A i \in DOMAIN p : n[i] = p[i]
  BY <1>2, <1>6, AppendOf
<1>8. \A i \in DOMAIN n : i \in DOMAIN p \/ i = Len(p) + 1
  BY <1>7
<1>9. 1 \in DOMAIN t
  BY <1>4
<1>10. Clean(n, r)
  <2> USE DEF Walk, Clean
  <2>1. Kept(e.path)
    BY <1>4, <1>9
  <2>2. \A i \in DOMAIN n : Kept(n[i].path)
    BY <1>7, <1>8, <2>1
  <2>3. \A i \in DOMAIN r : Kept(r[i].path)
    BY <1>5
  <2>4. QED
    BY <2>2, <2>3
<1>11. Sized(n, r, q, dev)
  BY <1>4, <1>5, <1>7, <1>8, <1>9 DEF Walk, Sized
<1>12. Apart(n, r)
  <2>1. \A j \in DOMAIN p : p[j].path # e.path
    <3>1. e.path \in Path /\ Under(e.path, e.path)
      BY <1>4, UnderSelf DEF Item
    <3>2. QED
      BY <1>4, <1>9, <3>1 DEF Walk, Apart
  <2>2. \A i, j \in DOMAIN n : i # j => n[i].path # n[j].path
    BY <1>7, <1>8, <2>1 DEF Walk, Apart
  <2>3. \A i, j \in DOMAIN r : i # j => ~Under(r[i].path, r[j].path)
    <3> SUFFICES ASSUME NEW i \in DOMAIN r, NEW j \in DOMAIN r, i # j
                 PROVE  ~Under(r[i].path, r[j].path)
      OBVIOUS
    <3>1. i + 1 # j + 1
      BY <1>4
    <3>2. QED
      BY <1>5, <3>1 DEF Walk, Apart
  <2>4. \A i \in DOMAIN r, j \in DOMAIN n : ~Under(r[i].path, n[j].path)
    <3> SUFFICES ASSUME NEW i \in DOMAIN r, NEW j \in DOMAIN n
                 PROVE  ~Under(r[i].path, n[j].path)
      OBVIOUS
    <3>1. CASE j \in DOMAIN p
      BY <1>5, <1>7, <3>1 DEF Walk, Apart
    <3>2. CASE j = Len(p) + 1
      BY <1>4, <1>5, <1>7, <1>9, <3>2 DEF Walk, Apart
    <3>3. QED
      BY <1>8, <3>1, <3>2
  <2>5. QED
    BY <2>2, <2>3, <2>4 DEF Apart
<1>13. Covered(n, r, q, dev)
  <2> SUFFICES ASSUME NEW f \in q, Kept(f), dev[f] # Absent
               PROVE  \/ \E i \in DOMAIN n : n[i] = Entry(f, dev[f])
                      \/ \E i \in DOMAIN r : Under(r[i].path, f)
    BY DEF Covered
  <2>1. CASE \E i \in DOMAIN p : p[i] = Entry(f, dev[f])
    BY <1>7, <2>1
  <2>2. CASE \E i \in DOMAIN t : Under(t[i].path, f)
    <3>1. PICK i \in DOMAIN t : Under(t[i].path, f)
      BY <2>2
    <3>2. CASE i = 1
      <4>1. e.path = f
        BY <1>1, <1>4, <3>1, <3>2, FileLeaf DEF Path
      <4>2. e.size = dev[f]
        BY <1>4, <1>9, <4>1 DEF Walk, Sized, Right
      <4>3. e = Entry(f, dev[f])
        BY <1>6, <4>1, <4>2 DEF FileItem, Entry
      <4>4. QED
        BY <1>7, <4>3
    <3>3. CASE i # 1
      <4>1. i - 1 \in DOMAIN r /\ r[i - 1] = t[i]
        BY <1>4, <3>3
      <4>2. QED
        BY <3>1, <4>1
    <3>4. QED
      BY <3>2, <3>3
  <2>3. QED
    BY <2>1, <2>2 DEF Walk, Covered
<1>14. QED
  BY <1>1, <1>2, <1>3, <1>7, <1>10, <1>11, <1>12, <1>13 DEF Walk

(* A directory is read: its children kept, files with their sizes, take    *)
(* its place.                                                              *)
Lists(n, d, dev) ==
  /\ \A i \in DOMAIN n : /\ n[i].path \in Path \ {<<>>} /\ Front(n[i].path) = d /\ Kept(n[i].path)
                         /\ n[i].path \in File => n[i].size = dev[n[i].path] /\ n[i].size # Absent
  /\ \A i, j \in DOMAIN n : i # j => n[i].path # n[j].path
  /\ \A c \in Path \ {<<>>} : Front(c) = d /\ Kept(c) /\ (c \in File => dev[c] # Absent)
       => \E i \in DOMAIN n : n[i].path = c

LEMMA ListingLists ==
  ASSUME NEW d, NEW n \in Listing(d), device \in [File -> Nat]
  PROVE  n \in Seq(Item) /\ Lists(n, d, device)
<1> DEFINE here == {p \in Path \ {<<>>} : Front(p) = d /\ Kept(p) /\ (p \in File => device[p] # Absent)}
           size(p) == IF p \in File THEN device[p] ELSE 0
<1>1. IsFiniteSet(here)
  BY MirrorAssumption, FS_Subset DEF Path
<1>2. PICK s \in SetToSeqs(here) : n = [i \in DOMAIN s |-> Entry(s[i], size(s[i]))]
  BY DEF Listing, Path
<1>3. PICK m \in Nat : m = Cardinality(here)
  BY <1>1, FS_CardinalityType
<1>4. s \in [1..m -> here] /\ \A i, j \in 1..m : i # j => s[i] # s[j]
  BY <1>2, <1>3 DEF SetToSeqs
<1>5. \A c \in here : \E i \in 1..m : s[i] = c
  <2>1. s \in Injection(1..m, here)
    BY <1>4 DEF Injection, IsInjective
  <2>2. IsFiniteSet(1..m) /\ Cardinality(1..m) = m
    <3>1. 1 \in Int /\ m \in Int
      OBVIOUS
    <3>2. QED
      BY <1>3, <3>1, FS_Interval
  <2> HIDE DEF here
  <2>3. s \in Surjection(1..m, here)
    BY <1>1, <1>3, <2>1, <2>2, FS_Injection
  <2>4. QED
    BY <2>3 DEF Surjection
<1>6. DOMAIN n = 1..m /\ \A i \in 1..m : n[i].path = s[i] /\ n[i].size = size(s[i]) /\ n[i] \in Item
  <2>1. \A c \in here : size(c) \in Nat
    OBVIOUS
  <2>2. DOMAIN n = 1..m /\ \A i \in 1..m : n[i] = Entry(s[i], size(s[i])) /\ s[i] \in here
    BY <1>2, <1>4
  <2> HIDE DEF size
  <2>3. \A c \in here : Entry(c, size(c)) \in Item /\ Entry(c, size(c)).path = c /\ Entry(c, size(c)).size = size(c)
    BY <2>1 DEF Entry, Item
  <2> HIDE DEF here
  <2>4. QED
    BY <2>2, <2>3
<1>7. n \in Seq(Item)
  <2>1. n \in [1..m -> Item]
    BY <1>2, <1>4, <1>6
  <2>2. QED
    BY <2>1
<1>8. Lists(n, d, device)
  <2>1. ASSUME NEW i \in DOMAIN n
        PROVE  /\ n[i].path \in Path \ {<<>>} /\ Front(n[i].path) = d /\ Kept(n[i].path)
               /\ n[i].path \in File => n[i].size = device[n[i].path] /\ n[i].size # Absent
    <3>1. n[i].path = s[i] /\ n[i].size = size(s[i]) /\ s[i] \in here
      BY <1>4, <1>6
    <3>2. QED
      BY <3>1
  <2>2. \A i, j \in DOMAIN n : i # j => n[i].path # n[j].path
    BY <1>4, <1>6
  <2>3. ASSUME NEW c \in Path \ {<<>>}, Front(c) = d, Kept(c), c \in File => device[c] # Absent
        PROVE  \E i \in DOMAIN n : n[i].path = c
    <3>1. c \in here
      BY <2>3
    <3>2. QED
      BY <1>5, <1>6, <3>1
  <2>4. QED
    BY <2>1, <2>2, <2>3 DEF Lists
<1>9. QED
  BY <1>7, <1>8

(* In the sequence that results every entry is a new one or an old one.    *)
LEMMA WalkReads ==
  ASSUME NEW p \in Seq(FileItem), NEW t \in Seq(Item), t # <<>>, Head(t).path \in Dir,
         NEW n \in Seq(Item), NEW q \in SUBSET File, NEW dev,
         Lists(n, Head(t).path, dev), Walk(p, t, q, dev)
  PROVE  Walk(p, n \o Tail(t), q, dev) /\ n \o Tail(t) \in Seq(Item)
<1>1. PICK d : d = Head(t).path
  OBVIOUS
<1>2. PICK r : r = Tail(t)
  OBVIOUS
<1>3. PICK u : u = n \o r
  OBVIOUS
<1>4. /\ Len(t) \in Nat \ {0} /\ DOMAIN t = 1..Len(t) /\ d = t[1].path /\ r \in Seq(Item)
      /\ Len(r) = Len(t) - 1 /\ DOMAIN r = 1..(Len(t) - 1) /\ \A i \in DOMAIN r : r[i] = t[i + 1]
  BY <1>1, <1>2, TailOf
<1>5. /\ Len(n) \in Nat /\ DOMAIN n = 1..Len(n) /\ u \in Seq(Item) /\ DOMAIN u = 1..(Len(n) + Len(r))
      /\ \A i \in 1..Len(n) : u[i] = n[i]
      /\ \A i \in (Len(n) + 1)..(Len(n) + Len(r)) : u[i] = r[i - Len(n)]
      /\ \A i \in 1..Len(r) : u[Len(n) + i] = r[i]
  <2>1. Len(n) \in Nat /\ DOMAIN n = 1..Len(n)
    OBVIOUS
  <2>2. r \in Seq(Item)
    BY <1>4
  <2>3. /\ n \o r \in Seq(Item) /\ DOMAIN (n \o r) = 1..(Len(n) + Len(r))
        /\ \A i \in 1..Len(n) : (n \o r)[i] = n[i]
        /\ \A i \in 1..Len(r) : (n \o r)[Len(n) + i] = r[i]
        /\ \A i \in (Len(n) + 1)..(Len(n) + Len(r)) : (n \o r)[i] = r[i - Len(n)]
    BY <2>2, CatOf, Zenon
  <2>4. QED
    BY <1>3, <2>1, <2>3, Zenon
<1> DEFINE Old(i) == i - Len(n) + 1
<1>6. ASSUME NEW i \in DOMAIN u
      PROVE  \/ i \in DOMAIN n /\ u[i] = n[i]
             \/ i \notin DOMAIN n /\ Old(i) \in DOMAIN t /\ Old(i) # 1 /\ u[i] = t[Old(i)]
  <2>1. CASE i <= Len(n)
    BY <1>5, <2>1
  <2>2. CASE i > Len(n)
    <3>1. i - Len(n) \in DOMAIN r /\ i \in (Len(n) + 1)..(Len(n) + Len(r))
      BY <1>4, <1>5, <2>2
    <3>2. QED
      BY <1>4, <1>5, <3>1
  <2>3. QED
    BY <1>5, <2>1, <2>2
<1>7. \A i, j \in DOMAIN u : i # j => Old(i) # Old(j)
  BY <1>5
<1>8. \A k \in DOMAIN t : k # 1 => \E i \in DOMAIN u : u[i] = t[k]
  <2> SUFFICES ASSUME NEW k \in DOMAIN t, k # 1
               PROVE  \E i \in DOMAIN u : u[i] = t[k]
    OBVIOUS
  <2>1. \A len \in Nat : k \in 1..len => k - 1 \in 1..(len - 1) /\ (k - 1) + 1 = k
    OBVIOUS
  <2>2. PICK m \in 1..Len(r) : m \in DOMAIN r /\ m + 1 = k
    BY <1>4, <2>1, Zenon
  <2>3. Len(n) + m \in DOMAIN u
    BY <1>4, <1>5, <2>2
  <2>4. u[Len(n) + m] = r[m]
    BY <1>5, <2>2
  <2>5. r[m] = t[k]
    BY <1>4, <2>2, Zenon
  <2>6. QED
    BY <2>3, <2>4, <2>5, Zenon
<1>9. \A i \in DOMAIN n : \E k \in DOMAIN u : u[k] = n[i]
  BY <1>4, <1>5
<1> HIDE DEF Old
<1>10. 1 \in DOMAIN t /\ d \in Path /\ d \in Dir
  BY <1>1, <1>4 DEF Path
<1>11. /\ \A i \in DOMAIN t : t[i].path \in Path
       /\ \A i \in DOMAIN p : p[i].path \in Path
  <2>1. \A i \in DOMAIN t : t[i] \in Item
    OBVIOUS
  <2>2. \A i \in DOMAIN p : p[i] \in FileItem
    OBVIOUS
  <2>3. QED
    BY <2>1, <2>2 DEF Item, FileItem, Path
<1>12. Lists(n, d, dev)
  BY <1>1
<1>13. Clean(p, u)
  BY <1>6, <1>12 DEF Walk, Clean, Lists
<1>14. Sized(p, u, q, dev)
  <2>1. \A i \in DOMAIN n : Right(n[i], q, dev)
    BY <1>12 DEF Lists, Right
  <2>2. \A i \in DOMAIN u : Right(u[i], q, dev)
    BY <1>6, <2>1 DEF Walk, Sized
  <2>3. QED
    BY <2>2 DEF Walk, Sized
<1>15. ASSUME NEW i \in DOMAIN n, NEW c \in Path, ~Under(d, c)
       PROVE  ~Under(n[i].path, c)
  BY <1>12, <1>15, ChildUnder DEF Lists
<1>16. ASSUME NEW i \in DOMAIN n, NEW k \in DOMAIN t, k # 1
       PROVE  ~Under(n[i].path, t[k].path) /\ ~Under(t[k].path, n[i].path)
  <2>1. ~Under(d, t[k].path) /\ ~Under(t[k].path, d)
    BY <1>4, <1>10, <1>16 DEF Walk, Apart
  <2>2. ~Under(n[i].path, t[k].path)
    BY <1>11, <1>15, <2>1
  <2>3. n[i].path \in Path \ {<<>>} /\ Front(n[i].path) = d /\ t[k].path \in Path
    BY <1>11, <1>12 DEF Lists
  <2>4. t[k].path # n[i].path
    BY <2>2, <2>3, UnderSelf
  <2>5. QED
    BY <2>1, <2>2, <2>3, <2>4, ChildUnder
<1>17. Apart(p, u)
  <2>1. ASSUME NEW i \in DOMAIN u, NEW j \in DOMAIN u, i # j
        PROVE  ~Under(u[i].path, u[j].path)
    <3>1. CASE i \in DOMAIN n /\ u[i] = n[i] /\ j \in DOMAIN n /\ u[j] = n[j]
      BY <1>12, <2>1, <3>1, Siblings DEF Lists
    <3>2. CASE i \in DOMAIN n /\ u[i] = n[i] /\ Old(j) \in DOMAIN t /\ Old(j) # 1 /\ u[j] = t[Old(j)]
      BY <1>16, <3>2
    <3>3. CASE j \in DOMAIN n /\ u[j] = n[j] /\ Old(i) \in DOMAIN t /\ Old(i) # 1 /\ u[i] = t[Old(i)]
      BY <1>16, <3>3
    <3>4. CASE /\ Old(i) \in DOMAIN t /\ Old(i) # 1 /\ u[i] = t[Old(i)]
               /\ Old(j) \in DOMAIN t /\ Old(j) # 1 /\ u[j] = t[Old(j)]
      BY <1>7, <2>1, <3>4 DEF Walk, Apart
    <3>5. QED
      BY <1>6, <3>1, <3>2, <3>3, <3>4
  <2>2. ASSUME NEW i \in DOMAIN u, NEW j \in DOMAIN p
        PROVE  ~Under(u[i].path, p[j].path)
    <3>1. CASE i \in DOMAIN n /\ u[i] = n[i]
      <4>1. ~Under(d, p[j].path)
        BY <1>4, <1>10 DEF Walk, Apart
      <4>2. QED
        BY <1>11, <1>15, <3>1, <4>1
    <3>2. CASE Old(i) \in DOMAIN t /\ u[i] = t[Old(i)]
      BY <3>2 DEF Walk, Apart
    <3>3. QED
      BY <1>6, <3>1, <3>2
  <2>3. QED
    BY <2>1, <2>2 DEF Walk, Apart
<1>18. Covered(p, u, q, dev)
  <2> SUFFICES ASSUME NEW f \in q, Kept(f), dev[f] # Absent
               PROVE  \/ \E i \in DOMAIN p : p[i] = Entry(f, dev[f])
                      \/ \E i \in DOMAIN u : Under(u[i].path, f)
    BY DEF Covered
  <2>1. CASE \E i \in DOMAIN p : p[i] = Entry(f, dev[f])
    BY <2>1
  <2>2. CASE \E i \in DOMAIN t : Under(t[i].path, f)
    <3>1. PICK k \in DOMAIN t : Under(t[k].path, f)
      BY <2>2
    <3>2. CASE k = 1
      <4>1. PICK c \in Path \ {<<>>} : /\ Front(c) = d /\ Under(c, f) /\ c[1] = f[1]
                                       /\ c \in File => c = f
        BY <1>4, <1>10, <3>1, <3>2, ChildOver
      <4>2. Kept(c) /\ (c \in File => dev[c] # Absent)
        <5>1. f # <<>> /\ f \in File
          BY MirrorAssumption
        <5>2. QED
          BY <4>1, <5>1 DEF Kept, InScope
      <4>3. PICK i \in DOMAIN n : n[i].path = c
        BY <1>12, <4>1, <4>2 DEF Lists
      <4>4. QED
        BY <1>9, <4>1, <4>3
    <3>3. CASE k # 1
      BY <1>8, <3>1, <3>3
    <3>4. QED
      BY <3>2, <3>3
  <2>3. QED
    BY <2>1, <2>2 DEF Walk, Covered
<1>19. QED
  BY <1>2, <1>3, <1>5, <1>13, <1>14, <1>17, <1>18 DEF Walk

(* A file is written: the walk has one file less to be right about.        *)
LEMMA WalkRewritten ==
  ASSUME NEW p \in Seq(FileItem), NEW t \in Seq(Item), NEW q \in SUBSET File,
         NEW f \in File, NEW s \in Nat, NEW dev \in [File -> Nat], Walk(p, t, q, dev)
  PROVE  Walk(p, t, q \ {f}, [dev EXCEPT ![f] = s])
<1>1. PICK b : b = [dev EXCEPT ![f] = s]
  OBVIOUS
<1>2. \A g \in q \ {f} : b[g] = dev[g]
  BY <1>1
<1>3. Sized(p, t, q \ {f}, b)
  BY <1>2 DEF Walk, Sized, Right
<1>4. Covered(p, t, q \ {f}, b)
  BY <1>2 DEF Walk, Covered
<1>5. QED
  BY <1>1, <1>3, <1>4 DEF Walk

-----------------------------------------------------------------------------
(* The steps of the program.                                               *)

LEMMA InitInv == Init => Inv
<1> SUFFICES ASSUME Init
             PROVE  Inv
  OBVIOUS
<1> USE DEF Init
<1>1. Size \cup {Absent} \subseteq Nat /\ Absent \in Nat
  BY MirrorAssumption DEF Absent
<1>2. <<>> \in Seq(Item) /\ <<>> \in Seq(FileItem)
  OBVIOUS
<1>3. /\ pc \in {"enum", "connect"} /\ todo = <<>> /\ pass = <<>> /\ opened = Absent /\ quiet = File
      /\ versions = [f \in File |-> 1] /\ fetches = [f \in File |-> 0]
      /\ local \in [File -> Nat] /\ device \in [File -> Nat]
  BY <1>1
<1>4. TypeInv
  BY <1>1, <1>2, <1>3 DEF TypeInv
<1>5. WalkInv /\ PassInv
  BY <1>3 DEF WalkInv, PassInv
<1>6. OnceInv
  BY <1>3 DEF OnceInv, FileInv, Fetching
<1>7. QED
  BY <1>4, <1>5, <1>6 DEF Inv

(* A step that ends a walk, or is outside one.                             *)
LEMMA RestStep ==
  ASSUME TypeInv, OnceInv, pc' \in {"connect", "enum", "wedged", "exit"}, todo' \in {todo, <<>>},
         pass' \in {pass, <<>>}, opened' \in {opened, Absent},
         UNCHANGED <<local, device, quiet, versions, fetches>>
  PROVE  Inv'
<1>1. <<>> \in Seq(Item) /\ <<>> \in Seq(FileItem) /\ Absent \in Nat
  BY DEF Absent
<1>2. TypeInv'
  BY <1>1 DEF TypeInv
<1>3. OnceInv'
  BY DEF OnceInv, FileInv, Fetching
<1>4. QED
  BY <1>2, <1>3 DEF Inv, WalkInv, PassInv

LEMMA StartStep ==
  ASSUME TypeInv, OnceInv, NEW l \in {"walk", "enumWalk"}, WalkFrom(l), pass' = <<>>,
         UNCHANGED <<opened, local, device, versions, fetches>>
  PROVE  Inv'
<1>1. pc' = l /\ todo' = <<Entry(<<>>, 0)>> /\ quiet' = File /\ Due' = todo'
  BY DEF WalkFrom, Due
<1>2. todo' \in Seq(Item) /\ Walk(pass', Due', quiet', device')
  BY <1>1, WalkStarts
<1>3. <<>> \in Seq(FileItem)
  OBVIOUS
<1>4. TypeInv'
  BY <1>1, <1>2, <1>3 DEF TypeInv
<1>5. DOMAIN pass' = {}
  OBVIOUS
<1>6. \A i \in DOMAIN todo' : todo'[i].path \notin File
  BY <1>1, MirrorAssumption DEF Entry
<1>7. OnceInv'
  BY <1>1, <1>6 DEF OnceInv, FileInv, Fetching
<1>8. QED
  BY <1>2, <1>4, <1>5, <1>7 DEF Inv, WalkInv, PassInv

LEMMA ReadStep ==
  ASSUME Inv, pc \in {"walk", "enumWalk"}, ReadsDir,
         UNCHANGED <<pc, pass, got, opened, failCount, local, device, quiet, versions, fetches>>
  PROVE  Inv'
<1> USE DEF Inv
<1>1. PICK n \in Listing(Head(todo).path) : todo' = n \o Tail(todo)
  BY DEF ReadsDir
<1>2. /\ todo # <<>> /\ Head(todo).path \in Dir /\ Due = todo /\ Due' = todo'
      /\ pass \in Seq(FileItem) /\ todo \in Seq(Item) /\ quiet \in SUBSET File /\ device \in [File -> Nat]
  BY DEF ReadsDir, AtDir, Due, TypeInv
<1>3. n \in Seq(Item) /\ Lists(n, Head(todo).path, device)
  BY <1>2, ListingLists
<1>4. Walk(pass, todo, quiet, device)
  BY <1>2 DEF WalkInv
<1>5. Walk(pass', Due', quiet', device') /\ todo' \in Seq(Item)
  BY <1>1, <1>2, <1>3, <1>4, WalkReads
<1>6. TypeInv' /\ WalkInv'
  BY <1>5 DEF TypeInv, WalkInv
<1>7. PassInv'
  BY DEF PassInv, Present, GivenUp
<1>8. ASSUME NEW i \in DOMAIN todo'
      PROVE  (\E k \in DOMAIN n : todo'[i] = n[k]) \/ (\E k \in DOMAIN todo : todo'[i] = todo[k])
  <2>1. PICK r : r = Tail(todo)
    OBVIOUS
  <2>2. PICK u : u = n \o r
    OBVIOUS
  <2>3. /\ r \in Seq(Item) /\ Len(todo) \in Nat \ {0} /\ Len(r) = Len(todo) - 1 /\ DOMAIN todo = 1..Len(todo)
        /\ \A k \in 1..(Len(todo) - 1) : r[k] = todo[k + 1]
    BY <1>2, <2>1, TailOf
  <2>4. /\ DOMAIN u = 1..(Len(n) + Len(r))
        /\ \A k \in 1..Len(n) : u[k] = n[k]
        /\ \A k \in (Len(n) + 1)..(Len(n) + Len(r)) : u[k] = r[k - Len(n)]
    <3>1. n \in Seq(Item) /\ r \in Seq(Item)
      BY <1>3, <2>3
    <3>2. /\ DOMAIN (n \o r) = 1..(Len(n) + Len(r))
          /\ \A k \in 1..Len(n) : (n \o r)[k] = n[k]
          /\ \A k \in (Len(n) + 1)..(Len(n) + Len(r)) : (n \o r)[k] = r[k - Len(n)]
      BY <3>1, CatOf, Zenon
    <3>3. QED
      BY <2>2, <3>2, Zenon
  <2>5. Len(n) \in Nat /\ DOMAIN n = 1..Len(n) /\ i \in DOMAIN u /\ todo'[i] = u[i]
    BY <1>1, <1>3, <2>1, <2>2
  <2>6. CASE i <= Len(n)
    BY <2>4, <2>5, <2>6
  <2>7. CASE i > Len(n)
    <3>1. i \in (Len(n) + 1)..(Len(n) + Len(r))
      BY <2>3, <2>4, <2>5, <2>7
    <3>2. PICK k \in 1..(Len(todo) - 1) : k = i - Len(n)
      BY <2>3, <2>5, <3>1
    <3>3. u[i] = r[k] /\ r[k] = todo[k + 1]
      BY <2>3, <2>4, <3>1, <3>2
    <3>4. k + 1 \in DOMAIN todo
      BY <2>3, <3>2
    <3>5. QED
      BY <2>5, <3>3, <3>4
  <2>8. QED
    BY <2>3, <2>4, <2>5, <2>6, <2>7
<1>9. OnceInv'
  <2> SUFFICES ASSUME NEW f \in File
               PROVE  FileInv(f)'
    BY DEF OnceInv
  <2>1. FileInv(f)
    BY DEF OnceInv
  <2>2. ASSUME fetches[f] = versions[f], NEW i \in DOMAIN todo', todo'[i].path = f
        PROVE  todo'[i].size = local[f]
    <3>1. CASE \E k \in DOMAIN n : todo'[i] = n[k]
      BY <1>3, <2>1, <2>2, <3>1 DEF Lists, FileInv
    <3>2. CASE \E k \in DOMAIN todo : todo'[i] = todo[k]
      BY <2>1, <2>2, <3>2 DEF FileInv
    <3>3. QED
      BY <1>8, <3>1, <3>2
  <2>3. ~Fetching(f)'
    BY DEF Fetching
  <2>4. QED
    BY <2>1, <2>2, <2>3 DEF FileInv
<1>10. QED
  BY <1>6, <1>7, <1>9

(* A file is noted, and nothing else is done about it.                     *)
LEMMA NoteStep ==
  ASSUME Inv, WalkPasses \/ EnumFile
  PROVE  Inv'
<1> USE DEF Inv, walking, history, bounds
<1>1. /\ pc \in {"walk", "enumWalk"} /\ AtFile /\ pass' = Append(pass, Head(todo)) /\ todo' = Tail(todo)
      /\ UNCHANGED <<pc, got, opened, failCount, local, device, quiet, versions, fetches>>
  BY DEF WalkPasses, EnumFile
<1>2. /\ todo # <<>> /\ Head(todo).path \in File /\ Due = todo /\ Due' = todo'
      /\ pass \in Seq(FileItem) /\ todo \in Seq(Item) /\ quiet \in SUBSET File
  BY <1>1 DEF AtFile, Due, TypeInv
<1>3. Walk(pass, todo, quiet, device)
  BY <1>1, <1>2 DEF WalkInv
<1>4. Walk(pass', Due', quiet', device') /\ pass' \in Seq(FileItem)
  BY <1>1, <1>2, <1>3, WalkNotes
<1>5. /\ Len(todo) \in Nat \ {0} /\ DOMAIN todo = 1..Len(todo) /\ Head(todo) = todo[1] /\ todo[1] \in Item
      /\ todo' \in Seq(Item) /\ DOMAIN todo' = 1..(Len(todo) - 1)
      /\ \A i \in 1..(Len(todo) - 1) : todo'[i] = todo[i + 1]
  BY <1>1, <1>2, TailOf
<1>6. TypeInv' /\ WalkInv'
  BY <1>1, <1>4, <1>5 DEF TypeInv, WalkInv
<1>7. PassInv'
  <2> SUFFICES ASSUME pc = "walk", ~got, NEW i \in DOMAIN pass'
               PROVE  (Present(pass[i]) \/ GivenUp(pass[i]))'
    BY <1>1 DEF PassInv
  <2>1. Present(Head(todo)) \/ GivenUp(Head(todo))
    BY DEF WalkPasses, EnumFile
  <2>2. Head(todo) \in FileItem
    BY <1>2, <1>5 DEF Item, FileItem
  <2>3. pass'[i] = Head(todo) \/ (i \in DOMAIN pass /\ pass'[i] = pass[i])
    BY <1>1, <1>2, <2>2, AppendOf
  <2>4. Present(pass'[i]) \/ GivenUp(pass'[i])
    BY <2>1, <2>3 DEF PassInv
  <2>5. QED
    BY <1>1, <2>4 DEF Present, GivenUp
<1>8. \A i \in DOMAIN todo' : \E k \in DOMAIN todo : todo'[i] = todo[k]
  BY <1>5
<1>9. OnceInv'
  BY <1>1, <1>8 DEF OnceInv, FileInv, Fetching
<1>10. QED
  BY <1>6, <1>7, <1>9

(* A file is opened: a version of it is left to fetch, because the size    *)
(* listed is not the archive's.                                            *)
LEMMA OpenStep ==
  ASSUME Inv, WalkFetches
  PROVE  Inv'
<1> USE DEF Inv, history, bounds
<1>1. PICK e : e = Head(todo)
  OBVIOUS
<1>2. /\ pc = "walk" /\ AtFile /\ ~Present(e) /\ pass' = Append(pass, e) /\ opened' = device[e.path]
      /\ pc' = "fetch" /\ UNCHANGED <<todo, got, failCount, local, device, quiet, versions, fetches>>
  BY <1>1 DEF WalkFetches
<1>3. /\ todo # <<>> /\ e.path \in File /\ Due = todo /\ Due' = Tail(todo)
      /\ pass \in Seq(FileItem) /\ todo \in Seq(Item) /\ quiet \in SUBSET File
  BY <1>1, <1>2 DEF AtFile, Due, TypeInv
<1>4. Walk(pass, todo, quiet, device)
  BY <1>2, <1>3 DEF WalkInv
<1>5. Walk(pass', Due', quiet', device') /\ pass' \in Seq(FileItem)
  BY <1>1, <1>2, <1>3, <1>4, WalkNotes
<1>6. TypeInv'
  <2>1. pass' # <<>> /\ pass'[Len(pass')] = e
    <3>1. e \in Item
      BY <1>1, <1>3, TailOf
    <3>2. e \in FileItem
      BY <1>3, <3>1 DEF Item, FileItem
    <3>3. QED
      BY <1>2, <1>3, <3>2
  <2>2. device[e.path] \in Nat
    BY <1>3 DEF TypeInv
  <2>3. QED
    BY <1>1, <1>2, <1>3, <1>5, <2>1, <2>2 DEF TypeInv
<1>7. WalkInv' /\ PassInv'
  BY <1>2, <1>5 DEF WalkInv, PassInv
<1>8. 1 \in DOMAIN todo /\ e = todo[1]
  BY <1>1, <1>3, TailOf
<1>9. OnceInv'
  <2> SUFFICES ASSUME NEW f \in File
               PROVE  FileInv(f)'
    BY DEF OnceInv
  <2>1. FileInv(f)
    BY DEF OnceInv
  <2>2. CASE f = e.path
    <3>1. fetches[f] # versions[f]
      BY <1>2, <1>8, <2>1, <2>2 DEF FileInv, Present
    <3>2. QED
      BY <1>2, <2>1, <2>2, <3>1 DEF FileInv
  <2>3. CASE f # e.path
    <3>1. ~Fetching(f)'
      BY <1>1, <1>2, <2>3 DEF Fetching
    <3>2. QED
      BY <1>2, <2>1, <3>1 DEF FileInv
  <2>4. QED
    BY <2>2, <2>3
<1>10. QED
  BY <1>6, <1>7, <1>9

(* The file opened comes into place: a version has been fetched, and the   *)
(* archive has the latest unless the telescope has written another since.  *)
LEMMA InPlaceStep ==
  ASSUME TypeInv, OnceInv, pc = "fetch", InPlace(Head(todo).path), UNCHANGED <<device, versions>>
  PROVE  /\ local' \in [File -> Nat] /\ fetches' \in [File -> Nat]
         /\ \A f \in File : fetches'[f] <= versions[f]
         /\ \A f \in File : fetches'[f] = versions[f] => local'[f] = device[f]
         /\ \A f \in File \ {Head(todo).path} : local'[f] = local[f] /\ fetches'[f] = fetches[f]
<1>1. PICK h \in File : h = Head(todo).path
  BY DEF TypeInv
<1>2. /\ local' = [local EXCEPT ![h] = opened] /\ fetches' = [fetches EXCEPT ![h] = @ + 1]
      /\ local \in [File -> Nat] /\ fetches \in [File -> Nat] /\ versions \in [File -> Nat] /\ opened \in Nat
  BY <1>1 DEF InPlace, TypeInv
<1>3. fetches[h] \in Nat /\ fetches[h] + 1 \in Nat /\ versions[h] \in Nat
  BY <1>2
<1>4. /\ local' \in [File -> Nat] /\ fetches' \in [File -> Nat]
      /\ local'[h] = opened /\ fetches'[h] = fetches[h] + 1
      /\ \A f \in File \ {h} : local'[f] = local[f] /\ fetches'[f] = fetches[f]
  BY <1>2, <1>3
<1>5. Fetching(h) /\ FileInv(h)
  BY <1>1 DEF Fetching, OnceInv
<1>6. fetches[h] + 1 <= versions[h] /\ (fetches[h] + 1 = versions[h] => opened = device[h])
  BY <1>3, <1>5 DEF FileInv
<1>7. \A f \in File \ {h} : fetches[f] <= versions[f] /\ (fetches[f] = versions[f] => local[f] = device[f])
  BY DEF OnceInv, FileInv
<1>8. QED
  BY <1>1, <1>4, <1>6, <1>7

LEMMA FetchOkStep ==
  ASSUME Inv, FetchOk
  PROVE  Inv'
<1> USE DEF Inv, bounds
<1>1. /\ pc = "fetch" /\ InPlace(Head(todo).path) /\ pc' = "walk" /\ todo' = Tail(todo)
      /\ got' = TRUE /\ opened' = Absent /\ UNCHANGED <<pass, failCount, device, quiet, versions>>
  BY DEF FetchOk
<1>2. got'
  BY <1>1, Zenon
<1>3. PICK h \in File : h = Head(todo).path
  BY <1>1 DEF TypeInv
<1>4. /\ local' \in [File -> Nat] /\ fetches' \in [File -> Nat]
      /\ \A f \in File : fetches'[f] <= versions[f]
      /\ \A f \in File : fetches'[f] = versions[f] => local'[f] = device[f]
      /\ \A f \in File \ {h} : local'[f] = local[f] /\ fetches'[f] = fetches[f]
  BY <1>1, <1>3, InPlaceStep
<1>5. /\ Len(todo) \in Nat \ {0} /\ DOMAIN todo = 1..Len(todo) /\ Head(todo) = todo[1]
      /\ todo' \in Seq(Item) /\ DOMAIN todo' = 1..(Len(todo) - 1)
      /\ \A i \in 1..(Len(todo) - 1) : todo'[i] = todo[i + 1]
  BY <1>1, TailOf DEF TypeInv
<1>6. Due = todo' /\ Due' = todo'
  BY <1>1 DEF Due
<1>7. WalkInv' /\ PassInv'
  BY <1>1, <1>2, <1>6 DEF WalkInv, PassInv
<1>8. TypeInv'
  BY <1>1, <1>4, <1>5 DEF TypeInv, Absent
<1>9. \A i \in DOMAIN todo' : todo'[i].path # h
  <2> SUFFICES ASSUME NEW i \in DOMAIN todo', todo'[i].path = h
               PROVE  FALSE
    OBVIOUS
  <2>1. Apart(pass, todo') /\ pass # <<>> /\ pass[Len(pass)].path = h
    BY <1>1, <1>3, <1>6 DEF WalkInv, Walk, TypeInv
  <2>2. Len(pass) \in DOMAIN pass
    BY <2>1 DEF TypeInv
  <2>3. Under(h, h)
    BY UnderSelf DEF Path
  <2>4. QED
    BY <2>1, <2>2, <2>3 DEF Apart
<1>10. OnceInv'
  <2> SUFFICES ASSUME NEW f \in File
               PROVE  FileInv(f)'
    BY DEF OnceInv
  <2>1. ~Fetching(f)'
    BY <1>1 DEF Fetching
  <2>2. ASSUME fetches'[f] = versions[f], NEW i \in DOMAIN todo', todo'[i].path = f
        PROVE  todo'[i].size = local'[f]
    <3>1. f # h
      BY <1>9, <2>2
    <3>2. fetches[f] = versions[f] /\ local'[f] = local[f]
      BY <1>4, <2>2, <3>1
    <3>3. PICK k \in DOMAIN todo : todo'[i] = todo[k]
      BY <1>5
    <3>4. QED
      BY <2>2, <3>2, <3>3 DEF OnceInv, FileInv
  <2>3. QED
    BY <1>1, <1>4, <2>1, <2>2 DEF FileInv
<1>11. QED
  BY <1>7, <1>8, <1>10

LEMMA FetchFailsStep ==
  ASSUME Inv, FetchFails
  PROVE  Inv'
<1> USE DEF Inv, bounds
<1>1. /\ pc = "fetch" /\ (InPlace(Head(todo).path) \/ UNCHANGED <<local, fetches>>)
      /\ pc' = "connect" /\ todo' = <<>> /\ opened' = Absent /\ UNCHANGED <<pass, device, quiet, versions>>
  BY DEF FetchFails
<1>2. /\ local' \in [File -> Nat] /\ fetches' \in [File -> Nat]
      /\ \A f \in File : fetches'[f] <= versions[f]
      /\ \A f \in File : fetches'[f] = versions[f] => local'[f] = device[f]
  <2>1. CASE InPlace(Head(todo).path)
    BY <1>1, <2>1, InPlaceStep
  <2>2. CASE UNCHANGED <<local, fetches>>
    BY <2>2 DEF TypeInv, OnceInv, FileInv
  <2>3. QED
    BY <1>1, <2>1, <2>2
<1>3. <<>> \in Seq(Item) /\ Absent \in Nat /\ DOMAIN todo' = {}
  BY <1>1 DEF Absent
<1>4. TypeInv'
  BY <1>1, <1>2, <1>3 DEF TypeInv
<1>5. OnceInv'
  BY <1>1, <1>2, <1>3 DEF OnceInv, FileInv, Fetching
<1>6. QED
  BY <1>1, <1>4, <1>5 DEF WalkInv, PassInv

(* The telescope writes a file: there is a version more.                   *)
LEMMA RewriteStep ==
  ASSUME Inv, Rewrite
  PROVE  Inv'
<1> USE DEF Inv, walking
<1>1. PICK f \in File, s \in Size \cup {Absent} :
        /\ device' = [device EXCEPT ![f] = s] /\ quiet' = quiet \ {f}
        /\ versions' = [versions EXCEPT ![f] = @ + 1]
  BY DEF Rewrite
<1>2. UNCHANGED <<pc, todo, pass, got, opened, failCount, local, fetches>>
  BY DEF Rewrite
<1>3. /\ device \in [File -> Nat] /\ versions \in [File -> Nat] /\ fetches \in [File -> Nat]
      /\ pass \in Seq(FileItem) /\ todo \in Seq(Item) /\ quiet \in SUBSET File
  BY DEF TypeInv
<1>4. s \in Nat /\ versions[f] \in Nat /\ versions[f] + 1 \in Nat /\ fetches[f] \in Nat
  BY <1>3, MirrorAssumption DEF Absent
<1>5. /\ device' \in [File -> Nat] /\ versions' \in [File -> Nat] /\ versions'[f] = versions[f] + 1
      /\ \A g \in File \ {f} : device'[g] = device[g] /\ versions'[g] = versions[g]
  BY <1>1, <1>3, <1>4
<1>6. TypeInv'
  BY <1>1, <1>2, <1>5 DEF TypeInv
<1>7. WalkInv'
  <2> SUFFICES ASSUME pc \in {"walk", "fetch", "enumWalk"}
               PROVE  Walk(pass', Due', quiet', device')
    BY <1>2 DEF WalkInv
  <2>1. Due' = Due /\ Due \in Seq(Item)
    BY <1>2, <1>3, TailOf DEF Due, TypeInv
  <2>2. Walk(pass, Due, quiet, device)
    BY DEF WalkInv
  <2>3. Walk(pass, Due, quiet \ {f}, [device EXCEPT ![f] = s])
    BY <1>3, <1>4, <2>1, <2>2, WalkRewritten
  <2>4. QED
    BY <1>1, <1>2, <2>1, <2>3
<1>8. PassInv'
  BY <1>2 DEF PassInv, Present, GivenUp
<1>9. OnceInv'
  <2> SUFFICES ASSUME NEW g \in File
               PROVE  FileInv(g)'
    BY DEF OnceInv
  <2>1. FileInv(g) /\ Fetching(g)' = Fetching(g)
    BY <1>2 DEF OnceInv, Fetching
  <2>2. CASE g = f
    <3>1. fetches'[f] = fetches[f] /\ fetches[f] < versions'[f] /\ (Fetching(f) => fetches[f] + 1 < versions'[f])
      BY <1>2, <1>4, <1>5, <2>1, <2>2 DEF FileInv
    <3>2. fetches'[f] <= versions'[f] /\ fetches'[f] # versions'[f]
      BY <1>4, <1>5, <3>1
    <3>3. QED
      BY <2>1, <2>2, <3>1, <3>2 DEF FileInv
  <2>3. CASE g # f
    <3>1. device'[g] = device[g] /\ versions'[g] = versions[g]
      BY <1>5, <2>3
    <3>2. QED
      BY <1>2, <2>1, <3>1 DEF FileInv
  <2>4. QED
    BY <2>2, <2>3
<1>10. QED
  BY <1>6, <1>7, <1>8, <1>9

LEMMA NextInv == Inv /\ [Next]_vars => Inv'
<1> SUFFICES ASSUME Inv, [Next]_vars
             PROVE  Inv'
  OBVIOUS
<1> USE DEF walking, history, bounds
<1>1. CASE ConnectFails \/ WalkDirFails \/ PassEnds \/ EnumFails \/ EnumWedges \/ EnumExhausted
             \/ ListDone \/ VerifyDone \/ Kill
  <2>1. /\ pc' \in {"connect", "enum", "wedged", "exit"} /\ todo' \in {todo, <<>>}
        /\ pass' \in {pass, <<>>} /\ opened' \in {opened, Absent}
        /\ UNCHANGED <<local, device, quiet, versions, fetches>>
    BY <1>1 DEF ConnectFails, WalkDirFails, PassEnds, PassLabel, EnumFails, EnumWedges, EnumExhausted,
                ListDone, VerifyDone, Kill
  <2>2. QED
    BY <2>1, RestStep DEF Inv
<1>2. CASE Connect \/ EnumConnect
  <2>1. \E l \in {"walk", "enumWalk"} : WalkFrom(l)
    BY <1>2 DEF Connect, EnumConnect
  <2>2. pass' = <<>> /\ UNCHANGED <<opened, local, device, versions, fetches>>
    BY <1>2 DEF Connect, EnumConnect, Restarted
  <2>3. QED
    BY <2>1, <2>2, StartStep DEF Inv
<1>3. CASE WalkDir \/ EnumDir
  <2>1. /\ pc \in {"walk", "enumWalk"} /\ ReadsDir
        /\ UNCHANGED <<pc, pass, got, opened, failCount, local, device, quiet, versions, fetches>>
    BY <1>3 DEF WalkDir, EnumDir
  <2>2. QED
    BY <2>1, ReadStep
<1>4. CASE WalkPasses \/ EnumFile
  BY <1>4, NoteStep
<1>5. CASE WalkFetches
  BY <1>5, OpenStep
<1>6. CASE FetchOk \/ FetchFails
  BY <1>6, FetchOkStep, FetchFailsStep
<1>7. CASE Rewrite
  BY <1>7, RewriteStep
<1>8. CASE UNCHANGED vars
  BY <1>8 DEF vars, Inv, TypeInv, WalkInv, PassInv, OnceInv, FileInv, Fetching, Due, Present, GivenUp
<1>9. QED
  BY <1>1, <1>2, <1>3, <1>4, <1>5, <1>6, <1>7, <1>8 DEF Next, Download

LEMMA ModeNext == ModeInv /\ [Next]_vars => ModeInv'
<1> SUFFICES ASSUME ModeInv, [Next]_vars, listOnly'
             PROVE  pc' \in {"enum", "enumWalk", "wedged", "exit"}
  BY DEF ModeInv
<1>1. listOnly /\ pc \in {"enum", "enumWalk", "wedged", "exit"}
  <2>1. UNCHANGED listOnly
    BY DEF Next, Download, vars, Connect, ConnectFails, WalkDir, WalkDirFails, WalkPasses, WalkFetches,
           FetchOk, FetchFails, PassEnds, EnumConnect, EnumFails, EnumDir, EnumWedges, EnumFile,
           EnumExhausted, ListDone, VerifyDone, Rewrite, Kill
  <2>2. QED
    BY <2>1 DEF ModeInv
<1>2. QED
  BY <1>1 DEF Next, Download, vars, Connect, ConnectFails, WalkDir, WalkDirFails, WalkPasses, WalkFetches,
         FetchOk, FetchFails, PassEnds, EnumConnect, EnumFails, EnumDir, EnumWedges, EnumFile,
         EnumExhausted, ListDone, VerifyDone, Rewrite, Kill, WalkFrom

LEMMA Invariant == Spec => [](Inv /\ ModeInv)
<1>1. Init => ModeInv
  BY DEF Init, ModeInv
<1>2. QED
  BY <1>1, InitInv, NextInv, ModeNext, PTL DEF Spec

-----------------------------------------------------------------------------
(* The theorems.                                                           *)

(* The presence check of streamWalk (main.go:624) makes re-walking         *)
(* idempotent: through any passes, reconnects, restarts and rewrites no    *)
(* content of a file is downloaded twice.                                  *)
THEOREM OncePerVersionAlways == Spec => []OncePerVersion
<1>1. Inv => OncePerVersion
  BY DEF Inv, OnceInv, FileInv, OncePerVersion
<1>2. QED
  BY <1>1, Invariant, PTL

(* A walk with nothing left to do has noted every wanted file the          *)
(* telescope left alone, once, with its size.                              *)
LEMMA WalkOver ==
  ASSUME Inv, pc \in {"walk", "enumWalk"}, todo = <<>>
  PROVE  /\ \A f \in quiet : Wanted(f) /\ device[f] # Absent
              => \E i \in DOMAIN pass : pass[i] = Entry(f, device[f])
         /\ \A i \in DOMAIN pass : pass[i] \in FileItem /\ Wanted(pass[i].path) /\ Right(pass[i], quiet, device)
         /\ \A i, j \in DOMAIN pass : i # j => pass[i].path # pass[j].path
<1>1. Walk(pass, <<>>, quiet, device)
  BY DEF Inv, WalkInv, Due
<1>2. \A i \in DOMAIN pass : pass[i] \in FileItem
  BY DEF Inv, TypeInv
<1>3. quiet \subseteq File /\ \A i \in DOMAIN pass : pass[i].path \in File
  BY <1>2 DEF Inv, TypeInv, FileItem
<1>4. \A f \in quiet : Wanted(f) /\ device[f] # Absent => \E i \in DOMAIN pass : pass[i] = Entry(f, device[f])
  BY <1>1, <1>3, KeptWanted DEF Walk, Covered
<1>5. \A i \in DOMAIN pass : Wanted(pass[i].path) /\ Right(pass[i], quiet, device)
  BY <1>1, <1>3, KeptWanted DEF Walk, Clean, Sized
<1>6. QED
  BY <1>1, <1>2, <1>4, <1>5 DEF Walk, Apart

(* Whatever failed, was written or was restarted on the way, a manifest    *)
(* that main.go writes lists each wanted file of the device once and no    *)
(* other, with its size unless it changed during that very walk.           *)
THEOREM ManifestWholeAlways == Spec => ManifestWhole
<1>1. ASSUME Inv, [Next]_vars, manifest' # manifest
      PROVE  /\ \A f \in quiet : Wanted(f) /\ device[f] # Absent
                  => Cardinality({i \in DOMAIN manifest' : manifest'[i] = Entry(f, device[f])}) = 1
             /\ \A i \in DOMAIN manifest' : Wanted(manifest'[i].path)
             /\ \A i, j \in DOMAIN manifest' : i # j => manifest'[i].path # manifest'[j].path
  <2>1. PassEnds \/ ListDone
    BY <1>1 DEF Next, Download, vars, Connect, ConnectFails, WalkDir, WalkDirFails, WalkPasses, WalkFetches,
                FetchOk, FetchFails, EnumConnect, EnumFails, EnumDir, EnumWedges, EnumFile, EnumExhausted,
                VerifyDone, Rewrite, Kill
  <2>2. manifest' = pass /\ pc \in {"walk", "enumWalk"} /\ todo = <<>>
    BY <2>1 DEF PassEnds, ListDone
  <2>3. ASSUME NEW f \in quiet, Wanted(f), device[f] # Absent
        PROVE  Cardinality({i \in DOMAIN pass : pass[i] = Entry(f, device[f])}) = 1
    <3>1. PICK k \in DOMAIN pass : pass[k] = Entry(f, device[f])
      BY <1>1, <2>2, <2>3, WalkOver
    <3>2. \A i \in DOMAIN pass : pass[i] = Entry(f, device[f]) => i = k
      BY <1>1, <2>2, <3>1, WalkOver
    <3>3. {i \in DOMAIN pass : pass[i] = Entry(f, device[f])} = {k}
      BY <3>1, <3>2
    <3>4. QED
      BY <3>3, FS_Singleton
  <2>4. QED
    BY <1>1, <2>2, <2>3, WalkOver
<1>2. QED
  BY <1>1, Invariant, PTL DEF Spec, ManifestWhole

(* When the loop of main.go ends after a walk that downloaded nothing,     *)
(* every wanted file the telescope left alone is in the archive at its     *)
(* size, or has failed maxFails times.                                     *)
THEOREM NothingLeftAlways == Spec => NothingLeft
<1>1. ASSUME Inv, ModeInv, [Next]_vars, pc = "walk", pc' = "enum"
      PROVE  \A f \in quiet : Wanted(f) /\ device[f] # Absent
                => local[f] = device[f] \/ failCount[f] >= MaxFails
  <2>1. PassEnds
    BY <1>1 DEF ModeInv, Kill, Next, Download, vars, Connect, ConnectFails, WalkDir, WalkDirFails, WalkPasses, WalkFetches,
                FetchOk, FetchFails, EnumConnect, EnumFails, EnumDir, EnumWedges, EnumFile, EnumExhausted,
                ListDone, VerifyDone, Rewrite, WalkFrom
  <2>2. todo = <<>> /\ ~got
    BY <1>1, <2>1 DEF PassEnds, PassLabel
  <2> SUFFICES ASSUME NEW f \in quiet, Wanted(f), device[f] # Absent
               PROVE  local[f] = device[f] \/ failCount[f] >= MaxFails
    OBVIOUS
  <2>3. PICK i \in DOMAIN pass : pass[i] = Entry(f, device[f])
    BY <1>1, <2>2, WalkOver
  <2>4. Present(pass[i]) \/ GivenUp(pass[i])
    BY <1>1, <2>2 DEF Inv, PassInv
  <2>5. QED
    BY <2>3, <2>4 DEF Present, GivenUp, Entry
<1>2. QED
  BY <1>1, Invariant, PTL DEF Spec, NothingLeft

(* The final verdict is right: "VERIFIED COMPLETE" (main.go:697) is said   *)
(* only when every wanted file left alone during the verification is in    *)
(* the archive at its size, and "NOT COMPLETE" only when one is not or     *)
(* some file was being written.                                            *)
THEOREM VerdictTrueAlways == Spec => VerdictTrue
<1> DEFINE ok(f) == Wanted(f) /\ device[f] # Absent => local[f] = device[f]
<1>1. ASSUME Inv, [Next]_vars, verdict' # verdict
      PROVE  /\ verdict' = "complete" => \A f \in quiet : ok(f)
             /\ verdict' = "incomplete" => \E f \in File : f \notin quiet \/ ~ok(f)
  <2>1. EnumExhausted \/ VerifyDone
    BY <1>1 DEF Next, Download, vars, Connect, ConnectFails, WalkDir, WalkDirFails, WalkPasses, WalkFetches,
                FetchOk, FetchFails, PassEnds, EnumConnect, EnumFails, EnumDir, EnumWedges, EnumFile,
                ListDone, Rewrite, Kill
  <2>2. CASE EnumExhausted
    BY <2>2 DEF EnumExhausted
  <2>3. CASE VerifyDone
    <3>1. pc = "enumWalk" /\ todo = <<>> /\ verdict' = IF Accounted THEN "complete" ELSE "incomplete"
      BY <2>3 DEF VerifyDone
    <3>2. ToSet(pass) = {pass[i] : i \in DOMAIN pass}
      BY DEF ToSet
    <3>3. ASSUME Accounted, NEW f \in quiet, Wanted(f), device[f] # Absent
          PROVE  local[f] = device[f]
      <4>1. PICK i \in DOMAIN pass : pass[i] = Entry(f, device[f])
        BY <1>1, <3>1, <3>3, WalkOver
      <4>2. pass[i].path = f /\ pass[i].size = device[f]
        BY <4>1 DEF Entry
      <4>3. pass[i] \notin Missing /\ pass[i] \notin Mismatch
        BY <3>3 DEF Accounted
      <4>4. QED
        BY <3>2, <4>2, <4>3 DEF Missing, Mismatch
    <3>4. ASSUME ~Accounted
          PROVE  \E f \in File : f \notin quiet \/ ~ok(f)
      <4>1. PICK e \in ToSet(pass) : local[e.path] # e.size \/ local[e.path] = Absent
        BY <3>4 DEF Accounted, Missing, Mismatch
      <4>2. e.path \in File /\ Wanted(e.path) /\ Right(e, quiet, device)
        BY <1>1, <3>1, <3>2, WalkOver DEF FileItem
      <4>3. e.path \notin quiet \/ ~ok(e.path)
        BY <4>1, <4>2 DEF Right
      <4>4. QED
        BY <4>2, <4>3
    <3>5. QED
      BY <3>1, <3>3, <3>4
  <2>4. QED
    BY <2>1, <2>2, <2>3
<1>2. QED
  BY <1>1, Invariant, PTL DEF Spec, VerdictTrue
=============================================================================
