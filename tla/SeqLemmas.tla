----------------------------- MODULE SeqLemmas -----------------------------
(***************************************************************************)
(* Induction and sequences.  The library's induction theorems take a       *)
(* predicate as an operator; here a set stands in its place.  With these,  *)
(* what FlattenSeq makes of sequences of every length is proved: the       *)
(* sequences of chunks, frames and messages of GoBackN and StreamPath.     *)
(***************************************************************************)
EXTENDS Integers, Sequences, SequencesExt, FiniteSetTheorems, SequenceTheorems, TLAPS

-----------------------------------------------------------------------------
(* Induction.                                                              *)

(* Every set of naturals that is not empty has a least element: of its     *)
(* initial intervals up to some n, none of which is infinite, one contains *)
(* no other.                                                               *)
LEMMA NatLeast ==
  ASSUME NEW S \in SUBSET Nat, S # {}
  PROVE  \E m \in S : \A k \in S : m <= k
<1>1. PICK n \in S : TRUE
  OBVIOUS
<1> DEFINE I == 0..n
           F == {0..k : k \in {j \in S : j <= n}}
<1>2. IsFiniteSet(I)
  BY FS_Interval
<1>3. F \subseteq FiniteSubsetsOf(I) /\ F # {}
  <2>1. \A k \in S : IsFiniteSet(0..k)
    BY FS_Interval
  <2>2. QED
    BY <1>1, <2>1 DEF FiniteSubsetsOf
<1>4. PICK X \in F : \A Y \in F : ~(<<Y, X>> \in StrictSubsetOrdering(I))
  <2> HIDE DEF F, I
  <2>1. IsWellFoundedOn(StrictSubsetOrdering(I), FiniteSubsetsOf(I))
    BY <1>2, FS_StrictSubsetOrderingWellFounded
  <2>2. QED
    BY <1>3, <2>1, WFMin, SMT
<1>5. PICK m \in S : m <= n /\ X = 0..m
  BY <1>4
<1>6. ASSUME NEW k \in S, k < m
      PROVE  FALSE
  <2>1. 0..k \in F /\ 0..k \subseteq I /\ X \subseteq I
    BY <1>5, <1>6
  <2>2. 0..k # X /\ 0..k \subseteq X
    BY <1>5, <1>6
  <2>3. <<0..k, X>> \in StrictSubsetOrdering(I)
    BY <2>1, <2>2 DEF StrictSubsetOrdering
  <2>4. QED
    BY <2>1, <2>3, <1>4
<1>7. QED
  BY <1>5, <1>6

(* Induction, with a set of naturals in the place of the predicate.        *)
LEMMA SetInduction ==
  ASSUME NEW S, 0 \in S, \A k \in Nat : k \in S => k + 1 \in S
  PROVE  Nat \subseteq S
<1> SUFFICES ASSUME NEW n \in Nat \ S
             PROVE  FALSE
  OBVIOUS
<1>1. PICK m \in Nat \ S : \A k \in Nat \ S : m <= k
  <2>1. Nat \ S \in SUBSET Nat /\ Nat \ S # {}
    OBVIOUS
  <2>2. QED
    BY <2>1, NatLeast
<1>2. m - 1 \in Nat /\ m - 1 < m /\ (m - 1) + 1 = m
  BY <1>1
<1>3. QED
  BY <1>1, <1>2

(* Downwards from n: a number is in S when all above it up to n are.       *)
LEMMA DownInduction ==
  ASSUME NEW n \in Nat, NEW S, n \in S,
         \A k \in 0..n : k # n /\ (\A j \in (k + 1)..n : j \in S) => k \in S
  PROVE  0..n \subseteq S
<1> SUFFICES ASSUME NEW x \in (0..n) \ S
             PROVE  FALSE
  OBVIOUS
<1> DEFINE T == {d \in 0..n : n - d \notin S}
<1>1. n - x \in T
  OBVIOUS
<1>2. PICK d \in T : \A e \in T : d <= e
  <2>1. T \subseteq 0..n
    OBVIOUS
  <2> HIDE DEF T
  <2>2. T \in SUBSET Nat /\ T # {}
    BY <1>1, <2>1
  <2>3. QED
    BY <2>2, NatLeast
<1>3. n - d \in 0..n /\ n - d \notin S /\ n - d # n
  BY <1>2
<1>4. ASSUME NEW j \in ((n - d) + 1)..n
      PROVE  j \in S
  <2>1. n - j \in 0..n /\ n - j < d /\ n - (n - j) = j
    BY <1>2, <1>4
  <2>2. QED
    BY <1>2, <2>1
<1>5. QED
  BY <1>3, <1>4

-----------------------------------------------------------------------------
(* FlattenSeq.                                                             *)

(* f is the recursive function inside FlattenSeq: seqs up to each index.   *)
IsFlat(f, seqs, k) == f = [i \in 1..k |-> IF i = 1 THEN seqs[i] ELSE f[i - 1] \o seqs[i]]
FlatUpTo(seqs) == CHOOSE f : IsFlat(f, seqs, Len(seqs))

(* There is such a function for every length.                              *)
LEMMA FlatFcn ==
  ASSUME NEW n \in Nat, NEW seqs
  PROVE  \E f : IsFlat(f, seqs, n)
<1> DEFINE S == {d \in Nat : \E f : IsFlat(f, seqs, d)}
<1>1. 0 \in S
  <2>1. IsFlat([i \in 1..0 |-> <<>>], seqs, 0)
    BY DEF IsFlat
  <2>2. 0 \in Nat
    OBVIOUS
  <2>3. QED
    BY <2>1, <2>2
<1>2. ASSUME NEW d \in Nat, d \in S
      PROVE  d + 1 \in S
  <2>1. PICK f : IsFlat(f, seqs, d)
    BY <1>2
  <2> DEFINE g == [i \in 1..(d + 1) |-> IF i = d + 1 THEN IF i = 1 THEN seqs[i] ELSE f[i - 1] \o seqs[i] ELSE f[i]]
  <2>2. \A i \in 1..d : g[i] = f[i]
    OBVIOUS
  <2>3. ASSUME NEW i \in 1..(d + 1)
        PROVE  g[i] = IF i = 1 THEN seqs[i] ELSE g[i - 1] \o seqs[i]
    <3>1. i # 1 => i - 1 \in 1..d
      OBVIOUS
    <3>2. CASE i = d + 1
      BY <2>2, <3>1, <3>2
    <3>3. CASE i # d + 1
      <4>1. i \in 1..d
        BY <3>3
      <4>2. f[i] = IF i = 1 THEN seqs[i] ELSE f[i - 1] \o seqs[i]
        BY <2>1, <4>1 DEF IsFlat
      <4>3. g[i] = f[i] /\ (i # 1 => g[i - 1] = f[i - 1])
        BY <2>2, <3>1, <4>1
      <4>4. QED
        BY <4>2, <4>3
    <3>4. QED
      BY <3>2, <3>3
  <2>4. g = [i \in 1..(d + 1) |-> g[i]]
    OBVIOUS
  <2>5. IsFlat(g, seqs, d + 1)
    <3> HIDE DEF g
    <3>1. QED
      BY <2>3, <2>4 DEF IsFlat
  <2>6. d + 1 \in Nat
    OBVIOUS
  <2>7. QED
    BY <2>5, <2>6
<1>3. n \in S
  <2> HIDE DEF S
  <2>1. QED
    BY <1>1, <1>2, SetInduction
<1>4. QED
  BY <1>3

(* FlattenSeq is its last value, and it obeys its recursion.               *)
LEMMA FlatDef ==
  ASSUME NEW T, NEW seqs \in Seq(T)
  PROVE  /\ FlattenSeq(seqs) = IF seqs = <<>> THEN <<>> ELSE FlatUpTo(seqs)[Len(seqs)]
         /\ \A i \in 1..Len(seqs) :
              FlatUpTo(seqs)[i] = IF i = 1 THEN seqs[i] ELSE FlatUpTo(seqs)[i - 1] \o seqs[i]
<1>1. FlattenSeq(seqs) = IF Len(seqs) = 0 THEN seqs ELSE FlatUpTo(seqs)[Len(seqs)]
  BY Zenon DEF FlattenSeq, FlatUpTo, IsFlat
<1>2. Len(seqs) \in Nat /\ (Len(seqs) = 0 <=> seqs = <<>>)
  OBVIOUS
<1>3. IsFlat(FlatUpTo(seqs), seqs, Len(seqs))
  BY <1>2, FlatFcn DEF FlatUpTo
<1>4. QED
  BY <1>1, <1>2, <1>3 DEF IsFlat

(* Sequences that agree up to n flatten alike up to n.                     *)
LEMMA FlatAgree ==
  ASSUME NEW T, NEW s \in Seq(T), NEW t \in Seq(T), NEW n \in Nat, n <= Len(s), n <= Len(t),
         \A i \in 1..n : s[i] = t[i]
  PROVE  \A i \in 1..n : FlatUpTo(s)[i] = FlatUpTo(t)[i]
<1> DEFINE S == {d \in Nat : d \in 1..n => FlatUpTo(s)[d] = FlatUpTo(t)[d]}
<1>1. 0 \in S
  OBVIOUS
<1>2. ASSUME NEW d \in Nat, d \in S
      PROVE  d + 1 \in S
  <2> SUFFICES ASSUME d + 1 \in 1..n
               PROVE  FlatUpTo(s)[d + 1] = FlatUpTo(t)[d + 1]
    OBVIOUS
  <2>1. d + 1 \in 1..Len(s) /\ d + 1 \in 1..Len(t) /\ (d + 1) - 1 = d
    OBVIOUS
  <2>2. FlatUpTo(s)[d + 1] = IF d + 1 = 1 THEN s[d + 1] ELSE FlatUpTo(s)[d] \o s[d + 1]
    BY <2>1, FlatDef
  <2>3. FlatUpTo(t)[d + 1] = IF d + 1 = 1 THEN t[d + 1] ELSE FlatUpTo(t)[d] \o t[d + 1]
    BY <2>1, FlatDef
  <2>4. d + 1 # 1 => FlatUpTo(s)[d] = FlatUpTo(t)[d]
    BY <1>2
  <2>5. QED
    BY <2>2, <2>3, <2>4
<1>3. Nat \subseteq S
  <2> HIDE DEF S
  <2>1. QED
    BY <1>1, <1>2, SetInduction
<1>4. QED
  BY <1>3

(* Nothing flattens to nothing.                                            *)
LEMMA FlattenEmpty == FlattenSeq(<<>>) = <<>>
<1>1. <<>> \in Seq({})
  OBVIOUS
<1>2. QED
  BY <1>1, FlatDef

(* One sequence more adds its elements at the end.                         *)
LEMMA FlattenAppend ==
  ASSUME NEW S, NEW seqs \in Seq(Seq(S)), NEW x \in Seq(S)
  PROVE  FlattenSeq(Append(seqs, x)) = FlattenSeq(seqs) \o x
<1> DEFINE n == Len(seqs)
           app == Append(seqs, x)
<1>1. app \in Seq(Seq(S)) /\ Len(app) = n + 1 /\ app[n + 1] = x /\ app # <<>> /\ n \in Nat
      /\ \A i \in 1..n : app[i] = seqs[i]
  BY AppendProperties
<1> HIDE DEF app
<1>2. /\ FlattenSeq(app) = FlatUpTo(app)[n + 1]
      /\ \A i \in 1..(n + 1) :
           FlatUpTo(app)[i] = IF i = 1 THEN app[i] ELSE FlatUpTo(app)[i - 1] \o app[i]
  BY <1>1, FlatDef
<1>3. CASE n = 0
  <2>1. seqs = <<>>
    BY <1>3
  <2>2. 1 \in 1..(n + 1) /\ n + 1 = 1
    BY <1>3
  <2>3. FlatUpTo(app)[1] = x
    BY <1>1, <1>2, <2>2
  <2>4. <<>> \o x = x
    OBVIOUS
  <2>5. QED
    BY <1>2, <2>1, <2>2, <2>3, <2>4, FlattenEmpty DEF app
<1>4. CASE n # 0
  <2>1. n + 1 \in 1..(n + 1) /\ (n + 1) - 1 = n /\ n + 1 # 1 /\ n \in 1..n
    BY <1>1, <1>4
  <2>2. FlatUpTo(app)[n + 1] = FlatUpTo(app)[n] \o x
    BY <1>1, <1>2, <2>1
  <2>3. \A i \in 1..n : FlatUpTo(app)[i] = FlatUpTo(seqs)[i]
    <3>1. n <= Len(app) /\ n <= Len(seqs)
      BY <1>1
    <3> HIDE DEF n
    <3>2. QED
      BY <1>1, <3>1, FlatAgree
  <2>4. seqs # <<>>
    BY <1>4
  <2>5. FlattenSeq(seqs) = FlatUpTo(seqs)[n]
    BY <2>4, FlatDef
  <2>6. QED
    BY <1>2, <2>1, <2>2, <2>3, <2>5 DEF app
<1>5. QED
  BY <1>3, <1>4

(* What a prefix is.                                                       *)
LEMMA PrefixOf ==
  ASSUME NEW T, NEW s \in Seq(T), NEW k \in 0..Len(s)
  PROVE  /\ SubSeq(s, 1, k) \in Seq(T) /\ Len(SubSeq(s, 1, k)) = k
         /\ \A i \in 1..k : SubSeq(s, 1, k)[i] = s[i]
<1>1. \A i \in 1..k : s[i] \in T
  OBVIOUS
<1>2. 1 \in Int /\ k \in Int
  OBVIOUS
<1>3. /\ SubSeq(s, 1, k) \in Seq(T)
      /\ Len(SubSeq(s, 1, k)) = IF 1 <= k THEN k - 1 + 1 ELSE 0
      /\ \A i \in 1..(k - 1 + 1) : SubSeq(s, 1, k)[i] = s[1 + i - 1]
  BY <1>1, <1>2, SubSeqProperties
<1>4. QED
  BY <1>3

(* Induction over sequences, with a set in the place of the predicate.     *)
LEMMA SeqInduction ==
  ASSUME NEW T, NEW Q, <<>> \in Q,
         \A s \in Seq(T), x \in T : s \in Q => Append(s, x) \in Q
  PROVE  Seq(T) \subseteq Q
<1> SUFFICES ASSUME NEW s \in Seq(T)
             PROVE  s \in Q
  OBVIOUS
<1> DEFINE S == {k \in Nat : k <= Len(s) => SubSeq(s, 1, k) \in Q}
<1>1. 0 \in S
  <2>1. SubSeq(s, 1, 0) = <<>>
    OBVIOUS
  <2>2. QED
    BY <2>1
<1>2. ASSUME NEW k \in Nat, k \in S
      PROVE  k + 1 \in S
  <2> SUFFICES ASSUME k + 1 <= Len(s)
               PROVE  SubSeq(s, 1, k + 1) \in Q
    OBVIOUS
  <2>1. k \in 0..Len(s) /\ k + 1 \in 0..Len(s) /\ k + 1 \in 1..Len(s)
    OBVIOUS
  <2>2. /\ SubSeq(s, 1, k) \in Seq(T) /\ Len(SubSeq(s, 1, k)) = k
        /\ \A i \in 1..k : SubSeq(s, 1, k)[i] = s[i]
    BY <2>1, PrefixOf
  <2>3. /\ SubSeq(s, 1, k + 1) \in Seq(T) /\ Len(SubSeq(s, 1, k + 1)) = k + 1
        /\ \A i \in 1..(k + 1) : SubSeq(s, 1, k + 1)[i] = s[i]
    BY <2>1, PrefixOf
  <2>4. s[k + 1] \in T
    BY <2>1
  <2>5. SubSeq(s, 1, k + 1) = Append(SubSeq(s, 1, k), s[k + 1])
    <3> DEFINE a == SubSeq(s, 1, k + 1)
               b == Append(SubSeq(s, 1, k), s[k + 1])
    <3>1. b \in Seq(T) /\ Len(b) = k + 1 /\ b[k + 1] = s[k + 1] /\ \A i \in 1..k : b[i] = s[i]
      BY <2>2, <2>4, AppendProperties
    <3> HIDE DEF a, b
    <3>2. a \in Seq(T) /\ Len(a) = k + 1 /\ \A i \in 1..(k + 1) : a[i] = s[i]
      BY <2>3 DEF a
    <3>3. \A i \in 1..(k + 1) : i \in 1..k \/ i = k + 1
      OBVIOUS
    <3>4. \A i \in 1..Len(a) : a[i] = b[i]
      BY <3>1, <3>2, <3>3
    <3>5. a = b
      BY <3>1, <3>2, <3>4, SeqEqual
    <3>6. QED
      BY <3>5 DEF a, b
  <2>6. SubSeq(s, 1, k) \in Q
    BY <1>2, <2>1
  <2>7. QED
    BY <2>2, <2>4, <2>5, <2>6
<1>3. Nat \subseteq S
  <2> HIDE DEF S
  <2>1. QED
    BY <1>1, <1>2, SetInduction
<1>4. Len(s) \in Nat /\ Len(s) <= Len(s) /\ SubSeq(s, 1, Len(s)) = s
  BY SubSeqFull
<1>5. Len(s) \in S
  BY <1>3, <1>4
<1>6. QED
  BY <1>4, <1>5

(* Append is concatenation with one element.                               *)
LEMMA CatAppend ==
  ASSUME NEW T, NEW s \in Seq(T), NEW u \in Seq(T), NEW x \in T
  PROVE  s \o Append(u, x) = Append(s \o u, x)
<1>1. Append(u, x) = u \o <<x>> /\ <<x>> \in Seq(T)
  BY AppendIsConcat
<1>2. s \o u \in Seq(T) /\ Append(s \o u, x) = (s \o u) \o <<x>>
  BY AppendIsConcat
<1>3. QED
  BY <1>1, <1>2, ConcatAssociative

(* FlattenSeq distributes over concatenation.                              *)
LEMMA FlattenCat ==
  ASSUME NEW S, NEW s \in Seq(Seq(S)), NEW t \in Seq(Seq(S))
  PROVE  FlattenSeq(t) \in Seq(S) /\ FlattenSeq(s \o t) = FlattenSeq(s) \o FlattenSeq(t)
<1> DEFINE P == {u \in Seq(Seq(S)) : FlattenSeq(u) \in Seq(S)}
           Q == {u \in Seq(Seq(S)) : FlattenSeq(s \o u) = FlattenSeq(s) \o FlattenSeq(u)}
<1>1. Seq(Seq(S)) \subseteq P
  <2>1. <<>> \in P
    <3>1. <<>> \in Seq(Seq(S)) /\ <<>> \in Seq(S)
      OBVIOUS
    <3>2. QED
      BY <3>1, FlattenEmpty
  <2>2. ASSUME NEW u \in Seq(Seq(S)), NEW x \in Seq(S), u \in P
        PROVE  Append(u, x) \in P
    <3>1. FlattenSeq(Append(u, x)) = FlattenSeq(u) \o x
      BY FlattenAppend
    <3>2. FlattenSeq(u) \o x \in Seq(S) /\ Append(u, x) \in Seq(Seq(S))
      BY <2>2
    <3>3. QED
      BY <3>1, <3>2
  <2> HIDE DEF P
  <2>3. QED
    BY <2>1, <2>2, SeqInduction
<1>2. \A u \in Seq(Seq(S)) : FlattenSeq(u) \in Seq(S)
  BY <1>1
<1>3. Seq(Seq(S)) \subseteq Q
  <2>1. <<>> \in Q
    <3>1. s \o <<>> = s /\ FlattenSeq(s) \o <<>> = FlattenSeq(s) /\ <<>> \in Seq(Seq(S))
      BY <1>2
    <3>2. QED
      BY <3>1, FlattenEmpty
  <2>2. ASSUME NEW u \in Seq(Seq(S)), NEW x \in Seq(S), u \in Q
        PROVE  Append(u, x) \in Q
    <3>1. s \o Append(u, x) = Append(s \o u, x) /\ s \o u \in Seq(Seq(S))
      BY CatAppend
    <3>2. FlattenSeq(Append(s \o u, x)) = (FlattenSeq(s) \o FlattenSeq(u)) \o x
      BY <2>2, <3>1, FlattenAppend
    <3>3. FlattenSeq(Append(u, x)) = FlattenSeq(u) \o x
      BY FlattenAppend
    <3>4. (FlattenSeq(s) \o FlattenSeq(u)) \o x = FlattenSeq(s) \o (FlattenSeq(u) \o x)
      BY <1>2, ConcatAssociative
    <3>5. Append(u, x) \in Seq(Seq(S))
      OBVIOUS
    <3>6. QED
      BY <3>1, <3>2, <3>3, <3>4, <3>5
  <2> HIDE DEF Q
  <2>3. QED
    BY <2>1, <2>2, SeqInduction
<1>4. QED
  BY <1>2, <1>3

(* What g gives for each element, one after the other.                     *)
FlatMap(g, s) == FlattenSeq([i \in DOMAIN s |-> g[s[i]]])

(* It distributes over concatenation and is g of the one element of a      *)
(* singleton.                                                              *)
LEMMA FlatMapOf ==
  ASSUME NEW T, NEW S, NEW g \in [T -> Seq(S)]
  PROVE  /\ FlatMap(g, <<>>) = <<>>
         /\ \A m \in T : FlatMap(g, <<m>>) = g[m]
         /\ \A a \in Seq(T) : FlatMap(g, a) \in Seq(S)
         /\ \A a, b \in Seq(T) : FlatMap(g, a \o b) = FlatMap(g, a) \o FlatMap(g, b)
<1> DEFINE C(s) == [i \in DOMAIN s |-> g[s[i]]]
<1>1. \A m \in T : g[m] \in Seq(S)
  OBVIOUS
<1>2. \A a \in Seq(T) : C(a) \in Seq(Seq(S)) /\ Len(C(a)) = Len(a)
  <2> SUFFICES ASSUME NEW a \in Seq(T)
               PROVE  C(a) \in Seq(Seq(S)) /\ Len(C(a)) = Len(a)
    OBVIOUS
  <2>1. Len(a) \in Nat /\ DOMAIN a = 1..Len(a) /\ \A i \in 1..Len(a) : a[i] \in T
    OBVIOUS
  <2>2. C(a) \in [1..Len(a) -> Seq(S)]
    BY <1>1, <2>1
  <2> HIDE DEF C
  <2>3. PICK c, U, n : c = C(a) /\ U = Seq(S) /\ n = Len(a)
    OBVIOUS
  <2>4. c \in [1..n -> U]
    BY <2>2, <2>3
  <2>5. c \in Seq(U) /\ Len(c) = n
    <3>1. n \in Nat
      BY <2>1, <2>3
    <3>2. QED
      BY <2>4, <3>1
  <2>6. QED
    BY <2>3, <2>5
<1>3. ASSUME NEW a \in Seq(T), NEW b \in Seq(T)
      PROVE  C(a \o b) = C(a) \o C(b)
  <2>1. C(a) \in Seq(Seq(S)) /\ Len(C(a)) = Len(a) /\ C(b) \in Seq(Seq(S)) /\ Len(C(b)) = Len(b)
    BY <1>2
  <2>2. /\ a \o b \in Seq(T) /\ Len(a \o b) = Len(a) + Len(b) /\ Len(a) \in Nat /\ Len(b) \in Nat
        /\ \A i \in 1..(Len(a) + Len(b)) : (a \o b)[i] = IF i <= Len(a) THEN a[i] ELSE b[i - Len(a)]
    BY ConcatProperties
  <2>3. C(a \o b) \in Seq(Seq(S)) /\ Len(C(a \o b)) = Len(a) + Len(b)
    BY <1>2, <2>2
  <2>4. /\ C(a) \o C(b) \in Seq(Seq(S)) /\ Len(C(a) \o C(b)) = Len(a) + Len(b)
        /\ \A i \in 1..(Len(a) + Len(b)) : (C(a) \o C(b))[i] = IF i <= Len(a) THEN C(a)[i] ELSE C(b)[i - Len(a)]
    <3> HIDE DEF C
    <3>1. /\ C(a) \o C(b) \in Seq(Seq(S)) /\ Len(C(a) \o C(b)) = Len(C(a)) + Len(C(b))
          /\ \A i \in 1..(Len(C(a)) + Len(C(b))) :
               (C(a) \o C(b))[i] = IF i <= Len(C(a)) THEN C(a)[i] ELSE C(b)[i - Len(C(a))]
      BY <2>1, ConcatProperties
    <3>2. QED
      BY <2>1, <3>1
  <2>5. ASSUME NEW i \in 1..(Len(a) + Len(b))
        PROVE  C(a \o b)[i] = (C(a) \o C(b))[i]
    <3>1. CASE i <= Len(a)
      <4>1. i \in DOMAIN a /\ i \in DOMAIN (a \o b)
        BY <2>2, <3>1
      <4>2. QED
        BY <2>2, <2>4, <3>1, <4>1
    <3>2. CASE ~(i <= Len(a))
      <4>1. i - Len(a) \in DOMAIN b /\ i \in DOMAIN (a \o b)
        BY <2>2, <3>2
      <4>2. QED
        BY <2>2, <2>4, <3>2, <4>1
    <3>3. QED
      BY <3>1, <3>2
  <2> HIDE DEF C
  <2>6. QED
    BY <2>3, <2>4, <2>5, SeqEqual
<1>4. \A a \in Seq(T) : FlatMap(g, a) \in Seq(S)
  <2> SUFFICES ASSUME NEW a \in Seq(T)
               PROVE  FlatMap(g, a) \in Seq(S)
    OBVIOUS
  <2>1. C(a) \in Seq(Seq(S))
    BY <1>2
  <2>2. FlattenSeq(C(a)) \in Seq(S)
    BY <2>1, FlattenCat
  <2>3. QED
    BY <2>2 DEF FlatMap
<1>5. \A a, b \in Seq(T) : FlatMap(g, a \o b) = FlatMap(g, a) \o FlatMap(g, b)
  <2> SUFFICES ASSUME NEW a \in Seq(T), NEW b \in Seq(T)
               PROVE  FlatMap(g, a \o b) = FlatMap(g, a) \o FlatMap(g, b)
    OBVIOUS
  <2>1. C(a) \in Seq(Seq(S)) /\ C(b) \in Seq(Seq(S))
    BY <1>2
  <2>2. FlattenSeq(C(a) \o C(b)) = FlattenSeq(C(a)) \o FlattenSeq(C(b))
    BY <2>1, FlattenCat
  <2>3. QED
    BY <1>3, <2>2 DEF FlatMap
<1>6. FlatMap(g, <<>>) = <<>>
  <2>1. C(<<>>) = <<>>
    OBVIOUS
  <2>2. QED
    BY <2>1, FlattenEmpty DEF FlatMap
<1>7. ASSUME NEW m \in T
      PROVE  FlatMap(g, <<m>>) = g[m]
  <2>1. PICK x \in Seq(S) : x = g[m]
    OBVIOUS
  <2>2. C(<<m>>) = Append(<<>>, x) /\ <<>> \in Seq(Seq(S))
    BY <2>1
  <2>3. FlattenSeq(Append(<<>>, x)) = FlattenSeq(<<>>) \o x
    BY <2>2, FlattenAppend
  <2>4. <<>> \o x = x
    OBVIOUS
  <2>5. QED
    BY <2>1, <2>2, <2>3, <2>4, FlattenEmpty DEF FlatMap
<1>8. QED
  BY <1>4, <1>5, <1>6, <1>7

-----------------------------------------------------------------------------
(* Prefixes.                                                               *)

(* What is put in front is a prefix.                                       *)
LEMMA CatHasPrefix ==
  ASSUME NEW S, NEW a \in Seq(S), NEW b \in Seq(S)
  PROVE  IsPrefix(a, a \o b)
<1>1. PICK c \in Seq(S) : c = a \o b
  BY ConcatProperties
<1>2. /\ Len(c) = Len(a) + Len(b) /\ Len(a) \in Nat /\ Len(b) \in Nat
      /\ \A i \in 1..(Len(a) + Len(b)) : c[i] = IF i <= Len(a) THEN a[i] ELSE b[i - Len(a)]
  BY <1>1, ConcatProperties
<1>3. Len(a) <= Len(c) /\ Len(a) \in 0..Len(c) /\ \A i \in 1..Len(a) : c[i] = a[i]
  BY <1>2
<1>4. PICK d : d = SubSeq(c, 1, Len(a))
  OBVIOUS
<1>5. d \in Seq(S) /\ Len(d) = Len(a) /\ \A i \in 1..Len(a) : d[i] = c[i]
  BY <1>3, <1>4, PrefixOf
<1>6. d = a
  BY <1>3, <1>5, SeqEqual
<1>7. SubSeq(a, 1, Len(a)) = a
  BY SubSeqFull
<1>8. QED
  BY <1>1, <1>3, <1>4, <1>6, <1>7 DEF IsPrefix

(* A sequence of sequences that begins with s flattens to what begins with *)
(* s flattened.                                                            *)
LEMMA FlattenPrefix ==
  ASSUME NEW S, NEW s \in Seq(Seq(S)), NEW t \in Seq(Seq(S)), Len(s) <= Len(t),
         \A i \in 1..Len(s) : s[i] = t[i]
  PROVE  \E r \in Seq(S) : FlattenSeq(t) = FlattenSeq(s) \o r
<1>1. PICK k \in 0..Len(t) : k = Len(s)
  OBVIOUS
<1>2. PICK d : d = SubSeq(t, 1, k)
  OBVIOUS
<1>3. d \in Seq(Seq(S)) /\ Len(d) = k /\ \A i \in 1..k : d[i] = t[i]
  BY <1>1, <1>2, PrefixOf
<1>4. d = s
  BY <1>1, <1>3, SeqEqual
<1>5. PICK e : e = SubSeq(t, k + 1, Len(t))
  OBVIOUS
<1>6. e \in Seq(Seq(S))
  <2>1. \A i \in (k + 1)..Len(t) : t[i] \in Seq(S)
    BY <1>1
  <2>2. k + 1 \in Int /\ Len(t) \in Int
    BY <1>1
  <2>3. QED
    BY <1>5, <2>1, <2>2, SubSeqProperties
<1>7. d \o e = t
  <2>1. 1 \in 1..(Len(t) + 1) /\ k \in (1 - 1)..Len(t) /\ Len(t) \in k..Len(t)
    BY <1>1
  <2>2. SubSeq(t, 1, k) \o SubSeq(t, k + 1, Len(t)) = SubSeq(t, 1, Len(t))
    BY <2>1, ConcatAdjacentSubSeq
  <2>3. QED
    BY <1>2, <1>5, <2>2, SubSeqFull
<1>8. FlattenSeq(e) \in Seq(S) /\ FlattenSeq(s \o e) = FlattenSeq(s) \o FlattenSeq(e)
  BY <1>6, FlattenCat
<1>9. QED
  BY <1>4, <1>7, <1>8
=============================================================================
