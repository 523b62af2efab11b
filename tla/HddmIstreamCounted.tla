-------------------------- MODULE HddmIstreamCounted ---------------------------
(***************************************************************************)
(* Theorems about HddmIstream: the readers that share a stream divide its  *)
(* records among themselves, and lose none.  HddmIstreamShared says how    *)
(* they stay out of each other's way; here the records are counted.        *)
(***************************************************************************)
EXTENDS HddmIstreamShared

\* The records a reader has in hand: of the block it is at, and the one it has
\* taken out and not yet delivered.
HandEntry(t) ==
  IF Compressed(t) THEN xcmp[t].at ELSE IF pc[t] = "parse" THEN pos - 1 ELSE 0
HandOff(t) ==
  IF Compressed(t) THEN IF pc[t] = "parse" THEN xcmp[t].off - 1 ELSE xcmp[t].off ELSE 0
Hand(t) == {q \in RecordsOf(file) : q[1] = HandEntry(t) /\ q[2] > HandOff(t)}

\* The number of a record, and the numbers of those a reader got.
Num(f, q) == f[q[1]].items[q[2]].n
Got(t) == {taken[t][i] : i \in DOMAIN taken[t]}

\* The records in front of the source are in one reader's hand each, or were
\* delivered to one reader, and what is in hand is yet to be delivered.
HandsApart ==
  /\ \A t \in Readers : \A q \in Hand(t) : q[1] < pos
  /\ \A t, u \in Readers : t # u => Hand(t) \cap Hand(u) = {}

GotBehind ==
  /\ \A t \in Readers : \A n \in Got(t) : n <= Cardinality(Before(file, pos, 0))
  /\ \A t \in Readers : \A n \in Got(t), q \in Hand(t) : n < Num(file, q)
  /\ \A t, u \in Readers : t # u => \A n \in Got(u), q \in Hand(t) : n # Num(file, q)

NoneLost ==
  /\ \A q \in RecordsOf(file) : q[1] < pos =>
       \E t \in Readers : q \in Hand(t) \/ Num(file, q) \in Got(t)
  /\ \A t \in Readers : hitEof[t] => pos > Len(file) /\ Hand(t) = {}

Counted == HandsApart /\ GotBehind /\ ExactlyOnce /\ NoneLost

CountedInv == SharedInv /\ Counted

----------------------------------------------------------------------------
(* The numbers of the records.                                              *)

LEMMA RecordShape ==
  ASSUME NEW f \in Files, NEW q \in RecordsOf(f)
  PROVE  /\ q = <<q[1], q[2]>> /\ q[1] \in DOMAIN f /\ q[2] \in DOMAIN f[q[1]].items
         /\ ~f[q[1]].items[q[2]].tok
         /\ q[1] \in Nat /\ q[2] \in Nat /\ q[1] > 0 /\ q[2] > 0
         /\ q[1] <= Len(f) /\ q[2] <= Len(f[q[1]].items)
<1>1. PICK e, i : /\ e \in DOMAIN f /\ i \in DOMAIN f[e].items
                  /\ ~f[e].items[i].tok /\ q = <<e, i>>
  BY RecordPlaces
<1>2. /\ e \in 1 .. Len(f) /\ Len(f) \in Nat
      /\ i \in 1 .. Len(f[e].items) /\ Len(f[e].items) \in Nat
  BY <1>1, FileShape
<1> QED BY <1>1, <1>2

LEMMA NumCount ==
  ASSUME NEW f \in Files, NEW q \in RecordsOf(f)
  PROVE  /\ Num(f, q) = 1 + Cardinality(Before(f, q[1], q[2] - 1))
         /\ Num(f, q) = Cardinality(Before(f, q[1], q[2]))
         /\ Num(f, q) \in Nat /\ Num(f, q) > 0
<1>1. /\ Cardinality(Before(f, q[1], q[2])) = Cardinality(Before(f, q[1], q[2] - 1)) + 1
      /\ f[q[1]].items[q[2]].n = 1 + Cardinality(Before(f, q[1], q[2] - 1))
  BY RecordShape, BeforeRecord
<1>2. Cardinality(Before(f, q[1], q[2] - 1)) \in Nat
  BY BeforeType
<1> QED BY <1>1, <1>2 DEF Num

LEMMA BeforeMono ==
  ASSUME NEW f \in Files, NEW a, NEW o, NEW b, NEW p,
         \A q \in RecordsOf(f) : q[1] < a \/ (q[1] = a /\ q[2] <= o)
                                   => q[1] < b \/ (q[1] = b /\ q[2] <= p)
  PROVE  Cardinality(Before(f, a, o)) <= Cardinality(Before(f, b, p))
<1>1. Before(f, a, o) \in SUBSET Before(f, b, p)
  BY DEF Before
<1> QED BY <1>1, BeforeType, FS_Subset

\* They grow along the file, ...
LEMMA NumEarlier ==
  ASSUME NEW f \in Files, NEW p \in RecordsOf(f), NEW q \in RecordsOf(f), Earlier(p, q)
  PROVE  Num(f, p) < Num(f, q)
<1>1. /\ p[1] \in Nat /\ p[2] \in Nat /\ q[1] \in Nat /\ q[2] \in Nat
  BY RecordShape
<1>2. Cardinality(Before(f, p[1], p[2])) <= Cardinality(Before(f, q[1], q[2] - 1))
  <2>1. ASSUME NEW r \in RecordsOf(f), r[1] < p[1] \/ (r[1] = p[1] /\ r[2] <= p[2])
        PROVE  r[1] < q[1] \/ (r[1] = q[1] /\ r[2] <= q[2] - 1)
    <3>1. r[1] \in Nat /\ r[2] \in Nat
      BY RecordShape
    <3> QED BY <1>1, <2>1, <3>1 DEF Earlier
  <2> QED BY <2>1, BeforeMono
<1> QED BY <1>2, NumCount, BeforeType

\* ... so that no two records share one, ...
LEMMA NumInjective ==
  ASSUME NEW f \in Files, NEW p \in RecordsOf(f), NEW q \in RecordsOf(f), p # q
  PROVE  Num(f, p) # Num(f, q)
<1>1. Earlier(p, q) \/ Earlier(q, p)
  <2>1. /\ p = <<p[1], p[2]>> /\ q = <<q[1], q[2]>>
        /\ p[1] \in Nat /\ p[2] \in Nat /\ q[1] \in Nat /\ q[2] \in Nat
    BY RecordShape
  <2>2. p[1] # q[1] \/ p[2] # q[2]
    BY <2>1
  <2> QED BY <2>1, <2>2 DEF Earlier
<1>2. Num(f, p) \in Nat /\ Num(f, q) \in Nat
  BY NumCount
<1> QED BY <1>1, <1>2, NumEarlier

\* ... those behind an entry exceed the count before it, ...
LEMMA NumBehind ==
  ASSUME NEW f \in Files, NEW q \in RecordsOf(f), NEW e \in Nat
  PROVE  /\ q[1] >= e => Cardinality(Before(f, e, 0)) < Num(f, q)
         /\ q[1] < e => Num(f, q) <= Cardinality(Before(f, e, 0))
<1>1. q[1] \in Nat /\ q[2] \in Nat /\ q[2] > 0
  BY RecordShape
<1>2. ASSUME q[1] >= e  PROVE Cardinality(Before(f, e, 0)) < Num(f, q)
  <2>1. ASSUME NEW r \in RecordsOf(f), r[1] < e \/ (r[1] = e /\ r[2] <= 0)
        PROVE  r[1] < q[1] \/ (r[1] = q[1] /\ r[2] <= q[2] - 1)
    <3>1. r[1] \in Nat /\ r[2] \in Nat /\ r[2] > 0
      BY RecordShape
    <3> QED BY <1>1, <1>2, <2>1, <3>1
  <2>2. Cardinality(Before(f, e, 0)) <= Cardinality(Before(f, q[1], q[2] - 1))
    BY <2>1, BeforeMono
  <2> QED BY <2>2, NumCount, BeforeType
<1>3. ASSUME q[1] < e  PROVE Num(f, q) <= Cardinality(Before(f, e, 0))
  <2>1. ASSUME NEW r \in RecordsOf(f), r[1] < q[1] \/ (r[1] = q[1] /\ r[2] <= q[2])
        PROVE  r[1] < e \/ (r[1] = e /\ r[2] <= 0)
    <3>1. r[1] \in Nat /\ r[2] \in Nat
      BY RecordShape
    <3> QED BY <1>1, <1>3, <2>1, <3>1
  <2>2. Cardinality(Before(f, q[1], q[2])) <= Cardinality(Before(f, e, 0))
    BY <2>1, BeforeMono
  <2> QED BY <2>2, NumCount
<1> QED BY <1>2, <1>3

\* ... and together they are all the numbers up to the number of records.
LEMMA NumOnto ==
  ASSUME NEW f \in Files, NEW n \in 1 .. Cardinality(RecordsOf(f))
  PROVE  \E q \in RecordsOf(f) : Num(f, q) = n
<1> DEFINE R == RecordsOf(f)
           c == Cardinality(R)
           g == [q \in R |-> Num(f, q)]
<1>1. IsFiniteSet(R) /\ c \in Nat
  BY RecordsFinite, FS_CardinalityType
<1>2. ASSUME NEW q \in R  PROVE Num(f, q) \in 1 .. c
  <2>1. Before(f, q[1], q[2]) \in SUBSET R
    BY DEF Before
  <2>2. Cardinality(Before(f, q[1], q[2])) <= c
    BY <1>1, <2>1, FS_Subset
  <2> QED BY <1>1, <2>2, NumCount
<1>3. g \in Injection(R, 1 .. c)
  <2>1. \A p, q \in R : Num(f, p) = Num(f, q) => p = q
    BY NumInjective
  <2> HIDE DEF R, c
  <2>2. g \in [R -> 1 .. c] /\ \A p, q \in R : g[p] = g[q] => p = q
    BY <1>2, <2>1
  <2> QED BY <2>2 DEF Injection, IsInjective
<1>4. IsFiniteSet(1 .. c) /\ Cardinality(1 .. c) = c
  <2> HIDE DEF c
  <2>1. IsFiniteSet(1 .. c) /\ Cardinality(1 .. c) = IF 1 > c THEN 0 ELSE c - 1 + 1
    BY <1>1, FS_Interval
  <2> QED BY <1>1, <2>1
<1>5. g \in Surjection(R, 1 .. c)
  <2> HIDE DEF g, R
  <2> QED BY <1>3, <1>4, FS_Injection
<1>6. \E q \in R : g[q] = n
  <2>1. n \in 1 .. c
    OBVIOUS
  <2> HIDE DEF g, R, c
  <2> QED BY <1>5, <2>1 DEF Surjection
<1> QED BY <1>6

----------------------------------------------------------------------------
(* What a step does to the readers' hands: nothing, or a fetch, or a         *)
(* delivery.                                                                *)

Unmoved(t) ==
  /\ pos' = pos /\ Hand(t)' = Hand(t) /\ taken' = taken
  /\ hitEof'[t] => hitEof[t] \/ (pos > Len(file) /\ Hand(t) = {})

Fetched(t) ==
  /\ pos <= Len(file) /\ pos' = pos + 1 /\ Hand(t) = {}
  /\ Hand(t)' = {q \in RecordsOf(file) : q[1] = pos}
  /\ taken' = taken /\ hitEof' = hitEof

Delivered(t) ==
  \E q \in Hand(t) :
    /\ pos' = pos /\ Hand(t)' = Hand(t) \ {q}
    /\ \A p \in Hand(t) \ {q} : Earlier(q, p)
    /\ taken' = [taken EXCEPT ![t] = Append(@, Num(file, q))]
    /\ ~hitEof'[t]

\* What another reader has in hand stays.
Aside(t) ==
  /\ file' = file
  /\ \A u \in Readers \ {t} : Hand(u)' = Hand(u) /\ taken'[u] = taken[u] /\ hitEof'[u] = hitEof[u]

LEMMA UnmovedCounted ==
  ASSUME TypeOK, Counted, NEW t \in Readers, Aside(t), Unmoved(t)
  PROVE  Counted'
<1>1. file' = file /\ pos' = pos /\ taken' = taken
  BY DEF Aside, Unmoved
<1>2. \A u \in Readers : Hand(u)' = Hand(u) /\ Got(u)' = Got(u)
  BY <1>1 DEF Aside, Unmoved, Got
<1>3. HandsApart'
  BY <1>1, <1>2 DEF Counted, HandsApart
<1>4. GotBehind'
  BY <1>1, <1>2 DEF Counted, GotBehind
<1>5. ExactlyOnce'
  BY <1>1 DEF Counted, ExactlyOnce
<1>6. NoneLost'
  BY <1>1, <1>2 DEF Counted, NoneLost, Aside, Unmoved
<1> QED BY <1>3, <1>4, <1>5, <1>6 DEF Counted

LEMMA FetchedCounted ==
  ASSUME TypeOK, Counted, NEW t \in Readers, Aside(t), Fetched(t)
  PROVE  Counted'
<1> DEFINE new == {q \in RecordsOf(file) : q[1] = pos}
<1>1. /\ file' = file /\ taken' = taken /\ hitEof' = hitEof
      /\ pos' = pos + 1 /\ pos <= Len(file) /\ Hand(t) = {} /\ Hand(t)' = new
      /\ file \in Files /\ pos \in Nat /\ Len(file) \in Nat
  BY FileShape DEF Aside, Fetched, TypeOK
<1>2. /\ \A u \in Readers \ {t} : Hand(u)' = Hand(u)
      /\ \A u \in Readers : Got(u)' = Got(u)
  BY <1>1 DEF Aside, Got
<1>3. \A u \in Readers : \A q \in Hand(u) : q[1] < pos /\ q \in RecordsOf(file)
  BY DEF Counted, HandsApart, Hand
<1>4. \A q \in RecordsOf(file) : q[1] \in Nat
  BY <1>1, RecordShape
<1>5. HandsApart'
  <2>1. \A u \in Readers : \A q \in Hand(u)' : q[1] < pos'
    BY <1>1, <1>2, <1>3, <1>4
  <2>2. ASSUME NEW u \in Readers, NEW v \in Readers, u # v  PROVE Hand(u)' \cap Hand(v)' = {}
    <3>1. \A w \in Readers \ {t} : new \cap Hand(w) = {}
      BY <1>1, <1>3
    <3> QED BY <1>1, <1>2, <2>2, <3>1 DEF Counted, HandsApart
  <2> QED BY <2>1, <2>2 DEF HandsApart
<1>6. GotBehind'
  <2>1. \A u \in Readers : \A n \in Got(u) : n \in Nat /\ n <= Cardinality(Before(file, pos, 0))
    <3>1. \A u \in Readers : \A n \in Got(u) : n \in Nat
      <4>1. ASSUME NEW u \in Readers, NEW i \in DOMAIN taken[u]  PROVE taken[u][i] \in Nat
        BY ElementOfSeq, SMTT(40) DEF TypeOK
      <4> QED BY <4>1 DEF Got
    <3> QED BY <3>1 DEF Counted, GotBehind
  <2>2. Cardinality(Before(file, pos, 0)) <= Cardinality(Before(file, pos + 1, 0))
    <3>1. ASSUME NEW r \in RecordsOf(file), r[1] < pos \/ (r[1] = pos /\ r[2] <= 0)
          PROVE  r[1] < pos + 1 \/ (r[1] = pos + 1 /\ r[2] <= 0)
      BY <1>1, <1>4, <3>1
    <3> QED BY <1>1, <3>1, BeforeMono
  <2>3. \A q \in new : Cardinality(Before(file, pos, 0)) < Num(file, q) /\ Num(file, q) \in Nat
    BY <1>1, NumBehind, NumCount
  <2>4. /\ Cardinality(Before(file, pos, 0)) \in Nat /\ Cardinality(Before(file, pos + 1, 0)) \in Nat
    BY <1>1, BeforeType
  <2>5. \A u \in Readers : \A n \in Got(u)' : n <= Cardinality(Before(file', pos', 0))
    BY <1>1, <1>2, <2>1, <2>2, <2>4
  <2>6. \A u \in Readers : \A n \in Got(u), q \in new : n < Num(file, q)
    BY <2>1, <2>3, <2>4
  <2>7. \A u \in Readers : \A n \in Got(u)', q \in Hand(u)' : n < Num(file', q)
    BY <1>1, <1>2, <2>6 DEF Counted, GotBehind
  <2>8. \A u \in Readers : \A n \in Got(u), q \in new : n # Num(file, q)
    BY <2>1, <2>3, <2>6
  <2>9. \A u, v \in Readers : u # v => \A n \in Got(v)', q \in Hand(u)' : n # Num(file', q)
    BY <1>1, <1>2, <2>8 DEF Counted, GotBehind
  <2> HIDE DEF new
  <2> QED BY <2>5, <2>7, <2>9 DEF GotBehind
<1>7. ExactlyOnce'
  BY <1>1 DEF Counted, ExactlyOnce
<1>8. NoneLost'
  <2>1. ASSUME NEW q \in RecordsOf(file), q[1] < pos + 1
        PROVE  \E u \in Readers : q \in Hand(u)' \/ Num(file, q) \in Got(u)
    <3>1. CASE q[1] = pos
      BY <1>1, <3>1
    <3>2. CASE q[1] < pos
      <4>1. PICK u \in Readers : q \in Hand(u) \/ Num(file, q) \in Got(u)
        BY <3>2 DEF Counted, NoneLost
      <4> QED BY <1>1, <1>2, <4>1
    <3> QED BY <1>1, <1>4, <2>1, <3>1, <3>2
  <2>2. \A u \in Readers : ~hitEof[u]
    BY <1>1 DEF Counted, NoneLost
  <2> QED BY <1>1, <1>2, <2>1, <2>2 DEF NoneLost
<1> QED BY <1>5, <1>6, <1>7, <1>8 DEF Counted

LEMMA DeliveredCounted ==
  ASSUME TypeOK, Counted, NEW t \in Readers, Aside(t), Delivered(t)
  PROVE  Counted'
<1>1. PICK r \in Hand(t) :
        /\ pos' = pos /\ Hand(t)' = Hand(t) \ {r}
        /\ \A p \in Hand(t) \ {r} : Earlier(r, p)
        /\ taken' = [taken EXCEPT ![t] = Append(@, Num(file, r))]
        /\ ~hitEof'[t]
  BY DEF Delivered
<1> DEFINE m == Num(file, r)
<1>2. /\ file' = file /\ file \in Files /\ pos \in Nat /\ r \in RecordsOf(file)
      /\ taken \in [Readers -> Seq(Nat)] /\ m \in Nat /\ r[1] < pos
  BY NumCount DEF Aside, TypeOK, Hand, Counted, HandsApart
<1>3. \A u \in Readers \ {t} : Hand(u)' = Hand(u) /\ taken'[u] = taken[u] /\ hitEof'[u] = hitEof[u]
  BY DEF Aside
<1> HIDE DEF m
<1>4. /\ taken'[t] = Append(taken[t], m) /\ taken[t] \in Seq(Nat) /\ Len(taken[t]) \in Nat
      /\ DOMAIN taken[t] = 1 .. Len(taken[t])
      /\ DOMAIN taken'[t] = 1 .. Len(taken[t]) + 1
      /\ \A i \in 1 .. Len(taken[t]) : taken'[t][i] = taken[t][i]
      /\ taken'[t][Len(taken[t]) + 1] = m
  <2>1. taken'[t] = Append(taken[t], m) /\ taken[t] \in Seq(Nat) /\ Len(taken[t]) \in Nat
    BY <1>1, <1>2 DEF m
  <2> QED BY <1>2, <2>1, AppendProperties, LenProperties
<1>5. /\ Got(t)' = Got(t) \cup {m} /\ \A u \in Readers \ {t} : Got(u)' = Got(u)
  <2>1. \A n : n \in Got(t)' <=> n \in Got(t) \cup {m}
    <3>1. ASSUME NEW n \in Got(t)'  PROVE n \in Got(t) \cup {m}
      <4>1. PICK i \in 1 .. Len(taken[t]) + 1 : n = taken'[t][i]
        BY <1>4, <3>1 DEF Got
      <4>2. i \in 1 .. Len(taken[t]) \/ i = Len(taken[t]) + 1
        BY <1>4, <4>1
      <4> QED BY <1>4, <4>1, <4>2 DEF Got
    <3>2. ASSUME NEW n \in Got(t)  PROVE n \in Got(t)'
      <4>1. PICK i \in 1 .. Len(taken[t]) : n = taken[t][i]
        BY <1>4, <3>2 DEF Got
      <4>2. i \in 1 .. Len(taken[t]) + 1 /\ taken'[t][i] = n
        BY <1>4, <4>1
      <4> QED BY <1>4, <4>2 DEF Got
    <3>3. m \in Got(t)'
      <4>1. Len(taken[t]) + 1 \in 1 .. Len(taken[t]) + 1
        BY <1>4
      <4> QED BY <1>4, <4>1 DEF Got
    <3> QED BY <3>1, <3>2, <3>3
  <2> QED BY <1>3, <2>1 DEF Got
<1>6. /\ \A u \in Readers : Hand(u)' \subseteq Hand(u)
      /\ \A u \in Readers : Hand(u) \subseteq RecordsOf(file)
      /\ r \notin Hand(t)' /\ \A u \in Readers \ {t} : r \notin Hand(u)
  BY <1>1, <1>3 DEF Hand, Counted, HandsApart
<1>7. HandsApart'
  BY <1>1, <1>6 DEF Counted, HandsApart
<1>8. m <= Cardinality(Before(file, pos, 0))
  BY <1>2, NumBehind DEF m
<1>9. \A u \in Readers : \A q \in Hand(u)' : m # Num(file, q)
  BY <1>2, <1>3, <1>6, NumInjective DEF m
<1>10. \A q \in Hand(t)' : m < Num(file, q)
  BY <1>1, <1>2, <1>6, NumEarlier DEF m
<1>11. GotBehind'
  <2>1. \A u \in Readers : \A n \in Got(u)' : n <= Cardinality(Before(file', pos', 0))
    BY <1>1, <1>2, <1>5, <1>8 DEF Counted, GotBehind
  <2>2. \A u \in Readers : \A n \in Got(u)', q \in Hand(u)' : n < Num(file', q)
    BY <1>2, <1>5, <1>6, <1>10 DEF Counted, GotBehind
  <2>3. \A u, v \in Readers : u # v => \A n \in Got(v)', q \in Hand(u)' : n # Num(file', q)
    BY <1>2, <1>5, <1>6, <1>9 DEF Counted, GotBehind
  <2> QED BY <2>1, <2>2, <2>3 DEF GotBehind
<1>12. ExactlyOnce'
  <2>1. /\ \A n \in Got(t) : n < m
        /\ \A u \in Readers \ {t} : \A n \in Got(u) : n # m
    BY DEF Counted, GotBehind, m
  <2>2. ASSUME NEW u \in Readers, NEW v \in Readers,
               NEW i \in DOMAIN taken'[u], NEW j \in DOMAIN taken'[v]
        PROVE  /\ u = v /\ i < j => taken'[u][i] < taken'[v][j]
               /\ u # v => taken'[u][i] # taken'[v][j]
    <3>1. /\ u # v => taken'[u][i] # taken'[v][j]
      <4>1. taken'[u][i] \in Got(u)' /\ taken'[v][j] \in Got(v)'
        BY DEF Got
      <4>2. \A x, y \in Readers : x # y => Got(x) \cap Got(y) = {}
        BY DEF Counted, ExactlyOnce, Got
      <4> QED BY <1>5, <2>1, <4>1, <4>2
    <3>2. ASSUME u = v, i < j  PROVE taken'[u][i] < taken'[v][j]
      <4>1. CASE u # t
        BY <1>3, <3>2, <4>1 DEF Counted, ExactlyOnce
      <4>2. CASE u = t
        <5>1. i \in 1 .. Len(taken[t]) /\ (j \in 1 .. Len(taken[t]) \/ j = Len(taken[t]) + 1)
          BY <1>4, <3>2, <4>2, SMTT(40)
        <5>2. CASE j \in 1 .. Len(taken[t])
          BY <1>4, <3>2, <4>2, <5>1, <5>2 DEF Counted, ExactlyOnce
        <5>3. CASE j = Len(taken[t]) + 1
          <6>1. taken[t][i] \in Got(t)
            BY <1>4, <5>1 DEF Got
          <6> QED BY <1>4, <2>1, <3>2, <4>2, <5>1, <5>3, <6>1
        <5> QED BY <5>1, <5>2, <5>3
      <4> QED BY <4>1, <4>2
    <3> QED BY <3>1, <3>2
  <2> QED BY <2>2 DEF ExactlyOnce
<1>13. NoneLost'
  <2>1. ASSUME NEW q \in RecordsOf(file), q[1] < pos
        PROVE  \E u \in Readers : q \in Hand(u)' \/ Num(file, q) \in Got(u)'
    <3>1. PICK u \in Readers : q \in Hand(u) \/ Num(file, q) \in Got(u)
      BY <2>1 DEF Counted, NoneLost
    <3>2. Got(u) \subseteq Got(u)' /\ (q \in Hand(u) => q \in Hand(u)' \/ (u = t /\ q = r))
      BY <1>1, <1>3, <1>5
    <3> QED BY <1>5, <3>1, <3>2 DEF m
  <2>2. ASSUME NEW u \in Readers, hitEof'[u]  PROVE pos > Len(file) /\ Hand(u)' = {}
    BY <1>1, <1>3, <2>2 DEF Counted, NoneLost
  <2> QED BY <1>1, <1>2, <2>1, <2>2 DEF NoneLost
<1> QED BY <1>7, <1>11, <1>12, <1>13 DEF Counted

----------------------------------------------------------------------------
(* Which of the three a step is.                                            *)

\* All phases know what a reader has in hand.
LEMMA AllBlocks ==
  ASSUME SharedInv
  PROVE  /\ TypeOK /\ NoSeeks /\ fault = "none" /\ pos <= Len(file) + 1
         /\ \A t \in Readers : BlockOK(t)
<1>1. /\ TypeOK /\ NoSeeks
      /\ \A t \in Readers : Outside(t) => BlockOK(t)
      /\ \A t \in Readers : Good(t) => BlockOK(t)
  BY OutsideAll DEF SharedInv
<1> QED BY <1>1, SharedFault DEF SharedInv, Quiet, Lead, Settled

\* A step of one reader does not disturb what another has in hand: only the one
\* that leads has an uncompressed item, and then the source is its own.
LEMMA OthersAside ==
  ASSUME SharedInv, NEW t \in Readers, Step(t)
  PROVE  Aside(t)
<1>1. TypeOK /\ NoSeeks /\ file' = file /\ \A u \in Readers \ {t} : Kept(u)
  BY OthersKept DEF SharedInv
<1>2. ASSUME NEW u \in Readers \ {t}  PROVE Hand(u)' = Hand(u)
  <2>1. ~Compressed(u) /\ pc[u] = "parse" => pos' = pos
    <3>1. SUFFICES ASSUME ~Compressed(u), pc[u] = "parse"  PROVE pos' = pos
      OBVIOUS
    <3>2. ~Quiet
      BY <3>1 DEF Quiet, Outside
    <3>3. ~Settled
      BY <1>1, <3>1, SettledReader DEF Engaged
    <3>4. PICK h \in Readers : Lead(h)
      BY <3>2, <3>3 DEF SharedInv
    <3>5. Outside(t)
      BY <3>1, <3>4 DEF Lead, Outside
    <3>6. pc[t] \in {"idle", "lock"}
      BY <3>5 DEF Outside
    <3> QED BY <3>6 DEF Step, Call, Acquire, Proceed, ReadCall, SkipCall, SeekCall, LockSource,
      FetchLock, LockLend, Update, Reconfigure, Build, Adopt, HeadRaw, HeadBlock, HeadFetch,
      HeadEnd, FetchBlock, FetchNothing, ReadRaw, Misread, Token, Record, Unlock, Eof, SeekUnlock,
      Seat, sourceVars
  <2>2. Compressed(u)' = Compressed(u) /\ pc'[u] = pc[u] /\ xcmp'[u] = xcmp[u]
    BY <1>1 DEF Kept, Compressed
  <2>3. HandEntry(u)' = HandEntry(u) /\ HandOff(u)' = HandOff(u)
    BY <2>1, <2>2 DEF HandEntry, HandOff
  <2> QED BY <1>1, <2>3 DEF Hand
<1> QED BY <1>1, <1>2 DEF Aside, Kept

LEMMA HandSame ==
  ASSUME NEW t \in Readers, file' = file, pc[t] # "parse", pc'[t] # "parse",
         Compressed(t)' = Compressed(t),
         xcmp'[t].at = xcmp[t].at, xcmp'[t].off = xcmp[t].off
  PROVE  Hand(t)' = Hand(t)
BY DEF Hand, HandEntry, HandOff

\* Nothing is left of the block, if there is one.
LEMMA HandEmpty ==
  ASSUME TypeOK, NEW t \in Readers, BlockOK(t), pc[t] # "parse", xcmp[t].left = << >>
  PROVE  Hand(t) = {}
<1>1. SUFFICES ASSUME NEW q \in Hand(t)  PROVE FALSE
  OBVIOUS
<1>2. /\ q \in RecordsOf(file) /\ q[1] = HandEntry(t) /\ q[2] > HandOff(t) /\ file \in Files
  BY <1>1 DEF Hand, TypeOK
<1>3. q[1] > 0 /\ q[1] \in DOMAIN file /\ q[2] \in Nat /\ q[2] <= Len(file[q[1]].items)
  BY <1>2, RecordShape
<1>4. Compressed(t) /\ q[1] = xcmp[t].at /\ q[2] > xcmp[t].off
  BY <1>2, <1>3 DEF HandEntry, HandOff
<1> DEFINE items == file[xcmp[t].at].items
<1>5. From(items, xcmp[t].off) = << >> /\ xcmp[t].off <= Len(items)
  BY <1>3, <1>4 DEF BlockOK
<1>6. items \in Seq(Items) /\ Len(items) \in Nat /\ xcmp[t].off \in Nat
  BY <1>2, <1>3, <1>4, FileShape, FieldTypes
<1> HIDE DEF items
<1>7. xcmp[t].off \in 0 .. Len(items)
  BY <1>5, <1>6
<1>8. ~(xcmp[t].off < Len(items))
  BY <1>5, <1>6, <1>7, FromEmpty
<1> QED BY <1>3, <1>4, <1>6, <1>8 DEF items

\* The item that was taken out, and what is left when it has been dealt with.
LEMMA HandParse ==
  ASSUME TypeOK, NEW t \in Readers, BlockOK(t), pc[t] = "parse", pc'[t] # "parse",
         UNCHANGED <<file, status, xcmp>>
  PROVE  LET e == ItemEntry(t)  i == ItemIndex(t)
         IN /\ e \in DOMAIN file /\ i \in DOMAIN file[e].items
            /\ item[t] = file[e].items[i]
            /\ Hand(t) = {q \in RecordsOf(file) : q[1] = e /\ q[2] >= i}
            /\ Hand(t)' = {q \in RecordsOf(file) : q[1] = e /\ q[2] > i}
<1> DEFINE e == ItemEntry(t)
           i == ItemIndex(t)
<1>1. /\ e \in DOMAIN file /\ i \in DOMAIN file[e].items /\ item[t] = file[e].items[i]
      /\ ~Compressed(t) => i = Len(file[e].items)
  BY DEF BlockOK
<1>2. /\ file \in Files /\ Compressed(t)' = Compressed(t) /\ i \in Nat
      /\ \A q \in RecordsOf(file) : q[1] \in Nat /\ q[2] \in Nat /\ q[1] > 0 /\ q[2] > 0
                                    /\ q[2] <= Len(file[q[1]].items)
  BY <1>1, FileShape, RecordShape, SMTT(40) DEF Compressed, TypeOK
<1>3. CASE Compressed(t)
  <2>1. e = xcmp[t].at /\ i = xcmp[t].off
    BY <1>3 DEF ItemEntry, ItemIndex
  <2>2. Hand(t) = {q \in RecordsOf(file) : q[1] = e /\ q[2] > i - 1}
    BY <1>3, <2>1 DEF Hand, HandEntry, HandOff
  <2>3. Hand(t)' = {q \in RecordsOf(file) : q[1] = e /\ q[2] > i}
    BY <1>2, <1>3, <2>1 DEF Hand, HandEntry, HandOff
  <2> HIDE DEF e, i
  <2>4. \A q \in RecordsOf(file) : q[2] > i - 1 <=> q[2] >= i
    BY <1>2
  <2> QED BY <1>1, <2>2, <2>3, <2>4 DEF e, i
<1>4. CASE ~Compressed(t)
  <2>1. e = pos - 1 /\ i = 1
    BY <1>4 DEF ItemEntry, ItemIndex
  <2>2. Hand(t) = {q \in RecordsOf(file) : q[1] = e /\ q[2] > 0}
    BY <1>4, <2>1 DEF Hand, HandEntry, HandOff
  <2>3. Hand(t)' = {q \in RecordsOf(file) : q[1] = 0 /\ q[2] > 0}
    BY <1>2, <1>4 DEF Hand, HandEntry, HandOff
  <2>4. \A q \in RecordsOf(file) : ~(q[1] = 0) /\ (q[1] = e => ~(q[2] > i))
    BY <1>1, <1>2, <1>4
  <2>5. \A q \in RecordsOf(file) : q[2] > 0 <=> q[2] >= i
    BY <1>2, <2>1
  <2> HIDE DEF e, i
  <2> QED BY <1>1, <2>2, <2>3, <2>4, <2>5 DEF e, i
<1> QED BY <1>3, <1>4

\* Only the control moves.
LEMMA ControlUnmoved ==
  ASSUME SharedInv, MaxSeeks = 0, NEW t \in Readers, Step(t),
         \/ ReadCall(t) \/ SkipCall(t) \/ LockSource(t) \/ LockLend(t) \/ Update(t)
         \/ HeadRaw(t) \/ HeadFetch(t) \/ HeadEnd(t) \/ FetchLock(t) \/ Misread(t)
         \/ Unlock(t) \/ Eof(t)
  PROVE  Unmoved(t)
<1>1. /\ TypeOK /\ BlockOK(t) /\ file' = file /\ nextStart[t] = 0
      /\ xcmp \in [Readers -> Inputs] /\ xcmp[t] \in Inputs /\ pc \in [Readers -> Labels]
      /\ hitEof \in [Readers -> BOOLEAN]
  BY AllBlocks, OthersKept DEF NoSeeks, TypeOK
<1>2. pc[t] # "parse" /\ pc'[t] # "parse"
  <2>1. pc[t] # "parse"
    BY DEF ReadCall, SkipCall, LockSource, LockLend, Update, HeadRaw, HeadFetch, HeadEnd, FetchLock,
       Misread, Unlock, Eof, Enter
  <2>2. CASE Misread(t) \/ SkipCall(t)
    BY <2>1, <2>2 DEF Misread, SkipCall
  <2>3. CASE LockLend(t)
    BY <1>1, <2>1, <2>3 DEF LockLend, Goto
  <2>4. CASE Update(t)
    BY <1>1, <2>4 DEF Update, AfterUpdate, Goto
  <2>5. CASE ReadCall(t) \/ LockSource(t)
    BY <1>1, <2>1, <2>5 DEF ReadCall, LockSource, Goto
  <2>6. CASE HeadRaw(t) \/ HeadFetch(t) \/ HeadEnd(t) \/ FetchLock(t)
    BY <1>1, <2>1, <2>6 DEF HeadRaw, HeadFetch, HeadEnd, FetchLock, Goto
  <2>7. CASE Unlock(t)
    BY <1>1, <2>1, <2>7 DEF Unlock, Goto
  <2>8. CASE Eof(t)
    BY <1>1, <2>1, <2>8 DEF Eof, Goto
  <2> QED BY <2>1, <2>2, <2>3, <2>4, <2>5, <2>6, <2>7, <2>8
<1>3. UNCHANGED <<pos, status, taken>>
  BY <1>1 DEF ReadCall, SkipCall, LockSource, LockLend, Update, HeadRaw, HeadFetch, HeadEnd,
     FetchLock, Misread, Unlock, Eof, sourceVars, privateVars, traceVars
<1>4. xcmp'[t].at = xcmp[t].at /\ xcmp'[t].off = xcmp[t].off
  <2>1. \/ xcmp' = xcmp
        \/ xcmp'[t] = [xcmp[t] EXCEPT !.mtx = TRUE] \/ xcmp'[t] = [xcmp[t] EXCEPT !.mtx = FALSE]
    BY <1>1 DEF ReadCall, SkipCall, LockSource, LockLend, Update, HeadRaw, HeadFetch, HeadEnd,
       FetchLock, Misread, Unlock, Eof, ReleaseStreambufs, privateVars
  <2> DEFINE x == xcmp[t]
  <2>2. x \in Inputs /\ xcmp'[t] \in {x, [x EXCEPT !.mtx = TRUE], [x EXCEPT !.mtx = FALSE]}
    BY <1>1, <2>1
  <2> HIDE DEF x
  <2>3. \A y \in {x, [x EXCEPT !.mtx = TRUE], [x EXCEPT !.mtx = FALSE]} :
          y.at = x.at /\ y.off = x.off
    BY <2>2 DEF Inputs
  <2> QED BY <2>2, <2>3 DEF x
<1>5. Hand(t)' = Hand(t)
  <2>1. Compressed(t)' = Compressed(t)
    BY <1>3 DEF Compressed
  <2> QED BY <1>1, <1>2, <1>4, <2>1, HandSame
<1>6. hitEof'[t] => hitEof[t] \/ (pos > Len(file) /\ Hand(t) = {})
  <2>1. CASE Eof(t)
    <3>1. pc[t] = "eof"
      BY <2>1 DEF Eof
    <3>2. pos > Len(file) /\ xcmp[t].left = << >>
      BY <1>1, <3>1 DEF BlockOK
    <3> QED BY <1>1, <1>2, <3>2, HandEmpty
  <2>2. CASE ~Eof(t)
    BY <2>2 DEF ReadCall, SkipCall, LockSource, LockLend, Update, HeadRaw, HeadFetch, HeadEnd,
       FetchLock, Misread, Unlock, privateVars
  <2> QED BY <2>1, <2>2
<1> QED BY <1>3, <1>5, <1>6 DEF Unmoved

\* A decompressor is replaced only when nothing is left in it.
LEMMA TunesUnmoved ==
  ASSUME SharedInv, NEW t \in Readers, Step(t), Reconfigure(t) \/ Build(t) \/ Adopt(t)
  PROVE  Unmoved(t)
<1>1. /\ TypeOK /\ NoSeeks /\ BlockOK(t) /\ file' = file
      /\ xcmp \in [Readers -> Inputs] /\ pc \in [Readers -> Labels]
      /\ status \in [Readers -> Status] /\ op[t] # "seek" /\ file \in Files
      /\ \A q \in RecordsOf(file) : q[1] # 0
  BY AllBlocks, OthersKept, RecordShape, SMTT(40) DEF NoSeeks, TypeOK
<1>2. /\ UNCHANGED <<pos, taken, hitEof>>
      /\ pc[t] \in {"reconf", "build", "adopt"} /\ pc'[t] \in {"build", "adopt", "head"}
  BY <1>1 DEF Reconfigure, Build, Adopt, AfterUpdate, Goto, sourceVars, traceVars
<1>3. ASSUME xcmp'[t].at = 0  PROVE Hand(t)' = {}
  <2>1. HandEntry(t)' = 0
    BY <1>2, <1>3 DEF HandEntry
  <2> QED BY <1>1, <2>1 DEF Hand
<1>4. Hand(t)' = Hand(t)
  <2>1. CASE Reconfigure(t) /\ xcmp'[t] = xcmp[t]
    <3>1. status' = status
      BY <2>1 DEF Reconfigure
    <3> QED BY <1>1, <1>2, <2>1, <3>1, HandSame DEF Compressed
  <2>2. CASE Reconfigure(t) /\ xcmp'[t] # xcmp[t]
    <3>1. pc[t] = "reconf" /\ statusBits.cmp # status[t].cmp /\ xcmp'[t] = NoInput
      BY <1>1, <2>2 DEF Reconfigure
    <3>2. Hand(t) = {}
      BY <1>1, <1>2, <3>1, HandEmpty DEF BlockOK
    <3> QED BY <1>3, <3>1, <3>2 DEF NoInput
  <2>3. CASE Build(t)
    <3>1. pc[t] = "build" /\ xcmp'[t] = NewInput(KindOf(newcmp[t]))
      BY <1>1, <2>3 DEF Build
    <3>2. xcmp'[t].at = 0
      BY <3>1 DEF NewInput, NoInput
    <3>3. Hand(t) = {}
      BY <1>1, <1>2, <3>1, HandEmpty DEF BlockOK
    <3> QED BY <1>3, <3>2, <3>3
  <2>4. CASE Adopt(t)
    <3>1. xcmp' = xcmp /\ status'[t] = statusBits
      BY <1>1, <2>4 DEF Adopt
    <3>2. CASE Compressed(t)
      <4>1. Compressed(t)'
        BY <1>1, <3>1, <3>2 DEF BlockOK, Compressed
      <4> QED BY <1>1, <1>2, <3>1, <3>2, <4>1, HandSame
    <3>3. CASE ~Compressed(t)
      <4>1. xcmp[t].at = 0 /\ HandEntry(t) = 0
        BY <1>1, <1>2, <3>3 DEF BlockOK, HandEntry
      <4>2. Hand(t) = {}
        BY <1>1, <4>1 DEF Hand
      <4> QED BY <1>3, <3>1, <4>1, <4>2
    <3> QED BY <3>2, <3>3
  <2> QED BY <2>1, <2>2, <2>3, <2>4
<1> QED BY <1>2, <1>4 DEF Unmoved

\* An item is taken out of the block, and is in hand as before.
LEMMA BlockUnmoved ==
  ASSUME SharedInv, NEW t \in Readers, Step(t), HeadBlock(t)
  PROVE  Unmoved(t)
<1>1. /\ TypeOK /\ NoSeeks /\ BlockOK(t) /\ file' = file /\ pc \in [Readers -> Labels]
      /\ xcmp[t].off \in Nat
  BY AllBlocks, OthersKept, FieldTypes DEF TypeOK
<1>2. /\ UNCHANGED <<pos, status, taken, hitEof>>
      /\ pc[t] = "head" /\ pc'[t] = "parse" /\ Compressed(t)
  BY <1>1 DEF HeadBlock, Goto, sourceVars, traceVars
<1>3. xcmp'[t].at = xcmp[t].at /\ xcmp'[t].off = xcmp[t].off + 1
  BY <1>1, BlockHead
<1>4. HandEntry(t)' = xcmp[t].at /\ HandOff(t)' = (xcmp[t].off + 1) - 1
  BY <1>2, <1>3 DEF HandEntry, HandOff, Compressed
<1>5. HandEntry(t) = xcmp[t].at /\ HandOff(t) = xcmp[t].off
  BY <1>2 DEF HandEntry, HandOff
<1>6. HandOff(t)' = HandOff(t)
  BY <1>1, <1>4, <1>5
<1> QED BY <1>1, <1>2, <1>4, <1>5, <1>6 DEF Hand, Unmoved

\* What is in hand after the source was read.
LEMMA HandNew ==
  ASSUME TypeOK, NEW t \in Readers, file' = file, HandEntry(t)' = pos, HandOff(t)' = 0
  PROVE  Hand(t)' = {q \in RecordsOf(file) : q[1] = pos}
<1>1. \A q \in RecordsOf(file) : q[2] \in Nat /\ q[2] > 0
  BY RecordShape DEF TypeOK
<1> QED BY <1>1 DEF Hand

\* A block is fetched, by a reader that has used up the one it had.
LEMMA FetchStep ==
  ASSUME SharedInv, NEW t \in Readers, Step(t), FetchBlock(t) \/ FetchNothing(t)
  PROVE  Unmoved(t) \/ Fetched(t)
<1>1. /\ TypeOK /\ NoSeeks /\ BlockOK(t) /\ file' = file /\ pc \in [Readers -> Labels]
      /\ xcmp[t] \in Inputs /\ xcmp \in [Readers -> Inputs] /\ file \in Files
      /\ pos \in Nat /\ pos <= Len(file) + 1 /\ Len(file) \in Nat /\ DOMAIN file = 1 .. Len(file)
  BY AllBlocks, OthersKept, FieldTypes, FileShape DEF TypeOK
<1>2. /\ pc[t] = "source" /\ pc'[t] = "head" /\ Compressed(t) /\ ~Seeking(t)
      /\ UNCHANGED <<status, taken, hitEof>>
  <2>1. ~Seeking(t)
    BY <1>1 DEF NoSeeks, Seeking
  <2>2. CASE FetchBlock(t)
    BY <1>1, <2>1, <2>2 DEF FetchBlock, Goto, traceVars
  <2>3. CASE FetchNothing(t)
    BY <1>1, <2>1, <2>3 DEF FetchNothing, Goto, traceVars
  <2> QED BY <2>2, <2>3
<1>3. Hand(t) = {}
  BY <1>1, <1>2, HandEmpty DEF BlockOK
<1>4. HandEntry(t)' = xcmp'[t].at /\ HandOff(t)' = xcmp'[t].off
  BY <1>2 DEF HandEntry, HandOff, Compressed
<1>5. CASE FetchBlock(t)
  <2> DEFINE l == From(file[pos].items, 0)
  <2>1. /\ pos <= Len(file) /\ pos' = pos + 1
        /\ xcmp'[t] = [xcmp[t] EXCEPT !.left = l, !.at = pos, !.off = 0, !.end = FALSE,
                                      !.seek = NoPosition]
    BY <1>1, <1>2, <1>5 DEF FetchBlock
  <2>2. l \in Seq(Items)
    <3>1. file[pos].items \in Seq(Items) /\ Len(file[pos].items) \in Nat
      BY <1>1, <2>1, FileShape, FieldTypes DEF TypeOK
    <3>2. 0 \in 0 .. Len(file[pos].items)
      BY <3>1
    <3> QED BY <3>1, <3>2, FromProperties
  <2> HIDE DEF l
  <2>3. xcmp'[t].at = pos /\ xcmp'[t].off = 0
    <3> DEFINE x == xcmp[t]
               y == [x EXCEPT !.left = l, !.at = pos, !.off = 0, !.end = FALSE,
                              !.seek = NoPosition]
    <3>1. x \in Inputs /\ xcmp'[t] = y
      BY <1>1, <2>1
    <3> HIDE DEF x
    <3>2. y.at = pos /\ y.off = 0
      BY <3>1 DEF Inputs
    <3> QED BY <3>1, <3>2
  <2>4. Hand(t)' = {q \in RecordsOf(file) : q[1] = pos}
    BY <1>1, <1>4, <2>3, HandNew
  <2> QED BY <1>2, <1>3, <2>1, <2>4 DEF Fetched
<1>6. CASE FetchNothing(t)
  <2>1. /\ pos > Len(file) /\ pos' = pos
        /\ xcmp'[t] = [xcmp[t] EXCEPT !.at = pos, !.end = TRUE]
    BY <1>1, <1>6 DEF FetchNothing, sourceVars
  <2>2. xcmp'[t].at = pos
    <3> DEFINE x == xcmp[t]
               y == [x EXCEPT !.at = pos, !.end = TRUE]
    <3>1. x \in Inputs /\ xcmp'[t] = y
      BY <1>1, <2>1
    <3> HIDE DEF x
    <3>2. y.at = pos
      BY <1>1, <3>1, InputEnd
    <3> QED BY <3>1, <3>2
  <2>3. \A q \in RecordsOf(file) : q[1] # pos
    <3>1. \A q \in RecordsOf(file) : q[1] \in Nat /\ q[1] <= Len(file)
      BY <1>1, RecordShape
    <3> QED BY <1>1, <2>1, <3>1
  <2>4. Hand(t)' = {}
    BY <1>1, <1>4, <2>2, <2>3 DEF Hand
  <2> QED BY <1>2, <1>3, <2>1, <2>4 DEF Unmoved
<1> QED BY <1>5, <1>6

LEMMA RawStep ==
  ASSUME SharedInv, NEW t \in Readers, Step(t), ReadRaw(t)
  PROVE  Unmoved(t) \/ Fetched(t)
<1>1. /\ TypeOK /\ BlockOK(t) /\ file' = file /\ pc \in [Readers -> Labels] /\ file \in Files
      /\ pos \in Nat /\ pos <= Len(file) + 1 /\ Len(file) \in Nat
      /\ \A q \in RecordsOf(file) : q[1] # 0
  BY AllBlocks, OthersKept, RecordShape, FileShape, SMTT(40) DEF TypeOK
<1>2. /\ pc[t] = "source" /\ ~Compressed(t) /\ ~Compressed(t)'
      /\ UNCHANGED <<taken, hitEof>>
  BY DEF ReadRaw, Compressed, privateVars, traceVars
<1>3. Hand(t) = {}
  <2>1. HandEntry(t) = 0
    BY <1>2 DEF HandEntry
  <2> QED BY <1>1, <2>1 DEF Hand
<1>4. CASE pos > Len(file)
  <2>1. pc'[t] = "eof" /\ pos' = pos
    BY <1>1, <1>4 DEF ReadRaw, Goto
  <2>2. HandEntry(t)' = 0
    BY <1>2, <2>1 DEF HandEntry
  <2>3. Hand(t)' = {}
    BY <1>1, <2>2 DEF Hand
  <2> QED BY <1>2, <1>3, <2>1, <2>3 DEF Unmoved
<1>5. CASE ~(pos > Len(file))
  <2>1. pc'[t] = "parse" /\ pos' = pos + 1
    BY <1>1, <1>5 DEF ReadRaw, Goto
  <2>2. HandEntry(t)' = (pos + 1) - 1 /\ HandOff(t)' = 0
    BY <1>2, <2>1 DEF HandEntry, HandOff
  <2>3. (pos + 1) - 1 = pos /\ pos <= Len(file)
    BY <1>1, <1>5
  <2>4. Hand(t)' = {q \in RecordsOf(file) : q[1] = pos}
    BY <1>1, <2>2, <2>3, HandNew
  <2> QED BY <1>2, <1>3, <2>1, <2>3, <2>4 DEF Fetched
<1> QED BY <1>4, <1>5

\* The item in hand is dealt with: a record is delivered.
LEMMA ParseStep ==
  ASSUME SharedInv, NEW t \in Readers, Step(t), Token(t) \/ Record(t)
  PROVE  Unmoved(t) \/ Delivered(t)
<1> DEFINE e == ItemEntry(t)
           i == ItemIndex(t)
<1>1. /\ TypeOK /\ BlockOK(t) /\ file' = file /\ file \in Files /\ pc \in [Readers -> Labels]
      /\ taken \in [Readers -> Seq(Nat)] /\ hitEof \in [Readers -> BOOLEAN]
  BY AllBlocks, OthersKept DEF TypeOK
<1>2. /\ pc[t] = "parse" /\ pc'[t] # "parse" /\ UNCHANGED <<file, pos, status, xcmp>>
  BY <1>1 DEF Token, Record, Goto, sourceVars, privateVars
<1>3. /\ e \in DOMAIN file /\ i \in DOMAIN file[e].items
      /\ item[t] = file[e].items[i]
      /\ Hand(t) = {q \in RecordsOf(file) : q[1] = e /\ q[2] >= i}
      /\ Hand(t)' = {q \in RecordsOf(file) : q[1] = e /\ q[2] > i}
  BY <1>1, <1>2, HandParse
<1>4. i \in Nat /\ \A q \in RecordsOf(file) : q = <<q[1], q[2]>> /\ q[2] \in Nat
  BY <1>1, <1>3, FileShape, RecordShape
<1> HIDE DEF e, i
<1>5. CASE Token(t)
  <2>1. <<e, i>> \notin RecordsOf(file)
    <3>1. file[e].items[i].tok
      BY <1>3, <1>5 DEF Token
    <3>2. ASSUME <<e, i>> \in RecordsOf(file)  PROVE FALSE
      <4>1. ~file[<<e, i>>[1]].items[<<e, i>>[2]].tok
        BY <1>1, <3>2, RecordShape
      <4> QED BY <3>1, <4>1
    <3> QED BY <3>2
  <2>2. \A q \in RecordsOf(file) : q[1] = e /\ q[2] >= i => q[2] > i
    BY <1>4, <2>1
  <2>3. \A q \in RecordsOf(file) : q[2] > i => q[2] >= i
    BY <1>4
  <2>4. Hand(t)' = Hand(t)
    BY <1>3, <2>2, <2>3
  <2>5. UNCHANGED <<taken, hitEof>>
    BY <1>5 DEF Token, privateVars, traceVars
  <2> QED BY <1>2, <2>4, <2>5 DEF Unmoved
<1>6. CASE Record(t)
  <2> DEFINE q == <<e, i>>
  <2>1. q \in RecordsOf(file)
    BY <1>1, <1>3, <1>6, RecordPlaces DEF Record
  <2>2. q[1] = e /\ q[2] = i
    OBVIOUS
  <2>3. q \in Hand(t)
    BY <1>3, <1>4, <2>1, <2>2
  <2>4. taken' = [taken EXCEPT ![t] = Append(@, Num(file, q))] /\ ~hitEof'[t]
    BY <1>1, <1>3, <1>6, <2>2 DEF Record, Num
  <2> HIDE DEF q
  <2>5. \A p \in RecordsOf(file) : p # q /\ p[1] = e /\ p[2] >= i => p[2] > i
    BY <1>4, <2>1, <2>2
  <2>6. \A p \in RecordsOf(file) : p[2] > i => p[2] >= i /\ p # q
    BY <1>4, <2>2
  <2>7. Hand(t)' = Hand(t) \ {q}
    BY <1>3, <2>5, <2>6
  <2>8. \A p \in Hand(t) \ {q} : Earlier(q, p)
    BY <1>3, <2>2, <2>5 DEF Earlier
  <2> QED BY <1>2, <2>3, <2>4, <2>7, <2>8 DEF Delivered
<1> QED BY <1>5, <1>6

LEMMA CountedStep ==
  ASSUME SharedInv, Counted, MaxSeeks = 0, NEW t \in Readers, Step(t)
  PROVE  Counted'
<1>1. TypeOK /\ NoSeeks /\ Aside(t)
  BY OthersAside DEF SharedInv
<1>2. ~SeekCall(t) /\ ~SeekUnlock(t) /\ ~Seat(t)
  BY <1>1, NoSeeksStep
<1>3. CASE \/ ReadCall(t) \/ SkipCall(t) \/ LockSource(t) \/ LockLend(t) \/ Update(t)
           \/ HeadRaw(t) \/ HeadFetch(t) \/ HeadEnd(t) \/ FetchLock(t) \/ Misread(t)
           \/ Unlock(t) \/ Eof(t)
  BY <1>1, <1>3, ControlUnmoved, UnmovedCounted
<1>4. CASE Reconfigure(t) \/ Build(t) \/ Adopt(t)
  BY <1>1, <1>4, TunesUnmoved, UnmovedCounted
<1>5. CASE HeadBlock(t)
  BY <1>1, <1>5, BlockUnmoved, UnmovedCounted
<1>6. CASE FetchBlock(t) \/ FetchNothing(t)
  BY <1>1, <1>6, FetchStep, UnmovedCounted, FetchedCounted
<1>7. CASE ReadRaw(t)
  BY <1>1, <1>7, RawStep, UnmovedCounted, FetchedCounted
<1>8. CASE Token(t) \/ Record(t)
  BY <1>1, <1>8, ParseStep, UnmovedCounted, DeliveredCounted
<1> QED
  BY <1>2, <1>3, <1>4, <1>5, <1>6, <1>7, <1>8 DEF Step, Call, Acquire, Proceed

LEMMA CountedInit ==
  ASSUME Init
  PROVE  Counted
<1>1. /\ file \in Files /\ pos = 1
      /\ \A t \in Readers : Hand(t) = {} /\ Got(t) = {} /\ ~hitEof[t] /\ DOMAIN taken[t] = {}
  <2>1. file \in Files /\ \A q \in RecordsOf(file) : q[1] # 0
    BY RecordShape DEF Init
  <2>2. ASSUME NEW t \in Readers  PROVE Hand(t) = {} /\ Got(t) = {} /\ DOMAIN taken[t] = {}
    <3>1. pc[t] = "idle" /\ status[t].cmp = {} /\ taken[t] = << >>
      BY DEF Init, DefaultStatus
    <3>2. HandEntry(t) = 0
      BY <3>1 DEF HandEntry, Compressed
    <3>3. DOMAIN taken[t] = {}
      BY <3>1
    <3> QED BY <2>1, <3>2, <3>3 DEF Hand, Got
  <2> QED BY <2>1, <2>2 DEF Init
<1>2. \A q \in RecordsOf(file) : ~(q[1] < pos)
  <2>1. \A q \in RecordsOf(file) : q[1] \in Nat /\ q[1] > 0
    BY <1>1, RecordShape
  <2> QED BY <1>1, <2>1
<1>3. HandsApart /\ GotBehind /\ ExactlyOnce /\ NoneLost
  BY <1>1, <1>2 DEF HandsApart, GotBehind, ExactlyOnce, NoneLost
<1> QED BY <1>3 DEF Counted

LEMMA CountedSame ==
  ASSUME Counted, UNCHANGED vars
  PROVE  Counted'
<1>1. UNCHANGED <<file, pos, pc, status, xcmp, hitEof, taken>>
  BY DEF vars, sourceVars, privateVars, traceVars
<1>2. \A t \in Readers : Hand(t)' = Hand(t) /\ Got(t)' = Got(t)
  BY <1>1 DEF Hand, HandEntry, HandOff, Compressed, Got
<1>3. HandsApart' /\ GotBehind' /\ ExactlyOnce' /\ NoneLost'
  BY <1>1, <1>2 DEF Counted, HandsApart, GotBehind, ExactlyOnce, NoneLost
<1> QED BY <1>3 DEF Counted

LEMMA CountedAlways ==
  MaxSeeks = 0 /\ ConfiguredFirst => (Spec => []CountedInv)
<1> SUFFICES ASSUME MaxSeeks = 0, ConfiguredFirst  PROVE Spec => []CountedInv
  OBVIOUS
<1>1. Init => CountedInv
  BY SharedInit, CountedInit DEF CountedInv
<1>2. CountedInv /\ [Next]_vars => CountedInv'
  <2>1. ASSUME CountedInv, [Next]_vars  PROVE Counted'
    <3>1. CASE Next
      BY <2>1, <3>1, CountedStep DEF Next, Step, CountedInv
    <3> QED BY <2>1, <3>1, CountedSame DEF CountedInv
  <2> QED BY <2>1, SharedStep DEF CountedInv
<1> QED BY <1>1, <1>2, PTL DEF Spec

----------------------------------------------------------------------------
(* The theorems.                                                            *)

\* The readers of one stream get no record twice, neither one of them nor two,
\* and each of them gets its records in the order of the file.
THEOREM SharedExactlyOnce ==
  MaxSeeks = 0 /\ ConfiguredFirst => (Spec => []ExactlyOnce)
<1>1. CountedInv => ExactlyOnce
  BY DEF CountedInv, Counted
<1> QED BY <1>1, CountedAlways, PTL

\* When all of them have met the end, every record was read by one of them: no
\* block is lost with a decompressor or between two readers.
THEOREM SharedComplete ==
  MaxSeeks = 0 /\ ConfiguredFirst /\ Readers # {} => (Spec => []Complete)
<1> SUFFICES ASSUME MaxSeeks = 0, ConfiguredFirst, Readers # {}  PROVE Spec => []Complete
  OBVIOUS
<1>1. ASSUME CountedInv, \A t \in Readers : hitEof[t], NEW n \in 1 .. RecordCount
      PROVE  \E t \in Readers : \E i \in DOMAIN taken[t] : taken[t][i] = n
  <2>1. file \in Files /\ pos \in Nat /\ NoneLost
    BY <1>1 DEF CountedInv, SharedInv, Counted, TypeOK
  <2>2. PICK q \in RecordsOf(file) : Num(file, q) = n
    BY <1>1, <2>1, NumOnto DEF RecordCount
  <2>3. q[1] < pos
    <3>1. pos > Len(file) /\ Len(file) \in Nat
      BY <1>1, <2>1, FileShape DEF NoneLost
    <3>2. q[1] \in Nat /\ q[1] <= Len(file)
      BY <2>1, RecordShape
    <3> QED BY <2>1, <3>1, <3>2
  <2>4. PICK t \in Readers : q \in Hand(t) \/ n \in Got(t)
    BY <2>1, <2>2, <2>3 DEF NoneLost
  <2>5. n \in Got(t)
    BY <1>1, <2>1, <2>4 DEF NoneLost
  <2> QED BY <2>5 DEF Got
<1>2. CountedInv => Complete
  BY <1>1 DEF Complete
<1> QED BY <1>2, CountedAlways, PTL
================================================================================
