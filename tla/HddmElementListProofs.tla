------------------------- MODULE HddmElementListProofs -------------------------
(***************************************************************************)
(* The element lists are right whatever is added, deleted, constructed and *)
(* destroyed, in any order, for any number of cells and containers, as     *)
(* long as an emptied list is refilled only where it is settled (Careful). *)
(*                                                                         *)
(* Everything rests on one fact about positions: the elements of a         *)
(* container are a run of neighbours in the host list, its two iterators   *)
(* point at the ends of that run, and an insertion never splits the run of *)
(* another container (Apart).  The lemmas turn the calls of std::list into *)
(* functions on positions, follow the list a call is made on and then the  *)
(* lists beside it, and end in ListsInv, the inductive invariant.          *)
(***************************************************************************)
EXTENDS HddmElementList, SequenceTheorems, TLAPS

----------------------------------------------------------------------------
(* Host lists: sequences of cells in which no cell occurs twice.            *)

Distinct(h) == \A i, j \in DOMAIN h : h[i] = h[j] => i = j

HostLists == {h \in Seq(Nodes) : Distinct(h)}

\* The position of a cell is where it is.
LEMMA PosOfCell ==
  ASSUME NEW h \in HostLists, NEW i \in 1 .. Len(h)
  PROVE  Pos(h, h[i]) = i
<1>0. h \in Seq(Nodes) /\ Distinct(h) /\ Len(h) \in Nat /\ DOMAIN h = 1 .. Len(h)
  BY DEF HostLists
<1>1. h[i] \in Nodes /\ h[i] # End
  BY <1>0, EndAssumption
<1>2. {k \in 1 .. Len(h) : h[k] = h[i]} = {i}
  BY <1>0 DEF Distinct
<1>3. Min({i}) = i
  BY DEF Min
<1>4. SelectInSeq(h, LAMBDA c : c = h[i]) = i
  BY <1>2, <1>3 DEF SelectInSeq
<1> QED
  BY <1>1, <1>4 DEF Pos

LEMMA PosOfEnd == ASSUME NEW h PROVE Pos(h, End) = Len(h) + 1
  BY DEF Pos

LEMMA AtPosition ==
  ASSUME NEW h \in HostLists, NEW i \in 1 .. Len(h)
  PROVE  At(h, i) = h[i] /\ h[i] \in Nodes /\ h[i] # End /\ h[i] \in Cells(h)
<1>0. h \in Seq(Nodes) /\ Len(h) \in Nat /\ DOMAIN h = 1 .. Len(h)
  BY DEF HostLists
<1> QED
  BY <1>0, EndAssumption DEF At, Cells

LEMMA AtEnd ==
  ASSUME NEW h \in HostLists
  PROVE  At(h, Len(h) + 1) = End
<1>0. h \in Seq(Nodes) /\ Len(h) \in Nat /\ DOMAIN h = 1 .. Len(h)
  BY DEF HostLists
<1> QED
  BY <1>0 DEF At

\* An iterator that is valid is at its position.
LEMMA AtPos ==
  ASSUME NEW h \in HostLists, NEW i \in 1 .. Len(h) + 1
  PROVE  Pos(h, At(h, i)) = i
<1>0. Len(h) \in Nat
  BY DEF HostLists
<1>1. CASE i = Len(h) + 1
  BY <1>1, AtEnd, PosOfEnd
<1>2. CASE i \in 1 .. Len(h)
  BY <1>2, AtPosition, PosOfCell
<1> QED
  BY <1>0, <1>1, <1>2

LEMMA ValidAt ==
  ASSUME NEW h \in HostLists, NEW it, Valid(h, it)
  PROVE  /\ Pos(h, it) \in 1 .. Len(h) + 1
         /\ At(h, Pos(h, it)) = it
<1>0. h \in Seq(Nodes) /\ Len(h) \in Nat /\ DOMAIN h = 1 .. Len(h)
  BY DEF HostLists
<1>1. CASE it = End
  BY <1>0, <1>1, PosOfEnd, AtEnd
<1>2. CASE it \in Cells(h)
  <2>1. PICK i \in 1 .. Len(h) : it = h[i]
    BY <1>0, <1>2 DEF Cells
  <2> QED
    BY <1>0, <2>1, PosOfCell, AtPosition
<1> QED
  BY <1>1, <1>2 DEF Valid

----------------------------------------------------------------------------
(* What std::list does to positions.                                        *)

\* Two sequences, of length m and n, one after the other.
Joined(S, f, g, m, n) ==
  /\ f \o g \in Seq(S) /\ Len(f \o g) = m + n
  /\ \A k \in 1 .. m + n : (f \o g)[k] = IF k <= m THEN f[k] ELSE g[k - m]

LEMMA ConcatAt ==
  ASSUME NEW S, NEW f \in Seq(S), NEW g \in Seq(S), NEW m \in Nat, NEW n \in Nat,
         Len(f) = m, Len(g) = n
  PROVE  Joined(S, f, g, m, n)
BY ConcatProperties DEF Joined

\* New cells of the heap, none of them in h.
New(h, n) ==
  {ns \in [1 .. n -> Nodes \ Cells(h)] : \A i, j \in 1 .. n : ns[i] = ns[j] => i = j}

LEMMA FreshNew == ASSUME NEW n PROVE Fresh(n) = New(host, n)
  BY DEF Fresh, New

\* The cell at position k after ns was inserted before position i.
Spliced(h, i, ns) ==
  [k \in 1 .. Len(h) + Len(ns) |->
     IF k < i THEN h[k] ELSE IF k < i + Len(ns) THEN ns[k - i + 1] ELSE h[k - Len(ns)]]

LEMMA SpliceIs ==
  ASSUME NEW S, NEW h \in Seq(S), NEW i \in 1 .. Len(h) + 1, NEW ns \in Seq(S)
  PROVE  /\ Splice(h, i, ns) = Spliced(h, i, ns)
         /\ Spliced(h, i, ns) \in Seq(S)
         /\ Len(Spliced(h, i, ns)) = Len(h) + Len(ns)
<1> DEFINE L == Len(h)  n == Len(ns)
           front == SubSeq(h, 1, i - 1)  back == SubSeq(h, i, L)
<1>0. L \in Nat /\ n \in Nat /\ i \in 1 .. L + 1
  OBVIOUS
<1>1. /\ front \in Seq(S) /\ Len(front) = i - 1
      /\ \A k \in 1 .. i - 1 : front[k] = h[k]
  BY <1>0
<1>2. /\ back \in Seq(S) /\ Len(back) = L - i + 1
      /\ \A k \in 1 .. L - i + 1 : back[k] = h[i + k - 1]
  BY <1>0
<1> HIDE DEF front, back
<1>3. /\ front \o ns \in Seq(S) /\ Len(front \o ns) = i - 1 + n
      /\ \A k \in 1 .. i - 1 + n : (front \o ns)[k] =
            IF k < i THEN h[k] ELSE ns[k - i + 1]
  <2>1. /\ front \o ns \in Seq(S) /\ Len(front \o ns) = i - 1 + n
        /\ \A k \in 1 .. i - 1 + n : (front \o ns)[k] =
              IF k <= i - 1 THEN front[k] ELSE ns[k - (i - 1)]
    <3>1. i - 1 \in Nat
      BY <1>0
    <3>2. Joined(S, front, ns, i - 1, n)
      BY <1>0, <1>1, <3>1, ConcatAt
    <3> QED
      BY <3>2 DEF Joined
  <2> QED
    BY <1>0, <1>1, <2>1
<1> DEFINE fn == front \o ns
<1> HIDE DEF fn
<1>4. /\ fn \o back \in Seq(S) /\ Len(fn \o back) = L + n
      /\ \A k \in 1 .. L + n : (fn \o back)[k] = Spliced(h, i, ns)[k]
  <2>0. fn \in Seq(S) /\ Len(fn) = i - 1 + n
    BY <1>3 DEF fn
  <2>1. /\ fn \o back \in Seq(S) /\ Len(fn \o back) = L + n
        /\ \A k \in 1 .. L + n : (fn \o back)[k] =
              IF k <= i - 1 + n THEN fn[k] ELSE back[k - (i - 1 + n)]
    <3>1. i - 1 + n \in Nat /\ L - i + 1 \in Nat /\ (i - 1 + n) + (L - i + 1) = L + n
      BY <1>0
    <3>2. Joined(S, fn, back, i - 1 + n, L - i + 1)
      BY <1>2, <2>0, <3>1, ConcatAt
    <3> QED
      BY <3>1, <3>2 DEF Joined
  <2>2. ASSUME NEW k \in 1 .. L + n
        PROVE  (fn \o back)[k] = Spliced(h, i, ns)[k]
    <3>1. CASE k <= i - 1 + n
      <4>1. k \in 1 .. i - 1 + n
        BY <1>0, <3>1
      <4> QED
        BY <1>0, <1>3, <2>1, <3>1, <4>1 DEF fn, Spliced
    <3>2. CASE ~ (k <= i - 1 + n)
      <4>1. k - (i - 1 + n) \in 1 .. L - i + 1 /\ i + (k - (i - 1 + n)) - 1 = k - n
        BY <1>0, <3>2
      <4>2. back[k - (i - 1 + n)] = h[k - n]
        BY <1>2, <4>1
      <4> QED
        BY <1>0, <2>1, <3>2, <4>2, SMTT(40) DEF Spliced
    <3> QED
      BY <3>1, <3>2
  <2> QED
    BY <2>1, <2>2
<1>5. Splice(h, i, ns) = fn \o back
  BY DEF Splice, fn, front, back
<1>6. Spliced(h, i, ns) \in Seq(S) /\ Len(Spliced(h, i, ns)) = L + n
  BY <1>0 DEF Spliced
<1> QED
  BY <1>0, <1>4, <1>5, <1>6, SeqEqual

\* The cell at position k after those from i to j - 1 were erased.
Cutted(h, i, j) ==
  [k \in 1 .. Len(h) - (j - i) |-> IF k < i THEN h[k] ELSE h[k + (j - i)]]

LEMMA CutIs ==
  ASSUME NEW S, NEW h \in Seq(S), NEW i \in 1 .. Len(h) + 1, NEW j \in i .. Len(h) + 1
  PROVE  /\ Cut(h, i, j) = Cutted(h, i, j)
         /\ Cutted(h, i, j) \in Seq(S)
         /\ Len(Cutted(h, i, j)) = Len(h) - (j - i)
<1> DEFINE L == Len(h)
           front == SubSeq(h, 1, i - 1)  back == SubSeq(h, j, L)
<1>0. L \in Nat /\ i \in 1 .. L + 1 /\ j \in i .. L + 1
  OBVIOUS
<1>1. /\ front \in Seq(S) /\ Len(front) = i - 1
      /\ \A k \in 1 .. i - 1 : front[k] = h[k]
  BY <1>0
<1>2. /\ back \in Seq(S) /\ Len(back) = L - j + 1
      /\ \A k \in 1 .. L - j + 1 : back[k] = h[j + k - 1]
  BY <1>0
<1> HIDE DEF front, back
<1>3. /\ front \o back \in Seq(S) /\ Len(front \o back) = L - (j - i)
      /\ \A k \in 1 .. L - (j - i) : (front \o back)[k] = Cutted(h, i, j)[k]
  <2>1. /\ front \o back \in Seq(S) /\ Len(front \o back) = L - (j - i)
        /\ \A k \in 1 .. L - (j - i) : (front \o back)[k] =
              IF k <= i - 1 THEN front[k] ELSE back[k - (i - 1)]
    <3>1. i - 1 \in Nat /\ L - j + 1 \in Nat /\ (i - 1) + (L - j + 1) = L - (j - i)
      BY <1>0
    <3>2. Joined(S, front, back, i - 1, L - j + 1)
      BY <1>1, <1>2, <3>1, ConcatAt
    <3> QED
      BY <3>1, <3>2 DEF Joined
  <2>2. ASSUME NEW k \in 1 .. L - (j - i)
        PROVE  (front \o back)[k] = Cutted(h, i, j)[k]
    <3>1. CASE k <= i - 1
      BY <1>0, <1>1, <2>1, <3>1 DEF Cutted
    <3>2. CASE ~ (k <= i - 1)
      <4>1. k - (i - 1) \in 1 .. L - j + 1 /\ j + (k - (i - 1)) - 1 = k + (j - i)
        BY <1>0, <3>2
      <4>2. back[k - (i - 1)] = h[k + (j - i)]
        BY <1>2, <4>1
      <4> QED
        BY <1>0, <2>1, <3>2, <4>2 DEF Cutted
    <3> QED
      BY <3>1, <3>2
  <2> QED
    BY <2>1, <2>2
<1>4. Cut(h, i, j) = front \o back
  BY DEF Cut, front, back
<1>5. Cutted(h, i, j) \in Seq(S) /\ Len(Cutted(h, i, j)) = L - (j - i)
  BY <1>0 DEF Cutted
<1> QED
  BY <1>0, <1>3, <1>4, <1>5, SeqEqual

----------------------------------------------------------------------------
(* What insert does to the host list and to the list it is called on.       *)

\* new is h with the n cells ns before position at.
Inserted(h, at, n, ns, new) ==
  /\ new \in HostLists /\ Len(new) = Len(h) + n
  /\ \A k \in 1 .. at - 1 : new[k] = h[k]
  /\ \A k \in at .. at + n - 1 : new[k] = ns[k - at + 1]
  /\ \A k \in at + n .. Len(h) + n : new[k] = h[k - n]

LEMMA SpliceInserted ==
  ASSUME NEW h \in HostLists, NEW at \in 1 .. Len(h) + 1, NEW n \in Nat,
         NEW ns \in New(h, n)
  PROVE  Inserted(h, at, n, ns, Splice(h, at, ns))
<1> DEFINE new == Splice(h, at, ns)  L == Len(h)
<1>0. /\ h \in Seq(Nodes) /\ Distinct(h) /\ L \in Nat /\ DOMAIN h = 1 .. L
      /\ ns \in Seq(Nodes) /\ Len(ns) = n /\ at \in 1 .. L + 1
      /\ ns \in [1 .. n -> Nodes \ Cells(h)]
      /\ \A i, j \in 1 .. n : ns[i] = ns[j] => i = j
  BY DEF HostLists, New
<1>1. new = Spliced(h, at, ns) /\ new \in Seq(Nodes) /\ Len(new) = L + n
  BY <1>0, SpliceIs, SMTT(40)
<1> HIDE DEF new
<1>2. /\ \A k \in 1 .. at - 1 : new[k] = h[k]
      /\ \A k \in at .. at + n - 1 : new[k] = ns[k - at + 1]
      /\ \A k \in at + n .. L + n : new[k] = h[k - n]
  BY <1>0, <1>1 DEF Spliced
<1>3. \A k \in 1 .. L : h[k] \in Cells(h)
  BY <1>0 DEF Cells
<1>4. \A k \in 1 .. n : ns[k] \notin Cells(h)
  BY <1>0
<1>5. Distinct(new)
  <2> SUFFICES ASSUME NEW i \in 1 .. L + n, NEW j \in 1 .. L + n, new[i] = new[j], i <= j
               PROVE  i = j
    <3>1. DOMAIN new = 1 .. L + n
      BY <1>1
    <3> QED
      BY <1>0, <3>1 DEF Distinct
  <2>1. CASE i \in 1 .. at - 1
    <3>1. new[i] = h[i] /\ i \in 1 .. L
      BY <1>0, <1>2, <2>1
    <3>2. CASE j \in 1 .. at - 1
      <4>1. new[j] = h[j] /\ j \in 1 .. L
        BY <1>0, <1>2, <3>2
      <4> QED
        BY <1>0, <3>1, <4>1 DEF Distinct
    <3>3. CASE j \in at .. at + n - 1
      <4>1. new[j] = ns[j - at + 1] /\ j - at + 1 \in 1 .. n
        BY <1>0, <1>2, <3>3
      <4> QED
        BY <1>3, <1>4, <3>1, <4>1
    <3>4. CASE j \in at + n .. L + n
      <4>1. new[j] = h[j - n] /\ j - n \in 1 .. L /\ j - n # i
        BY <1>0, <1>2, <2>1, <3>4
      <4> QED
        BY <1>0, <3>1, <4>1 DEF Distinct
    <3> QED
      BY <1>0, <3>2, <3>3, <3>4
  <2>2. CASE i \in at .. at + n - 1
    <3>1. new[i] = ns[i - at + 1] /\ i - at + 1 \in 1 .. n
      BY <1>0, <1>2, <2>2
    <3>2. CASE j \in at .. at + n - 1
      <4>1. new[j] = ns[j - at + 1] /\ j - at + 1 \in 1 .. n
        BY <1>0, <1>2, <3>2
      <4>2. i - at + 1 = j - at + 1
        BY <1>0, <3>1, <4>1
      <4> QED
        BY <1>0, <4>2
    <3>3. CASE j \in at + n .. L + n
      <4>1. new[j] = h[j - n] /\ j - n \in 1 .. L
        BY <1>0, <1>2, <3>3
      <4> QED
        BY <1>3, <1>4, <3>1, <4>1
    <3> QED
      BY <1>0, <2>2, <3>2, <3>3
  <2>3. CASE i \in at + n .. L + n
    <3>1. /\ new[i] = h[i - n] /\ i - n \in 1 .. L
          /\ new[j] = h[j - n] /\ j - n \in 1 .. L
      BY <1>0, <1>2, <2>3
    <3>2. i - n = j - n
      BY <1>0, <3>1 DEF Distinct
    <3> QED
      BY <1>0, <3>2
  <2> QED
    BY <1>0, <2>1, <2>2, <2>3
<1> QED
  BY <1>0, <1>1, <1>2, <1>5 DEF Inserted, HostLists, new

\* The list l is not empty and lies at the positions from a to b of h.
Lies(h, l, a, b) ==
  /\ a \in 1 .. Len(h) /\ b \in a .. Len(h)
  /\ l.first = h[a] /\ l.last = h[b] /\ l.size = b - a + 1

\* The list l is empty; its iterators may dangle, but they are the same.
Empty(l) == l.size = 0 /\ l.first = l.last

LEMMA LiesPos ==
  ASSUME NEW h \in HostLists, NEW l, NEW a, NEW b, Lies(h, l, a, b)
  PROVE  /\ Pos(h, l.first) = a /\ Pos(h, l.last) = b
         /\ Begin(h, l) = a /\ Past(h, l) = b + 1
         /\ l.size > 0 /\ {l.first, l.last} \subseteq Cells(h)
         /\ Elements(h, l) = SubSeq(h, a, b)
<1>0. Len(h) \in Nat /\ a \in 1 .. Len(h) /\ b \in 1 .. Len(h) /\ a <= b
  BY DEF HostLists, Lies
<1>1. Pos(h, l.first) = a /\ Pos(h, l.last) = b
  BY <1>0, PosOfCell DEF Lies
<1>2. l.size > 0 /\ {l.first, l.last} \subseteq Cells(h)
  BY <1>0, AtPosition DEF Lies
<1>3. Begin(h, l) = a /\ Past(h, l) = b + 1
  BY <1>1, <1>2 DEF Begin, Past
<1> QED
  BY <1>0, <1>1, <1>2, <1>3 DEF Elements

LEMMA EmptyElements ==
  ASSUME NEW h, NEW l, Empty(l)
  PROVE  Elements(h, l) = << >>
BY DEF Elements, Empty

\* How far behind the first element the new ones go.
Offset(l, start) == IF start < 0 THEN start + l.size + 1 ELSE start

LEMMA PlaceIs ==
  ASSUME NEW h \in HostLists, NEW l, NEW a, NEW b, Lies(h, l, a, b),
         NEW start \in -l.size .. l.size
  PROVE  /\ Place(h, l, start) = a + Offset(l, start)
         /\ a + Offset(l, start) \in a .. b + 1
         /\ a + Offset(l, start) \in 1 .. Len(h) + 1
         /\ Offset(l, start) \in 0 .. l.size
         /\ start # 0 => a \in 1 .. a + Offset(l, start) - 1
         /\ start = 0 => Offset(l, start) = 0
<1>0. /\ Len(h) \in Nat /\ a \in 1 .. Len(h) /\ b \in 1 .. Len(h) /\ a <= b
      /\ l.size = b - a + 1 /\ l.size > 0
  BY DEF HostLists, Lies
<1>1. Pos(h, l.first) = a /\ Pos(h, l.last) = b
  BY LiesPos
<1>2. start = 0 => Place(h, l, start) = a + Offset(l, start)
  BY <1>0, <1>1 DEF Place, Offset
<1>3. start = -1 => Place(h, l, start) = a + Offset(l, start)
  BY <1>0, <1>1 DEF Place, Offset
<1>4. start > 0 => Place(h, l, start) = a + Offset(l, start)
  BY <1>0, <1>1 DEF Place, Offset
<1>5. start < -1 => Place(h, l, start) = a + Offset(l, start)
  BY <1>0, <1>1 DEF Place, Offset
<1>6. start = 0 \/ start = -1 \/ start > 0 \/ start < -1
  BY <1>0
<1>7. Place(h, l, start) = a + Offset(l, start)
  BY <1>2, <1>3, <1>4, <1>5, <1>6
<1>8. /\ Offset(l, start) \in 0 .. l.size
      /\ start # 0 => Offset(l, start) > 0
      /\ start = 0 => Offset(l, start) = 0
  BY <1>0, <1>6 DEF Offset
<1> QED
  BY <1>0, <1>7, <1>8

LEMMA InsertLies ==
  ASSUME NEW h \in HostLists, NEW l, NEW a, NEW b, Lies(h, l, a, b),
         NEW start \in -l.size .. l.size, NEW n \in Nat \ {0}, NEW ns \in New(h, n)
  PROVE  LET r == Insert(h, l, start, ns) IN
         /\ r.at = a + Offset(l, start)
         /\ Inserted(h, r.at, n, ns, r.host)
         /\ Lies(r.host, r.list, a, b + n)
         /\ r.list = [first |-> r.host[a], last |-> r.host[b + n], size |-> l.size + n]
<1>0. /\ Place(h, l, start) = a + Offset(l, start)
      /\ a + Offset(l, start) \in a .. b + 1
      /\ a + Offset(l, start) \in 1 .. Len(h) + 1
      /\ Offset(l, start) \in 0 .. l.size
      /\ start # 0 => a \in 1 .. a + Offset(l, start) - 1
      /\ start = 0 => Offset(l, start) = 0
  BY PlaceIs
<1> DEFINE at == a + Offset(l, start)  new == Splice(h, at, ns)
<1>a. /\ Len(h) \in Nat /\ a \in 1 .. Len(h) /\ b \in 1 .. Len(h) /\ a <= b
      /\ l.size = b - a + 1 /\ l.size > 0 /\ l.first = h[a] /\ l.last = h[b]
      /\ a \in Int /\ b \in Int /\ n \in Nat /\ n > 0
  BY DEF HostLists, Lies
<1>1. /\ Place(h, l, start) = at /\ at \in 1 .. Len(h) + 1 /\ at \in a .. b + 1
      /\ start # 0 => a \in 1 .. at - 1
      /\ start = 0 => Offset(l, start) = 0
  BY <1>0
<1>2. at \in Int /\ at >= a /\ at <= b + 1 /\ (start = 0 => at = a)
  BY <1>0, <1>a
<1> HIDE DEF at
<1>3. Inserted(h, at, n, ns, new)
  BY <1>1, SpliceInserted
<1>4. Pos(h, l.first) = a /\ Pos(h, l.last) = b
  BY LiesPos
<1>5. Len(ns) = n
  BY DEF New
<1> HIDE DEF new
<1>6. new \in HostLists /\ Len(new) = Len(h) + n
  BY <1>3 DEF Inserted
<1>7. (IF l.size = 0 \/ start = 0 THEN At(new, at) ELSE l.first) = new[a]
  <2>1. CASE start = 0
    <3>1. at = a /\ at \in 1 .. Len(new)
      BY <1>a, <1>2, <1>6, <2>1
    <3> QED
      BY <1>6, <2>1, <3>1, AtPosition
  <2>2. CASE start # 0
    <3>1. a \in 1 .. at - 1
      BY <1>1, <2>2
    <3> QED
      BY <1>a, <1>3, <2>2, <3>1 DEF Inserted
  <2> QED
    BY <2>1, <2>2
<1>8. LastAfter(h, new, l, at, n) = new[b + n]
  <2>1. CASE at = b + 1
    <3>1. at + n - 1 = b + n /\ b + n \in 1 .. Len(new)
      BY <1>a, <1>6, <2>1
    <3>2. At(new, at + n - 1) = new[b + n]
      BY <1>6, <3>1, AtPosition
    <3> QED
      BY <1>a, <1>4, <2>1, <3>2 DEF LastAfter
  <2>2. CASE at # b + 1
    <3>1. b + n \in at + n .. Len(h) + n /\ (b + n) - n = b
      BY <1>a, <1>1, <1>2, <2>2
    <3>2. new[b + n] = h[b]
      BY <1>3, <3>1 DEF Inserted
    <3> QED
      BY <1>a, <1>4, <2>2, <3>2 DEF LastAfter
  <2> QED
    BY <2>1, <2>2
<1> DEFINE grown == [first |-> new[a], last |-> new[b + n], size |-> l.size + n]
<1>9. Insert(h, l, start, ns) = [host |-> new, at |-> at, list |-> grown]
  <2>1. /\ Place(h, l, start) = at
        /\ Splice(h, at, ns) = new
        /\ LastAfter(h, new, l, at, Len(ns)) = new[b + n]
        /\ l.size + Len(ns) = l.size + n
    BY <1>1, <1>5, <1>8 DEF new
  <2> HIDE DEF new
  <2> QED
    BY <1>7, <2>1, Zenon DEF Insert
<1>10. Lies(new, grown, a, b + n)
  <2>1. a \in 1 .. Len(new) /\ b + n \in a .. Len(new) /\ l.size + n = (b + n) - a + 1
    BY <1>a, <1>6
  <2> QED
    BY <2>1 DEF Lies
<1> QED
  BY <1>3, <1>9, <1>10 DEF at

LEMMA InsertEmpty ==
  ASSUME NEW h \in HostLists, NEW l, Empty(l), Valid(h, l.first),
         NEW start, NEW n \in Nat \ {0}, NEW ns \in New(h, n)
  PROVE  LET r == Insert(h, l, start, ns) IN
         /\ r.at = Pos(h, l.first) /\ r.at \in 1 .. Len(h) + 1
         /\ Inserted(h, r.at, n, ns, r.host)
         /\ Lies(r.host, r.list, r.at, r.at + n - 1)
         /\ r.list = [first |-> r.host[r.at], last |-> r.host[r.at + n - 1], size |-> n]
<1> DEFINE at == Pos(h, l.first)  new == Splice(h, at, ns)
<1>0. Len(h) \in Nat /\ l.size = 0 /\ l.first = l.last
  BY DEF HostLists, Empty
<1>1. at \in 1 .. Len(h) + 1 /\ At(h, at) = l.first /\ at \in Int
  BY <1>0, ValidAt
<1>2. Place(h, l, start) = at
  BY <1>0 DEF Place
<1> HIDE DEF at
<1>3. Inserted(h, at, n, ns, new)
  BY <1>1, SpliceInserted
<1>5. Len(ns) = n
  BY DEF New
<1> HIDE DEF new
<1>6. new \in HostLists /\ Len(new) = Len(h) + n
  BY <1>3 DEF Inserted
<1>7. At(new, at) = new[at] /\ At(new, at + n - 1) = new[at + n - 1]
  BY <1>0, <1>1, <1>6, AtPosition, SMTT(40)
<1>8. Pos(new, l.last) = at + n
  <2>1. CASE at = Len(h) + 1
    <3>1. l.last = End
      BY <1>0, <1>1, <2>1, AtEnd
    <3> QED
      BY <1>0, <1>6, <2>1, <3>1, PosOfEnd
  <2>2. CASE at \in 1 .. Len(h)
    <3>1. l.last = h[at]
      BY <1>0, <1>1, <2>2, AtPosition
    <3>2. at + n \in at + n .. Len(h) + n /\ (at + n) - n = at /\ at + n \in 1 .. Len(new)
      BY <1>0, <1>6, <2>2
    <3>3. new[at + n] = h[(at + n) - n]
      BY <1>3, <3>2, Zenon DEF Inserted
    <3>4. new[at + n] = h[at]
      BY <3>2, <3>3
    <3> QED
      BY <1>6, <3>1, <3>2, <3>4, PosOfCell
  <2> QED
    BY <1>0, <1>1, <2>1, <2>2
<1>9. LastAfter(h, new, l, at, n) = new[at + n - 1]
  <2>1. LastAfter(h, new, l, at, n) = At(new, Pos(new, l.last) - 1)
    BY <1>0, SMT DEF LastAfter
  <2> QED
    <3>1. (at + n) - 1 = at + n - 1
      BY <1>1
    <3> QED
      BY <1>7, <1>8, <2>1, <3>1
<1>10. Insert(h, l, start, ns) =
        [host |-> new, at |-> at,
         list |-> [first |-> new[at], last |-> new[at + n - 1], size |-> n]]
  <2>1. l.size + n = n /\ l.size = 0
    BY <1>0
  <2> QED
    BY <1>2, <1>5, <1>7, <1>9, <2>1, Zenon DEF Insert, new
<1>11. Lies(new, [first |-> new[at], last |-> new[at + n - 1], size |-> n], at, at + n - 1)
  BY <1>0, <1>1, <1>6 DEF Lies
<1> QED
  BY <1>1, <1>3, <1>10, <1>11 DEF at

----------------------------------------------------------------------------
(* What del does to the host list and to the list it is called on.          *)

\* new is h without the n cells from position i on.
Erased(h, i, n, new) ==
  /\ new \in HostLists /\ Len(new) = Len(h) - n
  /\ \A k \in 1 .. i - 1 : new[k] = h[k]
  /\ \A k \in i .. Len(h) - n : new[k] = h[k + n]

LEMMA CutErased ==
  ASSUME NEW h \in HostLists, NEW i \in 1 .. Len(h), NEW n \in 0 .. Len(h) - i + 1
  PROVE  Erased(h, i, n, Cut(h, i, i + n))
<1> DEFINE new == Cut(h, i, i + n)  L == Len(h)
<1>0. /\ h \in Seq(Nodes) /\ Distinct(h) /\ L \in Nat /\ DOMAIN h = 1 .. L
      /\ i \in Int /\ i \in 1 .. L + 1 /\ n \in Nat /\ i + n \in i .. L + 1
      /\ (i + n) - i = n
  BY DEF HostLists
<1>1. new = Cutted(h, i, i + n) /\ new \in Seq(Nodes) /\ Len(new) = L - n
  <2> DEFINE j == i + n
  <2>1. j \in i .. L + 1 /\ j - i = n
    BY <1>0
  <2> HIDE DEF j
  <2>2. Cut(h, i, j) = Cutted(h, i, j) /\ Cutted(h, i, j) \in Seq(Nodes)
        /\ Len(Cutted(h, i, j)) = L - (j - i)
    BY <1>0, <2>1, CutIs
  <2> QED
    BY <2>1, <2>2 DEF j
<1> HIDE DEF new
<1>2. /\ \A k \in 1 .. i - 1 : new[k] = h[k]
      /\ \A k \in i .. L - n : new[k] = h[k + n]
  BY <1>0, <1>1 DEF Cutted
<1>3. Distinct(new)
  <2> SUFFICES ASSUME NEW k \in 1 .. L - n, NEW m \in 1 .. L - n, new[k] = new[m], k <= m
               PROVE  k = m
    <3>1. DOMAIN new = 1 .. L - n
      BY <1>1
    <3> QED
      BY <1>0, <3>1 DEF Distinct
  <2>1. CASE m \in 1 .. i - 1
    <3>1. /\ new[k] = h[k] /\ k \in 1 .. L
          /\ new[m] = h[m] /\ m \in 1 .. L
      BY <1>0, <1>2, <2>1
    <3> QED
      BY <1>0, <3>1 DEF Distinct
  <2>2. CASE m \in i .. L - n /\ k \in 1 .. i - 1
    <3>1. /\ new[k] = h[k] /\ k \in 1 .. L
          /\ new[m] = h[m + n] /\ m + n \in 1 .. L /\ k # m + n
      BY <1>0, <1>2, <2>2
    <3> QED
      BY <1>0, <3>1 DEF Distinct
  <2>3. CASE m \in i .. L - n /\ k \in i .. L - n
    <3>1. /\ new[k] = h[k + n] /\ k + n \in 1 .. L
          /\ new[m] = h[m + n] /\ m + n \in 1 .. L
      BY <1>0, <1>2, <2>3
    <3>2. k + n = m + n
      BY <1>0, <3>1 DEF Distinct
    <3> QED
      BY <1>0, <3>2
  <2> QED
    BY <1>0, <2>1, <2>2, <2>3
<1> QED
  BY <1>0, <1>1, <1>2, <1>3 DEF Erased, HostLists, new

\* The first element del takes, counted from 0, and how many it takes.
Index(l, start) == IF start < 0 THEN start + l.size ELSE start
Number(l, start, count) == IF count = -1 THEN l.size - Index(l, start) ELSE count

LEMMA SpanIs ==
  ASSUME NEW l \in ElementList, l.size > 0, NEW start \in -l.size .. l.size,
         NEW count \in Counts(l, start)
  PROVE  /\ Span(l, start, count)
               = [start |-> Index(l, start), count |-> Number(l, start, count)]
         /\ Index(l, start) \in 0 .. l.size - 1
         /\ Number(l, start, count) \in 1 .. l.size - Index(l, start)
         /\ count # 0 /\ count \in Int
         /\ count < 0 => count = -1
<1>0. l.size \in Nat /\ start \in Int
  BY DEF ElementList
<1> DEFINE rest == IF start < 0 THEN -start ELSE l.size - start
<1>1. rest = l.size - Index(l, start) /\ rest \in Int
  BY <1>0 DEF Index
<1>2. count \in -1 .. rest /\ count # 0 /\ rest > 0
  BY DEF Counts
<1>3. Index(l, start) \in 0 .. l.size - 1
  BY <1>0, <1>1, <1>2 DEF Index
<1>4. Number(l, start, count) \in 1 .. l.size - Index(l, start)
  BY <1>0, <1>1, <1>2, <1>3 DEF Number
<1>5. (CASE start < 0 -> start + l.size
         [] start >= 0 -> IF start < l.size THEN start ELSE l.size) = Index(l, start)
  BY <1>0, <1>3 DEF Index
<1>6. Span(l, start, count)
        = [start |-> Index(l, start), count |-> Number(l, start, count)]
  BY <1>5 DEF Span, Number
<1>7. /\ count # 0 /\ count \in Int
      /\ count < 0 => count = -1
  BY <1>1, <1>2
<1> QED
  BY <1>3, <1>4, <1>6, <1>7

\* The cells of h from position i up to j - 1.
Between(h, i, j) == {h[k] : k \in i .. j - 1}

\* del of n elements from the s-th on, in a list l that lies from a to b.
Dropped(h, l, a, b, s, n, d) ==
  /\ Erased(h, a + s, n, d.host) /\ d.host = Cut(h, a + s, a + s + n)
  /\ d.list \in ElementList
  /\ n < l.size => Lies(d.host, d.list, a, b - n)
  /\ n = l.size => Empty(d.list)
  /\ d.freed = Between(h, a + s, a + s + n)

LEMMA DelLies ==
  ASSUME NEW h \in HostLists, NEW l \in ElementList, NEW a, NEW b, Lies(h, l, a, b),
         NEW start \in -l.size .. l.size, NEW count \in Counts(l, start)
  PROVE  Dropped(h, l, a, b, Index(l, start), Number(l, start, count),
                 Del(h, l, start, count))
<1> DEFINE s == Index(l, start)  n == Number(l, start, count)
           i == a + s  j == a + s + n
           new == Cut(h, i, j)  next == At(h, j)
           less == [l EXCEPT !.size = @ - n]
<1>0. /\ Len(h) \in Nat /\ a \in 1 .. Len(h) /\ b \in 1 .. Len(h) /\ a <= b
      /\ l.size = b - a + 1 /\ l.size > 0 /\ l.first = h[a] /\ l.last = h[b]
      /\ a \in Int /\ b \in Int /\ l.size \in Nat
  BY DEF HostLists, Lies
<1>1. /\ Pos(h, l.first) = a /\ Pos(h, l.last) = b
      /\ Begin(h, l) = a /\ Past(h, l) = b + 1
  BY LiesPos
<1>2. /\ Span(l, start, count) = [start |-> s, count |-> n]
      /\ s \in 0 .. l.size - 1 /\ n \in 1 .. l.size - s
      /\ count # 0 /\ count \in Int
      /\ count < 0 => count = -1
  BY <1>0, SpanIs
<1>3. /\ Span(l, start, count).start = s /\ Span(l, start, count).count = n
  BY <1>2
<1>4. Deleted(h, l, start, count) = Between(h, i, j)
  <2>1. (IF start < 0 THEN Past(h, l) + start ELSE Begin(h, l) + start) = i
    BY <1>0, <1>1 DEF Index
  <2>2. (IF count >= 0 THEN i + count ELSE Past(h, l)) = j
    <3>1. CASE count >= 0
      <4>1. count # -1
        BY <3>1
      <4>2. n = count
        BY <4>1 DEF Number
      <4> QED
        BY <3>1, <4>2
    <3>2. CASE ~ (count >= 0)
      <4>1. count = -1
        BY <1>2, <3>2
      <4>2. n = l.size - s
        BY <4>1 DEF Number
      <4> HIDE DEF s, n
      <4>3. s \in Int /\ j = a + l.size
        BY <1>0, <1>2, <4>2
      <4> HIDE DEF j
      <4> QED
        BY <1>0, <1>1, <3>2, <4>3
    <3> QED
      BY <3>1, <3>2
  <2> QED
    BY <2>1, <2>2, Zenon DEF Deleted, Between
<1> SUFFICES Dropped(h, l, a, b, s, n, Del(h, l, start, count))
  OBVIOUS
<1> HIDE DEF s, n
<1>5. /\ s \in Nat /\ n \in Nat /\ n > 0 /\ s + n <= l.size
      /\ i = a + s /\ j = a + s + n /\ i \in Int /\ j \in Int
      /\ b = a + l.size - 1 /\ a >= 1 /\ a + l.size - 1 <= Len(h)
  BY <1>0, <1>2
<1> HIDE DEF i, j
<1>6. i \in 1 .. Len(h) /\ n \in 0 .. Len(h) - i + 1 /\ j = i + n
      /\ j \in 1 .. Len(h) + 1 /\ j - n = i
  <2>0. Len(h) \in Nat /\ a \in Int /\ l.size \in Nat
    BY <1>0
  <2>1. j = i + n
    BY <1>5, <2>0
  <2>2. i >= 1 /\ i + n <= Len(h) + 1
    BY <1>5, <2>0
  <2>3. n \in Nat /\ n > 0 /\ i \in Int
    BY <1>5
  <2> QED
    BY <2>0, <2>1, <2>2, <2>3
<1>7. Erased(h, i, n, new)
  <2>1. new = Cut(h, i, i + n)
    BY <1>6
  <2> QED
    BY <1>6, <2>1, CutErased
<1>8. (IF n = l.size THEN Pos(h, l.last) + 1 ELSE i + n) = j
  BY <1>0, <1>1, <1>5
<1>9. Pos(h, next) = j /\ next \in Nodes \cup {End}
  BY <1>6, AtPos, AtPosition, AtEnd
<1>10. /\ less \in ElementList /\ less.first = l.first /\ less.last = l.last
       /\ less.size = l.size - n
  <2>1. l.size - n \in Nat
    BY <1>0, <1>5
  <2> QED
    BY <2>1 DEF ElementList
<1> HIDE DEF new, next, less
<1>11. new \in HostLists /\ Len(new) = Len(h) - n
  BY <1>7 DEF Erased
<1> DEFINE emptied == [less EXCEPT !.first = next, !.last = next]
           noTail == [less EXCEPT !.last =
                        IF next = l.first THEN next
                        ELSE At(new, Pos(new, next) - 1)]
           noFront == [less EXCEPT !.first = next]
           shrunk ==
             CASE n = l.size -> emptied
               [] n # l.size /\ s > 0 /\ s + n = l.size -> noTail
               [] n # l.size /\ s = 0 -> noFront
               [] OTHER -> less
<1>12. Erase(h, l, start, count) = [host |-> new, list |-> shrunk]
  BY <1>1, <1>3, <1>8, Zenon DEF Erase, new, next, less, i, j
<1> HIDE DEF emptied, noTail, noFront
<1>a. /\ n = l.size => shrunk = emptied
      /\ n # l.size /\ s > 0 /\ s + n = l.size => shrunk = noTail
      /\ n # l.size /\ s = 0 => shrunk = noFront
      /\ n # l.size /\ ~ (s > 0 /\ s + n = l.size) /\ s # 0 => shrunk = less
  BY <1>5
<1> HIDE DEF shrunk
<1>13. Del(h, l, start, count)
         = [host |-> new, list |-> shrunk, freed |-> Between(h, i, j)]
  <2>1. ~ (l.size = 0 \/ count = 0)
    BY <1>0, <1>2
  <2>2. Erase(h, l, start, count).host = new /\ Erase(h, l, start, count).list = shrunk
    BY <1>12
  <2> QED
    BY <1>4, <2>1, <2>2, Zenon DEF Del
<1>14. ASSUME shrunk \in ElementList,
              n < l.size => Lies(new, shrunk, a, b - n),
              n = l.size => Empty(shrunk)
       PROVE  Dropped(h, l, a, b, s, n, Del(h, l, start, count))
  <2> DEFINE d == Del(h, l, start, count)
  <2>1. d.host = new /\ d.list = shrunk /\ d.freed = Between(h, i, j)
    BY <1>13
  <2> HIDE DEF d
  <2>2. new = Cut(h, a + s, a + s + n)
    BY DEF new, i, j
  <2>3. Erased(h, a + s, n, new)
    BY <1>7 DEF i
  <2>4. d.freed = Between(h, a + s, a + s + n)
    BY <2>1 DEF i, j
  <2>5. Dropped(h, l, a, b, s, n, d)
    BY <1>14, <2>1, <2>2, <2>3, <2>4, Zenon DEF Dropped
  <2> QED
    BY <2>5 DEF d
<1>15. CASE n # l.size /\ s > 0 /\ s + n = l.size
  <2>1. shrunk = [less EXCEPT !.last =
                    IF next = l.first THEN next ELSE At(new, Pos(new, next) - 1)]
    BY <1>15, <1>a DEF noTail
  <2>2. next # l.first
    <3>1. j # a
      BY <1>5
    <3> QED
      BY <1>1, <1>9, <3>1
  <2>3. Pos(new, next) = i
    <3>1. CASE j = Len(h) + 1
      <4>1. next = End
        BY <3>1, AtEnd DEF next
      <4> QED
        BY <1>0, <1>5, <1>6, <1>11, <3>1, <4>1, PosOfEnd
    <3>2. CASE j # Len(h) + 1
      <4>1. j \in 1 .. Len(h) /\ i \in i .. Len(h) - n /\ i \in 1 .. Len(new)
        BY <1>0, <1>5, <1>6, <1>11, <3>2
      <4>2. next = h[j] /\ new[i] = h[i + n]
        BY <1>7, <4>1, AtPosition DEF Erased, next
      <4>3. new[i] = next
        BY <1>6, <4>2
      <4> QED
        BY <1>11, <4>1, <4>3, PosOfCell
    <3> QED
      BY <3>1, <3>2
  <2>4. i - 1 \in 1 .. i - 1 /\ i - 1 \in 1 .. Len(new) /\ i - 1 = b - n
        /\ a \in 1 .. i - 1 /\ b - n \in a .. Len(new) /\ a \in 1 .. Len(new)
        /\ l.size - n = (b - n) - a + 1
    BY <1>0, <1>5, <1>6, <1>11, <1>15
  <2>5. At(new, Pos(new, next) - 1) = new[b - n] /\ new[b - n] \in Nodes
    BY <1>11, <2>3, <2>4, AtPosition
  <2>6. new[a] = l.first
    BY <1>0, <1>7, <2>4 DEF Erased
  <2>7. shrunk = [less EXCEPT !.last = new[b - n]]
    BY <2>1, <2>2, <2>5
  <2>8. /\ shrunk \in ElementList /\ shrunk.first = less.first
        /\ shrunk.last = new[b - n] /\ shrunk.size = less.size
    BY <1>10, <2>5, <2>7 DEF ElementList
  <2>9. Lies(new, shrunk, a, b - n)
    BY <1>10, <2>4, <2>6, <2>8 DEF Lies
  <2> QED
    BY <1>14, <1>15, <2>8, <2>9
<1>16. CASE n # l.size /\ ~ (s > 0 /\ s + n = l.size)
  <2>0. /\ s + n < l.size /\ l.size = b - a + 1
        /\ s \in Int /\ n \in Int /\ a \in Int /\ b \in Int /\ i \in Int
        /\ Len(h) \in Int /\ Len(new) = Len(h) - n
        /\ s >= 0 /\ n > 0 /\ a >= 1 /\ b <= Len(h) /\ i = a + s
    BY <1>0, <1>5, <1>11, <1>16, SMTT(40)
  <2>a. a + s + n <= b
    BY <2>0
  <2>b. a <= b - n /\ b - n <= Len(h) - n /\ a + n <= b /\ 1 <= b - n /\ i <= b - n
    BY <2>0, <2>a
  <2>1. a \in 1 .. Len(new) /\ b - n \in a .. Len(new) /\ b - n \in 1 .. Len(new)
        /\ l.size - n = (b - n) - a + 1 /\ b - n \in i .. Len(h) - n /\ (b - n) + n = b
        /\ a + n \in 1 .. Len(h)
    <3>1. a \in 1 .. Len(new) /\ b - n \in a .. Len(new) /\ b - n \in 1 .. Len(new)
      BY <2>0, <2>b
    <3>2. l.size - n = (b - n) - a + 1 /\ (b - n) + n = b
      BY <2>0
    <3>3. b - n \in i .. Len(h) - n /\ a + n \in 1 .. Len(h)
      BY <2>0, <2>b
    <3> QED
      BY <3>1, <3>2, <3>3
  <2>2. new[b - n] = h[b] 
    <3>1. new[b - n] = h[(b - n) + n]
      BY <1>7, <2>1, Zenon DEF Erased
    <3> QED
      BY <2>1, <3>1
  <2>3. CASE s = 0
    <3>1. shrunk = [less EXCEPT !.first = next]
      BY <1>16, <1>a, <2>3 DEF noFront
    <3>2. a \in i .. Len(h) - n /\ a + n = j /\ j \in 1 .. Len(h)
      <4>1. a = i /\ a + n = j
        BY <1>5, <2>0, <2>3
      <4>2. a <= Len(h) - n
        BY <2>0, <2>b
      <4> QED
        BY <2>0, <2>1, <4>1, <4>2
    <3>3. new[a] = h[j] /\ next = h[j]
      BY <1>7, <3>2, AtPosition DEF Erased, next
    <3>4. /\ shrunk \in ElementList /\ shrunk.first = next
          /\ shrunk.last = less.last /\ shrunk.size = less.size
      BY <1>9, <1>10, <3>1 DEF ElementList
    <3>5. Lies(new, shrunk, a, b - n)
      BY <1>0, <1>10, <2>1, <2>2, <3>3, <3>4 DEF Lies
    <3> QED
      BY <1>14, <1>16, <3>4, <3>5
  <2>4. CASE s # 0
    <3>1. shrunk = less
      BY <1>16, <1>a, <2>4
    <3>2. a \in 1 .. i - 1
      BY <1>0, <1>5, <2>4
    <3>3. new[a] = h[a]
      BY <1>7, <3>2 DEF Erased
    <3>4. Lies(new, shrunk, a, b - n)
      BY <1>0, <1>10, <2>1, <2>2, <3>1, <3>3 DEF Lies
    <3> QED
      BY <1>10, <1>14, <1>16, <3>1, <3>4
  <2> QED
    BY <2>3, <2>4
<1>17. CASE n = l.size
  <2>1. shrunk = [less EXCEPT !.first = next, !.last = next]
    BY <1>17, <1>a DEF emptied
  <2>a. shrunk = [first |-> next, last |-> next, size |-> 0]
    <3>1. less.size = 0
      BY <1>5, <1>10, <1>17
    <3> QED
      BY <1>10, <2>1, <3>1 DEF ElementList
  <2>2. shrunk \in ElementList /\ Empty(shrunk)
    BY <1>9, <2>a DEF ElementList, Empty
  <2> QED
    BY <1>5, <1>14, <1>17, <2>2
<1> QED
  BY <1>15, <1>16, <1>17

----------------------------------------------------------------------------
(* The invariant: every list lies where the elements of its container are.  *)

\* The elements of p, whose list is l, are those from position a to b of h.
LiesOwn(h, par, p, l, a, b) ==
  Lies(h, l, a, b) /\ \A k \in 1 .. Len(h) : par[h[k]] = p <=> k \in a .. b

OwnsNone(h, par, p, l) == Empty(l) /\ \A k \in 1 .. Len(h) : par[h[k]] # p

ListOK(h, par, p, l) ==
  OwnsNone(h, par, p, l) \/ \E a, b \in 1 .. Len(h) : LiesOwn(h, par, p, l, a, b)

ListsInv ==
  /\ TypeOK
  /\ Distinct(host)
  /\ \A p \in Parents : ListOK(host, parent, p, list[p])
  /\ \A p \in Parents \ live : list[p].size = 0
  /\ \A c \in Nodes : parent[c] # Null <=> c \in Cells(host)

----------------------------------------------------------------------------
(* Slices of host lists.                                                    *)

\* e is the sequence of the cells from position a to b of h.
Slice(h, a, b, e) ==
  /\ e \in Seq(Nodes) /\ Len(e) = b - a + 1
  /\ \A k \in 1 .. b - a + 1 : e[k] = h[a + k - 1]

LEMMA SliceIs ==
  ASSUME NEW h \in HostLists, NEW a \in 1 .. Len(h), NEW b \in a .. Len(h)
  PROVE  Slice(h, a, b, SubSeq(h, a, b))
<1>0. h \in Seq(Nodes) /\ Len(h) \in Nat /\ a \in Int /\ b \in Int /\ a <= b
  BY DEF HostLists
<1>1. \A k \in a .. b : h[k] \in Nodes
  BY <1>0
<1> QED
  BY <1>0, <1>1, SubSeqProperties DEF Slice

\* The cells from position a to b of h are those from position c on of new.
Moves(h, a, b, new, c) == \A k \in a .. b : new[c + (k - a)] = h[k]

\* Two slices of the same cells are the same.
LEMMA SliceEqual ==
  ASSUME NEW h, NEW a \in Int, NEW b \in Int, NEW e, Slice(h, a, b, e),
         NEW g, NEW c \in Int, NEW d \in Int, NEW f, Slice(g, c, d, f), d - c = b - a,
         Moves(h, a, b, g, c)
  PROVE  f = e
<1>0. e \in Seq(Nodes) /\ f \in Seq(Nodes) /\ Len(e) = b - a + 1 /\ Len(f) = Len(e)
  BY DEF Slice
<1>1. ASSUME NEW k \in 1 .. b - a + 1 PROVE f[k] = e[k]
  <2>1. /\ a + k - 1 \in a .. b /\ c + ((a + k - 1) - a) = c + k - 1
        /\ k \in 1 .. d - c + 1
    OBVIOUS
  <2>2. g[c + ((a + k - 1) - a)] = h[a + k - 1]
    BY <2>1 DEF Moves
  <2>3. e[k] = h[a + k - 1] /\ f[k] = g[c + k - 1]
    BY <2>1 DEF Slice
  <2> QED
    BY <2>1, <2>2, <2>3
<1>2. \A k \in 1 .. Len(f) : f[k] = e[k]
  BY <1>0, <1>1
<1> QED
  BY <1>0, <1>2, SeqEqual

\* A list keeps its elements when its cells move.
LEMMA MovedElements ==
  ASSUME NEW h \in HostLists, NEW l, NEW a, NEW b, Lies(h, l, a, b),
         NEW new \in HostLists, NEW c \in 1 .. Len(new), NEW d \in c .. Len(new),
         d - c = b - a, Moves(h, a, b, new, c)
  PROVE  Lies(new, l, c, d) /\ Elements(new, l) = Elements(h, l)
<1>0. /\ Len(h) \in Nat /\ Len(new) \in Nat /\ a \in 1 .. Len(h) /\ b \in a .. Len(h)
      /\ a \in Int /\ b \in Int /\ c \in Int /\ d \in Int /\ a <= b
      /\ l.first = h[a] /\ l.last = h[b] /\ l.size = b - a + 1
  BY DEF HostLists, Lies
<1>1. new[c] = h[a] /\ new[d] = h[b]
  <2>1. /\ a \in a .. b /\ c + (a - a) = c /\ b \in a .. b /\ c + (b - a) = d
    BY <1>0
  <2>2. new[c + (a - a)] = h[a] /\ new[c + (b - a)] = h[b]
    BY <2>1 DEF Moves
  <2> QED
    BY <2>1, <2>2
<1>2. Lies(new, l, c, d)
  BY <1>0, <1>1 DEF Lies
<1>3. Elements(new, l) = SubSeq(new, c, d) /\ Elements(h, l) = SubSeq(h, a, b)
  BY <1>2, LiesPos
<1>4. Slice(new, c, d, SubSeq(new, c, d)) /\ Slice(h, a, b, SubSeq(h, a, b))
  BY <1>0, SliceIs
<1>6. SubSeq(new, c, d) = SubSeq(h, a, b)
  BY <1>0, <1>4, SliceEqual
<1> QED
  BY <1>2, <1>3, <1>6

\* What a list gets by an insertion, and what is left of it by an erasure.
Extended(h, a, b, o, n, ns, new) ==
  SubSeq(new, a, b + n) = Splice(SubSeq(h, a, b), o + 1, ns)

Shortened(h, a, b, s, n, new) ==
  SubSeq(new, a, b - n) = Cut(SubSeq(h, a, b), s + 1, s + 1 + n)

LEMMA InsertedElements ==
  ASSUME NEW h \in HostLists, NEW a \in 1 .. Len(h), NEW b \in a .. Len(h),
         NEW o \in 0 .. b - a + 1, NEW n \in Nat \ {0}, NEW ns \in New(h, n),
         NEW new, Inserted(h, a + o, n, ns, new)
  PROVE  Extended(h, a, b, o, n, ns, new)
<1> SUFFICES SubSeq(new, a, b + n) = Splice(SubSeq(h, a, b), o + 1, ns)
  BY DEF Extended
<1> DEFINE e == SubSeq(h, a, b)  f == SubSeq(new, a, b + n)
           g == Spliced(e, o + 1, ns)
<1>0. /\ Len(h) \in Nat /\ a \in Int /\ b \in Int /\ a <= b /\ a >= 1 /\ b <= Len(h)
      /\ n \in Nat /\ n > 0 /\ o \in Nat /\ o <= b - a + 1
      /\ new \in HostLists /\ Len(new) = Len(h) + n
      /\ ns \in Seq(Nodes) /\ Len(ns) = n
  BY DEF HostLists, New, Inserted
<1>1. Slice(h, a, b, e)
  BY SliceIs
<1>2. Slice(new, a, b + n, f)
  <2>1. a \in 1 .. Len(new) /\ b + n \in a .. Len(new)
    BY <1>0
  <2> QED
    BY <1>0, <2>1, SliceIs
<1> HIDE DEF e, f
<1>3. e \in Seq(Nodes) /\ Len(e) = b - a + 1 /\ o + 1 \in 1 .. Len(e) + 1
  BY <1>0, <1>1 DEF Slice
<1>4. Splice(e, o + 1, ns) = g /\ g \in Seq(Nodes) /\ Len(g) = b - a + 1 + n
  <2>1. Splice(e, o + 1, ns) = g /\ g \in Seq(Nodes) /\ Len(g) = Len(e) + Len(ns)
    BY <1>0, <1>3, SpliceIs, ZenonT(60)
  <2> HIDE DEF g
  <2> QED
    BY <1>0, <1>3, <2>1
<1>5. f \in Seq(Nodes) /\ Len(f) = b - a + 1 + n
  BY <1>0, <1>2 DEF Slice
<1>6. ASSUME NEW k \in 1 .. b - a + 1 + n PROVE f[k] = g[k]
  <2>0. k \in Int /\ k >= 1 /\ k <= b - a + 1 + n
    BY <1>0
  <2>1. f[k] = new[a + k - 1]
    <3>1. k \in 1 .. (b + n) - a + 1
      BY <1>0
    <3> QED
      BY <1>2, <3>1 DEF Slice
  <2>2. g[k] = IF k < o + 1 THEN e[k]
               ELSE IF k < o + 1 + n THEN ns[k - (o + 1) + 1] ELSE e[k - n]
    BY <1>0, <1>3 DEF Spliced
  <2> HIDE DEF g
  <2>3. CASE k < o + 1
    <3>1. a + k - 1 \in 1 .. a + o - 1 /\ k \in 1 .. b - a + 1
      BY <1>0, <2>0, <2>3
    <3>2. new[a + k - 1] = h[a + k - 1] /\ e[k] = h[a + k - 1]
      BY <1>1, <3>1 DEF Inserted, Slice
    <3> QED
      BY <2>1, <2>2, <2>3, <3>2
  <2>4. CASE ~ (k < o + 1) /\ k < o + 1 + n
    <3>1. /\ a + k - 1 \in a + o .. a + o + n - 1
          /\ (a + k - 1) - (a + o) + 1 = k - (o + 1) + 1
      BY <1>0, <2>0, <2>4
    <3>2. new[a + k - 1] = ns[(a + k - 1) - (a + o) + 1]
      BY <3>1 DEF Inserted
    <3> QED
      BY <2>1, <2>2, <2>4, <3>1, <3>2
  <2>5. CASE ~ (k < o + 1) /\ ~ (k < o + 1 + n)
    <3>1. /\ a + k - 1 \in a + o + n .. Len(h) + n
          /\ (a + k - 1) - n = a + (k - n) - 1 /\ k - n \in 1 .. b - a + 1
      BY <1>0, <2>0, <2>5
    <3>2. new[a + k - 1] = h[(a + k - 1) - n]
      BY <3>1 DEF Inserted
    <3>3. e[k - n] = h[a + (k - n) - 1]
      BY <1>1, <3>1 DEF Slice
    <3> QED
      BY <2>1, <2>2, <2>5, <3>1, <3>2, <3>3
  <2> QED
    BY <2>3, <2>4, <2>5
<1> HIDE DEF g
<1>7. f = g
  <2>1. Len(f) = Len(g) /\ \A k \in 1 .. Len(f) : f[k] = g[k]
    BY <1>4, <1>5, <1>6
  <2> QED
    BY <1>4, <1>5, <2>1, SeqEqual
<1> QED
  BY <1>4, <1>7 DEF e, f

LEMMA ErasedElements ==
  ASSUME NEW h \in HostLists, NEW a \in 1 .. Len(h), NEW b \in a .. Len(h),
         NEW s \in Nat, NEW n \in Nat \ {0}, s + n <= b - a + 1, n < b - a + 1,
         NEW new, Erased(h, a + s, n, new)
  PROVE  Shortened(h, a, b, s, n, new)
<1> SUFFICES SubSeq(new, a, b - n) = Cut(SubSeq(h, a, b), s + 1, s + 1 + n)
  BY DEF Shortened
<1> DEFINE e == SubSeq(h, a, b)  f == SubSeq(new, a, b - n)
           g == Cutted(e, s + 1, s + 1 + n)
<1>0. /\ Len(h) \in Nat /\ a \in Int /\ b \in Int /\ a <= b /\ a >= 1 /\ b <= Len(h)
      /\ n \in Nat /\ n > 0 /\ s \in Nat /\ s + n <= b - a + 1 /\ n < b - a + 1
      /\ new \in HostLists /\ Len(new) = Len(h) - n
  BY DEF HostLists, Erased
<1>1. Slice(h, a, b, e)
  BY SliceIs
<1>2. Slice(new, a, b - n, f)
  <2>1. a \in 1 .. Len(new) /\ b - n \in a .. Len(new)
    BY <1>0
  <2> QED
    BY <1>0, <2>1, SliceIs
<1> HIDE DEF e, f
<1>3. /\ e \in Seq(Nodes) /\ Len(e) = b - a + 1
      /\ s + 1 \in 1 .. Len(e) + 1 /\ s + 1 + n \in s + 1 .. Len(e) + 1
      /\ (s + 1 + n) - (s + 1) = n
  BY <1>0, <1>1 DEF Slice
<1>4. Cut(e, s + 1, s + 1 + n) = g /\ g \in Seq(Nodes) /\ Len(g) = b - a + 1 - n
  <2>1. /\ Cut(e, s + 1, s + 1 + n) = g /\ g \in Seq(Nodes)
        /\ Len(g) = Len(e) - ((s + 1 + n) - (s + 1))
    BY <1>3, CutIs, ZenonT(60)
  <2> HIDE DEF g
  <2> QED
    BY <1>3, <2>1
<1>5. f \in Seq(Nodes) /\ Len(f) = b - a + 1 - n
  BY <1>0, <1>2 DEF Slice
<1>6. ASSUME NEW k \in 1 .. b - a + 1 - n PROVE f[k] = g[k]
  <2>0. k \in Int /\ k >= 1 /\ k <= b - a + 1 - n
    BY <1>0
  <2>1. f[k] = new[a + k - 1]
    <3>1. k \in 1 .. (b - n) - a + 1
      BY <1>0
    <3> QED
      BY <1>2, <3>1 DEF Slice
  <2>2. g[k] = IF k < s + 1 THEN e[k] ELSE e[k + n]
    <3>1. k \in 1 .. Len(e) - ((s + 1 + n) - (s + 1))
      BY <1>0, <1>3
    <3>2. g[k] = IF k < s + 1 THEN e[k] ELSE e[k + ((s + 1 + n) - (s + 1))]
      BY <3>1, Zenon DEF Cutted
    <3> QED
      BY <1>3, <3>2
  <2> HIDE DEF g
  <2>3. CASE k < s + 1
    <3>1. a + k - 1 \in 1 .. a + s - 1 /\ k \in 1 .. b - a + 1
      BY <1>0, <2>0, <2>3
    <3>2. new[a + k - 1] = h[a + k - 1] /\ e[k] = h[a + k - 1]
      BY <1>1, <3>1 DEF Erased, Slice
    <3> QED
      BY <2>1, <2>2, <2>3, <3>2
  <2>4. CASE ~ (k < s + 1)
    <3>1. /\ a + k - 1 \in a + s .. Len(h) - n
          /\ (a + k - 1) + n = a + (k + n) - 1 /\ k + n \in 1 .. b - a + 1
      BY <1>0, <2>0, <2>4
    <3>2. new[a + k - 1] = h[(a + k - 1) + n]
      BY <3>1 DEF Erased
    <3>3. e[k + n] = h[a + (k + n) - 1]
      BY <1>1, <3>1 DEF Slice
    <3> QED
      BY <2>1, <2>2, <2>4, <3>1, <3>2, <3>3
  <2> QED
    BY <2>3, <2>4
<1> HIDE DEF g
<1>7. f = g
  <2>1. Len(f) = Len(g) /\ \A k \in 1 .. Len(f) : f[k] = g[k]
    BY <1>4, <1>5, <1>6
  <2> QED
    BY <1>4, <1>5, <2>1, SeqEqual
<1> QED
  BY <1>4, <1>7 DEF e, f

----------------------------------------------------------------------------
(* The other lists, when cells are inserted or erased beside them.          *)

Refilled(par, cells, p) == [c \in Nodes |-> IF c \in cells THEN p ELSE par[c]]

\* Who owns the cells after an insertion, and after an erasure.
OwnerInserted(h, par, p, at, n, k) ==
  IF k < at THEN par[h[k]] ELSE IF k < at + n THEN p ELSE par[h[k - n]]

OwnerErased(h, par, i, n, k) == IF k < i THEN par[h[k]] ELSE par[h[k + n]]

AfterInsertion(h, par, p, at, n, new) ==
  \A k \in 1 .. Len(h) + n :
    Refilled(par, Between(new, at, at + n), p)[new[k]] = OwnerInserted(h, par, p, at, n, k)

AfterErasure(h, par, i, n, new) ==
  \A k \in 1 .. Len(h) - n :
    Refilled(par, Between(h, i, i + n), Null)[new[k]] = OwnerErased(h, par, i, n, k)

LEMMA OwnersInserted ==
  ASSUME NEW h \in HostLists, NEW par, NEW p, NEW at \in 1 .. Len(h) + 1,
         NEW n \in Nat \ {0}, NEW ns, NEW new, Inserted(h, at, n, ns, new)
  PROVE  AfterInsertion(h, par, p, at, n, new)
<1> SUFFICES ASSUME NEW k \in 1 .. Len(h) + n
             PROVE  Refilled(par, Between(new, at, at + n), p)[new[k]]
                      = OwnerInserted(h, par, p, at, n, k)
  BY DEF AfterInsertion
<1> USE DEF OwnerInserted
<1> DEFINE cells == Between(new, at, at + n)
<1>0. /\ Len(h) \in Nat /\ at \in Int /\ n \in Nat /\ new \in Seq(Nodes) /\ Distinct(new)
      /\ at >= 1 /\ at <= Len(h) + 1 /\ n > 0 /\ k \in Int
      /\ Len(new) = Len(h) + n /\ DOMAIN new = 1 .. Len(h) + n
  BY DEF HostLists, Inserted
<1>1. new[k] \in Nodes
  BY <1>0
<1>2. new[k] \in cells <=> k \in at .. at + n - 1
  <2>1. ASSUME new[k] \in cells PROVE k \in at .. at + n - 1
    <3>1. PICK m \in at .. (at + n) - 1 : new[k] = new[m]
      BY <2>1 DEF Between
    <3>2. m \in 1 .. Len(h) + n /\ m \in at .. at + n - 1
      BY <1>0
    <3>3. k = m
      BY <1>0, <3>1, <3>2 DEF Distinct
    <3> QED
      BY <3>2, <3>3
  <2>2. ASSUME k \in at .. at + n - 1 PROVE new[k] \in cells
    BY <2>2 DEF Between
  <2> QED
    BY <2>1, <2>2
<1> HIDE DEF cells
<1>3. Refilled(par, cells, p)[new[k]] = IF k \in at .. at + n - 1 THEN p ELSE par[new[k]]
  BY <1>1, <1>2 DEF Refilled
<1>4. CASE k < at
  <2>1. k \in 1 .. at - 1 /\ k \notin at .. at + n - 1
    BY <1>0, <1>4
  <2>2. new[k] = h[k]
    BY <2>1 DEF Inserted
  <2> QED
    BY <1>3, <1>4, <2>1, <2>2 DEF cells
<1>5. CASE ~ (k < at) /\ k < at + n
  <2>1. k \in at .. at + n - 1
    BY <1>0, <1>5
  <2> QED
    BY <1>3, <1>5, <2>1 DEF cells
<1>6. CASE ~ (k < at) /\ ~ (k < at + n)
  <2>1. k \in at + n .. Len(h) + n /\ k \notin at .. at + n - 1
    BY <1>0, <1>6
  <2>2. new[k] = h[k - n]
    BY <2>1 DEF Inserted
  <2> QED
    BY <1>3, <1>6, <2>1, <2>2 DEF cells
<1> QED
  BY <1>4, <1>5, <1>6

LEMMA OwnersErased ==
  ASSUME NEW h \in HostLists, NEW par, NEW i \in 1 .. Len(h),
         NEW n \in 1 .. Len(h) - i + 1, NEW new, Erased(h, i, n, new)
  PROVE  AfterErasure(h, par, i, n, new)
<1> SUFFICES ASSUME NEW k \in 1 .. Len(h) - n
             PROVE  Refilled(par, Between(h, i, i + n), Null)[new[k]]
                      = OwnerErased(h, par, i, n, k)
  BY DEF AfterErasure
<1> USE DEF OwnerErased
<1> DEFINE cells == Between(h, i, i + n)
<1>0. /\ Len(h) \in Nat /\ i \in Int /\ n \in Nat /\ n > 0 /\ i >= 1 /\ i <= Len(h)
      /\ i + n <= Len(h) + 1 /\ k \in Int
      /\ h \in Seq(Nodes) /\ Distinct(h) /\ DOMAIN h = 1 .. Len(h)
  BY DEF HostLists
<1>1. ASSUME NEW m \in 1 .. Len(h), ~ (m \in i .. i + n - 1)
      PROVE  h[m] \in Nodes /\ h[m] \notin cells
  <2>1. h[m] \in Nodes
    BY <1>0
  <2>2. ASSUME h[m] \in cells PROVE FALSE
    <3>1. PICK q \in i .. (i + n) - 1 : h[m] = h[q]
      BY <2>2 DEF Between
    <3>2. q \in 1 .. Len(h) /\ q \in i .. i + n - 1
      BY <1>0
    <3>3. m = q
      BY <1>0, <3>1, <3>2 DEF Distinct
    <3> QED
      BY <1>1, <3>2, <3>3
  <2> QED
    BY <2>1, <2>2
<1> HIDE DEF cells
<1>2. \A c \in Nodes \ cells : Refilled(par, cells, Null)[c] = par[c]
  BY DEF Refilled
<1>3. CASE k < i
  <2>1. k \in 1 .. i - 1 /\ k \in 1 .. Len(h) /\ ~ (k \in i .. i + n - 1)
    BY <1>0, <1>3
  <2>2. new[k] = h[k]
    BY <2>1 DEF Erased
  <2> QED
    BY <1>1, <1>2, <1>3, <2>1, <2>2 DEF cells
<1>4. CASE ~ (k < i)
  <2>1. k \in i .. Len(h) - n /\ k + n \in 1 .. Len(h) /\ ~ (k + n \in i .. i + n - 1)
    BY <1>0, <1>4
  <2>2. new[k] = h[k + n]
    BY <2>1 DEF Erased
  <2> QED
    BY <1>1, <1>2, <1>4, <2>1, <2>2 DEF cells
<1> QED
  BY <1>3, <1>4

\* Position at is not between two elements of q.
Apart(h, par, q, at) ==
  ~ (at - 1 \in 1 .. Len(h) /\ at \in 1 .. Len(h) /\ par[h[at - 1]] = q /\ par[h[at]] = q)

\* The list l of q is as it was.
Kept(h, new, par2, q, l) == ListOK(new, par2, q, l) /\ Elements(new, l) = Elements(h, l)

LEMMA OthersInserted ==
  ASSUME NEW h \in HostLists, NEW par, NEW p, NEW at \in 1 .. Len(h) + 1,
         NEW n \in Nat \ {0}, NEW ns, NEW new, Inserted(h, at, n, ns, new),
         NEW q, q # p, NEW l, ListOK(h, par, q, l), Apart(h, par, q, at)
  PROVE  Kept(h, new, Refilled(par, Between(new, at, at + n), p), q, l)
<1> USE DEF Kept
<1> DEFINE par2 == Refilled(par, Between(new, at, at + n), p)
<1>0. /\ Len(h) \in Nat /\ at \in Int /\ n \in Nat /\ n > 0 /\ at >= 1 /\ at <= Len(h) + 1
      /\ new \in HostLists /\ Len(new) = Len(h) + n
  BY DEF HostLists, Inserted
<1>1. ASSUME NEW k \in 1 .. Len(h) + n
      PROVE  par2[new[k]] =
               IF k < at THEN par[h[k]] ELSE IF k < at + n THEN p ELSE par[h[k - n]]
  <2>1. AfterInsertion(h, par, p, at, n, new)
    BY OwnersInserted
  <2> QED
    BY <2>1 DEF AfterInsertion, OwnerInserted
<1> HIDE DEF par2
<1>2. CASE OwnsNone(h, par, q, l)
  <2>1. Empty(l) /\ \A k \in 1 .. Len(h) : par[h[k]] # q
    BY <1>2 DEF OwnsNone
  <2>2. ASSUME NEW k \in 1 .. Len(new) PROVE par2[new[k]] # q
    <3>1. k \in 1 .. Len(h) + n
      BY <1>0
    <3>2. CASE k < at
      <4>1. k \in 1 .. Len(h)
        BY <1>0, <3>2
      <4> QED
        BY <1>1, <2>1, <3>1, <3>2, <4>1
    <3>3. CASE ~ (k < at) /\ k < at + n
      BY <1>1, <3>1, <3>3
    <3>4. CASE ~ (k < at) /\ ~ (k < at + n)
      <4>1. k - n \in 1 .. Len(h)
        BY <1>0, <3>4
      <4> QED
        BY <1>1, <2>1, <3>1, <3>4, <4>1
    <3> QED
      BY <3>2, <3>3, <3>4
  <2>3. Elements(new, l) = << >> /\ Elements(h, l) = << >>
    BY <2>1, EmptyElements
  <2> QED
    BY <2>1, <2>2, <2>3 DEF ListOK, OwnsNone, par2
<1>3. CASE \E a, b \in 1 .. Len(h) : LiesOwn(h, par, q, l, a, b)
  <2>1. PICK a \in 1 .. Len(h), b \in 1 .. Len(h) : LiesOwn(h, par, q, l, a, b)
    BY <1>3
  <2>2. /\ Lies(h, l, a, b) /\ a <= b /\ a \in Int /\ b \in Int /\ a >= 1 /\ b <= Len(h)
        /\ \A k \in 1 .. Len(h) : par[h[k]] = q <=> k \in a .. b
    <3>1. Lies(h, l, a, b)
      BY <2>1 DEF LiesOwn
    <3>2. a \in 1 .. Len(h) /\ b \in a .. Len(h)
      BY <3>1 DEF Lies
    <3> QED
      BY <1>0, <2>1, <3>1, <3>2 DEF LiesOwn
  <2>3. b < at \/ at <= a
    <3> SUFFICES ASSUME ~ (b < at), ~ (at <= a) PROVE FALSE
      OBVIOUS
    <3>1. /\ at - 1 \in 1 .. Len(h) /\ at \in 1 .. Len(h)
          /\ at - 1 \in a .. b /\ at \in a .. b
      BY <1>0, <2>2
    <3>2. par[h[at - 1]] = q /\ par[h[at]] = q
      BY <2>2, <3>1
    <3> QED
      BY <3>1, <3>2 DEF Apart
  <2> DEFINE m == IF b < at THEN 0 ELSE n
             c == a + m  d == b + m
  <2>4. /\ c \in 1 .. Len(new) /\ d \in c .. Len(new) /\ d \in 1 .. Len(new)
        /\ d - c = b - a /\ c \in Int /\ d \in Int
    BY <1>0, <2>2
  <2>5. Moves(h, a, b, new, c)
    <3> SUFFICES ASSUME NEW k \in a .. b PROVE new[c + (k - a)] = h[k]
      BY DEF Moves
    <3>1. CASE b < at
      <4>1. c + (k - a) = k /\ k \in 1 .. at - 1
        BY <1>0, <2>2, <3>1
      <4> HIDE DEF c
      <4>2. new[k] = h[k]
        BY <4>1 DEF Inserted
      <4> QED
        BY <4>1, <4>2
    <3>2. CASE ~ (b < at)
      <4>1. c + (k - a) = k + n /\ k + n \in at + n .. Len(h) + n /\ (k + n) - n = k
        BY <1>0, <2>2, <2>3, <3>2
      <4> HIDE DEF c
      <4>2. new[k + n] = h[(k + n) - n]
        BY <4>1, Zenon DEF Inserted
      <4> QED
        BY <4>1, <4>2
    <3> QED
      BY <3>1, <3>2
  <2>6. \A k \in 1 .. Len(new) : par2[new[k]] = q <=> k \in c .. d
    <3> SUFFICES ASSUME NEW k \in 1 .. Len(new) PROVE par2[new[k]] = q <=> k \in c .. d
      OBVIOUS
    <3>1. k \in 1 .. Len(h) + n /\ k \in Int /\ k >= 1 /\ k <= Len(h) + n
      BY <1>0
    <3>2. CASE k < at
      <4>1. k \in 1 .. Len(h) /\ (k \in a .. b <=> k \in c .. d)
        BY <1>0, <2>2, <2>3, <3>1, <3>2
      <4>2. par2[new[k]] = par[h[k]]
        BY <1>1, <3>1, <3>2
      <4> HIDE DEF c, d
      <4> QED
        BY <2>2, <4>1, <4>2
    <3>3. CASE ~ (k < at) /\ k < at + n
      <4>1. k \notin c .. d
        BY <1>0, <2>2, <2>3, <3>1, <3>3
      <4>2. par2[new[k]] = p
        BY <1>1, <3>1, <3>3
      <4> QED
        BY <4>1, <4>2
    <3>4. CASE ~ (k < at) /\ ~ (k < at + n)
      <4>1. k - n \in 1 .. Len(h) /\ (k - n \in a .. b <=> k \in c .. d)
        BY <1>0, <2>2, <2>3, <3>1, <3>4
      <4>2. par2[new[k]] = par[h[k - n]]
        BY <1>1, <3>1, <3>4
      <4> HIDE DEF c, d
      <4> QED
        BY <2>2, <4>1, <4>2
    <3> QED
      BY <3>2, <3>3, <3>4
  <2> HIDE DEF c, d
  <2>7. Lies(new, l, c, d) /\ Elements(new, l) = Elements(h, l)
    BY <1>0, <2>2, <2>4, <2>5, MovedElements
  <2>8. LiesOwn(new, par2, q, l, c, d)
    BY <2>6, <2>7 DEF LiesOwn
  <2> QED
    BY <2>4, <2>7, <2>8 DEF ListOK, par2
<1> QED
  BY <1>2, <1>3 DEF ListOK

LEMMA OthersErased ==
  ASSUME NEW h \in HostLists, NEW par, NEW i \in 1 .. Len(h),
         NEW n \in 1 .. Len(h) - i + 1, NEW new, Erased(h, i, n, new),
         NEW p, \A k \in i .. i + n - 1 : par[h[k]] = p,
         NEW q \in Parents, q # p, NEW l, ListOK(h, par, q, l)
  PROVE  Kept(h, new, Refilled(par, Between(h, i, i + n), Null), q, l)
<1> USE DEF Kept
<1> DEFINE par2 == Refilled(par, Between(h, i, i + n), Null)
<1>0. /\ Len(h) \in Nat /\ i \in Int /\ n \in Nat /\ n > 0 /\ i >= 1 /\ i + n <= Len(h) + 1
      /\ new \in HostLists /\ Len(new) = Len(h) - n
  BY DEF HostLists, Erased
<1>1. ASSUME NEW k \in 1 .. Len(h) - n
      PROVE  par2[new[k]] = IF k < i THEN par[h[k]] ELSE par[h[k + n]]
  <2>1. AfterErasure(h, par, i, n, new)
    BY OwnersErased
  <2> QED
    BY <2>1 DEF AfterErasure, OwnerErased
<1> HIDE DEF par2
<1>2. CASE OwnsNone(h, par, q, l)
  <2>1. Empty(l) /\ \A k \in 1 .. Len(h) : par[h[k]] # q
    BY <1>2 DEF OwnsNone
  <2>2. ASSUME NEW k \in 1 .. Len(new) PROVE par2[new[k]] # q
    <3>1. k \in 1 .. Len(h) - n /\ k \in 1 .. Len(h) /\ k + n \in 1 .. Len(h)
      BY <1>0
    <3> QED
      BY <1>1, <2>1, <3>1
  <2>3. Elements(new, l) = << >> /\ Elements(h, l) = << >>
    BY <2>1, EmptyElements
  <2> QED
    BY <2>1, <2>2, <2>3 DEF ListOK, OwnsNone, par2
<1>3. CASE \E a, b \in 1 .. Len(h) : LiesOwn(h, par, q, l, a, b)
  <2>1. PICK a \in 1 .. Len(h), b \in 1 .. Len(h) : LiesOwn(h, par, q, l, a, b)
    BY <1>3
  <2>2. /\ Lies(h, l, a, b) /\ a <= b /\ a \in Int /\ b \in Int /\ a >= 1 /\ b <= Len(h)
        /\ \A k \in 1 .. Len(h) : par[h[k]] = q <=> k \in a .. b
    <3>1. Lies(h, l, a, b)
      BY <2>1 DEF LiesOwn
    <3>2. a \in 1 .. Len(h) /\ b \in a .. Len(h)
      BY <3>1 DEF Lies
    <3> QED
      BY <1>0, <2>1, <3>1, <3>2 DEF LiesOwn
  <2>3. b < i \/ i + n <= a
    <3> SUFFICES ASSUME ~ (b < i), ~ (i + n <= a) PROVE FALSE
      OBVIOUS
    <3> DEFINE k == IF i < a THEN a ELSE i
    <3>1. k \in i .. i + n - 1 /\ k \in 1 .. Len(h) /\ k \in a .. b
      BY <1>0, <2>2
    <3> HIDE DEF k
    <3>2. par[h[k]] = p /\ par[h[k]] = q
      BY <2>2, <3>1
    <3> QED
      BY <3>2
  <2> DEFINE m == IF b < i THEN 0 ELSE n
             c == a - m  d == b - m
  <2>4. /\ c \in 1 .. Len(new) /\ d \in c .. Len(new) /\ d \in 1 .. Len(new)
        /\ d - c = b - a /\ c \in Int /\ d \in Int
    BY <1>0, <2>2, <2>3
  <2>5. Moves(h, a, b, new, c)
    <3> SUFFICES ASSUME NEW k \in a .. b PROVE new[c + (k - a)] = h[k]
      BY DEF Moves
    <3>1. CASE b < i
      <4>1. c + (k - a) = k /\ k \in 1 .. i - 1
        BY <1>0, <2>2, <3>1
      <4> HIDE DEF c
      <4>2. new[k] = h[k]
        BY <4>1 DEF Erased
      <4> QED
        BY <4>1, <4>2
    <3>2. CASE ~ (b < i)
      <4>1. c + (k - a) = k - n /\ k - n \in i .. Len(h) - n /\ (k - n) + n = k
        BY <1>0, <2>2, <2>3, <3>2
      <4> HIDE DEF c
      <4>2. new[k - n] = h[(k - n) + n]
        BY <4>1, Zenon DEF Erased
      <4> QED
        BY <4>1, <4>2
    <3> QED
      BY <3>1, <3>2
  <2>6. \A k \in 1 .. Len(new) : par2[new[k]] = q <=> k \in c .. d
    <3> SUFFICES ASSUME NEW k \in 1 .. Len(new) PROVE par2[new[k]] = q <=> k \in c .. d
      OBVIOUS
    <3>1. k \in 1 .. Len(h) - n /\ k \in Int /\ k >= 1 /\ k <= Len(h) - n
      BY <1>0
    <3>2. CASE k < i
      <4>1. k \in 1 .. Len(h) /\ (k \in a .. b <=> k \in c .. d)
        BY <1>0, <2>2, <2>3, <3>1, <3>2
      <4>2. par2[new[k]] = par[h[k]]
        BY <1>1, <3>1, <3>2
      <4> HIDE DEF c, d
      <4> QED
        BY <2>2, <4>1, <4>2
    <3>3. CASE ~ (k < i)
      <4>1. k + n \in 1 .. Len(h) /\ (k + n \in a .. b <=> k \in c .. d)
        BY <1>0, <2>2, <2>3, <3>1, <3>3
      <4>2. par2[new[k]] = par[h[k + n]]
        BY <1>1, <3>1, <3>3
      <4> HIDE DEF c, d
      <4> QED
        BY <2>2, <4>1, <4>2
    <3> QED
      BY <3>2, <3>3
  <2> HIDE DEF c, d
  <2>7. Lies(new, l, c, d) /\ Elements(new, l) = Elements(h, l)
    BY <1>0, <2>2, <2>4, <2>5, MovedElements, SMTT(40)
  <2>8. LiesOwn(new, par2, q, l, c, d)
    BY <2>6, <2>7 DEF LiesOwn
  <2> QED
    BY <2>4, <2>7, <2>8 DEF ListOK, par2
<1> QED
  BY <1>2, <1>3 DEF ListOK

----------------------------------------------------------------------------
(* The list a call is made on.                                              *)

\* p owns the cells from position a to b of h, none when b = a - 1.
Owns(h, par, p, a, b) == \A k \in 1 .. Len(h) : par[h[k]] = p <=> k \in a .. b

LEMMA OwnsMore ==
  ASSUME NEW h \in HostLists, NEW par, NEW p,
         NEW a \in 1 .. Len(h) + 1, NEW b \in a - 1 .. Len(h), Owns(h, par, p, a, b),
         NEW at \in a .. b + 1, NEW n \in Nat \ {0}, NEW ns, NEW new,
         Inserted(h, at, n, ns, new)
  PROVE  Owns(new, Refilled(par, Between(new, at, at + n), p), p, a, b + n)
<1> DEFINE par2 == Refilled(par, Between(new, at, at + n), p)
<1>0. /\ Len(h) \in Nat /\ a \in Int /\ b \in Int /\ at \in Int /\ n \in Nat /\ n > 0
      /\ a >= 1 /\ a - 1 <= b /\ b <= Len(h) /\ a <= at /\ at <= b + 1
      /\ at \in 1 .. Len(h) + 1 /\ Len(new) = Len(h) + n
  BY DEF HostLists, Inserted
<1>1. AfterInsertion(h, par, p, at, n, new)
  BY <1>0, OwnersInserted
<1> SUFFICES ASSUME NEW k \in 1 .. Len(new)
             PROVE  par2[new[k]] = p <=> k \in a .. b + n
  BY DEF Owns
<1>2. k \in 1 .. Len(h) + n /\ k \in Int /\ k >= 1 /\ k <= Len(h) + n
  BY <1>0
<1>3. par2[new[k]] = IF k < at THEN par[h[k]] ELSE IF k < at + n THEN p ELSE par[h[k - n]]
  BY <1>1, <1>2 DEF AfterInsertion, OwnerInserted
<1> HIDE DEF par2
<1>4. CASE k < at
  <2>1. k \in 1 .. Len(h) /\ (k \in a .. b <=> k \in a .. b + n)
    BY <1>0, <1>2, <1>4
  <2> QED
    BY <1>3, <1>4, <2>1 DEF Owns
<1>5. CASE ~ (k < at) /\ k < at + n
  <2>1. k \in a .. b + n
    BY <1>0, <1>2, <1>5
  <2> QED
    BY <1>3, <1>5, <2>1
<1>6. CASE ~ (k < at) /\ ~ (k < at + n)
  <2>1. k - n \in 1 .. Len(h) /\ (k - n \in a .. b <=> k \in a .. b + n)
    BY <1>0, <1>2, <1>6
  <2> QED
    BY <1>3, <1>6, <2>1 DEF Owns
<1> QED
  BY <1>4, <1>5, <1>6

LEMMA OwnsLess ==
  ASSUME NEW h \in HostLists, NEW par, NEW p \in Parents,
         NEW a \in 1 .. Len(h), NEW b \in a .. Len(h), Owns(h, par, p, a, b),
         NEW i \in a .. b, NEW n \in 1 .. b - i + 1, NEW new, Erased(h, i, n, new)
  PROVE  Owns(new, Refilled(par, Between(h, i, i + n), Null), p, a, b - n)
<1> DEFINE par2 == Refilled(par, Between(h, i, i + n), Null)
<1>0. /\ Len(h) \in Nat /\ a \in Int /\ b \in Int /\ i \in Int /\ n \in Nat /\ n > 0
      /\ a >= 1 /\ b <= Len(h) /\ a <= i /\ i + n <= b + 1
      /\ i \in 1 .. Len(h) /\ n \in 1 .. Len(h) - i + 1 /\ Len(new) = Len(h) - n
  BY DEF HostLists, Erased
<1>1. AfterErasure(h, par, i, n, new)
  BY <1>0, OwnersErased
<1> SUFFICES ASSUME NEW k \in 1 .. Len(new)
             PROVE  par2[new[k]] = p <=> k \in a .. b - n
  BY DEF Owns
<1>2. k \in 1 .. Len(h) - n /\ k \in Int /\ k >= 1 /\ k <= Len(h) - n
  BY <1>0
<1>3. par2[new[k]] = IF k < i THEN par[h[k]] ELSE par[h[k + n]]
  BY <1>1, <1>2 DEF AfterErasure, OwnerErased
<1> HIDE DEF par2
<1>4. CASE k < i
  <2>1. k \in 1 .. Len(h) /\ (k \in a .. b <=> k \in a .. b - n)
    BY <1>0, <1>2, <1>4
  <2> QED
    BY <1>3, <1>4, <2>1 DEF Owns
<1>5. CASE ~ (k < i)
  <2>1. k + n \in 1 .. Len(h) /\ (k + n \in a .. b <=> k \in a .. b - n)
    BY <1>0, <1>2, <1>5
  <2> QED
    BY <1>3, <1>5, <2>1 DEF Owns
<1> QED
  BY <1>4, <1>5

LEMMA OwnForms ==
  ASSUME NEW h \in HostLists, NEW par, NEW p, NEW l
  PROVE  /\ \A a, b : LiesOwn(h, par, p, l, a, b) <=> Lies(h, l, a, b) /\ Owns(h, par, p, a, b)
         /\ \A a, b : LiesOwn(h, par, p, l, a, b) => ListOK(h, par, p, l)
         /\ \A a \in Int : OwnsNone(h, par, p, l) <=> Empty(l) /\ Owns(h, par, p, a, a - 1)
<1>0. Len(h) \in Nat
  BY DEF HostLists
<1>1. \A a, b : LiesOwn(h, par, p, l, a, b) <=> Lies(h, l, a, b) /\ Owns(h, par, p, a, b)
  BY DEF LiesOwn, Owns
<1>2. \A a, b : LiesOwn(h, par, p, l, a, b) => ListOK(h, par, p, l)
  <2> SUFFICES ASSUME NEW a, NEW b, LiesOwn(h, par, p, l, a, b) PROVE ListOK(h, par, p, l)
    OBVIOUS
  <2>1. a \in 1 .. Len(h) /\ b \in a .. Len(h)
    BY DEF LiesOwn, Lies
  <2>2. b \in 1 .. Len(h)
    BY <1>0, <2>1
  <2> QED
    BY <2>1, <2>2 DEF ListOK
<1>3. ASSUME NEW a \in Int
      PROVE  OwnsNone(h, par, p, l) <=> Empty(l) /\ Owns(h, par, p, a, a - 1)
  <2>1. \A k \in 1 .. Len(h) : k \notin a .. a - 1
    BY <1>0
  <2> QED
    BY <2>1 DEF OwnsNone, Owns
<1> QED
  BY <1>1, <1>2, <1>3

\* Where insert puts new elements, counted from 0, as the caller counts.
Where(l, start) == IF l.size = 0 THEN 0 ELSE Offset(l, start)

\* r is the result of an insertion of ns in the list l of p.
Added(h, par, p, l, start, n, ns, r) ==
  /\ r.at \in 1 .. Len(h) + 1
  /\ Inserted(h, r.at, n, ns, r.host)
  /\ r.list \in ElementList /\ r.list.size > 0
  /\ ListOK(r.host, Refilled(par, Between(r.host, r.at, r.at + n), p), p, r.list)
  /\ Where(l, start) \in 0 .. l.size
  /\ Elements(r.host, r.list) = Splice(Elements(h, l), Where(l, start) + 1, ns)
  /\ Len(Elements(h, l)) = l.size
  /\ l.size > 0 => \A q : q # p => Apart(h, par, q, r.at)
  /\ l.size = 0 => r.at = Pos(h, l.first)

LEMMA OwnInserted ==
  ASSUME NEW h \in HostLists, NEW par, NEW p, NEW l \in ElementList,
         ListOK(h, par, p, l), Valid(h, l.first), NEW start \in Starts(l),
         NEW n \in Nat \ {0}, NEW ns \in New(h, n)
  PROVE  Added(h, par, p, l, start, n, ns, Insert(h, l, start, ns))
<1> DEFINE r == Insert(h, l, start, ns)
           par2 == Refilled(par, Between(r.host, r.at, r.at + n), p)
<1>0. Len(h) \in Nat /\ l.size \in Nat /\ n \in Nat /\ n > 0 /\ h \in Seq(Nodes)
  BY DEF HostLists, ElementList
<1>1. CASE OwnsNone(h, par, p, l)
  <2>0. Empty(l) /\ l.size = 0
    BY <1>1 DEF OwnsNone, Empty
  <2>1. /\ r.at = Pos(h, l.first) /\ r.at \in 1 .. Len(h) + 1
        /\ Inserted(h, r.at, n, ns, r.host)
        /\ Lies(r.host, r.list, r.at, r.at + n - 1)
        /\ r.list = [first |-> r.host[r.at], last |-> r.host[r.at + n - 1], size |-> n]
    BY <2>0, InsertEmpty
  <2> DEFINE at == r.at  new == r.host  l2 == r.list
  <2> HIDE DEF r
  <2>2. /\ at \in Int /\ at >= 1 /\ at <= Len(h) + 1
        /\ new \in HostLists /\ new \in Seq(Nodes) /\ Len(new) = Len(h) + n
        /\ at \in 1 .. Len(new) /\ at + n - 1 \in at .. Len(new)
        /\ at + n - 1 \in 1 .. Len(new)
    BY <1>0, <2>1, SMTT(40) DEF Inserted, HostLists
  <2>3. l2 \in ElementList /\ l2.size > 0
    <3>1. new[at] \in Nodes /\ new[at + n - 1] \in Nodes
      BY <2>2
    <3> QED
      BY <1>0, <2>1, <3>1 DEF ElementList
  <2>4. ListOK(new, par2, p, l2)
    <3>1. Owns(h, par, p, at, at - 1)
      BY <1>1, <2>2, OwnForms
    <3>2. at - 1 \in at - 1 .. Len(h) /\ at \in at .. (at - 1) + 1 /\ at - 1 + n = at + n - 1
      <4>1. at \in Int /\ at - 1 <= Len(h) /\ Len(h) \in Int /\ n \in Int
        BY <1>0, <2>2
      <4> HIDE DEF at
      <4>2. at - 1 \in at - 1 .. Len(h)
        BY <4>1
      <4>3. at \in at .. (at - 1) + 1 /\ at - 1 + n = at + n - 1
        BY <4>1
      <4> QED
        BY <4>2, <4>3
    <3>3. Owns(new, par2, p, at, at - 1 + n)
      BY <2>1, <3>1, <3>2, OwnsMore
    <3> QED
      BY <2>1, <2>2, <3>2, <3>3, OwnForms
  <2>5. Elements(h, l) = << >>
    BY <2>0, EmptyElements
  <2>6. Elements(new, l2) = Splice(<< >>, 1, ns)
    <3>0. ns \in Seq(Nodes) /\ Len(ns) = n
      BY <1>0 DEF New
    <3> DEFINE e == SubSeq(new, at, at + n - 1)  f == Spliced(<< >>, 1, ns)
    <3>1. Elements(new, l2) = e
      <4>1. Lies(new, l2, at, at + n - 1) /\ new \in HostLists
        BY <2>1, <2>2
      <4> HIDE DEF at, new, l2
      <4> QED
        BY <4>1, LiesPos
    <3>2. Slice(new, at, at + n - 1, e)
      BY <2>2, SliceIs
    <3>3. /\ Splice(<< >>, 1, ns) = f /\ f \in Seq(Nodes) /\ Len(f) = n
      <4>1. ASSUME NEW none \in Seq(Nodes), Len(none) = 0
            PROVE  /\ Splice(none, 1, ns) = Spliced(none, 1, ns)
                   /\ Spliced(none, 1, ns) \in Seq(Nodes)
                   /\ Len(Spliced(none, 1, ns)) = n
        <5>1. 1 \in 1 .. Len(none) + 1 /\ Len(none) + Len(ns) = n
          BY <1>0, <3>0, <4>1
        <5> QED
          BY <3>0, <5>1, SpliceIs
      <4>2. << >> \in Seq(Nodes) /\ Len(<< >>) = 0
        OBVIOUS
      <4> QED
        BY <4>1, <4>2
    <3>4. \A k \in 1 .. n : f[k] = ns[k]
      BY <1>0, <3>0 DEF Spliced
    <3> HIDE DEF e, f
    <3>5. e \in Seq(Nodes) /\ Len(e) = n
      BY <1>0, <2>2, <3>2 DEF Slice
    <3>6. ASSUME NEW k \in 1 .. n PROVE e[k] = ns[k]
      <4>1. /\ k \in 1 .. (at + n - 1) - at + 1 /\ at + k - 1 \in at .. at + n - 1
            /\ (at + k - 1) - at + 1 = k
        BY <1>0, <2>2, SMTT(40)
      <4>2. e[k] = new[at + k - 1]
        BY <3>2, <4>1 DEF Slice
      <4>3. new[at + k - 1] = ns[(at + k - 1) - at + 1]
        BY <2>1, <4>1 DEF Inserted
      <4> QED
        BY <4>1, <4>2, <4>3
    <3>7. e = f
      <4>1. Len(e) = Len(f) /\ \A k \in 1 .. Len(e) : e[k] = f[k]
        BY <3>3, <3>4, <3>5, <3>6
      <4> QED
        BY <3>3, <3>5, <4>1, SeqEqual
    <3> QED
      BY <3>1, <3>3, <3>7
  <2> QED
    BY <2>0, <2>1, <2>3, <2>4, <2>5, <2>6 DEF Added, Where, r
<1>2. CASE \E a, b \in 1 .. Len(h) : LiesOwn(h, par, p, l, a, b)
  <2>0. PICK a \in 1 .. Len(h), b \in 1 .. Len(h) : LiesOwn(h, par, p, l, a, b)
    BY <1>2
  <2>1. Lies(h, l, a, b) /\ Owns(h, par, p, a, b)
    BY <2>0, OwnForms
  <2>2. /\ a \in Int /\ b \in Int /\ a >= 1 /\ a <= b /\ b <= Len(h) /\ b \in a .. Len(h)
        /\ l.size = b - a + 1 /\ l.size > 0
    BY <1>0, <2>1 DEF Lies
  <2>3. start \in -l.size .. l.size
    BY <2>2 DEF Starts
  <2>4. /\ r.at = a + Offset(l, start)
        /\ Inserted(h, r.at, n, ns, r.host)
        /\ Lies(r.host, r.list, a, b + n)
        /\ r.list = [first |-> r.host[a], last |-> r.host[b + n], size |-> l.size + n]
    BY <2>1, <2>3, InsertLies
  <2>5. /\ a + Offset(l, start) \in a .. b + 1 /\ a + Offset(l, start) \in 1 .. Len(h) + 1
        /\ Offset(l, start) \in 0 .. l.size
    BY <2>1, <2>3, PlaceIs
  <2> DEFINE at == r.at  new == r.host  l2 == r.list  o == Offset(l, start)
  <2> HIDE DEF r, o
  <2>6. /\ at = a + o /\ at \in a .. b + 1 /\ at \in 1 .. Len(h) + 1
        /\ o \in 0 .. l.size /\ o \in 0 .. b - a + 1 /\ at \in Int
    BY <2>2, <2>4, <2>5 DEF o
  <2>7. /\ new \in HostLists /\ new \in Seq(Nodes) /\ Len(new) = Len(h) + n
        /\ a \in 1 .. Len(new) /\ b + n \in a .. Len(new) /\ b + n \in 1 .. Len(new)
    BY <1>0, <2>2, <2>4, SMTT(40) DEF Inserted, HostLists
  <2>8. l2 \in ElementList /\ l2.size > 0
    <3>1. new[a] \in Nodes /\ new[b + n] \in Nodes /\ l.size + n \in Nat /\ l.size + n > 0
      BY <1>0, <2>7, SMTT(40)
    <3> QED
      BY <2>4, <3>1 DEF ElementList
  <2>9. ListOK(new, par2, p, l2)
    <3>1. a \in 1 .. Len(h) + 1 /\ b \in a - 1 .. Len(h)
      BY <1>0, <2>2
    <3>2. Owns(new, par2, p, a, b + n)
      BY <2>1, <2>4, <2>6, <3>1, OwnsMore
    <3> QED
      BY <2>4, <2>7, <3>2, OwnForms
  <2>10. Elements(h, l) = SubSeq(h, a, b) /\ Elements(new, l2) = SubSeq(new, a, b + n)
    BY <2>1, <2>4, <2>7, LiesPos, ZenonT(60)
  <2>11. SubSeq(new, a, b + n) = Splice(SubSeq(h, a, b), o + 1, ns)
    <3>1. Inserted(h, a + o, n, ns, new)
      BY <2>4, <2>6
    <3>2. Extended(h, a, b, o, n, ns, new)
      BY <2>2, <2>6, <3>1, InsertedElements
    <3> QED
      BY <3>2 DEF Extended
  <2>12. Len(SubSeq(h, a, b)) = l.size
    BY <2>2, SliceIs DEF Slice
  <2>13. ASSUME NEW q, q # p PROVE Apart(h, par, q, at)
    <3>1. at - 1 \in a .. b \/ at \in a .. b
      BY <2>2, <2>6
    <3> QED
      BY <2>1, <2>13, <3>1 DEF Apart, Owns
  <2>14. Where(l, start) = o
    BY <2>2 DEF Where, o
  <2>15. Added(h, par, p, l, start, n, ns, r)
    <3>1. Elements(new, l2) = Splice(Elements(h, l), Where(l, start) + 1, ns)
      BY <2>10, <2>11, <2>14
    <3>2. l.size # 0 /\ Len(Elements(h, l)) = l.size
      BY <2>2, <2>10, <2>12
    <3>3. Where(l, start) \in 0 .. l.size
      BY <2>6, <2>14
    <3> QED
      BY <2>4, <2>6, <2>8, <2>9, <2>13, <3>1, <3>2, <3>3, Zenon DEF Added
  <2> QED
    BY <2>15 DEF r
<1> QED
  BY <1>1, <1>2 DEF ListOK

\* d is the result of a del in the list l of p.
Removed(h, par, p, l, start, count, d) ==
  LET n == Number(l, start, count)
  IN /\ \E i \in 1 .. Len(h) :
          /\ n \in 1 .. Len(h) - i + 1 /\ Erased(h, i, n, d.host)
          /\ d.freed = Between(h, i, i + n)
          /\ \A k \in i .. i + n - 1 : par[h[k]] = p
     /\ Index(l, start) \in 0 .. l.size - 1 /\ n \in 1 .. l.size - Index(l, start)
     /\ d.list \in ElementList /\ d.list.size = l.size - n
     /\ ListOK(d.host, Refilled(par, d.freed, Null), p, d.list)
     /\ Len(Elements(h, l)) = l.size
     /\ Elements(d.host, d.list)
          = Cut(Elements(h, l), Index(l, start) + 1, Index(l, start) + 1 + n)

LEMMA CutAll ==
  ASSUME NEW e \in Seq(Nodes), NEW n \in Nat, Len(e) = n
  PROVE  Cut(e, 1, 1 + n) = << >>
<1>1. /\ 1 \in 1 .. Len(e) + 1 /\ 1 + n \in 1 .. Len(e) + 1 /\ Len(e) - ((1 + n) - 1) = 0
  OBVIOUS
<1>2. Cut(e, 1, 1 + n) \in Seq(Nodes) /\ Len(Cut(e, 1, 1 + n)) = 0
  <2>1. /\ Cut(e, 1, 1 + n) = Cutted(e, 1, 1 + n)
        /\ Cutted(e, 1, 1 + n) \in Seq(Nodes)
        /\ Len(Cutted(e, 1, 1 + n)) = Len(e) - ((1 + n) - 1)
    BY <1>1, CutIs
  <2> QED
    BY <1>1, <2>1
<1> QED
  BY <1>2, EmptySeq

LEMMA OwnErased ==
  ASSUME NEW h \in HostLists, NEW par, NEW p \in Parents, NEW l \in ElementList,
         ListOK(h, par, p, l), l.size > 0, NEW start \in Starts(l),
         NEW count \in Counts(l, start)
  PROVE  Removed(h, par, p, l, start, count, Del(h, l, start, count))
<1> DEFINE d == Del(h, l, start, count)
           s == Index(l, start)  n == Number(l, start, count)
<1>0. Len(h) \in Nat /\ l.size \in Nat /\ h \in Seq(Nodes)
  BY DEF HostLists, ElementList
<1>1. PICK a \in 1 .. Len(h), b \in 1 .. Len(h) : LiesOwn(h, par, p, l, a, b)
  BY DEF ListOK, OwnsNone, Empty
<1>2. Lies(h, l, a, b) /\ Owns(h, par, p, a, b)
  BY <1>1, OwnForms
<1>3. /\ a \in Int /\ b \in Int /\ a >= 1 /\ a <= b /\ b <= Len(h) /\ b \in a .. Len(h)
      /\ l.size = b - a + 1
  BY <1>0, <1>2 DEF Lies
<1>4. start \in -l.size .. l.size
  BY <1>0 DEF Starts
<1>5. Dropped(h, l, a, b, s, n, d)
  BY <1>2, <1>4, DelLies
<1>6. s \in 0 .. l.size - 1 /\ n \in 1 .. l.size - s
  BY <1>4, SpanIs
<1> HIDE DEF d, s, n
<1>7. /\ s \in Nat /\ n \in Nat /\ n > 0 /\ s + n <= b - a + 1
      /\ a + s \in 1 .. Len(h) /\ a + s \in a .. b /\ n \in 1 .. b - (a + s) + 1
      /\ n \in 1 .. Len(h) - (a + s) + 1
  BY <1>0, <1>3, <1>6
<1>8. /\ Erased(h, a + s, n, d.host) /\ d.list \in ElementList
      /\ n < l.size => Lies(d.host, d.list, a, b - n)
      /\ n = l.size => Empty(d.list)
      /\ d.freed = Between(h, a + s, a + s + n)
  BY <1>5 DEF Dropped
<1> DEFINE par2 == Refilled(par, d.freed, Null)
<1>9. Owns(d.host, par2, p, a, b - n)
  BY <1>2, <1>3, <1>7, <1>8, OwnsLess
<1>10. \A k \in (a + s) .. (a + s) + n - 1 : par[h[k]] = p
  <2> SUFFICES ASSUME NEW k \in (a + s) .. (a + s) + n - 1 PROVE par[h[k]] = p
    OBVIOUS
  <2>1. k \in 1 .. Len(h) /\ k \in a .. b
    BY <1>0, <1>3, <1>7
  <2> QED
    BY <1>2, <2>1 DEF Owns
<1>11. d.host \in HostLists /\ Len(d.host) = Len(h) - n
  BY <1>8 DEF Erased
<1>12. Elements(h, l) = SubSeq(h, a, b)
  BY <1>2, LiesPos
<1>13. SubSeq(h, a, b) \in Seq(Nodes) /\ Len(SubSeq(h, a, b)) = l.size
  BY <1>3, SliceIs DEF Slice
<1> HIDE DEF par2
<1>14. CASE n < l.size
  <2>1. Lies(d.host, d.list, a, b - n)
    BY <1>8, <1>14
  <2>2. ListOK(d.host, par2, p, d.list)
    BY <1>9, <1>11, <2>1, OwnForms
  <2>3. Elements(d.host, d.list) = SubSeq(d.host, a, b - n)
    BY <1>11, <2>1, LiesPos
  <2>4. Shortened(h, a, b, s, n, d.host)
    <3>1. n < b - a + 1 /\ n \in Nat \ {0}
      BY <1>3, <1>7, <1>14
    <3> QED
      BY <1>3, <1>7, <1>8, <3>1, ErasedElements
  <2>5. Elements(d.host, d.list) = Cut(Elements(h, l), s + 1, s + 1 + n)
    BY <1>12, <2>3, <2>4 DEF Shortened
  <2>6. d.list.size = l.size - n
    BY <1>3, <1>7, <2>1 DEF Lies
  <2> QED
    BY <1>6, <1>7, <1>8, <1>10, <1>12, <1>13, <2>2, <2>5, <2>6, Zenon
    DEF Removed, d, s, n, par2
<1>15. CASE n = l.size
  <2>0. s = 0 /\ b - n = a - 1
    BY <1>0, <1>3, <1>7, <1>15
  <2>1. Empty(d.list)
    BY <1>8, <1>15
  <2>2. ListOK(d.host, par2, p, d.list)
    <3>1. OwnsNone(d.host, par2, p, d.list)
      BY <1>3, <1>9, <1>11, <2>0, <2>1, OwnForms
    <3> QED
      BY <3>1 DEF ListOK
  <2>3. Elements(d.host, d.list) = << >>
    BY <2>1, EmptyElements
  <2>4. s + 1 = 1 /\ s + 1 + n = 1 + n
    BY <1>7, <2>0
  <2>5. Elements(d.host, d.list) = Cut(Elements(h, l), s + 1, s + 1 + n)
    BY <1>7, <1>12, <1>13, <1>15, <2>3, <2>4, CutAll
  <2>6. d.list.size = l.size - n
    BY <1>0, <1>15, <2>1 DEF Empty
  <2> QED
    BY <1>6, <1>7, <1>8, <1>10, <1>12, <1>13, <2>2, <2>5, <2>6, Zenon
    DEF Removed, d, s, n, par2
<1> QED
  BY <1>3, <1>7, <1>14, <1>15

----------------------------------------------------------------------------
(* The calls preserve the invariant.                                        *)

LEMMA CellsInserted ==
  ASSUME NEW h \in HostLists, NEW at \in 1 .. Len(h) + 1, NEW n \in Nat \ {0},
         NEW ns, NEW new, Inserted(h, at, n, ns, new)
  PROVE  Cells(new) = Cells(h) \cup Between(new, at, at + n)
<1>0. /\ Len(h) \in Nat /\ at \in Int /\ n \in Nat /\ n > 0 /\ at >= 1 /\ at <= Len(h) + 1
      /\ Len(new) = Len(h) + n /\ DOMAIN h = 1 .. Len(h) /\ DOMAIN new = 1 .. Len(new)
  BY DEF HostLists, Inserted
<1>1. ASSUME NEW c \in Cells(new) PROVE c \in Cells(h) \cup Between(new, at, at + n)
  <2>1. PICK k \in 1 .. Len(h) + n : c = new[k]
    BY <1>0 DEF Cells
  <2>2. CASE k \in 1 .. at - 1
    <3>1. new[k] = h[k] /\ k \in 1 .. Len(h)
      BY <1>0, <2>2 DEF Inserted
    <3> QED
      BY <1>0, <2>1, <3>1 DEF Cells
  <2>3. CASE k \in at .. (at + n) - 1
    BY <2>1, <2>3 DEF Between
  <2>4. CASE k \in at + n .. Len(h) + n
    <3>1. new[k] = h[k - n] /\ k - n \in 1 .. Len(h)
      BY <1>0, <2>4 DEF Inserted
    <3> QED
      BY <1>0, <2>1, <3>1 DEF Cells
  <2> QED
    BY <1>0, <2>2, <2>3, <2>4
<1>2. ASSUME NEW c \in Cells(h) PROVE c \in Cells(new)
  <2>1. PICK k \in 1 .. Len(h) : c = h[k]
    BY <1>0 DEF Cells
  <2>2. CASE k < at
    <3>1. k \in 1 .. at - 1 /\ k \in 1 .. Len(new)
      BY <1>0, <2>2
    <3> QED
      BY <1>0, <2>1, <3>1 DEF Inserted, Cells
  <2>3. CASE ~ (k < at)
    <3>1. k + n \in at + n .. Len(h) + n /\ (k + n) - n = k /\ k + n \in 1 .. Len(new)
      BY <1>0, <2>3
    <3>2. new[k + n] = h[(k + n) - n]
      BY <3>1, Zenon DEF Inserted
    <3> QED
      BY <1>0, <2>1, <3>1, <3>2 DEF Cells
  <2> QED
    BY <2>2, <2>3
<1>3. ASSUME NEW c \in Between(new, at, at + n) PROVE c \in Cells(new)
  <2>1. PICK k \in at .. (at + n) - 1 : c = new[k]
    BY DEF Between
  <2>2. k \in 1 .. Len(new)
    BY <1>0
  <2> QED
    BY <1>0, <2>1, <2>2 DEF Cells
<1> QED
  BY <1>1, <1>2, <1>3

LEMMA CellsErased ==
  ASSUME NEW h \in HostLists, NEW i \in 1 .. Len(h), NEW n \in 1 .. Len(h) - i + 1,
         NEW new, Erased(h, i, n, new)
  PROVE  Cells(new) = Cells(h) \ Between(h, i, i + n)
<1>0. /\ Len(h) \in Nat /\ i \in Int /\ n \in Nat /\ n > 0 /\ i >= 1 /\ i + n <= Len(h) + 1
      /\ Len(new) = Len(h) - n /\ DOMAIN h = 1 .. Len(h) /\ DOMAIN new = 1 .. Len(new)
      /\ Distinct(h)
  BY DEF HostLists, Erased
<1>1. ASSUME NEW k \in 1 .. Len(h), h[k] \in Between(h, i, i + n)
      PROVE  k \in i .. (i + n) - 1
  <2>1. PICK m \in i .. (i + n) - 1 : h[k] = h[m]
    BY <1>1 DEF Between
  <2>2. m \in 1 .. Len(h)
    BY <1>0
  <2> QED
    BY <1>0, <2>1, <2>2 DEF Distinct
<1>2. ASSUME NEW c \in Cells(new) PROVE c \in Cells(h) \ Between(h, i, i + n)
  <2>1. PICK k \in 1 .. Len(h) - n : c = new[k]
    BY <1>0 DEF Cells
  <2>2. CASE k \in 1 .. i - 1
    <3>1. new[k] = h[k] /\ k \in 1 .. Len(h) /\ ~ (k \in i .. (i + n) - 1)
      BY <1>0, <2>2 DEF Erased
    <3> QED
      BY <1>0, <1>1, <2>1, <3>1 DEF Cells
  <2>3. CASE k \in i .. Len(h) - n
    <3>1. new[k] = h[k + n] /\ k + n \in 1 .. Len(h) /\ ~ (k + n \in i .. (i + n) - 1)
      BY <1>0, <2>3 DEF Erased
    <3> QED
      BY <1>0, <1>1, <2>1, <3>1 DEF Cells
  <2> QED
    BY <1>0, <2>2, <2>3
<1>3. ASSUME NEW c \in Cells(h), c \notin Between(h, i, i + n) PROVE c \in Cells(new)
  <2>1. PICK k \in 1 .. Len(h) : c = h[k]
    BY <1>0 DEF Cells
  <2>2. ~ (k \in i .. (i + n) - 1)
    BY <1>3, <2>1 DEF Between
  <2>3. CASE k < i
    <3>1. k \in 1 .. i - 1 /\ k \in 1 .. Len(new)
      BY <1>0, <2>3
    <3> QED
      BY <1>0, <2>1, <3>1 DEF Erased, Cells
  <2>4. CASE ~ (k < i)
    <3>1. k - n \in i .. Len(h) - n /\ (k - n) + n = k /\ k - n \in 1 .. Len(new)
      BY <1>0, <2>2, <2>4
    <3>2. new[k - n] = h[(k - n) + n]
      BY <3>1, Zenon DEF Erased
    <3> QED
      BY <1>0, <2>1, <3>1, <3>2 DEF Cells
  <2> QED
    BY <2>3, <2>4
<1> QED
  BY <1>2, <1>3

LEMMA BetweenAt ==
  ASSUME NEW h \in HostLists, NEW m \in 1 .. Len(h) + 1, NEW n \in Nat, m + n - 1 <= Len(h)
  PROVE  {At(h, k) : k \in m .. m + n - 1} = Between(h, m, m + n)
<1>1. Len(h) \in Nat /\ DOMAIN h = 1 .. Len(h)
  BY DEF HostLists
<1>2. \A k \in m .. m + n - 1 : At(h, k) = h[k]
  BY <1>1 DEF At
<1>3. ASSUME NEW c \in {At(h, k) : k \in m .. m + n - 1} PROVE c \in Between(h, m, m + n)
  BY <1>2 DEF Between
<1>4. ASSUME NEW c \in Between(h, m, m + n) PROVE c \in {At(h, k) : k \in m .. m + n - 1}
  <2>1. PICK k \in m .. m + n - 1 : c = h[k]
    BY DEF Between
  <2> QED
    BY <1>2, <2>1
<1> QED
  BY <1>3, <1>4

LEMMA ListsStart == Init => ListsInv
<1> SUFFICES ASSUME Init PROVE ListsInv
  OBVIOUS
<1>1. /\ host = << >> /\ Len(host) = 0 /\ DOMAIN host = {} /\ host \in Seq(Nodes)
      /\ live = {} /\ parent = [c \in Nodes |-> Null]
      /\ list = [p \in Parents |-> NewList]
  BY DEF Init
<1>2. NewList \in ElementList /\ Empty(NewList) /\ NewList.size = 0
  BY DEF NewList, ElementList, Empty
<1>3. TypeOK
  BY <1>1, <1>2 DEF TypeOK
<1>4. Distinct(host) /\ Cells(host) = {}
  BY <1>1 DEF Distinct, Cells
<1>5. ASSUME NEW p \in Parents PROVE ListOK(host, parent, p, list[p])
  <2>1. Empty(list[p]) /\ \A k \in 1 .. Len(host) : parent[host[k]] # p
    BY <1>1, <1>2
  <2> QED
    BY <2>1 DEF ListOK, OwnsNone
<1> QED
  BY <1>1, <1>2, <1>3, <1>4, <1>5 DEF ListsInv

\* What the calls leave to the other containers.
OthersKept(p) ==
  \A q \in Parents \ {p} : Elements(host', list'[q]) = Elements(host, list[q])

AddOne(p, start, n, ns) ==
  LET r == Insert(host, list[p], start, ns)
      filled == {At(r.host, i) : i \in r.at .. r.at + n - 1}
  IN /\ host' = r.host
     /\ list' = [list EXCEPT ![p] = r.list]
     /\ parent' = [c \in Nodes |-> IF c \in filled THEN p ELSE parent[c]]
     /\ live' = live

LEMMA InvFacts ==
  ASSUME ListsInv
  PROVE  /\ host \in HostLists /\ host \in Seq(Nodes) /\ Len(host) \in Nat
         /\ parent \in [Nodes -> Parents \cup {Null}] /\ live \subseteq Parents
         /\ list \in [Parents -> ElementList]
         /\ \A p \in Parents : list[p] \in ElementList /\ ListOK(host, parent, p, list[p])
         /\ \A p \in Parents \ live : list[p].size = 0
         /\ \A c \in Nodes : parent[c] # Null <=> c \in Cells(host)
BY DEF ListsInv, TypeOK, HostLists

LEMMA SettledApart ==
  ASSUME ListsInv, NEW p \in live, list[p].size = 0, Settled(p), NEW q \in Parents
  PROVE  Apart(host, parent, q, Pos(host, list[p].first))
<1>0. host \in HostLists /\ Len(host) \in Nat /\ live \subseteq Parents
  BY InvFacts
<1>1. CASE list[p].first = End
  <2>1. Pos(host, list[p].first) = Len(host) + 1
    BY <1>1, PosOfEnd
  <2> QED
    BY <1>0, <2>1 DEF Apart
<1>2. CASE \E o \in live : list[o].size > 0 /\ list[o].first = list[p].first
  <2>1. PICK o \in live : list[o].size > 0 /\ list[o].first = list[p].first
    BY <1>2
  <2>2. o \in Parents /\ ListOK(host, parent, o, list[o])
    BY <1>0, InvFacts
  <2>3. PICK a \in 1 .. Len(host), b \in 1 .. Len(host) :
             LiesOwn(host, parent, o, list[o], a, b)
    BY <2>1, <2>2 DEF ListOK, OwnsNone, Empty
  <2>4. Lies(host, list[o], a, b) /\ Owns(host, parent, o, a, b)
    BY <1>0, <2>3, OwnForms
  <2>5. Pos(host, list[p].first) = a
    BY <1>0, <2>1, <2>4, LiesPos
  <2>6. a \in Int /\ b \in Int /\ a \in a .. b /\ ~ (a - 1 \in a .. b)
    BY <1>0, <2>4 DEF Lies
  <2>7. parent[host[a]] = o
    BY <2>4, <2>6 DEF Owns
  <2>8. a - 1 \in 1 .. Len(host) => parent[host[a - 1]] # o
    BY <2>4, <2>6 DEF Owns
  <2> QED
    BY <2>5, <2>7, <2>8 DEF Apart
<1> QED
  BY <1>1, <1>2 DEF Settled

LEMMA AddStep ==
  ASSUME ListsInv, Careful, NEW p \in live, Usable(p), NEW start \in Starts(list[p]),
         NEW n \in 1 .. MaxCount, NEW ns \in Fresh(n), AddOne(p, start, n, ns)
  PROVE  /\ ListsInv' /\ OthersKept(p)
         /\ Where(list[p], start) \in 0 .. Len(Elements(host, list[p]))
         /\ Elements(host', list'[p])
              = Splice(Elements(host, list[p]), Where(list[p], start) + 1, ns)
<1> DEFINE l == list[p]  r == Insert(host, l, start, ns)
           filled == Between(r.host, r.at, r.at + n)
<1>0. /\ host \in HostLists /\ Len(host) \in Nat /\ p \in Parents
      /\ parent \in [Nodes -> Parents \cup {Null}] /\ live \subseteq Parents
      /\ list \in [Parents -> ElementList]
      /\ l \in ElementList /\ ListOK(host, parent, p, l)
  BY InvFacts
<1>1. n \in Nat \ {0} /\ n \in Nat /\ n > 0
  BY MaxCountAssumption
<1>2. ns \in New(host, n) /\ Valid(host, l.first) /\ Settled(p)
  BY FreshNew DEF Usable
<1>3. Added(host, parent, p, l, start, n, ns, r)
  BY <1>0, <1>1, <1>2, OwnInserted
<1>4. /\ host' = r.host /\ list' = [list EXCEPT ![p] = r.list] /\ live' = live
      /\ parent' = [c \in Nodes |->
                      IF c \in {At(r.host, i) : i \in r.at .. r.at + n - 1}
                        THEN p ELSE parent[c]]
  BY Zenon DEF AddOne
<1> HIDE DEF r
<1>5. /\ r.at \in 1 .. Len(host) + 1 /\ Inserted(host, r.at, n, ns, r.host)
      /\ r.list \in ElementList /\ r.list.size > 0
      /\ ListOK(r.host, Refilled(parent, filled, p), p, r.list)
      /\ Where(l, start) \in 0 .. l.size
      /\ Elements(r.host, r.list) = Splice(Elements(host, l), Where(l, start) + 1, ns)
      /\ Len(Elements(host, l)) = l.size
  BY <1>3, Zenon DEF Added
<1>6. /\ r.host \in HostLists /\ Len(r.host) = Len(host) + n /\ r.host \in Seq(Nodes)
      /\ DOMAIN r.host = 1 .. Len(r.host) /\ r.at \in Int /\ r.at >= 1
      /\ r.at <= Len(host) + 1
  BY <1>0, <1>5 DEF Inserted, HostLists
<1>7. {At(r.host, i) : i \in r.at .. r.at + n - 1} = filled
  <2>1. r.at \in 1 .. Len(r.host) + 1 /\ r.at + n - 1 <= Len(r.host)
    BY <1>0, <1>1, <1>6
  <2> QED
    BY <1>1, <1>6, <2>1, BetweenAt
<1>8. parent' = Refilled(parent, filled, p)
  BY <1>4, <1>7 DEF Refilled
<1>9. filled \subseteq Nodes
  <2>1. \A i \in r.at .. (r.at + n) - 1 : r.host[i] \in Nodes
    BY <1>0, <1>1, <1>6
  <2> QED
    BY <2>1 DEF Between
<1>10. Cells(r.host) = Cells(host) \cup filled
  BY <1>0, <1>1, <1>5, CellsInserted
<1>11. ASSUME NEW q \in Parents, q # p
       PROVE  /\ ListOK(r.host, parent', q, list[q])
              /\ Elements(r.host, list[q]) = Elements(host, list[q])
  <2>1. Apart(host, parent, q, r.at)
    <3>1. CASE l.size = 0
      BY <1>2, <1>3, <3>1, SettledApart DEF Added
    <3>2. CASE l.size > 0
      BY <1>3, <1>11, <3>2 DEF Added
    <3> QED
      BY <1>0, <3>1, <3>2 DEF ElementList
  <2>2. ListOK(host, parent, q, list[q])
    BY InvFacts
  <2>3. Kept(host, r.host, Refilled(parent, filled, p), q, list[q])
    BY <1>0, <1>1, <1>5, <1>11, <2>1, <2>2, OthersInserted
  <2> QED
    BY <1>8, <2>3 DEF Kept
<1> HIDE DEF filled
<1>12. /\ list'[p] = r.list /\ \A q \in Parents : q # p => list'[q] = list[q]
  BY <1>0, <1>4
<1>13. TypeOK'
  <2>1. parent' \in [Nodes -> Parents \cup {Null}]
    BY <1>0, <1>8 DEF Refilled
  <2>2. list' \in [Parents -> ElementList]
    BY <1>0, <1>4, <1>5
  <2> QED
    BY <1>0, <1>4, <1>6, <2>1, <2>2 DEF TypeOK
<1>14. Distinct(host')
  BY <1>4, <1>6 DEF HostLists
<1>15. \A q \in Parents : ListOK(host', parent', q, list'[q])
  BY <1>4, <1>5, <1>8, <1>11, <1>12
<1>16. \A q \in Parents \ live' : list'[q].size = 0
  BY <1>4, <1>12, InvFacts
<1>17. ASSUME NEW c \in Nodes PROVE parent'[c] # Null <=> c \in Cells(host')
  <2>1. parent'[c] = IF c \in filled THEN p ELSE parent[c]
    BY <1>8 DEF Refilled
  <2>2. p # Null
    BY <1>0, NullAssumption
  <2> QED
    BY <1>4, <1>10, <2>1, <2>2, InvFacts
<1>18. ListsInv'
  BY <1>13, <1>14, <1>15, <1>16, <1>17 DEF ListsInv
<1>19. OthersKept(p)
  BY <1>4, <1>11, <1>12 DEF OthersKept
<1> QED
  BY <1>4, <1>5, <1>12, <1>18, <1>19

LEMMA DeleteStep ==
  ASSUME ListsInv, NEW p \in live, list[p].size > 0, NEW start \in Starts(list[p]),
         NEW count \in Counts(list[p], start), Delete(p, start, count),
         live' \subseteq live, live \subseteq live' \cup {p},
         p \notin live' => Number(list[p], start, count) = list[p].size
  PROVE  /\ ListsInv' /\ OthersKept(p)
         /\ Removed(host, parent, p, list[p], start, count,
                    [host |-> host', list |-> list'[p],
                     freed |-> Del(host, list[p], start, count).freed])
<1> DEFINE l == list[p]  d == Del(host, l, start, count)
           n == Number(l, start, count)
<1>0. /\ host \in HostLists /\ Len(host) \in Nat /\ p \in Parents
      /\ parent \in [Nodes -> Parents \cup {Null}] /\ live \subseteq Parents
      /\ list \in [Parents -> ElementList]
      /\ l \in ElementList /\ ListOK(host, parent, p, l)
  BY InvFacts
<1>1. Removed(host, parent, p, l, start, count, d)
  BY <1>0, OwnErased
<1>2. /\ host' = d.host /\ list' = [list EXCEPT ![p] = d.list]
      /\ parent' = [c \in Nodes |-> IF c \in d.freed THEN Null ELSE parent[c]]
  BY Zenon DEF Delete
<1> HIDE DEF d
<1>3. PICK i \in 1 .. Len(host) :
        /\ n \in 1 .. Len(host) - i + 1 /\ Erased(host, i, n, d.host)
        /\ d.freed = Between(host, i, i + n)
        /\ \A k \in i .. i + n - 1 : parent[host[k]] = p
  BY <1>1 DEF Removed
<1>4. /\ d.list \in ElementList /\ d.list.size = l.size - n
      /\ ListOK(d.host, Refilled(parent, d.freed, Null), p, d.list)
  BY <1>1 DEF Removed
<1> HIDE DEF n
<1>5. /\ d.host \in HostLists /\ d.host \in Seq(Nodes)
  BY <1>3 DEF Erased, HostLists
<1>6. parent' = Refilled(parent, d.freed, Null)
  BY <1>2 DEF Refilled
<1>7. Cells(d.host) = Cells(host) \ d.freed
  BY <1>0, <1>3, CellsErased
<1>8. ASSUME NEW q \in Parents, q # p
      PROVE  /\ ListOK(d.host, parent', q, list[q])
             /\ Elements(d.host, list[q]) = Elements(host, list[q])
  <2>1. ListOK(host, parent, q, list[q])
    BY InvFacts
  <2>2. Kept(host, d.host, Refilled(parent, Between(host, i, i + n), Null), q, list[q])
    BY <1>0, <1>3, <1>8, <2>1, OthersErased
  <2> QED
    BY <1>3, <1>6, <2>2 DEF Kept
<1>9. list'[p] = d.list /\ \A q \in Parents : q # p => list'[q] = list[q]
  BY <1>0, <1>2
<1>10. TypeOK'
  <2>1. parent' \in [Nodes -> Parents \cup {Null}]
    BY <1>0, <1>6 DEF Refilled
  <2>2. list' \in [Parents -> ElementList]
    BY <1>0, <1>2, <1>4
  <2> QED
    BY <1>0, <1>2, <1>5, <2>1, <2>2 DEF TypeOK
<1>11. Distinct(host')
  BY <1>2, <1>5 DEF HostLists
<1>12. \A q \in Parents : ListOK(host', parent', q, list'[q])
  BY <1>2, <1>4, <1>6, <1>8, <1>9
<1>13. ASSUME NEW q \in Parents \ live' PROVE list'[q].size = 0
  <2>1. CASE q = p
    <3>1. n = l.size
      BY <1>13, <2>1 DEF n
    <3>2. l.size \in Nat
      BY <1>0 DEF ElementList
    <3> QED
      BY <1>4, <1>9, <2>1, <3>1, <3>2
  <2>2. CASE q # p
    BY <1>9, <1>13, <2>2, InvFacts
  <2> QED
    BY <2>1, <2>2
<1>14. ASSUME NEW c \in Nodes PROVE parent'[c] # Null <=> c \in Cells(host')
  <2>1. parent'[c] = IF c \in d.freed THEN Null ELSE parent[c]
    BY <1>6 DEF Refilled
  <2> QED
    BY <1>2, <1>7, <2>1, InvFacts
<1>15. ListsInv'
  BY <1>10, <1>11, <1>12, <1>13, <1>14 DEF ListsInv
<1>16. OthersKept(p)
  BY <1>2, <1>8, <1>9 DEF OthersKept
<1>17. Removed(host, parent, p, l, start, count,
               [host |-> host', list |-> list'[p], freed |-> d.freed])
  <2> DEFINE e == [host |-> host', list |-> list'[p], freed |-> d.freed]
  <2>1. e.host = d.host /\ e.list = d.list /\ e.freed = d.freed
    BY <1>2, <1>9
  <2> HIDE DEF e
  <2>2. Removed(host, parent, p, l, start, count, e)
    BY <1>1, <2>1, Zenon DEF Removed
  <2> QED
    BY <2>2 DEF e
<1> QED
  BY <1>15, <1>16, <1>17 DEF d

\* del on an empty list does nothing.
LEMMA DeleteNothing ==
  ASSUME ListsInv, NEW p \in live, list[p].size = 0, NEW start, NEW count,
         Delete(p, start, count)
  PROVE  UNCHANGED <<host, parent, list>>
<1> DEFINE d == Del(host, list[p], start, count)
<1>0. parent \in [Nodes -> Parents \cup {Null}] /\ list \in [Parents -> ElementList]
      /\ p \in Parents
  BY InvFacts
<1>1. d = [host |-> host, list |-> list[p], freed |-> {}]
  BY Zenon DEF Del
<1>2. /\ host' = d.host /\ list' = [list EXCEPT ![p] = d.list]
      /\ parent' = [c \in Nodes |-> IF c \in d.freed THEN Null ELSE parent[c]]
  BY Zenon DEF Delete
<1> HIDE DEF d
<1>3. host' = host /\ d.list = list[p] /\ d.freed = {}
  BY <1>1, <1>2
<1>4. list' = list
  BY <1>0, <1>2, <1>3
<1>5. parent' = parent
  BY <1>0, <1>2, <1>3
<1> QED
  BY <1>3, <1>4, <1>5

\* A state that differs in the containers only.
LEMMA SameLists ==
  ASSUME ListsInv, UNCHANGED <<host, parent>>, live' \subseteq Parents,
         list' \in [Parents -> ElementList],
         \A q \in Parents : list'[q] = list[q] \/ (list[q].size = 0 /\ Empty(list'[q])),
         \A q \in Parents \ live' : list'[q].size = 0
  PROVE  ListsInv' /\ \A q \in Parents : Elements(host', list'[q]) = Elements(host, list[q])
<1>1. ASSUME NEW q \in Parents
      PROVE  /\ ListOK(host, parent, q, list'[q])
             /\ Elements(host, list'[q]) = Elements(host, list[q])
  <2>1. ListOK(host, parent, q, list[q])
    BY InvFacts
  <2>2. CASE list'[q] = list[q]
    BY <2>1, <2>2
  <2>3. CASE list[q].size = 0 /\ Empty(list'[q])
    <3>1. OwnsNone(host, parent, q, list[q])
      <4>1. ASSUME NEW a, NEW b, LiesOwn(host, parent, q, list[q], a, b) PROVE FALSE
        BY <2>3, <4>1, InvFacts, LiesPos DEF LiesOwn
      <4> QED
        BY <2>1, <4>1 DEF ListOK
    <3>2. OwnsNone(host, parent, q, list'[q])
      BY <2>3, <3>1 DEF OwnsNone
    <3>3. Elements(host, list'[q]) = << >> /\ Elements(host, list[q]) = << >>
      BY <3>1, <3>2, EmptyElements DEF OwnsNone
    <3> QED
      BY <3>2, <3>3 DEF ListOK
  <2> QED
    BY <1>1, <2>2, <2>3
<1>2. TypeOK' /\ Distinct(host')
  BY DEF ListsInv, TypeOK
<1> QED
  BY <1>1, <1>2, InvFacts DEF ListsInv

LEMMA EmptyOf ==
  ASSUME NEW h \in HostLists, NEW par, NEW p, NEW l, ListOK(h, par, p, l), l.size = 0
  PROVE  Empty(l)
<1>1. ASSUME NEW a, NEW b, LiesOwn(h, par, p, l, a, b) PROVE FALSE
  BY <1>1, LiesPos DEF LiesOwn
<1> QED
  BY <1>1 DEF ListOK, OwnsNone

LEMMA NoElements ==
  ASSUME ListsInv, NEW p \in Parents, list[p].size = 0
  PROVE  Empty(list[p]) /\ Elements(host, list[p]) = << >>
BY InvFacts, EmptyOf, EmptyElements

\* The steps of the specification, as the lemmas above see them.
Deletes(p) ==
  \E start \in Starts(list[p]) : \E count \in Counts(list[p], start) : Delete(p, start, count)

Adds(p) ==
  \E start \in Starts(list[p]) : \E n \in 1 .. MaxCount : \E ns \in Fresh(n) :
    Usable(p) /\ AddOne(p, start, n, ns)

LEMMA Steps ==
  ASSUME Next
  PROVE  \E p \in Parents :
           \/ Construct(p)
           \/ p \in live /\ Adds(p)
           \/ p \in live /\ live' = live /\ Deletes(p)
           \/ Destroy(p)
BY ZenonT(40) DEF Next, Add, AddOne, Adds, Deletes

\* The destructor is a del of all there is.
LEMMA DestroyAll ==
  ASSUME ListsInv, NEW p \in live, list[p].size > 0
  PROVE  /\ 0 \in Starts(list[p]) /\ -1 \in Counts(list[p], 0)
         /\ Number(list[p], 0, -1) = list[p].size
<1>1. list[p].size \in Nat
  BY InvFacts DEF ElementList
<1> QED
  BY <1>1 DEF Starts, Counts, Number, Index

LEMMA ListsStep == ASSUME Careful, ListsInv, [Next]_vars PROVE ListsInv'
<1>0. live \subseteq Parents /\ list \in [Parents -> ElementList]
      /\ \A q \in Parents \ live : list[q].size = 0
  BY InvFacts
<1>1. CASE UNCHANGED vars
  BY <1>0, <1>1, SameLists DEF vars
<1>2. ASSUME NEW p \in Parents, Construct(p) PROVE ListsInv'
  <2>1. /\ p \notin live /\ live' = live \cup {p} /\ list' = [list EXCEPT ![p] = NewList]
        /\ UNCHANGED <<host, parent>>
    BY <1>2 DEF Construct
  <2>2. NewList \in ElementList /\ Empty(NewList)
    BY DEF NewList, ElementList, Empty
  <2>3. list' \in [Parents -> ElementList] /\ live' \subseteq Parents
    BY <1>0, <2>1, <2>2
  <2>4. \A q \in Parents : list'[q] = list[q] \/ (list[q].size = 0 /\ Empty(list'[q]))
    BY <1>0, <2>1, <2>2
  <2>5. \A q \in Parents \ live' : list'[q].size = 0
    BY <1>0, <2>1
  <2> QED
    BY <2>1, <2>3, <2>4, <2>5, SameLists
<1>3. ASSUME NEW p \in live, Adds(p) PROVE ListsInv'
  BY <1>3, AddStep DEF Adds
<1>4. ASSUME NEW p \in live, live' = live, Deletes(p) PROVE ListsInv'
  <2>0. PICK start \in Starts(list[p]) :
          \E count \in Counts(list[p], start) : Delete(p, start, count)
    BY <1>4 DEF Deletes
  <2>1. PICK count \in Counts(list[p], start) : Delete(p, start, count)
    BY <2>0
  <2>2. CASE list[p].size > 0
    BY <1>4, <2>1, <2>2, DeleteStep
  <2>3. CASE list[p].size = 0
    <3>1. UNCHANGED <<host, parent, list>>
      BY <2>1, <2>3, DeleteNothing
    <3> QED
      BY <1>0, <1>4, <3>1, SameLists
  <2> QED
    BY <1>0, <2>2, <2>3 DEF ElementList
<1>5. ASSUME NEW p \in Parents, Destroy(p) PROVE ListsInv'
  <2>1. p \in live /\ live' = live \ {p} /\ Delete(p, 0, -1)
    BY <1>5 DEF Destroy
  <2>2. CASE list[p].size > 0
    BY <2>1, <2>2, DestroyAll, DeleteStep
  <2>3. CASE list[p].size = 0
    <3>1. UNCHANGED <<host, parent, list>>
      BY <2>1, <2>3, DeleteNothing
    <3> QED
      BY <1>0, <2>1, <2>3, <3>1, SameLists
  <2> QED
    BY <1>0, <2>1, <2>2, <2>3 DEF ElementList
<1> QED
  BY <1>1, <1>2, <1>3, <1>4, <1>5, Steps

LEMMA ListsHold == ASSUME Careful PROVE Spec => []ListsInv
<1>1. Init => ListsInv
  BY ListsStart
<1>2. ListsInv /\ [Next]_vars => ListsInv'
  BY ListsStep
<1> QED
  BY <1>1, <1>2, PTL DEF Spec

----------------------------------------------------------------------------
(* The theorems.                                                            *)

\* Every iterator of every list is a cell or the end, and every size is a
\* natural number: no call counts a list below zero.
THEOREM ListsTyped == ASSUME Careful PROVE Spec => []TypeOK
<1>1. ListsInv => TypeOK
  BY DEF ListsInv
<1> QED
  BY <1>1, ListsHold, PTL

LEMMA ContentsOwn == ListsInv => OwnContents
<1> SUFFICES ASSUME ListsInv PROVE OwnContents
  OBVIOUS
<1>0. /\ host \in HostLists /\ host \in Seq(Nodes) /\ Len(host) \in Nat
      /\ DOMAIN host = 1 .. Len(host) /\ live \subseteq Parents
      /\ parent \in [Nodes -> Parents \cup {Null}]
  BY InvFacts
<1>1. ASSUME NEW p \in live
      PROVE  LET visited == Elements(host, list[p])
             IN /\ {i \in DOMAIN host : parent[host[i]] = p}
                     = {Begin(host, list[p]) + k - 1 : k \in DOMAIN visited}
                /\ Len(visited) = list[p].size
  <2> DEFINE l == list[p]  e == Elements(host, l)
             own == {i \in DOMAIN host : parent[host[i]] = p}
             visits == {Begin(host, l) + k - 1 : k \in DOMAIN e}
  <2>1. p \in Parents /\ l \in ElementList /\ ListOK(host, parent, p, l)
    BY <1>0, InvFacts
  <2>2. CASE OwnsNone(host, parent, p, l)
    <3>1. e = << >> /\ l.size = 0
      BY <2>2, EmptyElements DEF OwnsNone, Empty
    <3>2. DOMAIN e = {} /\ Len(e) = 0
      BY <3>1
    <3>3. own = {}
      BY <1>0, <2>2 DEF OwnsNone
    <3> QED
      BY <3>1, <3>2, <3>3
  <2>3. ASSUME NEW a \in 1 .. Len(host), NEW b \in 1 .. Len(host),
               LiesOwn(host, parent, p, l, a, b)
        PROVE  own = visits /\ Len(e) = l.size
    <3>1. Lies(host, l, a, b) /\ Owns(host, parent, p, a, b)
      BY <1>0, <2>3, OwnForms
    <3>2. /\ a \in Int /\ b \in Int /\ a >= 1 /\ b <= Len(host) /\ b \in a .. Len(host)
          /\ a <= b /\ l.size = b - a + 1
      BY <1>0, <3>1 DEF Lies
    <3>3. e = SubSeq(host, a, b) /\ Begin(host, l) = a
      BY <1>0, <3>1, LiesPos
    <3>4. Slice(host, a, b, e)
      BY <1>0, <3>2, <3>3, SliceIs
    <3> HIDE DEF e
    <3>5. Len(e) = b - a + 1 /\ DOMAIN e = 1 .. b - a + 1
      BY <3>4 DEF Slice
    <3>6. own = a .. b
      BY <1>0, <3>1, <3>2 DEF Owns
    <3>7. {a + k - 1 : k \in 1 .. b - a + 1} = a .. b
      <4>1. ASSUME NEW i \in a .. b PROVE i \in {a + k - 1 : k \in 1 .. b - a + 1}
        <5>1. i - a + 1 \in 1 .. b - a + 1 /\ i = a + (i - a + 1) - 1
          BY <3>2
        <5> QED
          BY <5>1
      <4>2. \A k \in 1 .. b - a + 1 : a + k - 1 \in a .. b
        BY <3>2
      <4> QED
        BY <4>1, <4>2
    <3> QED
      BY <3>2, <3>3, <3>5, <3>6, <3>7, ZenonT(60)
  <2> QED
    BY <2>1, <2>2, <2>3 DEF ListOK
<1>2. {parent[c] : c \in Cells(host)} \subseteq live
  <2> SUFFICES ASSUME NEW c \in Cells(host) PROVE parent[c] \in live
    OBVIOUS
  <2>1. PICK k \in 1 .. Len(host) : c = host[k]
    BY <1>0 DEF Cells
  <2>2. c \in Nodes /\ parent[c] \in Parents
    <3>1. c \in Nodes
      BY <1>0, <2>1
    <3>2. parent[c] # Null
      BY <3>1, InvFacts
    <3> QED
      BY <1>0, <3>1, <3>2
  <2> SUFFICES ASSUME parent[c] \notin live PROVE FALSE
    OBVIOUS
  <2>3. list[parent[c]].size = 0 /\ ListOK(host, parent, parent[c], list[parent[c]])
    BY <2>2, InvFacts
  <2>4. OwnsNone(host, parent, parent[c], list[parent[c]])
    <3>1. ASSUME NEW a, NEW b, LiesOwn(host, parent, parent[c], list[parent[c]], a, b)
          PROVE FALSE
      BY <1>0, <2>3, <3>1, LiesPos DEF LiesOwn
    <3> QED
      BY <2>3, <3>1 DEF ListOK
  <2> QED
    BY <2>1, <2>4 DEF OwnsNone
<1>3. \A c \in Nodes : parent[c] # Null => c \in Cells(host)
  BY InvFacts
<1> QED
  BY <1>1, <1>2, <1>3 DEF OwnContents

\* getElements visits exactly the elements that were added to a container and
\* not deleted since, in host order, and size() counts them.
THEOREM ListsOwn == ASSUME Careful PROVE Spec => []OwnContents
BY ContentsOwn, ListsHold, PTL

LEMMA RoundTrips == ListsInv => RoundTrip
<1> SUFFICES ASSUME ListsInv, NEW p \in live, Valid(host, list[p].first)
             PROVE  Inflate(host, Deflate(host, list[p]), list[p].size) = list[p]
  BY DEF RoundTrip
<1> DEFINE l == list[p]
<1>0. /\ host \in HostLists /\ Len(host) \in Nat /\ p \in Parents
      /\ l \in ElementList /\ ListOK(host, parent, p, l)
  BY InvFacts
<1>1. CASE OwnsNone(host, parent, p, l)
  <2>1. l.size = 0 /\ l.last = l.first
    BY <1>1 DEF OwnsNone, Empty
  <2>2. Pos(host, l.first) \in 1 .. Len(host) + 1 /\ At(host, Pos(host, l.first)) = l.first
    BY <1>0, ValidAt
  <2> DEFINE m == Pos(host, l.first)
  <2> HIDE DEF m
  <2>3. 1 + (m - 1) = m /\ 1 + (m - 1) + 0 - 0 = m
    BY <1>0, <2>2 DEF m
  <2>4. Inflate(host, m - 1, 0) = [first |-> l.first, size |-> 0, last |-> l.first]
    BY <2>2, <2>3 DEF Inflate, m
  <2> QED
    BY <1>0, <2>1, <2>4 DEF Deflate, m, ElementList
<1>2. ASSUME NEW a \in 1 .. Len(host), NEW b \in 1 .. Len(host),
             LiesOwn(host, parent, p, l, a, b)
      PROVE  Inflate(host, Deflate(host, l), l.size) = l
  <2>1. Lies(host, l, a, b)
    BY <1>2 DEF LiesOwn
  <2>2. /\ Pos(host, l.first) = a /\ l.size = b - a + 1 /\ l.size > 0
        /\ l.first = host[a] /\ l.last = host[b] /\ a <= b
    <3>1. Pos(host, l.first) = a /\ l.size > 0
      BY <1>0, <2>1, LiesPos
    <3>2. /\ l.size = b - a + 1 /\ l.first = host[a] /\ l.last = host[b]
          /\ b \in a .. Len(host)
      BY <2>1 DEF Lies
    <3> QED
      BY <1>0, <3>1, <3>2
  <2>3. At(host, a) = host[a] /\ At(host, b) = host[b]
    BY <1>0, AtPosition
  <2>4. 1 + (a - 1) = a /\ 1 + (a - 1) + l.size - 1 = b
    BY <1>0, <2>2
  <2>5. Inflate(host, a - 1, l.size) = [first |-> l.first, size |-> l.size, last |-> l.last]
    BY <2>2, <2>3, <2>4 DEF Inflate
  <2> QED
    BY <1>0, <2>2, <2>5 DEF Deflate, ElementList
<1> QED
  BY <1>0, <1>1, <1>2 DEF ListOK

\* What deflate writes of a list is enough for inflate to find it again.
THEOREM ListsRoundTrip == ASSUME Careful PROVE Spec => []RoundTrip
BY RoundTrips, ListsHold, PTL

LEMMA WhereIs ==
  ASSUME NEW l \in ElementList, NEW start \in Starts(l)
  PROVE  Where(l, start)
           = IF l.size = 0 THEN 0
             ELSE (IF start < 0 THEN start + l.size ELSE start) + (IF start < 0 THEN 1 ELSE 0)
<1>1. l.size \in Nat /\ (l.size # 0 => start \in Int)
  BY DEF ElementList, Starts
<1> QED
  BY <1>1 DEF Where, Offset

LEMMA InsertPlaced ==
  ASSUME ListsInv, NEW p \in live, Usable(p), NEW n \in 1 .. MaxCount,
         NEW start \in Starts(list[p]), NEW ns \in Fresh(n)
  PROVE  LET r == Insert(host, list[p], start, ns)
         IN /\ Elements(r.host, r.list)
                 = Splice(Elements(host, list[p]), Where(list[p], start) + 1, ns)
            /\ At(r.host, r.at) = ns[1]
<1> DEFINE l == list[p]  r == Insert(host, l, start, ns)
<1>0. /\ host \in HostLists /\ Len(host) \in Nat /\ p \in Parents
      /\ l \in ElementList /\ ListOK(host, parent, p, l)
  BY InvFacts
<1>1. n \in Nat \ {0} /\ n \in Nat /\ n > 0
  BY MaxCountAssumption
<1>2. ns \in New(host, n) /\ Valid(host, l.first)
  BY FreshNew DEF Usable
<1>3. Added(host, parent, p, l, start, n, ns, r)
  BY <1>0, <1>1, <1>2, OwnInserted
<1> HIDE DEF r
<1>4. /\ r.at \in 1 .. Len(host) + 1 /\ Inserted(host, r.at, n, ns, r.host)
      /\ Elements(r.host, r.list) = Splice(Elements(host, l), Where(l, start) + 1, ns)
  BY <1>3, Zenon DEF Added
<1>5. At(r.host, r.at) = ns[1]
  <2>1. /\ r.host \in HostLists /\ r.at \in 1 .. Len(r.host)
        /\ r.at \in r.at .. r.at + n - 1 /\ r.at - r.at + 1 = 1
    BY <1>0, <1>1, <1>4 DEF Inserted
  <2>2. r.host[r.at] = ns[r.at - r.at + 1]
    BY <1>4, <2>1, Zenon DEF Inserted
  <2> QED
    BY <2>1, <2>2, AtPosition
<1> QED
  BY <1>4, <1>5 DEF r

LEMMA DelPlaced ==
  ASSUME ListsInv, NEW p \in live, list[p].size > 0, NEW start \in Starts(list[p]),
         NEW n \in Counts(list[p], start)
  PROVE  LET l == list[p]
             d == Del(host, l, start, n)
             i == (IF start < 0 THEN start + l.size ELSE start) + 1
             j == IF n = -1 THEN l.size + 1 ELSE i + n
         IN Elements(d.host, d.list) = Cut(Elements(host, l), i, j)
<1> DEFINE l == list[p]  d == Del(host, l, start, n)
           s == Index(l, start)  m == Number(l, start, n)
<1>0. /\ host \in HostLists /\ p \in Parents /\ l \in ElementList
      /\ ListOK(host, parent, p, l) /\ l.size \in Nat
  BY InvFacts DEF ElementList
<1>1. Removed(host, parent, p, l, start, n, d)
  BY <1>0, OwnErased
<1> HIDE DEF d
<1>2. /\ Elements(d.host, d.list) = Cut(Elements(host, l), s + 1, s + 1 + m)
      /\ s \in 0 .. l.size - 1
  BY <1>1, Zenon DEF Removed
<1>3. s + 1 + m = IF n = -1 THEN l.size + 1 ELSE s + 1 + n
  <2>1. m = IF n = -1 THEN l.size - s ELSE n
    BY DEF Number
  <2> HIDE DEF m, s
  <2>2. CASE n = -1
    <3>1. m = l.size - s
      BY <2>1, <2>2
    <3> QED
      BY <1>0, <1>2, <2>2, <3>1
  <2>3. CASE n # -1
    BY <2>1, <2>3
  <2> QED
    BY <2>2, <2>3
<1>4. s = IF start < 0 THEN start + l.size ELSE start
  BY DEF Index
<1> HIDE DEF s, m
<1> QED
  BY <1>2, <1>3, <1>4 DEF d

\* The two halves of EditsPlaced.
InsertsPlaced(p) ==
  \A n \in 1 .. MaxCount, start \in Starts(list[p]) : \A ns \in Fresh(n) :
    LET r == Insert(host, list[p], start, ns)
        i == IF list[p].size = 0 THEN 0
             ELSE (IF start < 0 THEN start + list[p].size ELSE start)
                    + IF start < 0 THEN 1 ELSE 0
    IN /\ Elements(r.host, r.list) = Splice(Elements(host, list[p]), i + 1, ns)
       /\ At(r.host, r.at) = ns[1]

DelsPlaced(p) ==
  \A start \in Starts(list[p]) : \A n \in Counts(list[p], start) :
    LET d == Del(host, list[p], start, n)
        i == (IF start < 0 THEN start + list[p].size ELSE start) + 1
        j == IF n = -1 THEN list[p].size + 1 ELSE i + n
    IN Elements(d.host, d.list) = Cut(Elements(host, list[p]), i, j)

LEMMA EditsInPlace == ListsInv => EditsPlaced
<1> SUFFICES ASSUME ListsInv, NEW p \in live
             PROVE  /\ Usable(p) => InsertsPlaced(p)
                    /\ list[p].size > 0 => DelsPlaced(p)
  BY Zenon DEF EditsPlaced, InsertsPlaced, DelsPlaced
<1>1. list[p] \in ElementList
  BY InvFacts
<1>2. Usable(p) => InsertsPlaced(p)
  <2> SUFFICES ASSUME Usable(p), NEW n \in 1 .. MaxCount, NEW start \in Starts(list[p]),
                      NEW ns \in Fresh(n)
               PROVE
        LET r == Insert(host, list[p], start, ns)
            i == IF list[p].size = 0 THEN 0
                 ELSE (IF start < 0 THEN start + list[p].size ELSE start)
                        + IF start < 0 THEN 1 ELSE 0
        IN /\ Elements(r.host, r.list) = Splice(Elements(host, list[p]), i + 1, ns)
           /\ At(r.host, r.at) = ns[1]
    BY Zenon DEF InsertsPlaced
  <2>1. Where(list[p], start)
          = IF list[p].size = 0 THEN 0
            ELSE (IF start < 0 THEN start + list[p].size ELSE start)
                   + (IF start < 0 THEN 1 ELSE 0)
    BY <1>1, WhereIs, Zenon
  <2> QED
    BY <2>1, InsertPlaced, ZenonT(40)
<1>3. list[p].size > 0 => DelsPlaced(p)
  BY DelPlaced, Zenon DEF DelsPlaced
<1> QED
  BY <1>2, <1>3

\* add puts its elements, and del takes them, where the caller counts to,
\* forwards or backwards, from any list the program can reach.
THEOREM ListEditsPlaced == ASSUME Careful PROVE Spec => []EditsPlaced
BY EditsInPlace, ListsHold, PTL

----------------------------------------------------------------------------
(* The refinement.                                                          *)

Contents == [p \in Parents |-> Elements(host, list[p])]

LEMMA InUseCells == ListsInv => Lists!InUse \subseteq Cells(host)
<1> SUFFICES ASSUME ListsInv, NEW p \in Parents, NEW i \in DOMAIN Elements(host, list[p])
             PROVE  Elements(host, list[p])[i] \in Cells(host)
  BY DEF Lists!InUse
<1>1. /\ host \in HostLists /\ Len(host) \in Nat /\ DOMAIN host = 1 .. Len(host)
      /\ ListOK(host, parent, p, list[p])
  BY InvFacts DEF HostLists
<1>2. CASE OwnsNone(host, parent, p, list[p])
  <2>1. Elements(host, list[p]) = << >>
    BY <1>2, EmptyElements DEF OwnsNone
  <2> QED
    BY <2>1
<1>3. ASSUME NEW a, NEW b, LiesOwn(host, parent, p, list[p], a, b)
      PROVE  Elements(host, list[p])[i] \in Cells(host)
  <2>1. Lies(host, list[p], a, b)
    BY <1>3 DEF LiesOwn
  <2>2. /\ a \in 1 .. Len(host) /\ b \in a .. Len(host)
    BY <2>1 DEF Lies
  <2>3. Elements(host, list[p]) = SubSeq(host, a, b)
    BY <1>1, <2>1, LiesPos
  <2>4. Slice(host, a, b, Elements(host, list[p]))
    BY <1>1, <2>2, <2>3, SliceIs
  <2>5. i \in 1 .. b - a + 1 /\ Elements(host, list[p])[i] = host[a + i - 1]
    BY <1>1, <2>2, <2>4 DEF Slice
  <2>6. a + i - 1 \in 1 .. Len(host)
    BY <1>1, <2>2, <2>5
  <2> QED
    BY <1>1, <2>5, <2>6 DEF Cells
<1> QED
  BY <1>1, <1>2, <1>3 DEF ListOK

LEMMA NewContents ==
  ASSUME NEW p \in Parents, OthersKept(p)
  PROVE  Contents' = [Contents EXCEPT ![p] = Elements(host', list'[p])]
BY DEF Contents, OthersKept

\* A step that leaves all contents alone.
LEMMA ContentsSame ==
  ASSUME \A q \in Parents : Elements(host', list'[q]) = Elements(host, list[q])
  PROVE  Contents' = Contents
BY DEF Contents

LEMMA ContentsAdd ==
  ASSUME Careful, ListsInv, NEW p \in live, Adds(p)
  PROVE  Lists!Insert(p)
<1>1. PICK start \in Starts(list[p]), n \in 1 .. MaxCount :
        \E ns \in Fresh(n) : Usable(p) /\ AddOne(p, start, n, ns)
  BY DEF Adds
<1>2. PICK ns \in Fresh(n) : Usable(p) /\ AddOne(p, start, n, ns)
  BY <1>1
<1> DEFINE i == Where(list[p], start)  old == Elements(host, list[p])
<1>3. /\ OthersKept(p) /\ i \in 0 .. Len(old)
      /\ Elements(host', list'[p]) = Splice(old, i + 1, ns)
  BY <1>2, AddStep
<1>4. p \in Parents /\ live' = live
  BY <1>2, InvFacts DEF AddOne
<1>5. ns \in Lists!NewElements
  <2>1. ns \in [1 .. n -> Nodes \ Cells(host)] /\ \A k, m \in 1 .. n : ns[k] = ns[m] => k = m
    BY DEF Fresh
  <2>2. ns \in [1 .. n -> Nodes \ Lists!InUse] /\ DOMAIN ns = 1 .. n
    BY <2>1, InUseCells
  <2> QED
    BY <2>1, <2>2 DEF Lists!NewElements
<1> HIDE DEF i
<1>6. (i + 1) - 1 = i
  BY <1>3
<1>7. Splice(old, i + 1, ns) = SubSeq(old, 1, i) \o ns \o SubSeq(old, i + 1, Len(old))
  BY <1>6 DEF Splice
<1>8. Contents' = [Contents EXCEPT ![p] = SubSeq(old, 1, i) \o ns
                                          \o SubSeq(old, i + 1, Len(old))]
  BY <1>3, <1>4, <1>7, NewContents
<1>9. Contents[p] = old
  BY <1>4 DEF Contents
<1> QED
  BY <1>3, <1>4, <1>5, <1>8, <1>9 DEF Lists!Insert, Contents

LEMMA ContentsDelete ==
  ASSUME ListsInv, NEW p \in live, list[p].size > 0, live' = live, Deletes(p)
  PROVE  Lists!Remove(p)
<1>0. PICK start \in Starts(list[p]) :
        \E count \in Counts(list[p], start) : Delete(p, start, count)
  BY DEF Deletes
<1>1. PICK count \in Counts(list[p], start) : Delete(p, start, count)
  BY <1>0
<1> DEFINE l == list[p]  old == Elements(host, l)
           s == Index(l, start)  n == Number(l, start, count)
           d == [host |-> host', list |-> list'[p],
                 freed |-> Del(host, list[p], start, count).freed]
<1>2. OthersKept(p) /\ Removed(host, parent, p, l, start, count, d)
  BY <1>1, DeleteStep
<1>3. d.host = host' /\ d.list = list'[p]
  OBVIOUS
<1> HIDE DEF d
<1>4. /\ s \in 0 .. l.size - 1 /\ n \in 1 .. l.size - s /\ Len(old) = l.size
      /\ Elements(d.host, d.list) = Cut(old, s + 1, s + 1 + n)
  BY <1>2, Zenon DEF Removed
<1>5. p \in Parents /\ l.size \in Nat
  BY InvFacts DEF ElementList
<1> HIDE DEF s, n
<1>6. DOMAIN old = 1 .. l.size
  <2>1. \E a, b : Lies(host, l, a, b)
    BY <1>5, InvFacts DEF ListOK, OwnsNone, Empty, LiesOwn
  <2>2. PICK a, b : Lies(host, l, a, b)
    BY <2>1
  <2>3. old = SubSeq(host, a, b) /\ a \in 1 .. Len(host) /\ b \in a .. Len(host)
    BY <2>2, InvFacts, LiesPos, ZenonT(60) DEF Lies
  <2>4. Slice(host, a, b, old)
    BY <2>3, InvFacts, SliceIs
  <2> HIDE DEF old
  <2>5. old \in Seq(Nodes)
    BY <2>4 DEF Slice
  <2> QED
    BY <1>4, <2>5
<1>7. /\ s + 1 \in DOMAIN old /\ s + n \in s + 1 .. Len(old)
      /\ (s + 1) - 1 = s /\ s + 1 + n = (s + n) + 1
  BY <1>4, <1>5, <1>6
<1>8. Elements(host', list'[p])
        = SubSeq(old, 1, (s + 1) - 1) \o SubSeq(old, (s + n) + 1, Len(old))
  BY <1>3, <1>4, <1>7 DEF Cut
<1>9. Contents' = [Contents EXCEPT ![p] =
                     SubSeq(old, 1, (s + 1) - 1) \o SubSeq(old, (s + n) + 1, Len(old))]
  BY <1>2, <1>5, <1>8, NewContents
<1>10. Contents[p] = old
  BY <1>5 DEF Contents
<1> QED
  BY <1>7, <1>9, <1>10 DEF Lists!Remove, Contents

LEMMA ContentsDestroy ==
  ASSUME ListsInv, NEW p \in Parents, Destroy(p)
  PROVE  p \in live /\ Lists!Destroy(p)
<1>1. p \in live /\ live' = live \ {p} /\ Delete(p, 0, -1)
  BY DEF Destroy
<1>2. list[p].size \in Nat
  BY InvFacts DEF ElementList
<1>3. OthersKept(p) /\ Elements(host', list'[p]) = << >>
  <2>1. CASE list[p].size > 0
    <3>1. /\ ListsInv' /\ OthersKept(p)
          /\ Removed(host, parent, p, list[p], 0, -1,
                     [host |-> host', list |-> list'[p],
                      freed |-> Del(host, list[p], 0, -1).freed])
      BY <1>1, <2>1, DestroyAll, DeleteStep
    <3>2. list'[p].size = list[p].size - Number(list[p], 0, -1)
      BY <3>1 DEF Removed
    <3>3. list'[p].size = 0
      BY <1>1, <1>2, <2>1, <3>2, DestroyAll
    <3>4. Empty(list'[p])
      <4>1. host' \in HostLists /\ ListOK(host', parent', p, list'[p])
        BY <3>1 DEF ListsInv, TypeOK, HostLists
      <4> QED
        BY <3>3, <4>1, EmptyOf
    <3> QED
      BY <3>1, <3>4, EmptyElements
  <2>2. CASE list[p].size = 0
    <3>1. UNCHANGED <<host, parent, list>>
      BY <1>1, <2>2, DeleteNothing
    <3>2. Elements(host, list[p]) = << >>
      BY <2>2, NoElements
    <3> QED
      BY <3>1, <3>2 DEF OthersKept
  <2> QED
    BY <1>2, <2>1, <2>2
<1>4. Contents' = [Contents EXCEPT ![p] = << >>]
  BY <1>3, NewContents
<1> QED
  BY <1>1, <1>4 DEF Lists!Destroy, Contents

LEMMA ContentsConstruct ==
  ASSUME ListsInv, NEW p \in Parents, Construct(p)
  PROVE  Lists!Construct(p)
<1>1. /\ p \notin live /\ live' = live \cup {p} /\ list' = [list EXCEPT ![p] = NewList]
      /\ UNCHANGED <<host, parent>>
  BY DEF Construct
<1>2. Empty(NewList) /\ list[p].size = 0 /\ list'[p] = NewList
  BY <1>1, InvFacts DEF NewList, Empty
<1>3. Elements(host, list[p]) = << >> /\ Elements(host', list'[p]) = << >>
  BY <1>2, NoElements, EmptyElements
<1>4. \A q \in Parents : Elements(host', list'[q]) = Elements(host, list[q])
  <2> SUFFICES ASSUME NEW q \in Parents
               PROVE  Elements(host', list'[q]) = Elements(host, list[q])
    OBVIOUS
  <2>1. CASE q = p
    BY <1>3, <2>1
  <2>2. CASE q # p
    <3>1. list'[q] = list[q]
      BY <1>1, <2>2, InvFacts
    <3> QED
      BY <1>1, <3>1
  <2> QED
    BY <2>1, <2>2
<1> QED
  BY <1>1, <1>4, ContentsSame DEF Lists!Construct, Contents

LEMMA ContentsStep ==
  ASSUME Careful, ListsInv, [Next]_vars
  PROVE  [Lists!SeqNext]_(Lists!seqVars)
<1>1. ASSUME UNCHANGED <<host, list, live>> PROVE UNCHANGED Lists!seqVars
  BY <1>1 DEF Lists!seqVars
<1>2. CASE UNCHANGED vars
  BY <1>1, <1>2 DEF vars
<1>3. ASSUME NEW p \in Parents, Construct(p) PROVE Lists!SeqNext
  BY <1>3, ContentsConstruct DEF Lists!SeqNext
<1>4. ASSUME NEW p \in live, Adds(p) PROVE Lists!SeqNext
  BY <1>4, ContentsAdd DEF Lists!SeqNext
<1>5. ASSUME NEW p \in live, live' = live, Deletes(p)
      PROVE  [Lists!SeqNext]_(Lists!seqVars)
  <2>1. CASE list[p].size > 0
    BY <1>5, <2>1, ContentsDelete DEF Lists!SeqNext
  <2>2. CASE list[p].size = 0
    <3>1. UNCHANGED <<host, parent, list>>
      BY <1>5, <2>2, DeleteNothing DEF Deletes
    <3> QED
      BY <1>1, <1>5, <3>1
  <2>3. list[p].size \in Nat
    BY InvFacts DEF ElementList
  <2> QED
    BY <2>1, <2>2, <2>3
<1>6. ASSUME NEW p \in Parents, Destroy(p) PROVE Lists!SeqNext
  BY <1>6, ContentsDestroy DEF Lists!SeqNext
<1> QED
  BY <1>2, <1>3, <1>4, <1>5, <1>6, Steps

\* The iterators into one shared host list amount to a sequence for each
\* container: every call changes the sequence of its own container, by one
\* insertion or one removal of neighbours, and none of the others.
THEOREM SequencesImplemented == ASSUME Careful PROVE Spec => ImplementsSequences
<1>1. Init => Lists!SeqInit
  <2> SUFFICES ASSUME Init PROVE Lists!SeqInit
    OBVIOUS
  <2>1. /\ live = {} /\ list = [p \in Parents |-> NewList]
    BY DEF Init
  <2>2. \A p \in Parents : Elements(host, list[p]) = << >>
    BY <2>1, EmptyElements DEF NewList, Empty
  <2> QED
    BY <2>1, <2>2 DEF Lists!SeqInit
<1>2. ListsInv /\ [Next]_vars => [Lists!SeqNext]_(Lists!seqVars)
  BY ContentsStep
<1> QED
  BY <1>1, <1>2, ListsHold, PTL DEF Spec, ImplementsSequences, Lists!SeqSpec
================================================================================
