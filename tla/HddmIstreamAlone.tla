--------------------------- MODULE HddmIstreamAlone ----------------------------
(***************************************************************************)
(* Theorems about HddmIstream for one reader that has the stream to        *)
(* itself: any file a writer can have produced, of any length, any number  *)
(* of skips and of repositionings.  The first part are lemmas about the    *)
(* files: where a reader can be in one, how many records lie before that   *)
(* place, and that a step keeps the types.                                 *)
(***************************************************************************)
EXTENDS HddmIstream, SequenceTheorems, FiniteSetTheorems, TLAPS

\* The records before a place: those of earlier entries, and the first o items
\* of entry e.
Before(f, e, o) == {q \in RecordsOf(f) : q[1] < e \/ (q[1] = e /\ q[2] <= o)}

\* A position at which a record was read.
MarkOK(f, p) ==
  /\ p \in Positions
  /\ p.start \in DOMAIN f
  /\ p.off + 1 \in DOMAIN f[p.start].items
  /\ p.status = InForce(f, p.start)
  /\ LET i == f[p.start].items[p.off + 1] IN ~i.tok /\ i.n = p.n

----------------------------------------------------------------------------
(* The rest of a sequence.                                                  *)

LEMMA FromProperties ==
  ASSUME NEW S, NEW s \in Seq(S), NEW n \in 0 .. Len(s)
  PROVE  /\ From(s, n) \in Seq(S) /\ Len(From(s, n)) = Len(s) - n
         /\ \A i \in 1 .. Len(s) - n : From(s, n)[i] = s[n + i]
<1>1. Len(s) \in Nat /\ \A i \in (n + 1) .. Len(s) : s[i] \in S
  BY LenProperties, ElementOfSeq
<1>2. n + 1 \in Int /\ Len(s) \in Int
  BY <1>1
<1>3. /\ From(s, n) \in Seq(S)
      /\ Len(From(s, n)) = IF n + 1 <= Len(s) THEN Len(s) - (n + 1) + 1 ELSE 0
      /\ \A i \in 1 .. Len(s) - (n + 1) + 1 : From(s, n)[i] = s[n + 1 + i - 1]
  BY <1>1, <1>2, SubSeqProperties DEF From
<1>4. /\ Len(s) - (n + 1) + 1 = Len(s) - n
      /\ (IF n + 1 <= Len(s) THEN Len(s) - (n + 1) + 1 ELSE 0) = Len(s) - n
  BY <1>1
<1>5. \A i \in 1 .. Len(s) - n : n + 1 + i - 1 = n + i
  BY <1>1
<1> QED BY <1>3, <1>4, <1>5

LEMMA FromEmpty ==
  ASSUME NEW S, NEW s \in Seq(S), NEW n \in 0 .. Len(s)
  PROVE  From(s, n) # << >> <=> n < Len(s)
<1>1. Len(s) \in Nat /\ From(s, n) \in Seq(S) /\ Len(From(s, n)) = Len(s) - n
  BY FromProperties, LenProperties
<1>2. From(s, n) = << >> <=> Len(From(s, n)) = 0
  BY <1>1, EmptySeq
<1> QED BY <1>1, <1>2

\* Dropping d more, and taking one out.
LEMMA FromFrom ==
  ASSUME NEW S, NEW s \in Seq(S), NEW n \in 0 .. Len(s), NEW d \in 0 .. Len(s) - n
  PROVE  From(From(s, n), d) = From(s, n + d)
<1>1. /\ From(s, n) \in Seq(S) /\ Len(From(s, n)) = Len(s) - n /\ Len(s) \in Nat
      /\ \A i \in 1 .. Len(s) - n : From(s, n)[i] = s[n + i]
  BY FromProperties, LenProperties
<1>2. d \in 0 .. Len(From(s, n)) /\ n + d \in 0 .. Len(s)
  BY <1>1
<1>3. /\ From(From(s, n), d) \in Seq(S) /\ Len(From(From(s, n), d)) = Len(s) - n - d
      /\ \A i \in 1 .. Len(s) - n - d : From(From(s, n), d)[i] = From(s, n)[d + i]
  BY <1>1, <1>2, FromProperties
<1>4. /\ From(s, n + d) \in Seq(S) /\ Len(From(s, n + d)) = Len(s) - (n + d)
      /\ \A i \in 1 .. Len(s) - (n + d) : From(s, n + d)[i] = s[(n + d) + i]
  BY <1>2, FromProperties
<1>5. Len(s) - n - d = Len(s) - (n + d)
  BY <1>1
<1>6. ASSUME NEW i \in 1 .. Len(s) - (n + d)
      PROVE  From(From(s, n), d)[i] = From(s, n + d)[i]
  <2>1. d + i \in 1 .. Len(s) - n /\ n + (d + i) = (n + d) + i
    BY <1>1
  <2> QED BY <1>1, <1>3, <1>4, <1>5, <2>1
<1> QED BY <1>3, <1>4, <1>5, <1>6, SeqEqual

LEMMA FromHeadTail ==
  ASSUME NEW S, NEW s \in Seq(S), NEW n \in Nat, n < Len(s)
  PROVE  /\ From(s, n) # << >> /\ From(s, n)[1] = s[n + 1]
         /\ Tail(From(s, n)) = From(s, n + 1)
<1>1. /\ n \in 0 .. Len(s) /\ n + 1 \in 0 .. Len(s) /\ Len(s) \in Nat
  BY LenProperties
<1>2. From(s, n) # << >>
  BY <1>1, FromEmpty
<1>3. /\ From(s, n) \in Seq(S) /\ Len(From(s, n)) = Len(s) - n
      /\ \A i \in 1 .. Len(s) - n : From(s, n)[i] = s[n + i]
  BY <1>1, FromProperties
<1>4. From(s, n)[1] = s[n + 1]
  BY <1>1, <1>3
<1>5. /\ Tail(From(s, n)) \in Seq(S) /\ Len(Tail(From(s, n))) = Len(s) - n - 1
      /\ \A i \in 1 .. Len(s) - n - 1 : Tail(From(s, n))[i] = From(s, n)[i + 1]
  BY <1>2, <1>3, HeadTailProperties
<1>6. /\ From(s, n + 1) \in Seq(S) /\ Len(From(s, n + 1)) = Len(s) - (n + 1)
      /\ \A i \in 1 .. Len(s) - (n + 1) : From(s, n + 1)[i] = s[(n + 1) + i]
  BY <1>1, FromProperties
<1>7. Len(s) - n - 1 = Len(s) - (n + 1)
  BY <1>1
<1>8. ASSUME NEW i \in 1 .. Len(s) - (n + 1)
      PROVE  Tail(From(s, n))[i] = From(s, n + 1)[i]
  <2>1. i + 1 \in 1 .. Len(s) - n /\ n + (i + 1) = (n + 1) + i
    BY <1>1
  <2> QED BY <1>3, <1>5, <1>6, <1>7, <2>1
<1>9. Tail(From(s, n)) = From(s, n + 1)
  BY <1>5, <1>6, <1>7, <1>8, SeqEqual
<1> QED BY <1>2, <1>4, <1>9

----------------------------------------------------------------------------
(* What a legible file looks like.                                          *)

LEMMA FileShape ==
  ASSUME NEW f \in Files
  PROVE  /\ f \in Seq(Entries) /\ Len(f) \in Nat /\ DOMAIN f = 1 .. Len(f)
         /\ \A e \in DOMAIN f :
              /\ f[e].kind \in Codecs \cup {"none"} /\ f[e].items \in Seq(Items)
              /\ Len(f[e].items) \in Nat /\ Len(f[e].items) > 0
              /\ DOMAIN f[e].items = 1 .. Len(f[e].items)
              /\ f[e].kind = "none" => Len(f[e].items) = 1
              /\ \A i \in DOMAIN f[e].items : f[e].items[i] \in Items
<1>1. Legible(f)
  BY FilesAssumption
<1>2. f \in Seq(Entries) /\ Len(f) \in Nat /\ DOMAIN f = 1 .. Len(f)
  BY <1>1, LenProperties DEF Legible
<1>3. ASSUME NEW e \in DOMAIN f
      PROVE  /\ f[e].kind \in Codecs \cup {"none"} /\ f[e].items \in Seq(Items)
             /\ Len(f[e].items) \in Nat /\ Len(f[e].items) > 0
             /\ DOMAIN f[e].items = 1 .. Len(f[e].items)
             /\ f[e].kind = "none" => Len(f[e].items) = 1
             /\ \A i \in DOMAIN f[e].items : f[e].items[i] \in Items
  <2>1. f[e] \in Entries
    BY <1>2, ElementOfSeq
  <2>2. f[e].kind \in Codecs \cup {"none"} /\ f[e].items \in Seq(Items)
    BY <2>1 DEF Entries
  <2>3. f[e].items # << >> /\ (f[e].kind = "none" => Len(f[e].items) = 1)
    BY <1>1 DEF Legible
  <2>4. /\ Len(f[e].items) \in Nat /\ DOMAIN f[e].items = 1 .. Len(f[e].items)
        /\ Len(f[e].items) > 0
    BY <2>2, <2>3, LenProperties, EmptySeq
  <2>5. \A i \in DOMAIN f[e].items : f[e].items[i] \in Items
    BY <2>2, <2>4, ElementOfSeq
  <2> QED BY <2>2, <2>3, <2>4, <2>5
<1> QED BY <1>2, <1>3

\* The configurations in force, and how an item is encoded under them.
LEMMA FileForce ==
  ASSUME NEW f \in Files
  PROVE  /\ \A e \in 1 .. Len(f) + 1 :
              InForce(f, e) \in Status /\ InForce(f, e).cmp # Codecs
         /\ \A e \in DOMAIN f :
              /\ f[e].kind = KindOf(InForce(f, e).cmp)
              /\ \A i \in DOMAIN f[e].items :
                   LET x == f[e].items[i]
                   IN /\ ~x.tok => x.bits = InForce(f, e)
                      /\ x.tok => i = Len(f[e].items) /\ x.bits = InForce(f, e + 1)
                      /\ i = Len(f[e].items) => x.bits = InForce(f, e + 1)
                      /\ x.bits \in Status /\ x.bits.cmp # Codecs
                      /\ f[e].kind # "none" => x.bits.cmp # {}
                      /\ x.bits.cmp # {} => x.bits.repos
<1>1. Legible(f)
  BY FilesAssumption
<1>2. ASSUME NEW e \in DOMAIN f, NEW i \in DOMAIN f[e].items
      PROVE  /\ f[e].items[i].bits \in Status /\ f[e].items[i].bits.cmp # Codecs
             /\ i = Len(f[e].items) => f[e].items[i].bits = InForce(f, e + 1)
  <2>1. f[e].items[i] \in Items
    BY FileShape
  <2>2. f[e].items[i].bits \in Status /\ f[e].items[i].bits.cmp # Codecs
    BY <1>1, <2>1 DEF Legible, Items
  <2>3. e \in 1 .. Len(f) /\ Len(f) \in Nat
    BY FileShape
  <2>4. e + 1 # 1 /\ (e + 1) - 1 = e
    BY <2>3
  <2> QED BY <2>2, <2>4 DEF InForce
<1>3. ASSUME NEW e \in 1 .. Len(f) + 1
      PROVE  InForce(f, e) \in Status /\ InForce(f, e).cmp # Codecs
  <2>1. CASE e = 1
    BY <2>1 DEF InForce, DefaultStatus, Status, Codecs
  <2>2. CASE e # 1
    <3>1. e - 1 \in DOMAIN f /\ (e - 1) + 1 = e
      BY <2>2, FileShape
    <3>2. Len(f[e - 1].items) \in DOMAIN f[e - 1].items
      BY <3>1, FileShape
    <3> QED BY <1>2, <3>1, <3>2
  <2> QED BY <2>1, <2>2
<1>4. ASSUME NEW e \in DOMAIN f
      PROVE  /\ f[e].kind = KindOf(InForce(f, e).cmp)
             /\ \A i \in DOMAIN f[e].items :
                  LET x == f[e].items[i]
                  IN /\ ~x.tok => x.bits = InForce(f, e)
                     /\ x.tok => i = Len(f[e].items)
                     /\ f[e].kind # "none" => x.bits.cmp # {}
                     /\ x.bits.cmp # {} => x.bits.repos
  BY <1>1 DEF Legible, Fits
<1> QED BY <1>2, <1>3, <1>4

----------------------------------------------------------------------------
(* Counting records.                                                        *)

LEMMA RecordPlaces ==
  ASSUME NEW f, NEW q
  PROVE  q \in RecordsOf(f) <=>
           \E e, i : /\ e \in DOMAIN f /\ i \in DOMAIN f[e].items
                     /\ ~f[e].items[i].tok /\ q = <<e, i>>
BY DEF RecordsOf

LEMMA RecordsFinite ==
  ASSUME NEW f \in Files
  PROVE  IsFiniteSet(RecordsOf(f))
<1> DEFINE idx(e) == {j \in DOMAIN f[e].items : ~f[e].items[j].tok}
           rec(e) == {<<e, i>> : i \in idx(e)}
           all == {rec(e) : e \in DOMAIN f}
<1>1. ASSUME NEW e \in DOMAIN f  PROVE IsFiniteSet(rec(e))
  <2>1. IsFiniteSet(1 .. Len(f[e].items))
    <3>1. Len(f[e].items) \in Int
      BY FileShape
    <3> QED BY <3>1, FS_Interval
  <2>2. idx(e) \in SUBSET (1 .. Len(f[e].items))
    BY FileShape
  <2>3. IsFiniteSet(idx(e))
    BY <2>1, <2>2, FS_Subset
  <2> DEFINE g == [i \in idx(e) |-> <<e, i>>]
  <2>4. g \in Surjection(idx(e), rec(e))
    BY DEF Surjection
  <2> HIDE DEF idx, rec, g
  <2> QED BY <2>3, <2>4, FS_Surjection
<1>2. IsFiniteSet(all)
  <2>1. IsFiniteSet(DOMAIN f)
    BY FileShape, FS_Interval
  <2> DEFINE g == [e \in DOMAIN f |-> rec(e)]
  <2>2. g \in Surjection(DOMAIN f, all)
    <3> HIDE DEF rec
    <3> QED BY DEF Surjection
  <2> HIDE DEF all, g
  <2> QED BY <2>1, <2>2, FS_Surjection
<1>3. \A T \in all : IsFiniteSet(T)
  BY <1>1
<1>4. IsFiniteSet(UNION all)
  <2> HIDE DEF all
  <2> QED BY <1>2, <1>3, FS_UNION
<1> QED BY <1>4 DEF RecordsOf

LEMMA BeforeType ==
  ASSUME NEW f \in Files, NEW e, NEW o
  PROVE  IsFiniteSet(Before(f, e, o)) /\ Cardinality(Before(f, e, o)) \in Nat
<1>1. Before(f, e, o) \in SUBSET RecordsOf(f)
  BY DEF Before
<1> QED BY <1>1, RecordsFinite, FS_Subset, FS_CardinalityType

\* The end of an entry is the beginning of the next.
LEMMA BeforeEntry ==
  ASSUME NEW f \in Files, NEW e \in DOMAIN f
  PROVE  Before(f, e + 1, 0) = Before(f, e, Len(f[e].items))
<1>1. ASSUME NEW q \in RecordsOf(f)
      PROVE  q[1] < e + 1 \/ (q[1] = e + 1 /\ q[2] <= 0)
               <=> q[1] < e \/ (q[1] = e /\ q[2] <= Len(f[e].items))
  <2>1. PICK d, i : d \in DOMAIN f /\ i \in DOMAIN f[d].items /\ q = <<d, i>>
    BY RecordPlaces
  <2>2. /\ d \in 1 .. Len(f) /\ e \in 1 .. Len(f) /\ Len(f) \in Nat
        /\ i \in 1 .. Len(f[d].items) /\ Len(f[d].items) \in Nat
    BY <2>1, FileShape
  <2> QED BY <2>1, <2>2
<1> QED BY <1>1 DEF Before

\* A token does not count.
LEMMA BeforeToken ==
  ASSUME NEW f \in Files, NEW e \in DOMAIN f, NEW i \in DOMAIN f[e].items, f[e].items[i].tok
  PROVE  Before(f, e, i) = Before(f, e, i - 1)
<1>1. ASSUME NEW q \in RecordsOf(f)
      PROVE  q[1] < e \/ (q[1] = e /\ q[2] <= i) <=> q[1] < e \/ (q[1] = e /\ q[2] <= i - 1)
  <2>1. PICK d, j : d \in DOMAIN f /\ j \in DOMAIN f[d].items /\ ~f[d].items[j].tok /\ q = <<d, j>>
    BY RecordPlaces
  <2>2. /\ d \in 1 .. Len(f) /\ e \in 1 .. Len(f) /\ Len(f) \in Nat
        /\ j \in 1 .. Len(f[d].items) /\ Len(f[d].items) \in Nat
        /\ i \in 1 .. Len(f[e].items) /\ Len(f[e].items) \in Nat
    BY <2>1, FileShape
  <2>3. ~(d = e /\ j = i)
    BY <2>1
  <2> QED BY <2>1, <2>2, <2>3
<1> QED BY <1>1 DEF Before

\* A record counts one, and is numbered by the count before it.
LEMMA BeforeRecord ==
  ASSUME NEW f \in Files, NEW e \in DOMAIN f, NEW i \in DOMAIN f[e].items, ~f[e].items[i].tok
  PROVE  /\ Cardinality(Before(f, e, i)) = Cardinality(Before(f, e, i - 1)) + 1
         /\ f[e].items[i].n = 1 + Cardinality(Before(f, e, i - 1))
<1> DEFINE p == <<e, i>>
<1>1. /\ e \in 1 .. Len(f) /\ Len(f) \in Nat
      /\ i \in 1 .. Len(f[e].items) /\ Len(f[e].items) \in Nat
  BY FileShape
<1>2. p \in RecordsOf(f)
  BY RecordPlaces
<1>3. ASSUME NEW q \in RecordsOf(f)
      PROVE  /\ q[1] < e \/ (q[1] = e /\ q[2] <= i)
                   <=> q = p \/ q[1] < e \/ (q[1] = e /\ q[2] <= i - 1)
             /\ Earlier(q, p) <=> q[1] < e \/ (q[1] = e /\ q[2] <= i - 1)
             /\ q = p => ~Earlier(q, p)
  <2>1. PICK d, j : d \in DOMAIN f /\ j \in DOMAIN f[d].items /\ q = <<d, j>>
    BY RecordPlaces
  <2>2. /\ d \in 1 .. Len(f) /\ j \in 1 .. Len(f[d].items) /\ Len(f[d].items) \in Nat
    BY <2>1, FileShape
  <2> QED BY <1>1, <2>1, <2>2 DEF Earlier
<1>4. Before(f, e, i) = Before(f, e, i - 1) \cup {p}
  BY <1>2, <1>3 DEF Before
<1>5. p \notin Before(f, e, i - 1)
  BY <1>2, <1>3 DEF Before
<1>6. Before(f, e, i - 1) = {q \in RecordsOf(f) : Earlier(q, p)}
  BY <1>3 DEF Before
<1>7. Cardinality(Before(f, e, i)) = Cardinality(Before(f, e, i - 1)) + 1
  BY <1>4, <1>5, BeforeType, FS_AddElement
<1>8. f[e].items[i].n = 1 + Cardinality({q \in RecordsOf(f) : Earlier(q, p)})
  <2>1. Legible(f)
    BY FilesAssumption
  <2>2. f[p[1]].items[p[2]].n = 1 + Cardinality({q \in RecordsOf(f) : Earlier(q, p)})
    BY <1>2, <2>1 DEF Legible
  <2> QED BY <2>2
<1> QED BY <1>6, <1>7, <1>8

\* Behind the last entry all of them are counted.
LEMMA BeforeAll ==
  ASSUME NEW f \in Files, NEW e \in Nat, e > Len(f), NEW o
  PROVE  Before(f, e, o) = RecordsOf(f)
<1>1. ASSUME NEW q \in RecordsOf(f)  PROVE q[1] < e
  <2>1. PICK d, j : d \in DOMAIN f /\ j \in DOMAIN f[d].items /\ q = <<d, j>>
    BY RecordPlaces
  <2>2. d \in 1 .. Len(f) /\ Len(f) \in Nat
    BY <2>1, FileShape
  <2> QED BY <2>1, <2>2
<1> QED BY <1>1 DEF Before

\* Nothing comes before the beginning.
LEMMA BeforeStart ==
  ASSUME NEW f \in Files
  PROVE  Cardinality(Before(f, 1, 0)) = 0
<1>1. ASSUME NEW q \in RecordsOf(f)  PROVE ~(q[1] < 1 \/ (q[1] = 1 /\ q[2] <= 0))
  <2>1. PICK d, j : d \in DOMAIN f /\ j \in DOMAIN f[d].items /\ q = <<d, j>>
    BY RecordPlaces
  <2>2. /\ d \in 1 .. Len(f) /\ Len(f) \in Nat
        /\ j \in 1 .. Len(f[d].items) /\ Len(f[d].items) \in Nat
    BY <2>1, FileShape
  <2> QED BY <2>1, <2>2
<1>2. Before(f, 1, 0) = {}
  BY <1>1 DEF Before
<1> QED BY <1>2, FS_EmptySet

----------------------------------------------------------------------------
(* Types: they are kept by every step, as long as no item is taken from      *)
(* beyond the end of the block at hand.                                     *)

HeadSafe(t) ==
  pc[t] = "head" /\ Compressed(t) /\ Seeking(t) /\ InsideBlock(t)
    => xcmp[t].seek.off - xcmp[t].off < Len(xcmp[t].left)

LEMMA DefaultTypes ==
  /\ DefaultStatus \in Status /\ NoPosition \in Positions /\ NoInput \in Inputs
  /\ NoItem \in Items
  /\ \A k \in Codecs \cup {"none"} :
       NewInput(k) \in Inputs /\ NewInput(k) = [NoInput EXCEPT !.kind = k]
<1>1. DefaultStatus \in Status
  BY DEF DefaultStatus, Status
<1>2. NoPosition \in Positions
  BY <1>1 DEF NoPosition, Positions
<1>3. << >> \in Seq(Items)
  OBVIOUS
<1>4. NoInput \in Inputs
  BY <1>2, <1>3 DEF NoInput, Inputs
<1>5. \A k \in Codecs \cup {"none"} : NewInput(k) \in Inputs
  BY <1>4 DEF NewInput, Inputs
<1>6. NoItem \in Items
  BY <1>1 DEF NoItem, Items
<1> QED BY <1>1, <1>2, <1>4, <1>5, <1>6 DEF NewInput

LEMMA KindTypes ==
  ASSUME NEW c \in SUBSET Codecs, c # Codecs
  PROVE  KindOf(c) \in Codecs \cup {"none"} /\ (KindOf(c) = "none" <=> c = {})
BY DEF KindOf, Codecs

LEMMA KindType ==
  ASSUME NEW c
  PROVE  KindOf(c) \in Codecs \cup {"none"}
BY DEF KindOf, Codecs

LEMMA MarkTypes ==
  /\ \A a, o \in Nat, s \in Status :
       LET p == [NoPosition EXCEPT !.start = a, !.off = o, !.status = s]
       IN  p \in Positions /\ p.start = a /\ p.off = o /\ p.status = s /\ p.n = 0
  /\ \A a \in Nat, s \in Status :
       LET p == [NoPosition EXCEPT !.start = a, !.status = s]
       IN  p \in Positions /\ p.start = a /\ p.off = 0 /\ p.status = s /\ p.n = 0
  /\ \A p \in Positions, n \in Nat :
       LET q == [p EXCEPT !.n = n]
       IN  q \in Positions /\ q.start = p.start /\ q.off = p.off /\ q.status = p.status
           /\ q.n = n
BY DEF NoPosition, Positions

\* The changes made to a decompressor.
LEMMA InputMutex ==
  ASSUME NEW x \in Inputs, NEW b \in BOOLEAN
  PROVE  LET y == [x EXCEPT !.mtx = b]
         IN  /\ y \in Inputs /\ y.mtx = b /\ y.kind = x.kind /\ y.left = x.left
             /\ y.at = x.at /\ y.off = x.off /\ y.end = x.end /\ y.seek = x.seek
BY DEF Inputs

LEMMA InputSeek ==
  ASSUME NEW x \in Inputs, NEW p \in Positions
  PROVE  LET y == [x EXCEPT !.seek = p]
         IN  /\ y \in Inputs /\ y.mtx = x.mtx /\ y.kind = x.kind /\ y.left = x.left
             /\ y.at = x.at /\ y.off = x.off /\ y.end = x.end /\ y.seek = p
BY DEF Inputs

LEMMA InputTake ==
  ASSUME NEW x \in Inputs, NEW l \in Seq(Items), NEW o \in Nat
  PROVE  LET y == [x EXCEPT !.left = l, !.off = o, !.seek = NoPosition]
         IN  /\ y \in Inputs /\ y.mtx = x.mtx /\ y.kind = x.kind /\ y.left = l
             /\ y.at = x.at /\ y.off = o /\ y.end = x.end /\ y.seek = NoPosition
BY DefaultTypes DEF Inputs

LEMMA InputFetch ==
  ASSUME NEW x \in Inputs, NEW l \in Seq(Items), NEW a \in Nat, NEW o \in Nat
  PROVE  LET y == [x EXCEPT !.left = l, !.at = a, !.off = o, !.end = FALSE,
                            !.seek = NoPosition]
         IN  /\ y \in Inputs /\ y.mtx = x.mtx /\ y.kind = x.kind /\ y.left = l
             /\ y.at = a /\ y.off = o /\ y.end = FALSE /\ y.seek = NoPosition
BY DefaultTypes DEF Inputs

LEMMA InputEnd ==
  ASSUME NEW x \in Inputs, NEW a \in Nat
  PROVE  LET y == [x EXCEPT !.at = a, !.end = TRUE]
         IN  /\ y \in Inputs /\ y.mtx = x.mtx /\ y.kind = x.kind /\ y.left = x.left
             /\ y.at = a /\ y.off = x.off /\ y.end = TRUE /\ y.seek = x.seek
BY DEF Inputs

\* unlock_streambufs changes the lock, and nothing of the decompressor but
\* whether it was lent the mutex.
LEMMA ReleaseTypes ==
  ASSUME TypeOK, NEW t \in Readers, ReleaseStreambufs(t)
  PROVE  /\ mutex' \in Readers \cup {NoReader} /\ mutexLock' \in [Readers -> {0, 1, 2, 3}]
         /\ xcmp' \in [Readers -> Inputs] /\ fault' \in {"none", "crash", "garbled"}
<1>1. mutex' \in Readers \cup {NoReader}
  BY DEF ReleaseStreambufs, TypeOK
<1>2. mutexLock' \in [Readers -> {0, 1, 2, 3}] /\ fault' \in {"none", "crash", "garbled"}
  BY DEF ReleaseStreambufs, TypeOK
<1>3. [xcmp EXCEPT ![t].mtx = FALSE] \in [Readers -> Inputs]
  <2>1. xcmp \in [Readers -> Inputs] /\ [xcmp[t] EXCEPT !.mtx = FALSE] \in Inputs
    BY InputMutex DEF TypeOK
  <2> QED BY <2>1
<1>4. xcmp' \in [Readers -> Inputs]
  BY <1>3 DEF ReleaseStreambufs, TypeOK
<1> QED BY <1>1, <1>2, <1>4

LEMMA FromType ==
  ASSUME NEW s \in Seq(Items), NEW n \in Nat
  PROVE  From(s, n) \in Seq(Items)
<1>1. Len(s) \in Nat /\ \A i \in (n + 1) .. Len(s) : s[i] \in Items
  BY LenProperties, ElementOfSeq
<1>2. n + 1 \in Int /\ Len(s) \in Int
  BY <1>1
<1> QED BY <1>1, <1>2, SubSeqProperties DEF From

LEMMA TypeStep ==
  ASSUME TypeOK, \A t \in Readers : HeadSafe(t), [Next]_vars
  PROVE  TypeOK'
<1> USE DEF Goto
<1>1. CASE UNCHANGED vars
  BY <1>1 DEF TypeOK, vars, sourceVars, sharedVars, callVars, privateVars, traceVars, boundVars
<1>2. ASSUME NEW t \in Readers, ReadCall(t)  PROVE TypeOK'
  BY <1>2 DEF TypeOK, ReadCall, Labels, sourceVars, sharedVars, privateVars, traceVars, boundVars
<1>3. ASSUME NEW t \in Readers, SkipCall(t)  PROVE TypeOK'
  <2>1. PICK count \in 1 .. MaxSkips - skips :
          /\ skipping' = [skipping EXCEPT ![t] = @ + count] /\ skips' = skips + count
    BY <1>3 DEF SkipCall
  <2>2. skips \in Nat /\ MaxSkips \in Nat /\ count \in Nat /\ skipping[t] \in Nat
    BY ReaderBoundsAssumption DEF TypeOK
  <2>3. skipping' \in [Readers -> Nat] /\ skips' \in Nat
    BY <2>1, <2>2 DEF TypeOK
  <2> QED BY <1>3, <2>3 DEF TypeOK, SkipCall, sourceVars, sharedVars, callVars, traceVars
<1>4. ASSUME NEW t \in Readers, SeekCall(t)  PROVE TypeOK'
  <2>1. PICK p \in marks[t] : statusBits' = p.status /\ target' = [target EXCEPT ![t] = p]
    BY <1>4 DEF SeekCall
  <2>2. p \in Positions /\ p.status \in Status
    BY <2>1 DEF TypeOK, Positions
  <2>3. statusBits' \in Status /\ target' \in [Readers -> Positions]
    BY <2>1, <2>2 DEF TypeOK
  <2>4. seeks' \in Nat
    BY <1>4 DEF TypeOK, SeekCall
  <2> QED BY <1>4, <2>3, <2>4 DEF TypeOK, SeekCall, Labels, sourceVars, privateVars, traceVars
<1>5. ASSUME NEW t \in Readers, LockSource(t)  PROVE TypeOK'
  BY <1>5 DEF TypeOK, LockSource, Labels, sourceVars, callVars, traceVars, boundVars
<1>6. ASSUME NEW t \in Readers, LockLend(t)  PROVE TypeOK'
  <2>1. xcmp \in [Readers -> Inputs] /\ [xcmp[t] EXCEPT !.mtx = TRUE] \in Inputs
    BY InputMutex DEF TypeOK
  <2>2. xcmp' \in [Readers -> Inputs]
    BY <1>6, <2>1 DEF LockLend
  <2> QED BY <1>6, <2>2 DEF TypeOK, LockLend, Labels, sourceVars, sharedVars, callVars, traceVars, boundVars
<1>7. ASSUME NEW t \in Readers, Update(t)  PROVE TypeOK'
  BY <1>7 DEF TypeOK, Update, AfterUpdate, Labels, sourceVars, sharedVars, callVars, privateVars,
              traceVars, boundVars
<1>8. ASSUME NEW t \in Readers, Reconfigure(t)  PROVE TypeOK'
  <2>1. statusBits.cmp \in SUBSET Codecs
    BY DEF TypeOK, Status
  <2>2. xcmp' \in [Readers -> Inputs]
    BY <1>8, DefaultTypes DEF Reconfigure, TypeOK
  <2> QED BY <1>8, <2>1, <2>2 DEF TypeOK, Reconfigure, Labels, sourceVars, sharedVars, traceVars,
                                  boundVars
<1>9. ASSUME NEW t \in Readers, Build(t)  PROVE TypeOK'
  <2>1. NewInput(KindOf(newcmp[t])) \in Inputs
    BY KindType, DefaultTypes
  <2> QED BY <1>9, <2>1 DEF TypeOK, Build, Labels, sourceVars, sharedVars, callVars, traceVars, boundVars
<1>10. ASSUME NEW t \in Readers, Adopt(t)  PROVE TypeOK'
  BY <1>10 DEF TypeOK, Adopt, AfterUpdate, Labels, sourceVars, sharedVars, callVars, traceVars, boundVars
<1>11. ASSUME NEW t \in Readers, HeadRaw(t)  PROVE TypeOK'
  <2>1. pos' \in Nat \ {0} /\ nextStart' \in [Readers -> Nat]
    BY <1>11 DEF HeadRaw, TypeOK
  <2>2. [NoPosition EXCEPT !.start = pos', !.status = status[t]] \in Positions
    BY <2>1 DEF TypeOK, NoPosition, Positions
  <2> QED BY <1>11, <2>1, <2>2 DEF TypeOK, HeadRaw, Labels, sharedVars, callVars, traceVars, boundVars
<1>12. ASSUME NEW t \in Readers, HeadBlock(t)  PROVE TypeOK'
  <2> DEFINE drop == IF Seeking(t) THEN xcmp[t].seek.off - xcmp[t].off ELSE 0
             left == From(xcmp[t].left, drop)
  <2>1. /\ item' = [item EXCEPT ![t] = left[1]]
        /\ xcmp' = [xcmp EXCEPT ![t] = [xcmp[t] EXCEPT !.left = Tail(left),
                                          !.off = xcmp[t].off + drop + 1, !.seek = NoPosition]]
        /\ last' = [last EXCEPT ![t] = [NoPosition EXCEPT !.start = xcmp[t].at,
                        !.off = xcmp[t].off + drop, !.status = status[t]]]
        /\ pc[t] = "head" /\ Compressed(t)
        /\ IF Seeking(t) THEN InsideBlock(t) ELSE xcmp[t].left # << >>
    BY <1>12 DEF HeadBlock, TypeOK
  <2>2. /\ xcmp[t] \in Inputs /\ xcmp[t].left \in Seq(Items) /\ xcmp[t].at \in Nat
        /\ xcmp[t].off \in Nat /\ xcmp[t].seek \in Positions /\ xcmp[t].seek.off \in Nat
        /\ Len(xcmp[t].left) \in Nat /\ status[t] \in Status
    <3>1. xcmp[t] \in Inputs /\ status[t] \in Status
      BY DEF TypeOK
    <3> QED BY <3>1, LenProperties DEF Inputs, Positions
  <2>3. drop \in Nat /\ drop < Len(xcmp[t].left)
    <3>1. CASE Seeking(t)
      BY <2>1, <2>2, <3>1 DEF InsideBlock, HeadSafe
    <3>2. CASE ~Seeking(t)
      BY <2>1, <2>2, <3>2, EmptySeq
    <3> QED BY <3>1, <3>2
  <2>4. left[1] \in Items /\ Tail(left) \in Seq(Items)
    <3> HIDE DEF drop
    <3>1. /\ left[1] = xcmp[t].left[drop + 1] /\ Tail(left) = From(xcmp[t].left, drop + 1)
      BY <2>2, <2>3, FromHeadTail
    <3>2. drop + 1 \in 1 .. Len(xcmp[t].left) /\ drop + 1 \in Nat
      BY <2>2, <2>3
    <3>3. xcmp[t].left[drop + 1] \in Items
      BY <2>2, <3>2, ElementOfSeq
    <3> QED BY <2>2, <3>1, <3>2, <3>3, FromType
  <2> HIDE DEF drop, left
  <2>5. [xcmp[t] EXCEPT !.left = Tail(left), !.off = xcmp[t].off + drop + 1,
                        !.seek = NoPosition] \in Inputs
    <3>1. xcmp[t].off + drop + 1 \in Nat
      BY <2>2, <2>3
    <3> QED BY <2>2, <2>4, <3>1, InputTake
  <2>6. [NoPosition EXCEPT !.start = xcmp[t].at, !.off = xcmp[t].off + drop,
                           !.status = status[t]] \in Positions
    <3>1. xcmp[t].off + drop \in Nat
      BY <2>2, <2>3
    <3> QED BY <2>2, <3>1, MarkTypes
  <2>7. /\ item' \in [Readers -> Items] /\ xcmp' \in [Readers -> Inputs]
        /\ last' \in [Readers -> Positions]
    BY <2>1, <2>4, <2>5, <2>6 DEF TypeOK
  <2> QED BY <1>12, <2>7 DEF TypeOK, HeadBlock, Labels, sourceVars, sharedVars, traceVars, boundVars
<1>13. ASSUME NEW t \in Readers, HeadFetch(t)  PROVE TypeOK'
  BY <1>13 DEF TypeOK, HeadFetch, Labels, sourceVars, sharedVars, callVars, privateVars, traceVars, boundVars
<1>14. ASSUME NEW t \in Readers, HeadEnd(t)  PROVE TypeOK'
  BY <1>14 DEF TypeOK, HeadEnd, Labels, sourceVars, sharedVars, callVars, privateVars, traceVars, boundVars
<1>15. ASSUME NEW t \in Readers, FetchLock(t)  PROVE TypeOK'
  BY <1>15 DEF TypeOK, FetchLock, Labels, sourceVars, callVars, privateVars, traceVars, boundVars
<1>16. ASSUME NEW t \in Readers, FetchBlock(t)  PROVE TypeOK'
  <2> DEFINE from == IF Seeking(t) THEN xcmp[t].seek.start ELSE pos
             drop == IF Seeking(t) THEN xcmp[t].seek.off ELSE 0
  <2>1. /\ pos' = from + 1 /\ from <= Len(file)
        /\ mutex' = IF xcmp[t].mtx THEN NoReader ELSE mutex
        /\ xcmp' = [xcmp EXCEPT ![t] = [xcmp[t] EXCEPT !.left = From(file[from].items, drop),
                         !.at = from, !.off = drop, !.end = FALSE, !.seek = NoPosition]]
    BY <1>16 DEF FetchBlock, TypeOK
  <2>2. xcmp[t] \in Inputs /\ xcmp[t].seek \in Positions
    BY DEF TypeOK, Inputs
  <2>3. from \in Nat /\ from > 0 /\ drop \in Nat
    BY <2>2 DEF TypeOK, Seeking, Positions
  <2> HIDE DEF from, drop
  <2>4. from \in DOMAIN file
    <3>1. DOMAIN file = 1 .. Len(file) /\ Len(file) \in Nat
      BY FileShape DEF TypeOK
    <3> QED BY <2>1, <2>3, <3>1
  <2>5. From(file[from].items, drop) \in Seq(Items)
    BY <2>3, <2>4, FileShape, FromType DEF TypeOK
  <2>6. [xcmp[t] EXCEPT !.left = From(file[from].items, drop), !.at = from, !.off = drop,
                        !.end = FALSE, !.seek = NoPosition] \in Inputs
    BY <2>2, <2>3, <2>5, InputFetch
  <2>7. xcmp' \in [Readers -> Inputs] /\ pos' \in Nat \ {0}
    BY <2>1, <2>3, <2>6, SMTT(40) DEF TypeOK
  <2>8. mutex' \in Readers \cup {NoReader}
    BY <2>1 DEF TypeOK
  <2> QED BY <1>16, <2>7, <2>8 DEF TypeOK, FetchBlock, Labels, callVars, traceVars, boundVars
<1>17. ASSUME NEW t \in Readers, FetchNothing(t)  PROVE TypeOK'
  <2>1. xcmp[t] \in Inputs /\ pos \in Nat
    BY DEF TypeOK
  <2>2. [xcmp[t] EXCEPT !.at = pos, !.end = TRUE] \in Inputs
    BY <2>1, InputEnd
  <2>3. xcmp' \in [Readers -> Inputs]
    BY <1>17, <2>2 DEF TypeOK, FetchNothing
  <2>4. mutex' \in Readers \cup {NoReader}
    BY <1>17 DEF TypeOK, FetchNothing
  <2> QED BY <1>17, <2>3, <2>4 DEF TypeOK, FetchNothing, Labels, sourceVars, callVars, traceVars, boundVars
<1>18. ASSUME NEW t \in Readers, ReadRaw(t)  PROVE TypeOK'
  <2>1. CASE pos > Len(file)
    BY <1>18, <2>1 DEF TypeOK, ReadRaw, Labels, sharedVars, privateVars, traceVars, boundVars
  <2>2. CASE ~(pos > Len(file))
    <3>1. pos \in DOMAIN file /\ pos' = pos + 1 /\ item' = [item EXCEPT ![t] = file[pos].items[1]]
      <4>1. DOMAIN file = 1 .. Len(file) /\ Len(file) \in Nat
        BY FileShape DEF TypeOK
      <4> QED BY <1>18, <2>2, <4>1 DEF ReadRaw, TypeOK
    <3>2. file[pos].items[1] \in Items
      BY <3>1, FileShape DEF TypeOK
    <3>3. pos' \in Nat \ {0} /\ item' \in [Readers -> Items]
      BY <3>1, <3>2 DEF TypeOK
    <3>4. pc' \in [Readers -> Labels]
      <4>1. pc' = [pc EXCEPT ![t] = "parse"]
        BY <1>18, <2>2 DEF ReadRaw
      <4> QED BY <4>1 DEF TypeOK, Labels
    <3> QED BY <1>18, <3>3, <3>4 DEF TypeOK, ReadRaw, sharedVars, privateVars, traceVars, boundVars
  <2> QED BY <2>1, <2>2
<1>19. ASSUME NEW t \in Readers, Misread(t)  PROVE TypeOK'
  BY <1>19 DEF TypeOK, Misread, sourceVars, sharedVars, callVars, privateVars, traceVars, boundVars
<1>20. ASSUME NEW t \in Readers, Token(t)  PROVE TypeOK'
  BY <1>20 DEF TypeOK, Token, Items, Labels, sourceVars, callVars, privateVars, traceVars, boundVars
<1>21. ASSUME NEW t \in Readers, Record(t)  PROVE TypeOK'
  <2>1. item[t].n \in Nat
    BY DEF TypeOK, Items
  <2>2. taken' \in [Readers -> Seq(Nat)] /\ due' \in [Readers -> Nat]
    <3>1. Append(taken[t], item[t].n) \in Seq(Nat)
      BY <2>1, AppendProperties DEF TypeOK
    <3> QED BY <1>21, <2>1, <3>1 DEF Record, TypeOK
  <2> QED BY <1>21, <2>2 DEF TypeOK, Record, Labels, sourceVars, sharedVars, callVars, boundVars
<1>22. ASSUME NEW t \in Readers, Unlock(t)  PROVE TypeOK'
  <2>1. skipping' \in [Readers -> Nat]
    <3>1. CASE skipping[t] > 0
      <4>1. skipping' = [skipping EXCEPT ![t] = @ - 1]
        BY <1>22, <3>1 DEF Unlock
      <4>2. skipping[t] - 1 \in Nat
        BY <3>1 DEF TypeOK
      <4> QED BY <4>1, <4>2 DEF TypeOK
    <3>2. CASE ~(skipping[t] > 0)
      BY <1>22, <3>2 DEF Unlock, TypeOK
    <3> QED BY <3>1, <3>2
  <2>2. marks' \in [Readers -> SUBSET Positions]
    <3>1. last[t] \in Positions /\ item[t].n \in Nat
      BY DEF TypeOK, Items
    <3>2. [last[t] EXCEPT !.n = item[t].n] \in Positions
      BY <3>1, MarkTypes
    <3>3. CASE marks' = marks
      BY <3>3 DEF TypeOK
    <3>4. CASE marks' = [marks EXCEPT ![t] = @ \cup {[last[t] EXCEPT !.n = item[t].n]}]
      BY <3>2, <3>4 DEF TypeOK
    <3> QED BY <1>22, <3>3, <3>4 DEF Unlock
  <2>3. ReleaseStreambufs(t)
    BY <1>22 DEF Unlock
  <2> QED BY <1>22, <2>1, <2>2, <2>3, ReleaseTypes
      DEF TypeOK, Unlock, Labels, sourceVars, boundVars
<1>23. ASSUME NEW t \in Readers, Eof(t)  PROVE TypeOK'
  BY <1>23, ReleaseTypes DEF TypeOK, Eof, Labels, sourceVars, traceVars, boundVars
<1>24. ASSUME NEW t \in Readers, SeekUnlock(t)  PROVE TypeOK'
  BY <1>24, ReleaseTypes DEF TypeOK, SeekUnlock, Labels, sourceVars, callVars, traceVars, boundVars
<1>25. ASSUME NEW t \in Readers, Seat(t)  PROVE TypeOK'
  <2>1. /\ target[t] \in Positions /\ target[t].start \in Nat /\ target[t].n \in Nat
        /\ xcmp[t] \in Inputs
    BY DEF TypeOK, Positions
  <2>2. [xcmp[t] EXCEPT !.seek = target[t]] \in Inputs
    BY <2>1, InputSeek
  <2>3. /\ xcmp' \in [Readers -> Inputs] /\ nextStart' \in [Readers -> Nat]
        /\ due' \in [Readers -> Nat]
    BY <1>25, <2>1, <2>2 DEF Seat, TypeOK
  <2> QED BY <1>25, <2>3 DEF TypeOK, Seat, Labels, sourceVars, sharedVars, boundVars
<1> QED
  BY <1>1, <1>2, <1>3, <1>4, <1>5, <1>6, <1>7, <1>8, <1>9, <1>10, <1>11, <1>12, <1>13, <1>14,
     <1>15, <1>16, <1>17, <1>18, <1>19, <1>20, <1>21, <1>22, <1>23, <1>24, <1>25
     DEF Next, Call, Acquire, Proceed

----------------------------------------------------------------------------
(* One reader.                                                             *)


Alone == \A t, u \in Readers : t = u

----------------------------------------------------------------------------
(* The invariant: where the reader is in the file, and how it is configured. *)
(* It is stated for each reader, because the one that leads while several    *)
(* share the stream satisfies it too (HddmIstreamShared); only what is said  *)
(* of the record due next is meant for a reader that has got all the records *)
(* before it, and so for one that is alone.                                  *)

\* The entry it reads next, and the number of items of it that lie behind.
NextEntry(t) ==
  IF Compressed(t)
    THEN IF Seeking(t) THEN xcmp[t].seek.start
         ELSE IF xcmp[t].left # << >> THEN xcmp[t].at ELSE pos
    ELSE IF nextStart[t] > 0 THEN nextStart[t] ELSE pos

NextOff(t) ==
  IF Compressed(t)
    THEN IF Seeking(t) THEN xcmp[t].seek.off
         ELSE IF xcmp[t].left # << >> THEN xcmp[t].off ELSE 0
    ELSE 0

Behindhand(t) == Before(file, NextEntry(t), NextOff(t))

\* The decompressor holds the rest of the block in front of the source.
InputOK(f, at, x) ==
  /\ IF x.at \in DOMAIN f
       THEN /\ at = x.at + 1 /\ x.off <= Len(f[x.at].items)
            /\ x.left = From(f[x.at].items, x.off)
       ELSE x.left = << >>
  /\ x.end => x.left = << >> /\ at > Len(f)
  /\ x.seek.start > 0 => MarkOK(f, x.seek)

\* A position that a reader of uncompressed data was told to go to.
StartOK(t) ==
  ~Compressed(t) /\ nextStart[t] > 0 => nextStart[t] \in DOMAIN file

\* What lies ahead is read from the source.
Drained(t) ==
  IF Compressed(t) THEN ~Seeking(t) /\ xcmp[t].left = << >> ELSE nextStart[t] = 0

\* The item that was read, as the entry and the index in it.
ItemEntry(t) == IF Compressed(t) THEN xcmp[t].at ELSE pos - 1
ItemIndex(t) == IF Compressed(t) THEN xcmp[t].off ELSE 1

ItemOK(t) ==
  LET e == ItemEntry(t)  i == ItemIndex(t)
  IN /\ e \in DOMAIN file /\ i \in DOMAIN file[e].items
     /\ item[t] = file[e].items[i]
     /\ statusBits = InForce(file, e)
     /\ (Alone => due[t] = 1 + Cardinality(Before(file, e, i - 1)))
     /\ last[t].start = e /\ last[t].off = i - 1 /\ last[t].status = status[t]
     /\ IF Compressed(t) THEN ~Seeking(t) ELSE nextStart[t] = 0

\* The private configuration follows the shared one.
StatusOK(t) ==
  /\ statusBits.cmp # Codecs /\ status[t].cmp # Codecs
  /\ Compressed(t) => statusBits.cmp # {}
  /\ pc[t] \notin {"idle", "lock", "update", "reconf", "build", "adopt"}
       => status[t] = statusBits

\* So does the decompressor.
KindOK(t) ==
  /\ pc[t] \notin {"build", "adopt"} => xcmp[t].kind = KindOf(status[t].cmp)
  /\ pc[t] = "build" => newcmp[t] = statusBits.cmp /\ newcmp[t] # status[t].cmp
  /\ pc[t] = "adopt" => xcmp[t].kind = KindOf(statusBits.cmp)
  /\ pc[t] \in {"build", "adopt"} /\ statusBits.cmp # status[t].cmp
       => xcmp[t].left = << >> /\ ~Seeking(t) /\ ~xcmp[t].end /\ xcmp[t].at = 0
  /\ ~Compressed(t) => xcmp[t].at = 0 /\ ~Seeking(t) /\ ~xcmp[t].end

\* Where it is in the file, between operations and while it reads.
PlaceOK(t) ==
  op[t] # "seek" /\ pc[t] # "parse" =>
    /\ statusBits = InForce(file, NextEntry(t))
    /\ (Alone => due[t] = 1 + Cardinality(Behindhand(t)))
    /\ status[t] # statusBits => Drained(t)

StepOK(t) ==
  /\ pc[t] = "idle" <=> op[t] = "none"
  /\ pc[t] \in {"head", "fetch", "source", "parse", "eof"} => op[t] = "read"
  /\ pc[t] = "seat" => op[t] = "seek"
  /\ op[t] = "seek" => MarkOK(file, target[t]) /\ statusBits = target[t].status
  /\ pc[t] = "fetch" => Compressed(t)
  /\ pc[t] \in {"fetch", "source"} =>
       IF Seeking(t) THEN ~InsideBlock(t)
                     ELSE Drained(t) /\ (~Compressed(t) => last[t].start = pos
                                           /\ last[t].off = 0 /\ last[t].status = status[t])
  /\ pc[t] = "parse" => ItemOK(t)
  /\ pc[t] = "unlock" /\ op[t] = "read" => MarkOK(file, [last[t] EXCEPT !.n = item[t].n])
  /\ pc[t] = "eof" => NextEntry(t) > Len(file)

LockOK(t) == mutexLock[t] \in {2, 3} => Compressed(t)

Good(t) ==
  /\ fault = "none"
  /\ \A p \in marks[t] : MarkOK(file, p)
  /\ InputOK(file, pos, xcmp[t])
  /\ StartOK(t) /\ StatusOK(t) /\ KindOK(t) /\ PlaceOK(t) /\ StepOK(t) /\ LockOK(t)

AloneInv == TypeOK /\ fault = "none" /\ \A t \in Readers : Good(t)

----------------------------------------------------------------------------
(* Steps that leave the place in the file and the configuration alone.      *)

\* But for whether it was lent the mutex, a decompressor did not change.
SameInput(x, y) ==
  /\ y.kind = x.kind /\ y.left = x.left /\ y.at = x.at /\ y.off = x.off
  /\ y.end = x.end /\ y.seek = x.seek

Steady(t) ==
  /\ file' = file /\ pos' = pos /\ nextStart' = nextStart /\ status' = status
  /\ SameInput(xcmp[t], xcmp'[t])

LEMMA SteadyPlace ==
  ASSUME NEW t \in Readers, Steady(t)
  PROVE  /\ Compressed(t)' = Compressed(t) /\ Seeking(t)' = Seeking(t)
         /\ NextEntry(t)' = NextEntry(t) /\ NextOff(t)' = NextOff(t)
         /\ Behindhand(t)' = Behindhand(t)
         /\ Drained(t)' = Drained(t) /\ InsideBlock(t)' = InsideBlock(t)
         /\ InputOK(file, pos, xcmp[t])' = InputOK(file, pos, xcmp[t])
         /\ StartOK(t)' = StartOK(t)
<1> USE DEF Steady, SameInput
<1>1. Compressed(t)' = Compressed(t) /\ Seeking(t)' = Seeking(t)
  BY DEF Compressed, Seeking
<1>2. NextEntry(t)' = NextEntry(t) /\ NextOff(t)' = NextOff(t)
  BY <1>1 DEF NextEntry, NextOff
<1>3. Behindhand(t)' = Behindhand(t)
  BY <1>2 DEF Behindhand
<1>4. Drained(t)' = Drained(t) /\ InsideBlock(t)' = InsideBlock(t)
  BY <1>1 DEF Drained, InsideBlock
<1>5. InputOK(file, pos, xcmp[t])' = InputOK(file, pos, xcmp[t])
  BY DEF InputOK
<1>6. StartOK(t)' = StartOK(t)
  BY <1>1 DEF StartOK
<1> QED BY <1>1, <1>2, <1>3, <1>4, <1>5, <1>6

LEMMA FieldTypes ==
  ASSUME TypeOK, NEW t \in Readers
  PROVE  /\ status[t] \in Status /\ status[t].cmp \in SUBSET Codecs
         /\ statusBits \in Status /\ statusBits.cmp \in SUBSET Codecs
         /\ file \in Files /\ pos \in Nat /\ pos > 0 /\ nextStart[t] \in Nat /\ due[t] \in Nat
         /\ op[t] \in {"none", "read", "seek"} /\ pc[t] \in Labels
         /\ xcmp[t] \in Inputs /\ xcmp[t].left \in Seq(Items) /\ xcmp[t].at \in Nat
         /\ xcmp[t].off \in Nat /\ xcmp[t].seek \in Positions
         /\ xcmp[t].seek.start \in Nat /\ xcmp[t].seek.off \in Nat
         /\ last[t] \in Positions /\ item[t] \in Items /\ item[t].n \in Nat
<1>1. /\ status[t] \in Status /\ statusBits \in Status /\ file \in Files /\ pos \in Nat \ {0}
      /\ nextStart[t] \in Nat /\ xcmp[t] \in Inputs /\ last[t] \in Positions
      /\ item[t] \in Items /\ due[t] \in Nat /\ op[t] \in {"none", "read", "seek"}
      /\ pc[t] \in Labels
  BY DEF TypeOK
<1>2. /\ xcmp[t].left \in Seq(Items) /\ xcmp[t].at \in Nat
      /\ xcmp[t].off \in Nat /\ xcmp[t].seek \in Positions
  BY <1>1 DEF Inputs
<1>3. xcmp[t].seek.start \in Nat /\ xcmp[t].seek.off \in Nat
  BY <1>2 DEF Positions
<1>4. status[t].cmp \in SUBSET Codecs /\ statusBits.cmp \in SUBSET Codecs /\ item[t].n \in Nat
  BY <1>1 DEF Status, Items
<1> QED BY <1>1, <1>2, <1>3, <1>4

\* A reader that expects compressed data has a decompressor.
LEMMA HasInput ==
  ASSUME TypeOK, NEW t \in Readers, Good(t), Compressed(t), pc[t] \notin {"build", "adopt"}
  PROVE  xcmp[t].kind # "none"
BY FieldTypes, KindTypes DEF Good, StatusOK, KindOK, Compressed

LEMMA ReleaseSame ==
  ASSUME TypeOK, NEW t \in Readers, Good(t), pc[t] \notin {"build", "adopt"},
         ReleaseStreambufs(t)
  PROVE  fault' = "none" /\ SameInput(xcmp[t], xcmp'[t]) /\ mutexLock'[t] = 0
<1>1. xcmp[t] \in Inputs /\ xcmp \in [Readers -> Inputs]
      /\ mutexLock \in [Readers -> {0, 1, 2, 3}]
  BY DEF TypeOK
<1>2. mutexLock[t] \in {2, 3} => xcmp[t].kind # "none"
  BY HasInput DEF Good, LockOK
<1>3. fault' = "none" /\ mutexLock'[t] = 0
  BY <1>1, <1>2 DEF ReleaseStreambufs, Good
<1>4. xcmp'[t] = xcmp[t] \/ xcmp'[t] = [xcmp[t] EXCEPT !.mtx = FALSE]
  BY <1>1, <1>2 DEF ReleaseStreambufs
<1>5. SameInput(xcmp[t], [xcmp[t] EXCEPT !.mtx = FALSE])
  BY <1>1, InputMutex DEF SameInput
<1> QED BY <1>3, <1>4, <1>5 DEF SameInput

\* The parts that a step which changes only the control has to establish.
Tame(t) ==
  /\ Steady(t) /\ fault' = "none" /\ marks'[t] = marks[t]
  /\ statusBits' = statusBits /\ due' = due

LEMMA TamePlace ==
  ASSUME NEW t \in Readers, Good(t), Tame(t)
  PROVE  /\ fault' = "none"
         /\ \A p \in marks'[t] : MarkOK(file', p)
         /\ InputOK(file, pos, xcmp[t])' /\ StartOK(t)'
         /\ statusBits.cmp # Codecs /\ status[t].cmp # Codecs
         /\ Compressed(t) => statusBits.cmp # {}
         /\ ~Compressed(t) => xcmp'[t].at = 0 /\ ~Seeking(t)' /\ ~xcmp'[t].end
         /\ xcmp'[t].kind = xcmp[t].kind
         /\ op[t] # "seek" /\ pc[t] # "parse" =>
              /\ statusBits' = InForce(file', NextEntry(t)')
              /\ (Alone => due'[t] = 1 + Cardinality(Behindhand(t)'))
              /\ status'[t] # statusBits' => Drained(t)'
<1>1. Steady(t) /\ file' = file /\ SameInput(xcmp[t], xcmp'[t]) /\ status' = status
  BY DEF Tame, Steady
<1>2. \A p \in marks'[t] : MarkOK(file', p)
  BY <1>1 DEF Good, Tame
<1>3. InputOK(file, pos, xcmp[t])' /\ StartOK(t)'
  BY <1>1, SteadyPlace DEF Good
<1>4. /\ statusBits.cmp # Codecs /\ status[t].cmp # Codecs
      /\ Compressed(t) => statusBits.cmp # {}
  BY DEF Good, StatusOK
<1>5. ~Compressed(t) => xcmp'[t].at = 0 /\ ~Seeking(t)' /\ ~xcmp'[t].end
  <2>1. ~Compressed(t) => xcmp[t].at = 0 /\ ~Seeking(t) /\ ~xcmp[t].end
    BY DEF Good, KindOK
  <2> QED BY <1>1, <2>1, SteadyPlace DEF SameInput
<1>6. op[t] # "seek" /\ pc[t] # "parse" =>
              /\ statusBits' = InForce(file', NextEntry(t)')
              /\ (Alone => due'[t] = 1 + Cardinality(Behindhand(t)'))
              /\ status'[t] # statusBits' => Drained(t)'
  <2>1. op[t] # "seek" /\ pc[t] # "parse" =>
              /\ statusBits = InForce(file, NextEntry(t))
              /\ (Alone => due[t] = 1 + Cardinality(Behindhand(t)))
              /\ status[t] # statusBits => Drained(t)
    BY DEF Good, PlaceOK
  <2>2. NextEntry(t)' = NextEntry(t) /\ Behindhand(t)' = Behindhand(t) /\ Drained(t)' = Drained(t)
    BY <1>1, SteadyPlace
  <2> QED BY <1>1, <2>1, <2>2 DEF Tame
<1> QED BY <1>1, <1>2, <1>3, <1>4, <1>5, <1>6 DEF SameInput, Tame

----------------------------------------------------------------------------
(* Callers.                                                                 *)

LEMMA ReadCallGood ==
  ASSUME TypeOK, NEW t \in Readers, Good(t), ReadCall(t)
  PROVE  Good(t)'
<1>1. pc[t] = "idle" /\ pc'[t] = "lock" /\ op[t] = "none" /\ op'[t] = "read"
  BY DEF ReadCall, Enter, Goto, TypeOK, Good, StepOK
<1>2. UNCHANGED <<file, pos, statusBits, mutex, target, newcmp, status, xcmp, mutexLock,
                  nextStart, last, item, marks, due, fault>>
  BY DEF ReadCall, sourceVars, sharedVars, privateVars, traceVars
<1>3. Tame(t)
  BY <1>2 DEF Tame, Steady, SameInput, Good
<1>4. Compressed(t)' = Compressed(t)
  BY <1>3, SteadyPlace DEF Tame
<1>5. StatusOK(t)'
  BY <1>1, <1>2, <1>4 DEF Good, StatusOK
<1>6. KindOK(t)'
  BY <1>1, <1>2, <1>3, <1>4, TamePlace DEF Good, KindOK
<1>7. PlaceOK(t)'
  BY <1>1, <1>3, TamePlace DEF PlaceOK
<1>8. StepOK(t)'
  BY <1>1 DEF StepOK
<1>9. LockOK(t)'
  BY <1>2, <1>4 DEF Good, LockOK
<1> QED BY <1>3, <1>5, <1>6, <1>7, <1>8, <1>9, TamePlace DEF Good

LEMMA SkipCallGood ==
  ASSUME TypeOK, NEW t \in Readers, Good(t), SkipCall(t)
  PROVE  Good(t)'
BY DEF SkipCall, Enter, Good, MarkOK, InputOK, StartOK, StatusOK, KindOK, PlaceOK, StepOK, LockOK,
       Behindhand, NextEntry, NextOff, Drained, Seeking, InsideBlock, Compressed, ItemOK,
       sourceVars, sharedVars, callVars, traceVars

\* The position was got from getPosition: its configuration is that of its entry.
LEMMA SeekCallGood ==
  ASSUME TypeOK, NEW t \in Readers, Good(t), ~MayLeave, SeekCall(t)
  PROVE  Good(t)'
<1>1. PICK p \in marks[t] : /\ Compressed(t) /\ p.status.cmp = {} => MayLeave
                            /\ statusBits' = p.status /\ target' = [target EXCEPT ![t] = p]
  BY DEF SeekCall
<1>2. MarkOK(file, p) /\ target'[t] = p
  BY <1>1 DEF Good, TypeOK
<1>3. p.status \in Status /\ p.status.cmp # Codecs
  <2>1. p.status = InForce(file, p.start) /\ p.start \in 1 .. Len(file) + 1
    BY <1>2, FileShape DEF MarkOK, TypeOK
  <2> QED BY <2>1, FileForce DEF TypeOK
<1>4. pc[t] = "idle" /\ pc'[t] = "lock" /\ op'[t] = "seek"
  BY DEF SeekCall, Enter, Goto, TypeOK
<1>5. UNCHANGED <<file, pos, status, xcmp, mutexLock, nextStart, last, item, marks, due, fault>>
  BY DEF SeekCall, sourceVars, privateVars, traceVars
<1>6. Steady(t) /\ Compressed(t)' = Compressed(t)
  BY <1>5, SteadyPlace DEF Steady, SameInput
<1>7. InputOK(file, pos, xcmp[t])' /\ StartOK(t)' /\ Seeking(t)' = Seeking(t)
  BY <1>6, SteadyPlace DEF Good
<1>8. StatusOK(t)'
  BY <1>1, <1>3, <1>4, <1>5, <1>6 DEF Good, StatusOK
<1>9. KindOK(t)'
  BY <1>4, <1>5, <1>6, <1>7 DEF Good, KindOK
<1>10. PlaceOK(t)' /\ LockOK(t)'
  BY <1>4, <1>5, <1>6 DEF Good, PlaceOK, LockOK
<1>11. StepOK(t)'
  BY <1>1, <1>2, <1>4, <1>5 DEF StepOK
<1> QED BY <1>5, <1>7, <1>8, <1>9, <1>10, <1>11 DEF Good

----------------------------------------------------------------------------
(* lock_streambufs, update_streambufs and configure_streambufs.             *)

LEMMA LockSourceGood ==
  ASSUME TypeOK, NEW t \in Readers, Good(t), LockSource(t)
  PROVE  Good(t)'
<1>1. pc[t] = "lock" /\ pc'[t] = "update" /\ mutexLock'[t] = 1
  BY DEF LockSource, Goto, TypeOK
<1>2. UNCHANGED <<file, pos, statusBits, op, target, newcmp, status, xcmp,
                  nextStart, last, item, marks, due, fault>>
  BY DEF LockSource, sourceVars, callVars, traceVars
<1>3. Tame(t)
  BY <1>2 DEF Tame, Steady, SameInput, Good
<1>4. Compressed(t)' = Compressed(t)
  BY <1>3, SteadyPlace DEF Tame
<1>6. StatusOK(t)'
  BY <1>1, <1>2, <1>4 DEF Good, StatusOK
<1>7. KindOK(t)'
  BY <1>1, <1>2, <1>3, <1>4, TamePlace DEF Good, KindOK
<1>8. PlaceOK(t)'
  BY <1>1, <1>2, <1>3, TamePlace DEF PlaceOK
<1>9. StepOK(t)' /\ LockOK(t)'
  BY <1>1, <1>2 DEF Good, StepOK, LockOK
<1> QED BY <1>3, <1>6, <1>7, <1>8, <1>9, TamePlace DEF Good

LEMMA LockLendGood ==
  ASSUME TypeOK, NEW t \in Readers, Good(t), LockLend(t)
  PROVE  Good(t)'
<1>1. pc[t] = "lock" /\ Compressed(t) /\ xcmp[t].kind # "none"
  BY HasInput DEF LockLend
<1>2. UNCHANGED <<file, pos, statusBits, op, target, newcmp, status,
                  nextStart, last, item, marks, due, fault>>
  BY <1>1 DEF LockLend, sourceVars, sharedVars, callVars, traceVars
<1>3. /\ xcmp'[t] = [xcmp[t] EXCEPT !.mtx = TRUE] /\ pc'[t] = "update"
  BY <1>1 DEF LockLend, Goto, TypeOK
<1>4. SameInput(xcmp[t], xcmp'[t])
  BY <1>3, FieldTypes, InputMutex DEF SameInput
<1>5. Tame(t)
  BY <1>2, <1>4 DEF Tame, Steady, Good
<1>6. Compressed(t)'
  BY <1>1, <1>5, SteadyPlace DEF Tame
<1>8. StatusOK(t)'
  BY <1>1, <1>2, <1>3, <1>6 DEF Good, StatusOK
<1>9. KindOK(t)'
  BY <1>1, <1>2, <1>3, <1>4, <1>6 DEF Good, KindOK, SameInput
<1>10. PlaceOK(t)'
  BY <1>1, <1>2, <1>5, TamePlace DEF PlaceOK
<1>11. StepOK(t)' /\ LockOK(t)'
  BY <1>1, <1>2, <1>3, <1>6 DEF Good, StepOK, LockOK
<1> QED BY <1>5, <1>8, <1>9, <1>10, <1>11, TamePlace DEF Good

LEMMA UpdateGood ==
  ASSUME TypeOK, NEW t \in Readers, Good(t), Update(t)
  PROVE  Good(t)'
<1>1. /\ pc[t] = "update" /\ op[t] \in {"read", "seek"}
      /\ \/ statusBits = status[t] /\ op[t] = "seek" /\ pc'[t] = "unlock"
         \/ statusBits = status[t] /\ op[t] = "read" /\ pc'[t] = "head"
         \/ statusBits # status[t] /\ pc'[t] = "reconf"
  <2>1. pc[t] = "update" /\ op[t] \in {"read", "seek"}
    BY FieldTypes DEF Update, Good, StepOK
  <2> QED BY <2>1 DEF Update, AfterUpdate, Goto, TypeOK
<1>2. UNCHANGED <<file, pos, statusBits, op, target, newcmp, status, xcmp, mutexLock,
                  nextStart, last, item, marks, due, fault>>
  BY DEF Update, sourceVars, sharedVars, callVars, privateVars, traceVars
<1>3. Tame(t)
  BY <1>2 DEF Tame, Steady, SameInput, Good
<1>4. Compressed(t)' = Compressed(t) /\ Drained(t)' = Drained(t)
  BY <1>3, SteadyPlace DEF Tame
<1>5. StatusOK(t)'
  BY <1>1, <1>2, <1>4 DEF Good, StatusOK
<1>6. KindOK(t)'
  BY <1>1, <1>2, <1>3, <1>4, TamePlace DEF Good, KindOK
<1>7. PlaceOK(t)'
  BY <1>1, <1>2, <1>3, <1>4, TamePlace DEF Good, PlaceOK
<1>8. StepOK(t)' /\ LockOK(t)'
  BY <1>1, <1>2, <1>4 DEF Good, StepOK, LockOK
<1> QED BY <1>3, <1>5, <1>6, <1>7, <1>8, TamePlace DEF Good

----------------------------------------------------------------------------
(* operator>>: the header of the next item, and the mutex of the source.    *)

LEMMA HeadFetchGood ==
  ASSUME TypeOK, NEW t \in Readers, Good(t), HeadFetch(t)
  PROVE  Good(t)'
<1>1. /\ pc[t] = "head" /\ pc'[t] = "fetch" /\ Compressed(t)
      /\ IF Seeking(t) THEN ~InsideBlock(t) ELSE Drained(t)
  BY DEF HeadFetch, Goto, TypeOK, Drained
<1>2. UNCHANGED <<file, pos, statusBits, op, target, newcmp, status, xcmp, mutexLock,
                  nextStart, last, item, marks, due, fault>>
  BY DEF HeadFetch, sourceVars, sharedVars, callVars, privateVars, traceVars
<1>3. Tame(t)
  BY <1>2 DEF Tame, Steady, SameInput, Good
<1>4. /\ Compressed(t)' = Compressed(t) /\ Drained(t)' = Drained(t)
      /\ Seeking(t)' = Seeking(t) /\ InsideBlock(t)' = InsideBlock(t)
  BY <1>3, SteadyPlace DEF Tame
<1>5. StatusOK(t)'
  BY <1>1, <1>2, <1>4 DEF Good, StatusOK
<1>6. KindOK(t)'
  BY <1>1, <1>2, <1>3, <1>4, TamePlace DEF Good, KindOK
<1>7. PlaceOK(t)'
  BY <1>1, <1>2, <1>3, TamePlace DEF PlaceOK
<1>8. StepOK(t)' /\ LockOK(t)'
  BY <1>1, <1>2, <1>4 DEF Good, StepOK, LockOK
<1> QED BY <1>3, <1>5, <1>6, <1>7, <1>8, TamePlace DEF Good

LEMMA HeadEndGood ==
  ASSUME TypeOK, NEW t \in Readers, Good(t), HeadEnd(t)
  PROVE  Good(t)'
<1>1. /\ pc[t] = "head" /\ pc'[t] = "eof" /\ Compressed(t)
      /\ ~Seeking(t) /\ xcmp[t].left = << >> /\ xcmp[t].end
  BY DEF HeadEnd, Goto, TypeOK
<1>2. UNCHANGED <<file, pos, statusBits, op, target, newcmp, status, xcmp, mutexLock,
                  nextStart, last, item, marks, due, fault>>
  BY DEF HeadEnd, sourceVars, sharedVars, callVars, privateVars, traceVars
<1>3. Tame(t)
  BY <1>2 DEF Tame, Steady, SameInput, Good
<1>4. Compressed(t)' = Compressed(t) /\ NextEntry(t)' = NextEntry(t)
  BY <1>3, SteadyPlace DEF Tame
<1>5. NextEntry(t) > Len(file)
  BY <1>1 DEF NextEntry, Good, InputOK
<1>6. StatusOK(t)'
  BY <1>1, <1>2, <1>4 DEF Good, StatusOK
<1>7. KindOK(t)'
  BY <1>1, <1>2, <1>3, <1>4, TamePlace DEF Good, KindOK
<1>8. PlaceOK(t)'
  BY <1>1, <1>2, <1>3, TamePlace DEF PlaceOK
<1>9. StepOK(t)' /\ LockOK(t)'
  BY <1>1, <1>2, <1>4, <1>5 DEF Good, StepOK, LockOK
<1> QED BY <1>3, <1>6, <1>7, <1>8, <1>9, TamePlace DEF Good

LEMMA FetchLockGood ==
  ASSUME TypeOK, NEW t \in Readers, Good(t), FetchLock(t)
  PROVE  Good(t)'
<1>1. pc[t] = "fetch" /\ pc'[t] = "source" /\ Compressed(t)
  BY DEF FetchLock, Goto, TypeOK, Good, StepOK
<1>2. UNCHANGED <<file, pos, statusBits, op, target, newcmp, status, xcmp, mutexLock,
                  nextStart, last, item, marks, due, fault>>
  BY DEF FetchLock, sourceVars, callVars, privateVars, traceVars
<1>3. Tame(t)
  BY <1>2 DEF Tame, Steady, SameInput, Good
<1>4. /\ Compressed(t)' = Compressed(t) /\ Drained(t)' = Drained(t)
      /\ Seeking(t)' = Seeking(t) /\ InsideBlock(t)' = InsideBlock(t)
  BY <1>3, SteadyPlace DEF Tame
<1>5. StatusOK(t)'
  BY <1>1, <1>2, <1>4 DEF Good, StatusOK
<1>6. KindOK(t)'
  BY <1>1, <1>2, <1>3, <1>4, TamePlace DEF Good, KindOK
<1>7. PlaceOK(t)'
  BY <1>1, <1>2, <1>3, TamePlace DEF PlaceOK
<1>8. StepOK(t)' /\ LockOK(t)'
  BY <1>1, <1>2, <1>4 DEF Good, StepOK, LockOK
<1> QED BY <1>3, <1>5, <1>6, <1>7, <1>8, TamePlace DEF Good

----------------------------------------------------------------------------
(* The end of an operation.                                                 *)

LEMMA UnlockGood ==
  ASSUME TypeOK, NEW t \in Readers, Good(t), Unlock(t)
  PROVE  Good(t)'
<1>1. pc[t] = "unlock" /\ op[t] = "read" /\ ReleaseStreambufs(t)
  BY DEF Unlock
<1>2. UNCHANGED <<file, pos, statusBits, target, newcmp, status, nextStart, last, item, due>>
  BY DEF Unlock, sourceVars
<1>3. fault' = "none" /\ SameInput(xcmp[t], xcmp'[t]) /\ mutexLock'[t] = 0
  BY <1>1, ReleaseSame
<1>4. Steady(t)
  BY <1>2, <1>3 DEF Steady
<1>5. /\ InputOK(file, pos, xcmp[t])' /\ StartOK(t)'
      /\ Compressed(t)' = Compressed(t) /\ Seeking(t)' = Seeking(t)
      /\ NextEntry(t)' = NextEntry(t) /\ Behindhand(t)' = Behindhand(t)
      /\ Drained(t)' = Drained(t)
  BY <1>4, SteadyPlace DEF Good
<1>6. \/ pc'[t] = "lock" /\ op'[t] = "read" /\ marks'[t] = marks[t]
      \/ /\ pc'[t] = "idle" /\ op'[t] = "none"
         /\ marks'[t] = marks[t] \cup {[last[t] EXCEPT !.n = item[t].n]}
  BY <1>1 DEF Unlock, Goto, TypeOK
<1>7. \A p \in marks'[t] : MarkOK(file', p)
  <2>1. MarkOK(file, [last[t] EXCEPT !.n = item[t].n])
    BY <1>1 DEF Good, StepOK
  <2> QED BY <1>2, <1>6, <2>1 DEF Good
<1>8. StatusOK(t)'
  BY <1>1, <1>2, <1>5, <1>6 DEF Good, StatusOK
<1>9. KindOK(t)'
  BY <1>1, <1>2, <1>3, <1>5, <1>6 DEF Good, KindOK, SameInput
<1>10. PlaceOK(t)'
  BY <1>1, <1>2, <1>5, <1>6 DEF Good, PlaceOK
<1>11. StepOK(t)' /\ LockOK(t)'
  BY <1>3, <1>6 DEF StepOK, LockOK
<1> QED BY <1>3, <1>5, <1>7, <1>8, <1>9, <1>10, <1>11 DEF Good

LEMMA EofGood ==
  ASSUME TypeOK, NEW t \in Readers, Good(t), Eof(t)
  PROVE  Good(t)'
<1>1. /\ pc[t] = "eof" /\ op[t] = "read" /\ ReleaseStreambufs(t)
      /\ pc'[t] = "idle" /\ op'[t] = "none"
  BY DEF Eof, Good, StepOK, Goto, TypeOK
<1>2. UNCHANGED <<file, pos, statusBits, target, newcmp, status, nextStart, last, item,
                  marks, due>>
  BY DEF Eof, sourceVars, traceVars
<1>3. fault' = "none" /\ SameInput(xcmp[t], xcmp'[t]) /\ mutexLock'[t] = 0
  BY <1>1, ReleaseSame
<1>4. Tame(t)
  BY <1>2, <1>3 DEF Tame, Steady
<1>5. Compressed(t)' = Compressed(t)
  BY <1>4, SteadyPlace DEF Tame
<1>6. StatusOK(t)'
  BY <1>1, <1>2, <1>5 DEF Good, StatusOK
<1>7. KindOK(t)'
  BY <1>1, <1>2, <1>4, <1>5, TamePlace DEF Good, KindOK
<1>8. PlaceOK(t)'
  BY <1>1, <1>4, TamePlace DEF PlaceOK
<1>9. StepOK(t)' /\ LockOK(t)'
  BY <1>1, <1>3 DEF StepOK, LockOK
<1> QED BY <1>4, <1>6, <1>7, <1>8, <1>9, TamePlace DEF Good

LEMMA SeekUnlockGood ==
  ASSUME TypeOK, NEW t \in Readers, Good(t), SeekUnlock(t)
  PROVE  Good(t)'
<1>1. pc[t] = "unlock" /\ op[t] = "seek" /\ ReleaseStreambufs(t) /\ pc'[t] = "seat"
  BY DEF SeekUnlock, Goto, TypeOK
<1>2. UNCHANGED <<file, pos, statusBits, op, target, newcmp, status, nextStart, last, item,
                  marks, due>>
  BY DEF SeekUnlock, sourceVars, callVars, traceVars
<1>3. fault' = "none" /\ SameInput(xcmp[t], xcmp'[t]) /\ mutexLock'[t] = 0
  BY <1>1, ReleaseSame
<1>4. Tame(t)
  BY <1>2, <1>3 DEF Tame, Steady
<1>5. Compressed(t)' = Compressed(t)
  BY <1>4, SteadyPlace DEF Tame
<1>6. StatusOK(t)'
  BY <1>1, <1>2, <1>5 DEF Good, StatusOK
<1>7. KindOK(t)'
  BY <1>1, <1>2, <1>4, <1>5, TamePlace DEF Good, KindOK
<1>8. PlaceOK(t)'
  BY <1>1, <1>2 DEF PlaceOK
<1>9. StepOK(t)' /\ LockOK(t)'
  BY <1>1, <1>2, <1>3 DEF Good, StepOK, LockOK
<1> QED BY <1>4, <1>6, <1>7, <1>8, <1>9, TamePlace DEF Good

\* The next read goes where setPosition was told to.
LEMMA SeatGood ==
  ASSUME TypeOK, NEW t \in Readers, Good(t), Seat(t)
  PROVE  Good(t)'
<1> DEFINE q == target[t]
<1>1. /\ pc[t] = "seat" /\ op[t] = "seek" /\ pc'[t] = "idle" /\ op'[t] = "none"
      /\ due'[t] = q.n
  BY DEF Seat, Good, StepOK, Goto, TypeOK
<1>2. UNCHANGED <<file, pos, statusBits, status, mutexLock, last, item, marks, fault>>
  BY DEF Seat, sourceVars, sharedVars
<1>3. MarkOK(file, q) /\ statusBits = q.status /\ status[t] = statusBits
  BY <1>1 DEF Good, StepOK, StatusOK
<1>4. /\ q \in Positions /\ q.start \in Nat /\ q.off \in Nat /\ q.start > 0
      /\ q.start \in DOMAIN file /\ q.off + 1 \in DOMAIN file[q.start].items
      /\ statusBits = InForce(file, q.start)
      /\ ~file[q.start].items[q.off + 1].tok /\ file[q.start].items[q.off + 1].n = q.n
  <2>1. q \in Positions /\ q.start \in DOMAIN file /\ DOMAIN file = 1 .. Len(file)
    BY <1>3, FileShape DEF MarkOK, TypeOK
  <2> QED BY <1>3, <2>1 DEF MarkOK, Positions
<1>5. q.n = 1 + Cardinality(Before(file, q.start, q.off))
  <2> HIDE DEF q
  <2>1. q.off + 1 - 1 = q.off
    BY <1>4
  <2>2. file \in Files
    BY DEF TypeOK
  <2>3. file[q.start].items[q.off + 1].n
          = 1 + Cardinality(Before(file, q.start, q.off + 1 - 1))
    BY <1>4, <2>2, BeforeRecord
  <2> QED BY <1>4, <2>1, <2>3
<1>6. Compressed(t)' = Compressed(t)
  BY <1>2 DEF Compressed
<1> HIDE DEF q
<1>7. CASE Compressed(t)
  <2>1. xcmp'[t] = [xcmp[t] EXCEPT !.seek = q] /\ nextStart' = nextStart
    BY <1>7 DEF Seat, TypeOK, q
  <2>2. /\ xcmp'[t].kind = xcmp[t].kind /\ xcmp'[t].left = xcmp[t].left
        /\ xcmp'[t].at = xcmp[t].at /\ xcmp'[t].off = xcmp[t].off
        /\ xcmp'[t].end = xcmp[t].end /\ xcmp'[t].seek = q
    BY <1>4, <2>1, FieldTypes, InputSeek
  <2>3. Seeking(t)' /\ NextEntry(t)' = q.start /\ NextOff(t)' = q.off
    BY <1>4, <1>6, <1>7, <2>2 DEF Seeking, NextEntry, NextOff
  <2>4. Behindhand(t)' = Before(file, q.start, q.off)
    BY <1>2, <2>3 DEF Behindhand
  <2>5. InputOK(file, pos, xcmp[t])'
    BY <1>2, <1>3, <2>2 DEF Good, InputOK
  <2>6. StartOK(t)' /\ KindOK(t)'
    BY <1>1, <1>2, <1>6, <1>7, <2>2 DEF Good, StartOK, KindOK
  <2>7. PlaceOK(t)'
    BY <1>1, <1>2, <1>3, <1>4, <1>5, <2>3, <2>4 DEF PlaceOK
  <2>8. StatusOK(t)' /\ StepOK(t)' /\ LockOK(t)'
    BY <1>1, <1>2, <1>6 DEF Good, StatusOK, StepOK, LockOK
  <2> QED BY <1>2, <2>5, <2>6, <2>7, <2>8 DEF Good
<1>8. CASE ~Compressed(t)
  <2>1. xcmp' = xcmp /\ nextStart'[t] = q.start
    BY <1>8 DEF Seat, TypeOK, q
  <2>2. q.off = 0
    <3>1. file[q.start].kind = "none"
      <4>1. file[q.start].kind = KindOf(InForce(file, q.start).cmp)
        BY <1>4, FileForce DEF TypeOK
      <4>2. InForce(file, q.start).cmp = {}
        BY <1>3, <1>4, <1>8 DEF Compressed
      <4>3. KindOf({}) = "none"
        BY DEF KindOf
      <4> QED BY <4>1, <4>2, <4>3
    <3>2. /\ Len(file[q.start].items) = 1
          /\ DOMAIN file[q.start].items = 1 .. Len(file[q.start].items)
      BY <1>4, <3>1, FileShape DEF TypeOK
    <3> QED BY <1>4, <3>2
  <2>3. NextEntry(t)' = q.start /\ NextOff(t)' = q.off
    BY <1>4, <1>6, <1>8, <2>1, <2>2 DEF NextEntry, NextOff
  <2>4. Behindhand(t)' = Before(file, q.start, q.off)
    BY <1>2, <2>3 DEF Behindhand
  <2>5. InputOK(file, pos, xcmp[t])' /\ StartOK(t)'
    BY <1>2, <1>4, <2>1 DEF Good, InputOK, StartOK
  <2>6. KindOK(t)'
    BY <1>1, <1>2, <1>6, <2>1 DEF Good, KindOK, Seeking
  <2>7. PlaceOK(t)'
    BY <1>1, <1>2, <1>3, <1>4, <1>5, <2>3, <2>4 DEF PlaceOK
  <2>8. StatusOK(t)' /\ StepOK(t)' /\ LockOK(t)'
    BY <1>1, <1>2, <1>6 DEF Good, StatusOK, StepOK, LockOK
  <2> QED BY <1>2, <2>5, <2>6, <2>7, <2>8 DEF Good
<1> QED BY <1>7, <1>8

----------------------------------------------------------------------------
(* configure_streambufs.                                                    *)

LEMMA ReconfigureGood ==
  ASSUME TypeOK, NEW t \in Readers, Good(t), Reconfigure(t)
  PROVE  Good(t)'
<1>1. pc[t] = "reconf" /\ newcmp'[t] = statusBits.cmp
  BY DEF Reconfigure, TypeOK
<1>2. UNCHANGED <<file, pos, statusBits, op, target, status, mutexLock, nextStart, last, item,
                  marks, due, fault>>
  BY DEF Reconfigure, sourceVars, sharedVars, traceVars, boundVars
<1>3. Compressed(t)' = Compressed(t)
  BY <1>2 DEF Compressed
<1>4. CASE xcmp' = xcmp
  <2>1. Tame(t)
    BY <1>2, <1>4 DEF Tame, Steady, SameInput, Good
  <2>2. Drained(t)' = Drained(t)
    BY <2>1, SteadyPlace DEF Tame
  <2>3. \/ pc'[t] = "adopt" /\ statusBits.cmp = status[t].cmp
        \/ pc'[t] = "build" /\ statusBits.cmp # status[t].cmp /\ ~Compressed(t)
    <3>1. Compressed(t) /\ xcmp'[t] = NoInput => xcmp[t].kind = "none"
      BY <1>4 DEF NoInput
    <3>2. Compressed(t) => xcmp[t].kind # "none"
      BY <1>1, HasInput
    <3> QED BY <1>1, <3>1, <3>2 DEF Reconfigure, Goto, TypeOK
  <2>4. StatusOK(t)'
    BY <1>1, <1>2, <1>3, <2>3 DEF Good, StatusOK
  <2>5. KindOK(t)'
    <3>1. ~Compressed(t) => xcmp[t].at \notin DOMAIN file
      <4>1. DOMAIN file = 1 .. Len(file)
        BY FileShape DEF TypeOK
      <4>2. ~Compressed(t) => xcmp[t].at = 0
        BY DEF Good, KindOK
      <4> QED BY <4>1, <4>2
    <3>2. ~Compressed(t) => xcmp[t].left = << >>
      BY <3>1 DEF Good, InputOK
    <3> QED BY <1>1, <1>2, <1>3, <1>4, <2>1, <2>3, <3>2, TamePlace DEF Good, KindOK
  <2>6. PlaceOK(t)'
    BY <1>1, <1>2, <2>1, <2>2, TamePlace DEF Good, PlaceOK
  <2>7. StepOK(t)' /\ LockOK(t)'
    BY <1>1, <1>2, <1>3, <2>3 DEF Good, StepOK, LockOK
  <2> QED BY <2>1, <2>4, <2>5, <2>6, <2>7, TamePlace DEF Good
<1>5. CASE xcmp' # xcmp
  <2>1. /\ Compressed(t) /\ statusBits.cmp # status[t].cmp /\ pc'[t] = "build"
        /\ xcmp'[t] = NoInput
    BY <1>5 DEF Reconfigure, Goto, TypeOK
  <2>2. /\ xcmp'[t].left = << >> /\ xcmp'[t].at = 0 /\ ~xcmp'[t].end
        /\ xcmp'[t].seek.start = 0 /\ xcmp'[t].kind = "none"
    BY <2>1 DEF NoInput, NoPosition
  <2>3. InputOK(file, pos, xcmp[t])'
    <3>1. 0 \notin DOMAIN file
      <4>1. DOMAIN file = 1 .. Len(file)
        BY FileShape DEF TypeOK
      <4> QED BY <4>1
    <3> QED BY <1>2, <2>2, <3>1 DEF InputOK
  <2>4. StartOK(t)' /\ StatusOK(t)'
    BY <1>1, <1>2, <1>3, <2>1 DEF Good, StartOK, StatusOK
  <2>5. ~Seeking(t)' /\ Drained(t)' /\ NextEntry(t)' = pos /\ NextOff(t)' = 0
    BY <1>2, <1>3, <2>1, <2>2 DEF Seeking, Drained, NextEntry, NextOff
  <2>6. KindOK(t)'
    BY <1>1, <1>2, <1>3, <2>1, <2>2, <2>5 DEF Good, KindOK
  <2>7. PlaceOK(t)'
    <3>1. SUFFICES ASSUME op[t] # "seek"  PROVE PlaceOK(t)'
      BY <1>2 DEF PlaceOK
    <3>2. Drained(t) /\ statusBits = InForce(file, NextEntry(t))
          /\ (Alone => due[t] = 1 + Cardinality(Behindhand(t)))
      <4>1. status[t] # statusBits
        BY <2>1
      <4> QED BY <1>1, <3>1, <4>1 DEF Good, PlaceOK
    <3>3. NextEntry(t) = pos /\ NextOff(t) = 0
      BY <2>1, <3>2 DEF Drained, NextEntry, NextOff
    <3>4. Behindhand(t)' = Behindhand(t)
      BY <1>2, <2>5, <3>3 DEF Behindhand
    <3> QED BY <1>2, <2>5, <3>2, <3>3, <3>4 DEF PlaceOK
  <2>8. StepOK(t)' /\ LockOK(t)'
    BY <1>1, <1>2, <1>3, <2>1 DEF Good, StepOK, LockOK
  <2> QED BY <1>2, <2>3, <2>4, <2>6, <2>7, <2>8 DEF Good
<1> QED BY <1>4, <1>5

LEMMA BuildGood ==
  ASSUME TypeOK, NEW t \in Readers, Good(t), Build(t)
  PROVE  Good(t)'
<1>1. /\ pc[t] = "build" /\ pc'[t] = "adopt"
      /\ xcmp'[t] = NewInput(KindOf(newcmp[t]))
  BY DEF Build, Goto, TypeOK
<1>2. UNCHANGED <<file, pos, statusBits, op, target, newcmp, status, mutexLock, nextStart,
                  last, item, marks, due, fault>>
  BY DEF Build, sourceVars, sharedVars, callVars, traceVars
<1>3. newcmp[t] = statusBits.cmp /\ statusBits.cmp # status[t].cmp
  BY <1>1 DEF Good, KindOK
<1>4. /\ xcmp[t].left = << >> /\ ~Seeking(t) /\ ~xcmp[t].end /\ xcmp[t].at = 0
  BY <1>1, <1>3 DEF Good, KindOK
<1>5. /\ xcmp'[t].left = << >> /\ xcmp'[t].at = 0 /\ ~xcmp'[t].end
      /\ xcmp'[t].seek.start = 0 /\ xcmp'[t].kind = KindOf(statusBits.cmp)
  <2>1. NewInput(KindOf(newcmp[t])) = [NoInput EXCEPT !.kind = KindOf(newcmp[t])]
    BY DefaultTypes, KindType
  <2> QED BY <1>1, <1>3, <2>1 DEF NoInput, NoPosition
<1>6. Compressed(t)' = Compressed(t)
  BY <1>2 DEF Compressed
<1>7. /\ ~Seeking(t)' /\ Drained(t)' = Drained(t) /\ NextEntry(t)' = NextEntry(t)
      /\ NextOff(t)' = NextOff(t)
  BY <1>2, <1>4, <1>5, <1>6 DEF Seeking, Drained, NextEntry, NextOff
<1>8. InputOK(file, pos, xcmp[t])'
  <2>1. 0 \notin DOMAIN file
    <3>1. DOMAIN file = 1 .. Len(file)
      BY FileShape DEF TypeOK
    <3> QED BY <3>1
  <2> QED BY <1>2, <1>5, <2>1 DEF InputOK
<1>9. StartOK(t)' /\ StatusOK(t)'
  BY <1>1, <1>2, <1>6 DEF Good, StartOK, StatusOK
<1>10. KindOK(t)'
  BY <1>1, <1>2, <1>3, <1>5, <1>7 DEF KindOK
<1>11. PlaceOK(t)'
  <2>1. Behindhand(t)' = Behindhand(t)
    BY <1>2, <1>7 DEF Behindhand
  <2> QED BY <1>1, <1>2, <1>7, <2>1 DEF Good, PlaceOK
<1>12. StepOK(t)' /\ LockOK(t)'
  BY <1>1, <1>2, <1>6 DEF Good, StepOK, LockOK
<1> QED BY <1>2, <1>8, <1>9, <1>10, <1>11, <1>12 DEF Good

LEMMA AdoptGood ==
  ASSUME TypeOK, NEW t \in Readers, Good(t), Adopt(t)
  PROVE  Good(t)'
<1>1. /\ pc[t] = "adopt" /\ status'[t] = statusBits
      /\ \/ op[t] = "seek" /\ pc'[t] = "unlock"
         \/ op[t] = "read" /\ pc'[t] = "head"
  <2>1. op[t] \in {"read", "seek"}
    BY FieldTypes DEF Adopt, Good, StepOK
  <2> QED BY <2>1 DEF Adopt, AfterUpdate, Goto, TypeOK
<1>2. UNCHANGED <<file, pos, statusBits, op, target, newcmp, xcmp, mutexLock, nextStart,
                  last, item, marks, due, fault>>
  BY DEF Adopt, sourceVars, sharedVars, callVars, traceVars
<1>3. /\ statusBits.cmp # Codecs /\ (Compressed(t) => statusBits.cmp # {})
      /\ Compressed(t)' <=> statusBits.cmp # {}
  BY <1>1 DEF Good, StatusOK, Compressed
<1>4. xcmp[t].kind = KindOf(statusBits.cmp)
  BY <1>1 DEF Good, KindOK
<1>5. InputOK(file, pos, xcmp[t])' /\ StartOK(t)'
  BY <1>2, <1>3 DEF Good, InputOK, StartOK
<1>6. StatusOK(t)'
  BY <1>1, <1>2, <1>3 DEF StatusOK
<1>7. KindOK(t)'
  BY <1>1, <1>2, <1>3, <1>4 DEF Good, KindOK, Seeking
<1>8. PlaceOK(t)'
  <2>1. SUFFICES ASSUME op[t] # "seek"  PROVE PlaceOK(t)'
    BY <1>2 DEF PlaceOK
  <2>2. NextEntry(t)' = NextEntry(t) /\ NextOff(t)' = NextOff(t)
    <3>1. CASE status[t] = statusBits
      BY <1>1, <1>2, <3>1 DEF NextEntry, NextOff, Compressed, Seeking
    <3>2. CASE status[t] # statusBits
      <4>1. Drained(t)
        BY <1>1, <2>1, <3>2 DEF Good, PlaceOK
      <4>2. NextEntry(t) = pos /\ NextOff(t) = 0
        BY <4>1, FieldTypes DEF Drained, NextEntry, NextOff
      <4>3. Compressed(t)' => xcmp[t].left = << >> /\ ~Seeking(t)
        <5>1. CASE statusBits.cmp = status[t].cmp
          BY <1>3, <4>1, <5>1 DEF Drained, Compressed
        <5>2. CASE statusBits.cmp # status[t].cmp
          BY <1>1, <5>2 DEF Good, KindOK
        <5> QED BY <5>1, <5>2
      <4>4. ~Compressed(t)' => nextStart[t] = 0
        BY <1>3, <4>1 DEF Drained
      <4>5. NextEntry(t)' = pos /\ NextOff(t)' = 0
        BY <1>2, <4>3, <4>4 DEF NextEntry, NextOff, Seeking
      <4> QED BY <4>2, <4>5
    <3> QED BY <3>1, <3>2
  <2>3. Behindhand(t)' = Behindhand(t)
    BY <1>2, <2>2 DEF Behindhand
  <2> QED BY <1>1, <1>2, <2>1, <2>2, <2>3 DEF Good, PlaceOK
<1>9. StepOK(t)' /\ LockOK(t)'
  BY <1>1, <1>2, <1>3 DEF Good, StepOK, LockOK
<1> QED BY <1>2, <1>5, <1>6, <1>7, <1>8, <1>9 DEF Good

----------------------------------------------------------------------------
(* Reading.                                                                 *)

LEMMA HeadRawGood ==
  ASSUME TypeOK, NEW t \in Readers, Good(t), HeadRaw(t)
  PROVE  Good(t)'
<1>1. /\ pc[t] = "head" /\ op[t] = "read" /\ pc'[t] = "source" /\ ~Compressed(t)
      /\ pos' = NextEntry(t) /\ nextStart'[t] = 0
      /\ last'[t] = [NoPosition EXCEPT !.start = pos', !.status = status[t]]
  BY DEF HeadRaw, Goto, TypeOK, Good, StepOK, NextEntry
<1>2. UNCHANGED <<file, statusBits, op, target, newcmp, status, xcmp, mutexLock, item,
                  marks, due, fault>>
  BY DEF HeadRaw, sharedVars, callVars, traceVars
<1>3. last'[t].start = pos' /\ last'[t].off = 0 /\ last'[t].status = status[t]
  <2> DEFINE y == [NoPosition EXCEPT !.start = pos', !.status = status[t]]
  <2>1. pos' \in Nat /\ status[t] \in Status
    BY <1>1, FieldTypes DEF NextEntry
  <2>2. y.start = pos' /\ y.off = 0 /\ y.status = status[t]
    BY <2>1 DEF NoPosition
  <2>3. last'[t] = y
    BY <1>1
  <2> HIDE DEF y
  <2> QED BY <2>2, <2>3
<1>4. xcmp[t].at = 0 /\ ~Seeking(t) /\ ~xcmp[t].end
  BY <1>1 DEF Good, KindOK
<1>5. ~Compressed(t)' /\ ~Seeking(t)'
  BY <1>1, <1>2, <1>4 DEF Compressed, Seeking
<1>6. NextEntry(t)' = NextEntry(t) /\ NextOff(t)' = NextOff(t) /\ Drained(t)'
  BY <1>1, <1>5 DEF NextEntry, NextOff, Drained
<1>7. InputOK(file, pos, xcmp[t])'
  <2>1. 0 \notin DOMAIN file
    <3>1. DOMAIN file = 1 .. Len(file)
      BY FileShape DEF TypeOK
    <3> QED BY <3>1
  <2>2. xcmp[t].left = << >> /\ ~(xcmp[t].seek.start > 0)
    BY <1>4, <2>1 DEF Good, InputOK, Seeking
  <2> QED BY <1>2, <1>4, <2>1, <2>2 DEF InputOK
<1>8. StartOK(t)' /\ StatusOK(t)'
  BY <1>1, <1>2, <1>5 DEF Good, StartOK, StatusOK
<1>9. KindOK(t)'
  BY <1>1, <1>2, <1>4, <1>5 DEF Good, KindOK
<1>10. PlaceOK(t)'
  <2>1. Behindhand(t)' = Behindhand(t)
    BY <1>2, <1>6 DEF Behindhand
  <2> QED BY <1>1, <1>2, <1>6, <2>1 DEF Good, PlaceOK
<1>11. StepOK(t)' /\ LockOK(t)'
  BY <1>1, <1>2, <1>3, <1>5, <1>6 DEF Good, StepOK, LockOK
<1> QED BY <1>2, <1>7, <1>8, <1>9, <1>10, <1>11 DEF Good

\* The block in front of the source, when the item wanted is in it.
LEMMA HeadBlockPlace ==
  ASSUME TypeOK, NEW t \in Readers, Good(t), pc[t] = "head", Compressed(t),
         IF Seeking(t) THEN InsideBlock(t) ELSE xcmp[t].left # << >>
  PROVE  LET drop == IF Seeking(t) THEN xcmp[t].seek.off - xcmp[t].off ELSE 0
             e == xcmp[t].at
             o == xcmp[t].off + drop
         IN /\ drop \in Nat /\ o \in Nat /\ e \in DOMAIN file
            /\ o < Len(file[e].items) /\ drop < Len(xcmp[t].left)
            /\ From(xcmp[t].left, drop) = From(file[e].items, o)
            /\ e = NextEntry(t) /\ o = NextOff(t) /\ pos = e + 1
<1> DEFINE drop == IF Seeking(t) THEN xcmp[t].seek.off - xcmp[t].off ELSE 0
           e == xcmp[t].at
           o == xcmp[t].off + drop
<1>1. /\ file \in Files /\ DOMAIN file = 1 .. Len(file) /\ Len(file) \in Nat
      /\ e \in Nat /\ xcmp[t].off \in Nat /\ xcmp[t].seek.start \in Nat
      /\ xcmp[t].seek.off \in Nat
  BY FieldTypes, FileShape
<1>2. /\ e \in DOMAIN file /\ drop \in Nat /\ o \in Nat
      /\ e = NextEntry(t) /\ o = NextOff(t)
  <2>1. CASE Seeking(t)
    <3>1. xcmp[t].seek.start = e /\ xcmp[t].off <= xcmp[t].seek.off
      BY <2>1 DEF InsideBlock
    <3>2. xcmp[t].seek.start \in DOMAIN file
      BY <2>1 DEF Good, InputOK, Seeking, MarkOK
    <3> QED BY <1>1, <2>1, <3>1, <3>2 DEF NextEntry, NextOff
  <2>2. CASE ~Seeking(t)
    <3>1. e \in DOMAIN file
      BY <2>2 DEF Good, InputOK
    <3> QED BY <1>1, <2>2, <3>1 DEF NextEntry, NextOff
  <2> QED BY <2>1, <2>2
<1>3. /\ pos = e + 1 /\ xcmp[t].off <= Len(file[e].items)
      /\ xcmp[t].left = From(file[e].items, xcmp[t].off)
  BY <1>2 DEF Good, InputOK
<1>4. /\ file[e].items \in Seq(Items) /\ Len(file[e].items) \in Nat
      /\ DOMAIN file[e].items = 1 .. Len(file[e].items)
  BY <1>1, <1>2, FileShape
<1>5. o < Len(file[e].items)
  <2>1. CASE Seeking(t)
    <3>1. xcmp[t].seek.start = e /\ o = xcmp[t].seek.off
      BY <1>1, <2>1 DEF InsideBlock
    <3>2. xcmp[t].seek.off + 1 \in DOMAIN file[e].items
      BY <2>1, <3>1 DEF Good, InputOK, Seeking, MarkOK
    <3> HIDE DEF o, e
    <3> QED BY <1>1, <1>4, <3>1, <3>2
  <2>2. CASE ~Seeking(t)
    <3>1. From(file[e].items, xcmp[t].off) # << >> /\ o = xcmp[t].off
      BY <1>1, <1>3, <2>2
    <3>2. xcmp[t].off \in 0 .. Len(file[e].items)
      BY <1>1, <1>3, <1>4
    <3> QED BY <1>4, <3>1, <3>2, FromEmpty
  <2> QED BY <2>1, <2>2
<1>6. xcmp[t].off \in 0 .. Len(file[e].items) /\ drop \in 0 .. Len(file[e].items) - xcmp[t].off
  <2> HIDE DEF drop, e
  <2> QED BY <1>1, <1>2, <1>3, <1>4, <1>5
<1> HIDE DEF drop, e
<1>7. From(xcmp[t].left, drop) = From(file[e].items, o)
  BY <1>3, <1>4, <1>6, FromFrom
<1>8. drop < Len(xcmp[t].left)
  <2>1. Len(xcmp[t].left) = Len(file[e].items) - xcmp[t].off
    BY <1>3, <1>4, <1>6, FromProperties, SMTT(40)
  <2> QED BY <1>1, <1>2, <1>4, <1>5, <2>1
<1> QED BY <1>2, <1>3, <1>5, <1>7, <1>8 DEF drop, e

LEMMA HeadBlockGood ==
  ASSUME TypeOK, NEW t \in Readers, Good(t), HeadBlock(t)
  PROVE  Good(t)'
<1> DEFINE drop == IF Seeking(t) THEN xcmp[t].seek.off - xcmp[t].off ELSE 0
           e == xcmp[t].at
           o == xcmp[t].off + drop
           left == From(xcmp[t].left, drop)
<1>1. /\ pc[t] = "head" /\ Compressed(t) /\ pc'[t] = "parse" /\ op[t] = "read"
      /\ IF Seeking(t) THEN InsideBlock(t) ELSE xcmp[t].left # << >>
  BY DEF HeadBlock, Goto, TypeOK, Good, StepOK
<1>2. /\ item'[t] = left[1]
      /\ xcmp'[t] = [xcmp[t] EXCEPT !.left = Tail(left), !.off = xcmp[t].off + drop + 1,
                                    !.seek = NoPosition]
      /\ last'[t] = [NoPosition EXCEPT !.start = xcmp[t].at, !.off = o, !.status = status[t]]
  BY DEF HeadBlock, TypeOK
<1>3. UNCHANGED <<file, pos, statusBits, op, target, newcmp, status, mutexLock, nextStart,
                  marks, due, fault>>
  BY DEF HeadBlock, sourceVars, sharedVars, traceVars
<1>4. /\ drop \in Nat /\ o \in Nat /\ e \in DOMAIN file
      /\ o < Len(file[e].items) /\ left = From(file[e].items, o)
      /\ e = NextEntry(t) /\ o = NextOff(t) /\ pos = e + 1
  BY <1>1, HeadBlockPlace
<1>5. /\ file \in Files /\ file[e].items \in Seq(Items) /\ Len(file[e].items) \in Nat
      /\ DOMAIN file[e].items = 1 .. Len(file[e].items) /\ xcmp[t] \in Inputs
      /\ xcmp[t].off \in Nat /\ e \in Nat /\ status[t] \in Status
      /\ \A i \in DOMAIN file[e].items : file[e].items[i] \in Items
  BY <1>4, FieldTypes, FileShape
<1> HIDE DEF drop, e, left
<1>6. left[1] = file[e].items[o + 1] /\ Tail(left) = From(file[e].items, o + 1)
  BY <1>4, <1>5, FromHeadTail
<1>7. o + 1 \in DOMAIN file[e].items /\ o + 1 - 1 = o /\ xcmp[t].off + drop + 1 = o + 1
      /\ o + 1 \in Nat /\ o + 1 <= Len(file[e].items)
  BY <1>4, <1>5, SMTT(40)
<1>8. Tail(left) \in Seq(Items)
  BY <1>5, <1>6, <1>7, FromType
<1> HIDE DEF o
<1>9. /\ xcmp'[t].kind = xcmp[t].kind /\ xcmp'[t].left = From(file[e].items, o + 1)
      /\ xcmp'[t].at = e /\ xcmp'[t].off = o + 1 /\ xcmp'[t].end = xcmp[t].end
      /\ xcmp'[t].seek = NoPosition
  <2> DEFINE l == Tail(left)  v == o + 1
  <2>1. xcmp'[t] = [xcmp[t] EXCEPT !.left = l, !.off = v, !.seek = NoPosition]
    BY <1>2, <1>7
  <2>2. l \in Seq(Items) /\ v \in Nat
    BY <1>7, <1>8
  <2> HIDE DEF l, v
  <2> DEFINE y == [xcmp[t] EXCEPT !.left = l, !.off = v, !.seek = NoPosition]
  <2>3. /\ y.kind = xcmp[t].kind /\ y.left = l /\ y.at = xcmp[t].at /\ y.off = v
        /\ y.end = xcmp[t].end /\ y.seek = NoPosition
    BY <1>5, <2>2 DEF Inputs
  <2>4. xcmp'[t] = y
    BY <2>1
  <2> HIDE DEF y
  <2> QED BY <1>6, <2>3, <2>4 DEF l, v, e
<1>10. last'[t].start = e /\ last'[t].off = o /\ last'[t].status = status[t]
  <2> DEFINE y == [NoPosition EXCEPT !.start = e, !.off = o, !.status = status[t]]
  <2>1. y.start = e /\ y.off = o /\ y.status = status[t]
    BY <1>4, <1>5 DEF NoPosition
  <2>2. last'[t] = y
    BY <1>2 DEF e
  <2> HIDE DEF y
  <2> QED BY <2>1, <2>2
<1>11. Compressed(t)' /\ ~Seeking(t)'
  BY <1>1, <1>3, <1>9 DEF Compressed, Seeking, NoPosition
<1>12. statusBits = InForce(file, e) /\ (Alone => due[t] = 1 + Cardinality(Before(file, e, o)))
       /\ status[t] = statusBits
  BY <1>1, <1>4 DEF Good, PlaceOK, StatusOK, Behindhand
<1>13. ItemOK(t)'
  <2>1. ItemEntry(t)' = e /\ ItemIndex(t)' = o + 1
    BY <1>9, <1>11 DEF ItemEntry, ItemIndex
  <2>2. /\ item'[t] = file'[e].items[o + 1] /\ statusBits' = InForce(file', e)
        /\ (Alone => due'[t] = 1 + Cardinality(Before(file', e, o + 1 - 1)))
        /\ last'[t].off = o + 1 - 1 /\ last'[t].status = status'[t]
    BY <1>2, <1>3, <1>6, <1>7, <1>10, <1>12
  <2> QED BY <1>3, <1>4, <1>7, <1>10, <1>11, <2>1, <2>2 DEF ItemOK
<1>14. InputOK(file, pos, xcmp[t])'
  <2>1. ~xcmp[t].end
    <3>1. SUFFICES ASSUME xcmp[t].end  PROVE FALSE
      OBVIOUS
    <3>2. xcmp[t].left = << >> /\ Len(xcmp[t].left) = 0
      BY <3>1 DEF Good, InputOK
    <3>3. drop < Len(xcmp[t].left)
      BY <1>1, HeadBlockPlace DEF drop
    <3> QED BY <1>4, <3>2, <3>3
  <2>2. ~(xcmp'[t].seek.start > 0)
    BY <1>9 DEF NoPosition
  <2> QED BY <1>3, <1>4, <1>7, <1>9, <2>1, <2>2 DEF InputOK
<1>15. StartOK(t)' /\ StatusOK(t)'
  BY <1>1, <1>3, <1>11, <1>12 DEF Good, StartOK, StatusOK
<1>16. KindOK(t)'
  BY <1>1, <1>3, <1>9, <1>11 DEF Good, KindOK
<1>17. PlaceOK(t)' /\ LockOK(t)'
  BY <1>1, <1>11 DEF PlaceOK, LockOK
<1>18. StepOK(t)'
  BY <1>1, <1>3, <1>13 DEF StepOK
<1> QED BY <1>3, <1>14, <1>15, <1>16, <1>17, <1>18 DEF Good

\* The entry read next is encoded the way the reader expects.
LEMMA KindAhead ==
  ASSUME TypeOK, NEW t \in Readers, Good(t), pc[t] = "source", NextEntry(t) \in DOMAIN file
  PROVE  /\ file[NextEntry(t)].kind = KindOf(status[t].cmp)
         /\ file[NextEntry(t)].kind = IF Compressed(t) THEN xcmp[t].kind ELSE "none"
<1>1. file[NextEntry(t)].kind = KindOf(InForce(file, NextEntry(t)).cmp)
  BY FileForce, FieldTypes
<1>2. InForce(file, NextEntry(t)) = status[t] /\ xcmp[t].kind = KindOf(status[t].cmp)
  <2>1. op[t] # "seek"
    BY DEF Good, StepOK
  <2> QED BY <2>1 DEF Good, PlaceOK, StatusOK, KindOK
<1>3. ~Compressed(t) => KindOf(status[t].cmp) = "none"
  BY DEF Compressed, KindOf
<1> QED BY <1>1, <1>2, <1>3

LEMMA SourcePlace ==
  ASSUME TypeOK, NEW t \in Readers, Good(t), pc[t] = "source"
  PROVE  /\ NextEntry(t) = IF Seeking(t) THEN xcmp[t].seek.start ELSE pos
         /\ NextOff(t) = IF Seeking(t) THEN xcmp[t].seek.off ELSE 0
         /\ Seeking(t) => Compressed(t) /\ MarkOK(file, xcmp[t].seek)
         /\ ~Seeking(t) => Drained(t)
<1>1. Seeking(t) => Compressed(t) /\ MarkOK(file, xcmp[t].seek)
  BY DEF Good, KindOK, InputOK, Seeking
<1>2. ~Seeking(t) => Drained(t)
  BY DEF Good, StepOK
<1> QED BY <1>1, <1>2, FieldTypes DEF NextEntry, NextOff, Drained

LEMMA MisreadNever ==
  ASSUME TypeOK, NEW t \in Readers, Good(t), Misread(t)
  PROVE  FALSE
<1>1. /\ pc[t] = "source" /\ NextEntry(t) <= Len(file)
      /\ file[NextEntry(t)].kind # IF Compressed(t) THEN xcmp[t].kind ELSE "none"
  BY SourcePlace DEF Misread
<1>2. NextEntry(t) \in DOMAIN file
  <2>1. NextEntry(t) \in Nat /\ NextEntry(t) > 0
    BY <1>1, SourcePlace, FieldTypes DEF Seeking
  <2>2. DOMAIN file = 1 .. Len(file) /\ Len(file) \in Nat
    BY FileShape, FieldTypes
  <2> QED BY <1>1, <2>1, <2>2
<1> QED BY <1>1, <1>2, KindAhead

LEMMA FetchBlockGood ==
  ASSUME TypeOK, NEW t \in Readers, Good(t), FetchBlock(t)
  PROVE  Good(t)'
<1> DEFINE from == NextEntry(t)
           drop == NextOff(t)
<1>1. /\ pc[t] = "source" /\ Compressed(t) /\ from <= Len(file) /\ pos' = from + 1
      /\ xcmp'[t] = [xcmp[t] EXCEPT !.left = From(file[from].items, drop), !.at = from,
                                    !.off = drop, !.end = FALSE, !.seek = NoPosition]
      /\ pc'[t] = "head" /\ op[t] = "read"
  <2>1. pc[t] = "source"
    BY DEF FetchBlock
  <2> QED BY <2>1, SourcePlace DEF FetchBlock, Goto, TypeOK, Good, StepOK
<1>2. UNCHANGED <<file, statusBits, op, item, target, newcmp, status, mutexLock, nextStart, last,
                  marks, due, fault>>
  BY DEF FetchBlock, callVars, traceVars
<1> HIDE DEF from, drop
<1>3. from \in Nat /\ from > 0 /\ drop \in Nat
  BY <1>1, SourcePlace, FieldTypes DEF Seeking, from, drop
<1>4. /\ from \in DOMAIN file /\ file \in Files
      /\ DOMAIN file = 1 .. Len(file) /\ Len(file) \in Nat
  <2>1. /\ file \in Files /\ DOMAIN file = 1 .. Len(file) /\ Len(file) \in Nat
    BY FileShape, FieldTypes
  <2> QED BY <1>1, <1>3, <2>1
<1>5. /\ file[from].items \in Seq(Items) /\ Len(file[from].items) \in Nat
      /\ DOMAIN file[from].items = 1 .. Len(file[from].items) /\ Len(file[from].items) > 0
  BY <1>4, FileShape
<1>6. drop < Len(file[from].items)
  <2>1. CASE Seeking(t)
    <3>1. drop + 1 \in DOMAIN file[from].items
      BY <1>1, <2>1, SourcePlace DEF MarkOK, from, drop
    <3> QED BY <1>3, <1>5, <3>1
  <2>2. CASE ~Seeking(t)
    BY <1>1, <1>5, <2>2, SourcePlace DEF drop
  <2> QED BY <2>1, <2>2
<1>7. From(file[from].items, drop) \in Seq(Items) /\ From(file[from].items, drop) # << >>
  <2>1. drop \in 0 .. Len(file[from].items)
    BY <1>3, <1>5, <1>6
  <2> QED BY <1>3, <1>5, <1>6, <2>1, FromType, FromEmpty
<1>8. /\ xcmp'[t].kind = xcmp[t].kind /\ xcmp'[t].left = From(file[from].items, drop)
      /\ xcmp'[t].at = from /\ xcmp'[t].off = drop /\ ~xcmp'[t].end
      /\ xcmp'[t].seek = NoPosition
  <2> DEFINE l == From(file[from].items, drop)
             y == [xcmp[t] EXCEPT !.left = l, !.at = from, !.off = drop, !.end = FALSE,
                                  !.seek = NoPosition]
  <2>1. xcmp[t] \in Inputs /\ l \in Seq(Items)
    BY <1>7, FieldTypes
  <2>2. xcmp'[t] = y
    BY <1>1
  <2> HIDE DEF l
  <2>3. /\ y.kind = xcmp[t].kind /\ y.left = l /\ y.at = from /\ y.off = drop
        /\ y.end = FALSE /\ y.seek = NoPosition
    BY <1>3, <2>1 DEF Inputs
  <2> HIDE DEF y
  <2> QED BY <2>2, <2>3 DEF l
<1>9. Compressed(t)' /\ ~Seeking(t)'
  BY <1>1, <1>2, <1>8 DEF Compressed, Seeking, NoPosition
<1>10. NextEntry(t)' = from /\ NextOff(t)' = drop
  BY <1>7, <1>8, <1>9 DEF NextEntry, NextOff
<1>11. InputOK(file, pos, xcmp[t])'
  <2>1. ~(xcmp'[t].seek.start > 0)
    BY <1>8 DEF NoPosition
  <2> QED BY <1>1, <1>2, <1>3, <1>4, <1>5, <1>6, <1>8, <2>1 DEF InputOK
<1>12. StartOK(t)' /\ StatusOK(t)'
  BY <1>1, <1>2, <1>9 DEF Good, StartOK, StatusOK
<1>13. KindOK(t)'
  BY <1>1, <1>2, <1>8, <1>9 DEF Good, KindOK
<1>14. PlaceOK(t)'
  <2>1. Behindhand(t)' = Behindhand(t)
    BY <1>2, <1>10 DEF Behindhand, from, drop
  <2> QED BY <1>1, <1>2, <1>10, <2>1 DEF Good, PlaceOK, StatusOK, from
<1>15. StepOK(t)' /\ LockOK(t)'
  BY <1>1, <1>2, <1>9 DEF Good, StepOK, LockOK
<1> QED BY <1>2, <1>11, <1>12, <1>13, <1>14, <1>15 DEF Good

LEMMA FetchNothingGood ==
  ASSUME TypeOK, NEW t \in Readers, Good(t), FetchNothing(t)
  PROVE  Good(t)'
<1>1. /\ pc[t] = "source" /\ Compressed(t) /\ ~Seeking(t) /\ pos > Len(file)
      /\ xcmp'[t] = [xcmp[t] EXCEPT !.at = pos, !.end = TRUE]
      /\ pc'[t] = "head" /\ op[t] = "read"
  BY DEF FetchNothing, Goto, TypeOK, Good, StepOK
<1>2. UNCHANGED <<file, pos, statusBits, op, item, target, newcmp, status, mutexLock, nextStart,
                  last, marks, due, fault>>
  BY DEF FetchNothing, sourceVars, callVars, traceVars
<1>3. xcmp[t].left = << >>
  BY <1>1, SourcePlace DEF Drained
<1>4. /\ xcmp'[t].kind = xcmp[t].kind /\ xcmp'[t].left = << >>
      /\ xcmp'[t].at = pos /\ xcmp'[t].end /\ xcmp'[t].seek = xcmp[t].seek
  <2>1. xcmp[t] \in Inputs /\ pos \in Nat
    BY FieldTypes
  <2> DEFINE y == [xcmp[t] EXCEPT !.at = pos, !.end = TRUE]
  <2>2. /\ y.kind = xcmp[t].kind /\ y.left = xcmp[t].left
        /\ y.at = pos /\ y.end = TRUE /\ y.seek = xcmp[t].seek
    BY <2>1, InputEnd
  <2>3. xcmp'[t] = y
    BY <1>1
  <2> HIDE DEF y
  <2> QED BY <1>3, <2>2, <2>3
<1>5. Compressed(t)' /\ ~Seeking(t)'
  BY <1>1, <1>2, <1>4 DEF Compressed, Seeking
<1>6. NextEntry(t)' = NextEntry(t) /\ NextOff(t)' = NextOff(t)
  BY <1>1, <1>2, <1>3, <1>4, <1>5 DEF NextEntry, NextOff
<1>7. InputOK(file, pos, xcmp[t])'
  <2>1. pos \notin DOMAIN file
    <3>1. DOMAIN file = 1 .. Len(file) /\ Len(file) \in Nat
      BY FileShape, FieldTypes
    <3> QED BY <1>1, <3>1, FieldTypes
  <2>2. ~(xcmp'[t].seek.start > 0)
    BY <1>1, <1>4 DEF Seeking
  <2> QED BY <1>1, <1>2, <1>4, <2>1, <2>2 DEF InputOK
<1>8. StartOK(t)' /\ StatusOK(t)'
  BY <1>1, <1>2, <1>5 DEF Good, StartOK, StatusOK
<1>9. KindOK(t)'
  BY <1>1, <1>2, <1>4, <1>5 DEF Good, KindOK
<1>10. PlaceOK(t)'
  <2>1. Behindhand(t)' = Behindhand(t)
    BY <1>2, <1>6 DEF Behindhand
  <2> QED BY <1>1, <1>2, <1>6, <2>1 DEF Good, PlaceOK, StatusOK
<1>11. StepOK(t)' /\ LockOK(t)'
  BY <1>1, <1>2, <1>5 DEF Good, StepOK, LockOK
<1> QED BY <1>2, <1>7, <1>8, <1>9, <1>10, <1>11 DEF Good

LEMMA ReadRawGood ==
  ASSUME TypeOK, NEW t \in Readers, Good(t), ReadRaw(t)
  PROVE  Good(t)'
<1>1. pc[t] = "source" /\ op[t] = "read" /\ ~Compressed(t)
  BY DEF ReadRaw, Good, StepOK
<1>2. UNCHANGED <<file, statusBits, op, target, newcmp, status, xcmp, mutexLock, nextStart, last,
                  marks, due, fault>>
  BY DEF ReadRaw, sharedVars, privateVars, traceVars
<1>3. /\ ~Seeking(t) /\ Drained(t) /\ nextStart[t] = 0
      /\ NextEntry(t) = pos /\ NextOff(t) = 0
  BY <1>1, SourcePlace DEF Drained
<1>4. /\ file \in Files /\ DOMAIN file = 1 .. Len(file) /\ Len(file) \in Nat
      /\ pos \in Nat /\ pos > 0
  BY FieldTypes, FileShape
<1>5. CASE pos > Len(file)
  <2>1. pos' = pos /\ item' = item /\ pc'[t] = "eof"
    BY <1>5 DEF ReadRaw, Goto, TypeOK
  <2>2. Tame(t)
    BY <1>2, <2>1 DEF Tame, Steady, SameInput, Good
  <2>3. Compressed(t)' = Compressed(t) /\ NextEntry(t)' = NextEntry(t)
    BY <2>2, SteadyPlace DEF Tame
  <2>4. StatusOK(t)'
    BY <1>1, <1>2, <2>1, <2>3 DEF Good, StatusOK
  <2>5. KindOK(t)'
    BY <1>1, <1>2, <2>1, <2>2, <2>3, TamePlace DEF Good, KindOK
  <2>6. PlaceOK(t)'
    BY <1>1, <2>1, <2>2, TamePlace DEF PlaceOK
  <2>7. StepOK(t)' /\ LockOK(t)'
    BY <1>1, <1>2, <1>3, <1>5, <2>1, <2>3 DEF Good, StepOK, LockOK
  <2> QED BY <2>2, <2>4, <2>5, <2>6, <2>7, TamePlace DEF Good
<1>6. CASE ~(pos > Len(file))
  <2>1. pos' = pos + 1 /\ item'[t] = file[pos].items[1] /\ pc'[t] = "parse"
    BY <1>6 DEF ReadRaw, Goto, TypeOK
  <2>2. pos \in DOMAIN file /\ pos' - 1 = pos
    BY <1>4, <1>6, <2>1
  <2>3. 1 \in DOMAIN file[pos].items
    BY <1>4, <2>2, FileShape
  <2>4. ~Compressed(t)' /\ ~Seeking(t)'
    BY <1>1, <1>2, <1>3 DEF Compressed, Seeking
  <2>5. ItemOK(t)'
    <3>1. ItemEntry(t)' = pos /\ ItemIndex(t)' = 1
      BY <2>2, <2>4 DEF ItemEntry, ItemIndex
    <3>2. statusBits = InForce(file, pos) /\ (Alone => due[t] = 1 + Cardinality(Before(file, pos, 0)))
      BY <1>1, <1>3 DEF Good, PlaceOK, Behindhand
    <3>3. last[t].start = pos /\ last[t].off = 0 /\ last[t].status = status[t]
      BY <1>1, <1>3 DEF Good, StepOK
    <3>4. 1 - 1 = 0
      OBVIOUS
    <3> QED BY <1>2, <1>3, <2>1, <2>2, <2>3, <2>4, <3>1, <3>2, <3>3, <3>4 DEF ItemOK
  <2>6. InputOK(file, pos, xcmp[t])'
    <3>1. xcmp[t].at = 0 /\ ~xcmp[t].end /\ 0 \notin DOMAIN file
      BY <1>1, <1>4 DEF Good, KindOK
    <3>2. xcmp[t].left = << >> /\ ~(xcmp[t].seek.start > 0)
      BY <1>3, <3>1 DEF Good, InputOK, Seeking
    <3> QED BY <1>2, <3>1, <3>2 DEF InputOK
  <2>7. StartOK(t)' /\ StatusOK(t)'
    BY <1>1, <1>2, <1>3, <2>1, <2>4 DEF Good, StartOK, StatusOK
  <2>8. KindOK(t)'
    BY <1>1, <1>2, <1>3, <2>1, <2>4 DEF Good, KindOK
  <2>9. PlaceOK(t)' /\ LockOK(t)'
    BY <1>1, <1>2, <2>1, <2>4 DEF Good, PlaceOK, LockOK, Compressed
  <2>10. StepOK(t)'
    BY <1>1, <1>2, <2>1, <2>5 DEF StepOK
  <2> QED BY <1>2, <2>6, <2>7, <2>8, <2>9, <2>10 DEF Good
<1> QED BY <1>5, <1>6

\* The item that was read, and what comes after it.
LEMMA ParsePlace ==
  ASSUME TypeOK, NEW t \in Readers, Good(t), pc[t] = "parse"
  PROVE  LET e == ItemEntry(t)
             i == ItemIndex(t)
         IN /\ e \in DOMAIN file /\ i \in DOMAIN file[e].items
            /\ e \in Nat /\ i \in Nat /\ item[t] = file[e].items[i]
            /\ statusBits = InForce(file, e) /\ status[t] = statusBits
            /\ (Alone => due[t] = 1 + Cardinality(Before(file, e, i - 1)))
            /\ NextEntry(t) = (IF i = Len(file[e].items) THEN e + 1 ELSE e)
            /\ NextOff(t) = (IF i = Len(file[e].items) THEN 0 ELSE i)
            /\ i = Len(file[e].items) => Drained(t)
            /\ ~Compressed(t) => i = Len(file[e].items)
            /\ Compressed(t) => file[e].kind # "none"
<1> DEFINE e == ItemEntry(t)
           i == ItemIndex(t)
<1>1. ItemOK(t) /\ status[t] = statusBits /\ status[t].cmp # Codecs
  BY DEF Good, StepOK, StatusOK
<1>2. /\ e \in DOMAIN file /\ i \in DOMAIN file[e].items /\ item[t] = file[e].items[i]
      /\ statusBits = InForce(file, e) /\ (Alone => due[t] = 1 + Cardinality(Before(file, e, i - 1)))
      /\ IF Compressed(t) THEN ~Seeking(t) ELSE nextStart[t] = 0
  BY <1>1 DEF ItemOK
<1> HIDE DEF e, i
<1>3. /\ file \in Files /\ DOMAIN file = 1 .. Len(file) /\ Len(file) \in Nat
      /\ file[e].items \in Seq(Items)
      /\ Len(file[e].items) \in Nat /\ DOMAIN file[e].items = 1 .. Len(file[e].items)
      /\ file[e].kind = "none" => Len(file[e].items) = 1
  BY <1>2, FieldTypes, FileShape
<1>4. e \in Nat /\ i \in Nat
  BY <1>2, <1>3
<1>5. file[e].kind = "none" <=> ~Compressed(t)
  <2>1. file[e].kind = KindOf(status[t].cmp)
    BY <1>1, <1>2, <1>3, FileForce
  <2> QED BY <1>1, <2>1, FieldTypes, KindTypes DEF Compressed
<1>6. CASE Compressed(t)
  <2>1. /\ e = xcmp[t].at /\ i = xcmp[t].off /\ ~Seeking(t)
        /\ pos = e + 1 /\ xcmp[t].left = From(file[e].items, i)
    BY <1>2, <1>6 DEF Good, InputOK, ItemEntry, ItemIndex, e, i
  <2>2. i \in 0 .. Len(file[e].items)
    BY <1>2, <1>3
  <2>3. xcmp[t].left # << >> <=> i < Len(file[e].items)
    BY <1>3, <2>1, <2>2, FromEmpty
  <2>4. i = Len(file[e].items) <=> ~(i < Len(file[e].items))
    BY <1>3, <2>2
  <2>5. /\ NextEntry(t) = (IF i = Len(file[e].items) THEN e + 1 ELSE e)
        /\ NextOff(t) = (IF i = Len(file[e].items) THEN 0 ELSE i)
        /\ i = Len(file[e].items) => Drained(t)
    BY <1>6, <2>1, <2>3, <2>4 DEF NextEntry, NextOff, Drained
  <2> QED BY <1>1, <1>2, <1>4, <1>5, <1>6, <2>5 DEF e, i
<1>7. CASE ~Compressed(t)
  <2>1. e = pos - 1 /\ i = 1 /\ nextStart[t] = 0
    BY <1>2, <1>7 DEF ItemEntry, ItemIndex, e, i
  <2>2. pos = e + 1 /\ i = Len(file[e].items)
    BY <1>3, <1>5, <1>7, <2>1, FieldTypes
  <2>3. NextEntry(t) = e + 1 /\ NextOff(t) = 0 /\ Drained(t)
    BY <1>7, <2>1, <2>2 DEF NextEntry, NextOff, Drained
  <2> QED BY <1>1, <1>2, <1>4, <1>5, <1>7, <2>2, <2>3 DEF e, i
<1> QED BY <1>6, <1>7

LEMMA TokenGood ==
  ASSUME TypeOK, NEW t \in Readers, Good(t), Token(t)
  PROVE  Good(t)'
<1> DEFINE e == ItemEntry(t)
           i == ItemIndex(t)
<1>1. /\ pc[t] = "parse" /\ item[t].tok /\ statusBits' = item[t].bits
      /\ pc'[t] = "update" /\ op[t] = "read"
  BY DEF Token, Goto, TypeOK, Good, StepOK
<1>2. UNCHANGED <<file, pos, op, item, target, newcmp, status, xcmp, mutexLock, nextStart, last,
                  marks, due, fault>>
  BY DEF Token, sourceVars, callVars, privateVars, traceVars
<1>3. /\ e \in DOMAIN file /\ i \in DOMAIN file[e].items /\ item[t] = file[e].items[i]
      /\ (Alone => due[t] = 1 + Cardinality(Before(file, e, i - 1)))
      /\ NextEntry(t) = (IF i = Len(file[e].items) THEN e + 1 ELSE e)
      /\ NextOff(t) = (IF i = Len(file[e].items) THEN 0 ELSE i)
      /\ i = Len(file[e].items) => Drained(t)
      /\ Compressed(t) => file[e].kind # "none"
  BY <1>1, ParsePlace
<1> HIDE DEF e, i
<1>4. /\ i = Len(file[e].items) /\ statusBits' = InForce(file, e + 1)
      /\ statusBits'.cmp # Codecs /\ (file[e].kind # "none" => statusBits'.cmp # {})
  BY <1>1, <1>3, FieldTypes, FileForce
<1>5. Before(file, e + 1, 0) = Before(file, e, i - 1)
  <2>1. Before(file, e + 1, 0) = Before(file, e, i)
    BY <1>3, <1>4, FieldTypes, BeforeEntry
  <2>2. Before(file, e, i) = Before(file, e, i - 1)
    BY <1>1, <1>3, FieldTypes, BeforeToken
  <2> QED BY <2>1, <2>2
<1>6. Steady(t)
  BY <1>2 DEF Steady, SameInput
<1>7. /\ InputOK(file, pos, xcmp[t])' /\ StartOK(t)' /\ Compressed(t)' = Compressed(t)
      /\ NextEntry(t)' = e + 1 /\ NextOff(t)' = 0 /\ Drained(t)' /\ Seeking(t)' = Seeking(t)
  BY <1>3, <1>4, <1>6, SteadyPlace DEF Good
<1>8. StatusOK(t)'
  BY <1>1, <1>2, <1>3, <1>4, <1>7 DEF Good, StatusOK
<1>9. KindOK(t)'
  BY <1>1, <1>2, <1>7 DEF Good, KindOK
<1>10. PlaceOK(t)'
  <2>1. Behindhand(t)' = Before(file, e, i - 1)
    BY <1>2, <1>5, <1>7 DEF Behindhand
  <2> QED BY <1>2, <1>3, <1>4, <1>7, <2>1 DEF PlaceOK
<1>11. StepOK(t)' /\ LockOK(t)'
  BY <1>1, <1>2, <1>7 DEF Good, StepOK, LockOK
<1> QED BY <1>2, <1>7, <1>8, <1>9, <1>10, <1>11 DEF Good

LEMMA RecordGood ==
  ASSUME TypeOK, NEW t \in Readers, Good(t), Record(t)
  PROVE  Good(t)' /\ (Alone => taken' = [taken EXCEPT ![t] = Append(@, due[t])])
<1> DEFINE e == ItemEntry(t)
           i == ItemIndex(t)
<1>1. /\ pc[t] = "parse" /\ ~item[t].tok /\ due'[t] = item[t].n + 1
      /\ pc'[t] = "unlock" /\ op[t] = "read"
  BY DEF Record, Goto, TypeOK, Good, StepOK
<1>2. UNCHANGED <<file, pos, statusBits, op, item, target, newcmp, status, xcmp, mutexLock,
                  nextStart, last, marks>>
  BY DEF Record, sourceVars, sharedVars, callVars
<1>3. /\ e \in DOMAIN file /\ i \in DOMAIN file[e].items /\ item[t] = file[e].items[i]
      /\ e \in Nat /\ i \in Nat
      /\ statusBits = InForce(file, e) /\ status[t] = statusBits
      /\ (Alone => due[t] = 1 + Cardinality(Before(file, e, i - 1)))
      /\ NextEntry(t) = (IF i = Len(file[e].items) THEN e + 1 ELSE e)
      /\ NextOff(t) = (IF i = Len(file[e].items) THEN 0 ELSE i)
  BY <1>1, ParsePlace
<1>4. last[t].start = e /\ last[t].off = i - 1 /\ last[t].status = status[t]
  BY <1>1 DEF Good, StepOK, ItemOK
<1> HIDE DEF e, i
<1>5. /\ item[t].bits = InForce(file, e)
      /\ i = Len(file[e].items) => item[t].bits = InForce(file, e + 1)
  <2>1. file \in Files
    BY FieldTypes
  <2> QED BY <1>1, <1>3, <2>1, FileForce
<1>6. /\ Cardinality(Before(file, e, i)) = Cardinality(Before(file, e, i - 1)) + 1
      /\ item[t].n = 1 + Cardinality(Before(file, e, i - 1))
  BY <1>1, <1>3, FieldTypes, BeforeRecord
<1>7. (Alone => item[t].n = due[t]) /\ (Alone => due'[t] = 1 + Cardinality(Before(file, e, i)))
  <2>1. Cardinality(Before(file, e, i - 1)) \in Nat
    BY FieldTypes, BeforeType
  <2> QED BY <1>1, <1>3, <1>6, <2>1
<1>8. fault' = "none"
  BY <1>3, <1>5 DEF Record, Good
<1>9. Steady(t)
  BY <1>2 DEF Steady, SameInput
<1>10. /\ InputOK(file, pos, xcmp[t])' /\ StartOK(t)' /\ Compressed(t)' = Compressed(t)
       /\ NextEntry(t)' = NextEntry(t) /\ NextOff(t)' = NextOff(t) /\ Seeking(t)' = Seeking(t)
  BY <1>9, SteadyPlace DEF Good
<1>11. StatusOK(t)'
  BY <1>1, <1>2, <1>3, <1>10 DEF Good, StatusOK
<1>12. KindOK(t)'
  BY <1>1, <1>2, <1>10 DEF Good, KindOK
<1>13. PlaceOK(t)'
  <2>1. Behindhand(t)' = Before(file, e, i) /\ statusBits' = InForce(file', NextEntry(t)')
    <3>1. CASE i = Len(file[e].items)
      <4>1. NextEntry(t)' = e + 1 /\ NextOff(t)' = 0
        BY <1>3, <1>10, <3>1
      <4>2. Before(file, e + 1, 0) = Before(file, e, i)
        BY <1>3, <3>1, FieldTypes, BeforeEntry
      <4> QED BY <1>2, <1>3, <1>5, <3>1, <4>1, <4>2 DEF Behindhand
    <3>2. CASE i # Len(file[e].items)
      <4>1. NextEntry(t)' = e /\ NextOff(t)' = i
        BY <1>3, <1>10, <3>2
      <4> QED BY <1>2, <1>3, <4>1 DEF Behindhand
    <3> QED BY <3>1, <3>2
  <2> QED BY <1>1, <1>2, <1>3, <1>7, <2>1 DEF PlaceOK
<1>14. StepOK(t)' /\ LockOK(t)'
  <2> DEFINE y == [last[t] EXCEPT !.n = item[t].n]
  <2>1. y \in Positions /\ y.start = e /\ y.off = i - 1 /\ y.status = status[t]
        /\ y.n = item[t].n
    <3>1. last[t] \in Positions /\ item[t].n \in Nat
      BY FieldTypes
    <3> HIDE DEF y
    <3>2. y \in Positions /\ y.start = last[t].start /\ y.off = last[t].off
          /\ y.status = last[t].status /\ y.n = item[t].n
      BY <3>1 DEF Positions, y
    <3> QED BY <1>4, <3>2
  <2> HIDE DEF y
  <2>2. y.off + 1 = i
    BY <1>3, <2>1
  <2>3. MarkOK(file, y)
    BY <1>1, <1>3, <2>1, <2>2 DEF MarkOK
  <2> QED BY <1>1, <1>2, <1>10, <2>3 DEF Good, StepOK, LockOK, y
<1>15. Alone => taken' = [taken EXCEPT ![t] = Append(@, due[t])]
  BY <1>7 DEF Record
<1> QED BY <1>2, <1>8, <1>10, <1>11, <1>12, <1>13, <1>14, <1>15 DEF Good

----------------------------------------------------------------------------
(* The invariant is inductive.                                              *)

LEMMA AloneInit ==
  ASSUME Init
  PROVE  AloneInv
<1>1. TypeOK
  <2>1. DefaultStatus \in Status /\ NoPosition \in Positions /\ NoInput \in Inputs
        /\ NoItem \in Items /\ << >> \in Seq(Nat)
    BY DefaultTypes
  <2> QED BY <2>1 DEF Init, TypeOK, Labels
<1>2. ASSUME NEW t \in Readers  PROVE Good(t)
  <2>1. /\ pos = 1 /\ statusBits = DefaultStatus /\ pc[t] = "idle" /\ op[t] = "none"
        /\ status[t] = DefaultStatus /\ xcmp[t] = NoInput /\ mutexLock[t] = 0
        /\ nextStart[t] = 0 /\ marks[t] = {} /\ due[t] = 1 /\ file \in Files /\ fault = "none"
    BY DEF Init
  <2>2. /\ xcmp[t].left = << >> /\ xcmp[t].at = 0 /\ ~xcmp[t].end
        /\ xcmp[t].seek.start = 0 /\ xcmp[t].kind = "none"
    BY <2>1 DEF NoInput, NoPosition
  <2>3. DefaultStatus.cmp = {} /\ {} # Codecs /\ KindOf({}) = "none"
    BY DEF DefaultStatus, Codecs, KindOf
  <2>4. ~Compressed(t) /\ ~Seeking(t) /\ NextEntry(t) = 1 /\ NextOff(t) = 0
    BY <2>1, <2>2, <2>3 DEF Compressed, Seeking, NextEntry, NextOff
  <2>5. InputOK(file, pos, xcmp[t])
    <3>1. 0 \notin DOMAIN file
      <4>1. DOMAIN file = 1 .. Len(file)
        BY <2>1, FileShape
      <4> QED BY <4>1
    <3> QED BY <2>2, <3>1 DEF InputOK
  <2>6. StartOK(t) /\ StatusOK(t) /\ KindOK(t) /\ StepOK(t) /\ LockOK(t)
    BY <2>1, <2>2, <2>3, <2>4 DEF StartOK, StatusOK, KindOK, StepOK, LockOK
  <2>7. PlaceOK(t)
    <3>1. Cardinality(Behindhand(t)) = 0
      BY <2>1, <2>4, BeforeStart DEF Behindhand
    <3>2. statusBits = InForce(file, NextEntry(t))
      BY <2>1, <2>4 DEF InForce
    <3> QED BY <2>1, <3>1, <3>2 DEF PlaceOK
  <2> QED BY <2>1, <2>5, <2>6, <2>7 DEF Good
<1> QED BY <1>1, <1>2 DEF AloneInv, Init

\* No item is taken from beyond the end of a block.
LEMMA AloneHead ==
  ASSUME AloneInv, NEW t \in Readers
  PROVE  HeadSafe(t)
<1>1. SUFFICES ASSUME pc[t] = "head", Compressed(t), Seeking(t), InsideBlock(t)
               PROVE  xcmp[t].seek.off - xcmp[t].off < Len(xcmp[t].left)
  BY DEF HeadSafe
<1> QED BY <1>1, HeadBlockPlace DEF AloneInv

LEMMA AloneStep ==
  ASSUME AloneInv, Alone, ~MayLeave, [Next]_vars
  PROVE  AloneInv'
<1>1. TypeOK /\ \A t \in Readers : Good(t)
  BY DEF AloneInv
<1>2. TypeOK'
  BY <1>1, AloneHead, TypeStep
<1>3. CASE UNCHANGED vars
  <2>1. fault' = fault /\ \A t \in Readers : Good(t)' = Good(t)
    BY <1>3 DEF vars, sourceVars, sharedVars, callVars, privateVars, traceVars, boundVars,
       Good, MarkOK, InputOK, StartOK, StatusOK, KindOK, PlaceOK, StepOK, LockOK,
       Behindhand, NextEntry, NextOff, Drained, Seeking, InsideBlock, Compressed, ItemOK,
       ItemEntry, ItemIndex
  <2> QED BY <1>1, <1>2, <2>1 DEF AloneInv
<1>4. CASE Next
  <2>1. PICK t \in Readers : Call(t) \/ (fault = "none" /\ Acquire(t)) \/ Proceed(t)
    BY <1>4 DEF Next
  <2>2. Good(t)'
    BY <1>1, <2>1, ReadCallGood, SkipCallGood, SeekCallGood, LockSourceGood, LockLendGood,
       UpdateGood, ReconfigureGood, BuildGood, AdoptGood, HeadRawGood, HeadBlockGood,
       HeadFetchGood, HeadEndGood, FetchLockGood, FetchBlockGood, FetchNothingGood,
       ReadRawGood, MisreadNever, TokenGood, RecordGood, UnlockGood, EofGood, SeekUnlockGood,
       SeatGood DEF Call, Acquire, Proceed
  <2>3. \A u \in Readers : u = t
    BY DEF Alone
  <2>4. \A u \in Readers : Good(u)'
    BY <2>2, <2>3
  <2>5. fault' = "none"
    BY <2>2 DEF Good
  <2> QED BY <1>2, <2>4, <2>5 DEF AloneInv
<1> QED BY <1>3, <1>4

LEMMA AloneAlways ==
  Alone /\ ~MayLeave => (Spec => []AloneInv)
<1> SUFFICES ASSUME Alone, ~MayLeave  PROVE Spec => []AloneInv
  OBVIOUS
<1>1. Init => AloneInv
  BY AloneInit
<1>2. AloneInv /\ [Next]_vars => AloneInv'
  BY AloneStep
<1> QED BY <1>1, <1>2, PTL DEF Spec

----------------------------------------------------------------------------
(* The theorems.                                                            *)

\* The variables of a stream read by one thread keep their types: no read goes
\* beyond the end of a block, no matter where setPosition sent it.
THEOREM AloneTypes ==
  Alone /\ ~MayLeave => (Spec => []TypeOK)
<1>1. AloneInv => TypeOK
  BY DEF AloneInv
<1> QED BY <1>1, AloneAlways, PTL

\* It never loses the record boundaries.
THEOREM AloneNotGarbled ==
  Alone /\ ~MayLeave => (Spec => []NotGarbled)
<1>1. AloneInv => NotGarbled
  BY DEF AloneInv, NotGarbled
<1> QED BY <1>1, AloneAlways, PTL

\* It never goes through the decompressor pointer while it is null, though
\* neither lock_streambufs nor unlock_streambufs looks.
THEOREM AloneNoCrash ==
  Alone /\ ~MayLeave => (Spec => []NoCrash)
<1>1. AloneInv => NoCrash
  BY DEF AloneInv, NoCrash
<1> QED BY <1>1, AloneAlways, PTL

\* It gets the records of the file one after the other, without a gap and
\* through any changes of compression, and after setPosition the one that was
\* read where getPosition had been asked.
THEOREM AloneReadsInOrder ==
  Alone /\ ~MayLeave => (Spec => ReadsInOrder)
<1> DEFINE A == \A t \in Readers : taken'[t] # taken[t] => taken'[t] = Append(taken[t], due[t])
<1> SUFFICES ASSUME Alone, ~MayLeave  PROVE Spec => ReadsInOrder
  OBVIOUS
<1>1. AloneInv /\ [Next]_vars => [A]_vars
  <2> SUFFICES ASSUME AloneInv, Next  PROVE A
    OBVIOUS
  <2>1. PICK t \in Readers : Call(t) \/ (fault = "none" /\ Acquire(t)) \/ Proceed(t)
    BY DEF Next
  <2>2. TypeOK /\ Good(t) /\ taken \in [Readers -> Seq(Nat)]
    BY DEF AloneInv, TypeOK
  <2>3. CASE Record(t)
    BY <2>2, <2>3, RecordGood
  <2>4. CASE ~Record(t)
    <3>1. taken' = taken
      BY <2>1, <2>4 DEF Call, Acquire, Proceed, traceVars, ReadCall, SkipCall, SeekCall, LockSource,
         LockLend, Update, Reconfigure, Build, Adopt, HeadRaw, HeadBlock, HeadFetch, HeadEnd,
         FetchLock, FetchBlock, FetchNothing, ReadRaw, Misread, Token, Unlock, Eof, SeekUnlock, Seat
    <3> QED BY <3>1
  <2> QED BY <2>3, <2>4
<1> QED BY <1>1, AloneAlways, PTL DEF Spec, ReadsInOrder

\* It is told of the end only when there is no record left for it.
THEOREM AloneEofAtEnd ==
  Alone /\ ~MayLeave => (Spec => EofAtEnd)
<1> DEFINE A == \A t \in Readers : pc[t] = "eof" /\ pc'[t] = "idle" => due[t] > RecordCount
<1> SUFFICES ASSUME Alone, ~MayLeave  PROVE Spec => EofAtEnd
  OBVIOUS
<1>1. AloneInv /\ [Next]_vars => [A]_vars
  <2> SUFFICES ASSUME AloneInv, NEW t \in Readers, pc[t] = "eof"  PROVE due[t] > RecordCount
    OBVIOUS
  <2>1. TypeOK /\ Good(t)
    BY DEF AloneInv
  <2>2. NextEntry(t) > Len(file) /\ due[t] = 1 + Cardinality(Behindhand(t))
    BY <2>1 DEF Good, StepOK, PlaceOK
  <2>3. NextEntry(t) \in Nat /\ file \in Files
    BY <2>1, FieldTypes DEF NextEntry
  <2>4. Behindhand(t) = RecordsOf(file)
    BY <2>2, <2>3, BeforeAll DEF Behindhand
  <2>5. Cardinality(Behindhand(t)) \in Nat
    BY <2>3, BeforeType DEF Behindhand
  <2> QED BY <2>2, <2>4, <2>5 DEF RecordCount
<1> QED BY <1>1, AloneAlways, PTL DEF Spec, EofAtEnd
================================================================================
