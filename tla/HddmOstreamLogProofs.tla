------------------------- MODULE HddmOstreamLogProofs --------------------------
(***************************************************************************)
(* The output stream implements RecordLog and conserves records as long as *)
(* nobody changes the configuration while another thread is in a call (the *)
(* disciplines "open" and "quiet"): for any number of threads, records and *)
(* settings, blocks of any size, and compression on or off.                *)
(*                                                                         *)
(* Under "free" it does neither: a thread that adopts the shared word      *)
(* between the fetch_and and the fetch_or of a setter is left with a       *)
(* compressor its private status does not tell of, and at its next change  *)
(* configure_streambufs overwrites that compressor, its open block with it.*)
(*                                                                         *)
(* The log of the sink is computed by recursive functions over sequences,  *)
(* so the module starts with an induction over the natural numbers that is *)
(* stated for a set instead of a predicate.  It follows from the minimal   *)
(* elements of sets of natural numbers.                                    *)
(***************************************************************************)
EXTENDS HddmOstreamLog, HddmOstreamProofs, WellFoundedInduction, FiniteSetTheorems

----------------------------------------------------------------------------
(* Induction and folds.                                                     *)

\* Induction over the natural numbers for a set.
LEMMA NatSetInduction ==
  ASSUME NEW S, 0 \in S, \A n \in Nat : n \in S => n + 1 \in S
  PROVE  Nat \subseteq S
<1> DEFINE R == OpToRel(<, Nat)
           T == Nat \ S
<1>1. IsWellFoundedOn(R, Nat)
  BY NatLessThanWellFounded
<1>2. SUFFICES ASSUME T # {} PROVE FALSE
  OBVIOUS
<1>3. PICK x \in T : \A y \in T : ~ (<<y, x>> \in R)
  <2> HIDE DEF R, T
  <2>1. T \subseteq Nat
    BY DEF T
  <2> QED BY <1>1, <1>2, <2>1, WFMin
<1>4. \A y \in T : ~(y < x)
  BY <1>3 DEF OpToRel
<1>5. x # 0 /\ x - 1 \in Nat
  OBVIOUS
<1>6. x - 1 \in S
  BY <1>4, <1>5
<1> QED BY <1>5, <1>6

\* The same up to a bound.
LEMMA IntervalInduction ==
  ASSUME NEW n \in Nat, NEW S, 0 \in S, \A i \in 0 .. n - 1 : i \in S => i + 1 \in S
  PROVE  0 .. n \subseteq S
<1> DEFINE T == S \cup {i \in Nat : i > n}
<1>1. 0 \in T
  OBVIOUS
<1>2. \A i \in Nat : i \in T => i + 1 \in T
  OBVIOUS
<1>3. Nat \subseteq T
  <2> HIDE DEF T
  <2> QED BY <1>1, <1>2, NatSetInduction
<1> QED BY <1>3

\* n steps from the value v0, every intermediate value in V.
Foldable(V, v0, n, step) ==
  \E f \in [0 .. n -> V] : f[0] = v0 /\ \A i \in 1 .. n : f[i] = step[i][f[i - 1]]

\* A sequence of steps from a first value can be carried out.
LEMMA FoldExists ==
  ASSUME NEW V, NEW v0 \in V, NEW n \in Nat, NEW step \in [1 .. n -> [V -> V]]
  PROVE  Foldable(V, v0, n, step)
<1> DEFINE Folds(m, f) == f[0] = v0 /\ \A i \in 1 .. m : f[i] = step[i][f[i - 1]]
           S == {m \in 0 .. n : \E f \in [0 .. m -> V] : Folds(m, f)}
<1>1. 0 \in S
  <2> DEFINE f == [i \in 0 .. 0 |-> v0]
  <2>1. f[0] = v0 /\ \A i \in 1 .. 0 : f[i] = step[i][f[i - 1]]
    OBVIOUS
  <2>2. f \in [0 .. 0 -> V] /\ 0 \in 0 .. n
    OBVIOUS
  <2>3. Folds(0, f)
    BY <2>1
  <2> HIDE DEF f, Folds
  <2> QED BY <2>2, <2>3
<1>2. ASSUME NEW m \in 0 .. n - 1, m \in S PROVE m + 1 \in S
  <2>1. PICK f \in [0 .. m -> V] : Folds(m, f)
    BY <1>2
  <2> DEFINE g == [i \in 0 .. m + 1 |-> IF i = m + 1 THEN step[m + 1][f[m]] ELSE f[i]]
  <2>2. f[m] \in V /\ m + 1 \in 1 .. n
    OBVIOUS
  <2>3. step[m + 1][f[m]] \in V
    BY <2>2
  <2>4. g \in [0 .. m + 1 -> V]
    BY <2>3
  <2>5. g[0] = v0
    BY <2>1
  <2>6. \A i \in 1 .. m + 1 : g[i] = step[i][g[i - 1]]
    <3> SUFFICES ASSUME NEW i \in 1 .. m + 1 PROVE g[i] = step[i][g[i - 1]]
      OBVIOUS
    <3>1. g[i - 1] = f[i - 1]
      OBVIOUS
    <3>2. CASE i = m + 1
      BY <3>1, <3>2
    <3>3. CASE i # m + 1
      BY <2>1, <3>1, <3>3
    <3> QED BY <3>2, <3>3
  <2> HIDE DEF g
  <2>7. Folds(m + 1, g)
    BY <2>5, <2>6
  <2> QED BY <2>2, <2>4, <2>7
<1>3. n \in S
  <2> HIDE DEF S
  <2>1. \A i \in 0 .. n - 1 : i \in S => i + 1 \in S
    BY <1>2
  <2>2. 0 .. n \subseteq S
    BY <1>1, <2>1, IntervalInduction
  <2> QED BY <2>2
<1> QED BY <1>3 DEF Foldable

\* Two functions that start alike and go on alike are alike.
LEMMA StepsAgree ==
  ASSUME NEW n \in Nat, NEW f, NEW g, f[0] = g[0],
         \A i \in 0 .. n - 1 : f[i] = g[i] => f[i + 1] = g[i + 1]
  PROVE  \A i \in 0 .. n : f[i] = g[i]
<1> DEFINE S == {i \in 0 .. n : f[i] = g[i]}
<1>1. 0 \in S
  OBVIOUS
<1>2. \A i \in 0 .. n - 1 : i \in S => i + 1 \in S
  OBVIOUS
<1>3. 0 .. n \subseteq S
  <2> HIDE DEF S
  <2> QED BY <1>1, <1>2, IntervalInduction
<1> QED BY <1>3

----------------------------------------------------------------------------
(* The log of a sequence of items, and of a sequence of entries.            *)

Entries == Threads \X Nat

\* What an item adds to a log.
Add(log, i) == IF i.tok THEN log ELSE Append(log, <<i.by, i.n>>)

LEMMA AddType ==
  ASSUME NEW log \in Seq(Entries), NEW i \in Item PROVE Add(log, i) \in Seq(Entries)
<1>1. <<i.by, i.n>> \in Entries
  BY DEF Item, Entries
<1> QED BY <1>1 DEF Add

\* AsLog, step by step.
LEMMA AsLogFold ==
  ASSUME NEW items \in Seq(Item)
  PROVE  \E f \in [0 .. Len(items) -> Seq(Entries)] :
           /\ f[0] = << >>
           /\ \A i \in 1 .. Len(items) : f[i] = Add(f[i - 1], items[i])
           /\ AsLog(items) = f[Len(items)]
<1> DEFINE n == Len(items)
           V == Seq(Entries)
           step == [i \in 1 .. n |-> [l \in V |-> Add(l, items[i])]]
<1>1. n \in Nat /\ << >> \in V /\ \A i \in 1 .. n : items[i] \in Item
  OBVIOUS
<1>2. step \in [1 .. n -> [V -> V]]
  BY <1>1, AddType
<1>3. PICK f \in [0 .. n -> V] :
             f[0] = << >> /\ \A i \in 1 .. n : f[i] = step[i][f[i - 1]]
  <2> DEFINE v0 == << >>
  <2>1. n \in Nat /\ v0 \in V
    BY <1>1
  <2> HIDE DEF V, n, step, v0
  <2>2. Foldable(V, v0, n, step)
    BY <1>2, <2>1, FoldExists
  <2> QED BY <2>2 DEF Foldable, v0
<1>4. \A i \in 1 .. n : f[i] = Add(f[i - 1], items[i])
  <2> TAKE i \in 1 .. n
  <2>1. i - 1 \in 0 .. n
    BY <1>1
  <2>2. f[i - 1] \in V
    BY <2>1
  <2> QED BY <1>3, <2>2
<1> DEFINE Body(g) ==
             [i \in 0 .. n |->
                IF i = 0 THEN << >>
                ELSE IF items[i].tok THEN g[i - 1]
                ELSE Append(g[i - 1], <<items[i].by, items[i].n>>)]
           g == CHOOSE h : h = Body(h)
<1>5. f = Body(f)
  <2>1. ASSUME NEW i \in 0 .. n PROVE f[i] = Body(f)[i]
    <3>1. CASE i = 0
      BY <1>3, <3>1
    <3>2. CASE i # 0
      <4>1. i \in 1 .. n
        BY <1>1, <3>2
      <4>2. f[i] = Add(f[i - 1], items[i])
        BY <1>4, <4>1
      <4> QED BY <3>2, <4>2 DEF Add
    <3> QED BY <3>1, <3>2
  <2>2. \A i \in 0 .. n : f[i] = Body(f)[i]
    BY <2>1
  <2>3. DOMAIN Body(f) = 0 .. n /\ Body(f) = [i \in 0 .. n |-> Body(f)[i]]
    OBVIOUS
  <2>4. f = [i \in 0 .. n |-> f[i]]
    BY <1>3
  <2> HIDE DEF Body
  <2> QED BY <2>2, <2>3, <2>4
<1>6. g = Body(g)
  <2> HIDE DEF Body
  <2> QED BY <1>5
<1>7. AsLog(items) = g[n]
  BY DEF AsLog
<1>8. \A i \in 0 .. n : f[i] = g[i]
  <2> DEFINE b == Body(g)
  <2>1. b[0] = << >> /\ \A i \in 0 .. n - 1 : b[i + 1] = Add(g[i], items[i + 1])
    <3> HIDE DEF g, step, V
    <3>1. 0 \in 0 .. n
      BY <1>1
    <3>2. ASSUME NEW i \in 0 .. n - 1 PROVE b[i + 1] = Add(g[i], items[i + 1])
      <4>1. i + 1 \in 0 .. n /\ i + 1 # 0 /\ (i + 1) - 1 = i
        BY <1>1
      <4> DEFINE j == i + 1
      <4>2. b[j] = IF items[j].tok THEN g[j - 1]
                   ELSE Append(g[j - 1], <<items[j].by, items[j].n>>)
        <5> HIDE DEF j
        <5> QED BY <4>1 DEF j
      <4> HIDE DEF b
      <4> QED BY <4>1, <4>2 DEF Add
    <3> QED BY <3>1, <3>2
  <2>2. g[0] = << >> /\ \A i \in 0 .. n - 1 : g[i + 1] = Add(g[i], items[i + 1])
    <3> HIDE DEF b, g
    <3> QED BY <1>6, <2>1 DEF b
  <2>3. \A i \in 0 .. n - 1 : f[i + 1] = Add(f[i], items[i + 1])
    <3> HIDE DEF n, g, step, V
    <3> TAKE i \in 0 .. n - 1
    <3>1. i + 1 \in 1 .. n /\ (i + 1) - 1 = i
      BY <1>1
    <3> QED BY <1>4, <3>1
  <2> HIDE DEF g, n, V, b
  <2>4. \A i \in 0 .. n - 1 : f[i] = g[i] => f[i + 1] = g[i + 1]
    BY <2>2, <2>3
  <2>5. f[0] = g[0]
    BY <1>3, <2>2
  <2> QED BY <1>1, <2>4, <2>5, StepsAgree
<1> HIDE DEF g
<1>9. AsLog(items) = f[n]
  BY <1>1, <1>7, <1>8
<1> QED BY <1>3, <1>4, <1>9

LEMMA AsLogEmpty == AsLog(<< >>) = << >>
<1>1. << >> \in Seq(Item) /\ Len(<< >>) = 0
  OBVIOUS
<1> QED BY <1>1, AsLogFold

LEMMA AsLogAppend ==
  ASSUME NEW items \in Seq(Item), NEW x \in Item
  PROVE  /\ AsLog(items) \in Seq(Entries)
         /\ AsLog(Append(items, x)) = Add(AsLog(items), x)
<1> DEFINE n == Len(items)
           more == Append(items, x)
<1>1. n \in Nat /\ more \in Seq(Item) /\ Len(more) = n + 1
  OBVIOUS
<1>2. more[n + 1] = x /\ \A i \in 1 .. n : more[i] = items[i]
  OBVIOUS
<1>3. PICK f \in [0 .. n -> Seq(Entries)] :
             /\ f[0] = << >>
             /\ \A i \in 1 .. n : f[i] = Add(f[i - 1], items[i])
             /\ AsLog(items) = f[n]
  BY AsLogFold
<1> HIDE DEF more
<1>4. PICK g \in [0 .. n + 1 -> Seq(Entries)] :
             /\ g[0] = << >>
             /\ \A i \in 1 .. n + 1 : g[i] = Add(g[i - 1], more[i])
             /\ AsLog(more) = g[n + 1]
  BY <1>1, AsLogFold
<1> HIDE DEF n
<1>5. ASSUME NEW i \in 0 .. n - 1, f[i] = g[i] PROVE f[i + 1] = g[i + 1]
  <2>1. i + 1 \in 1 .. n /\ i + 1 \in 1 .. n + 1 /\ (i + 1) - 1 = i
    BY <1>1
  <2> QED BY <1>2, <1>3, <1>4, <1>5, <2>1
<1>6. f[n] = g[n]
  <2>1. n \in Nat /\ f[0] = g[0] /\ \A i \in 0 .. n - 1 : f[i] = g[i] => f[i + 1] = g[i + 1]
    BY <1>1, <1>3, <1>4, <1>5
  <2>2. \A i \in 0 .. n : f[i] = g[i]
    BY <2>1, StepsAgree
  <2> QED BY <1>1, <2>2
<1>7. g[n + 1] = Add(g[n], x)
  <2>1. n + 1 \in 1 .. n + 1 /\ (n + 1) - 1 = n
    BY <1>1
  <2> QED BY <1>2, <1>4, <2>1
<1> QED BY <1>1, <1>3, <1>4, <1>6, <1>7 DEF more

\* A record alone, and a token alone.
LEMMA AsLogOne ==
  ASSUME NEW x \in Item
  PROVE  AsLog(<<x>>) = IF x.tok THEN << >> ELSE <<<<x.by, x.n>>>>
<1>1. << >> \in Seq(Item) /\ <<x>> = Append(<< >>, x)
  OBVIOUS
<1>2. AsLog(<<x>>) = Add(<< >>, x)
  BY <1>1, AsLogAppend, AsLogEmpty
<1> QED BY <1>2 DEF Add

\* FlattenSeq, step by step.
LEMMA FlattenFold ==
  ASSUME NEW S, NEW seqs \in Seq(Seq(S))
  PROVE  \E f \in [0 .. Len(seqs) -> Seq(S)] :
           /\ f[0] = << >>
           /\ \A i \in 1 .. Len(seqs) : f[i] = f[i - 1] \o seqs[i]
           /\ FlattenSeq(seqs) = f[Len(seqs)]
<1> DEFINE n == Len(seqs)
           V == Seq(S)
           step == [i \in 1 .. n |-> [l \in V |-> l \o seqs[i]]]
<1>1. n \in Nat /\ << >> \in V /\ \A i \in 1 .. n : seqs[i] \in V
  OBVIOUS
<1>2. step \in [1 .. n -> [V -> V]]
  BY <1>1
<1>3. PICK f \in [0 .. n -> V] :
             f[0] = << >> /\ \A i \in 1 .. n : f[i] = step[i][f[i - 1]]
  <2> DEFINE v0 == << >>
  <2>1. n \in Nat /\ v0 \in V
    BY <1>1
  <2> HIDE DEF V, n, step, v0
  <2>2. Foldable(V, v0, n, step)
    BY <1>2, <2>1, FoldExists
  <2> QED BY <2>2 DEF Foldable, v0
<1>4. \A i \in 1 .. n : f[i] = f[i - 1] \o seqs[i]
  <2> TAKE i \in 1 .. n
  <2>1. i - 1 \in 0 .. n
    BY <1>1
  <2>2. f[i - 1] \in V
    BY <2>1
  <2> QED BY <1>3, <2>2
<1>5. CASE n = 0
  <2>1. seqs = << >>
    BY <1>5
  <2>2. FlattenSeq(seqs) = seqs
    BY <1>5 DEF FlattenSeq
  <2> QED BY <1>3, <1>4, <1>5, <2>1, <2>2
<1>6. CASE n # 0
  <2> DEFINE Body(h) ==
               [i \in 1 .. n |-> IF i = 1 THEN seqs[i] ELSE h[i - 1] \o seqs[i]]
             g == CHOOSE h : h = Body(h)
             e == [i \in 1 .. n |-> f[i]]
  <2>1. FlattenSeq(seqs) = g[n]
    BY <1>6 DEF FlattenSeq
  <2>2. f[1] = seqs[1]
    <3>1. 1 \in 1 .. n /\ 1 - 1 = 0
      BY <1>1, <1>6
    <3>2. seqs[1] \in Seq(S)
      BY <1>1, <3>1
    <3> DEFINE s1 == seqs[1]
    <3>3. f[1] = << >> \o s1
      BY <1>3, <1>4, <3>1
    <3>4. s1 \in Seq(S)
      BY <3>2
    <3> HIDE DEF s1
    <3>5. f[1] = s1
      BY <3>3, <3>4
    <3> QED BY <3>5 DEF s1
  <2>3. e = Body(e)
    <3>1. \A i \in 1 .. n : e[i] = Body(e)[i]
      <4> TAKE i \in 1 .. n
      <4>1. CASE i = 1
        BY <2>2, <4>1
      <4>2. CASE i # 1
        <5>1. i - 1 \in 1 .. n
          BY <1>1, <4>2
        <5> QED BY <1>4, <4>2, <5>1
      <4> QED BY <4>1, <4>2
    <3> QED BY <3>1
  <2>4. g = Body(g)
    <3> HIDE DEF Body, e
    <3> QED BY <2>3
  <2> DEFINE b == Body(g)
             g0 == [i \in 0 .. n |-> IF i = 0 THEN << >> ELSE g[i]]
  <2>5. b[1] = seqs[1] /\ \A i \in 1 .. n - 1 : b[i + 1] = g[i] \o seqs[i + 1]
    <3> HIDE DEF g
    <3>1. 1 \in 1 .. n
      BY <1>1, <1>6
    <3>2. ASSUME NEW i \in 1 .. n - 1 PROVE b[i + 1] = g[i] \o seqs[i + 1]
      <4>1. i + 1 \in 1 .. n /\ i + 1 # 1 /\ (i + 1) - 1 = i
        BY <1>1
      <4> QED BY <4>1
    <3> QED BY <3>1, <3>2
  <2>6. g[1] = seqs[1] /\ \A i \in 1 .. n - 1 : g[i + 1] = g[i] \o seqs[i + 1]
    <3> HIDE DEF b, g
    <3> QED BY <2>4, <2>5 DEF b
  <2> HIDE DEF g, b, n, V, step
  <2>7. ASSUME NEW i \in 0 .. n - 1, f[i] = g0[i] PROVE f[i + 1] = g0[i + 1]
    <3>1. i + 1 \in 1 .. n /\ (i + 1) - 1 = i /\ i \in 0 .. n /\ i + 1 \in 0 .. n
      BY <1>1
    <3>2. f[i + 1] = f[i] \o seqs[i + 1]
      BY <1>4, <3>1
    <3>3. CASE i = 0
      BY <2>2, <2>6, <3>1, <3>3
    <3>4. CASE i # 0
      <4>1. i \in 1 .. n - 1
        BY <1>1, <3>4
      <4>2. g0[i] = g[i] /\ g0[i + 1] = g[i + 1]
        BY <3>1, <4>1
      <4> QED BY <2>6, <2>7, <3>2, <4>1, <4>2
    <3> QED BY <3>3, <3>4
  <2>8. f[0] = g0[0]
    BY <1>1, <1>3
  <2>9. f[n] = g0[n]
    <3> HIDE DEF g0
    <3>1. \A i \in 0 .. n : f[i] = g0[i]
      BY <1>1, <2>7, <2>8, StepsAgree
    <3> QED BY <1>1, <3>1
  <2>10. FlattenSeq(seqs) = f[n]
    BY <1>1, <1>6, <2>1, <2>9
  <2> QED BY <1>3, <1>4, <2>10 DEF n, V
<1> QED BY <1>5, <1>6

LEMMA FlattenEmpty == FlattenSeq(<< >>) = << >>
  BY DEF FlattenSeq

LEMMA FlattenAppend ==
  ASSUME NEW S, NEW seqs \in Seq(Seq(S)), NEW s \in Seq(S)
  PROVE  /\ FlattenSeq(seqs) \in Seq(S)
         /\ FlattenSeq(Append(seqs, s)) = FlattenSeq(seqs) \o s
<1> DEFINE n == Len(seqs)
           more == Append(seqs, s)
<1>1. n \in Nat /\ more \in Seq(Seq(S)) /\ Len(more) = n + 1
  OBVIOUS
<1>2. more[n + 1] = s /\ \A i \in 1 .. n : more[i] = seqs[i]
  OBVIOUS
<1>3. PICK f \in [0 .. n -> Seq(S)] :
             /\ f[0] = << >>
             /\ \A i \in 1 .. n : f[i] = f[i - 1] \o seqs[i]
             /\ FlattenSeq(seqs) = f[n]
  BY FlattenFold
<1> HIDE DEF more
<1>4. PICK g \in [0 .. n + 1 -> Seq(S)] :
             /\ g[0] = << >>
             /\ \A i \in 1 .. n + 1 : g[i] = g[i - 1] \o more[i]
             /\ FlattenSeq(more) = g[n + 1]
  <2> HIDE DEF n
  <2>1. \E g \in [0 .. Len(more) -> Seq(S)] :
           /\ g[0] = << >>
           /\ \A i \in 1 .. Len(more) : g[i] = g[i - 1] \o more[i]
           /\ FlattenSeq(more) = g[Len(more)]
    BY <1>1, FlattenFold
  <2> QED BY <1>1, <2>1
<1> HIDE DEF n
<1>5. ASSUME NEW i \in 0 .. n - 1, f[i] = g[i] PROVE f[i + 1] = g[i + 1]
  <2>1. i + 1 \in 1 .. n /\ i + 1 \in 1 .. n + 1 /\ (i + 1) - 1 = i
    BY <1>1
  <2> QED BY <1>2, <1>3, <1>4, <1>5, <2>1
<1>6. f[n] = g[n]
  <2>1. n \in Nat /\ f[0] = g[0] /\ \A i \in 0 .. n - 1 : f[i] = g[i] => f[i + 1] = g[i + 1]
    BY <1>1, <1>3, <1>4, <1>5
  <2>2. \A i \in 0 .. n : f[i] = g[i]
    BY <2>1, StepsAgree
  <2> QED BY <1>1, <2>2
<1>7. g[n + 1] = g[n] \o s
  <2>1. n + 1 \in 1 .. n + 1 /\ (n + 1) - 1 = n
    BY <1>1
  <2> QED BY <1>2, <1>4, <2>1
<1> QED BY <1>1, <1>3, <1>4, <1>6, <1>7 DEF more

----------------------------------------------------------------------------
(* What the private status tells of the compressor, while nobody sets the   *)
(* configuration behind a thread's back.                                    *)

SetterExcludes ==
  \A t \in Threads : op[t] = "set" => \A u \in Threads \ {t} : op[u] = "none"

\* A private status without compression means that there is no compressor.
Told(t) ==
  /\ pc[t] = "build" \/ Replacing(t) => newcmp[t] = statusBits.cmp
  /\ pc[t] = "adopt" /\ statusBits.cmp = {} => xcmp[t].kind = "none"
  /\ pc[t] # "adopt" /\ status[t].cmp = {} => xcmp[t].kind = "none"

ToldInv == MutexInv /\ SetterExcludes /\ \A t \in Threads : Told(t)

\* Steps that change no configuration and lead neither to a new compressor nor to
\* a new status.
LEMMA ToldKept ==
  ASSUME TypeOK, \A u \in Threads : Told(u), NEW t \in Threads,
         UNCHANGED <<statusBits, status, newcmp>>,
         \A u \in Threads : xcmp'[u].kind = xcmp[u].kind,
         \A u \in Threads \ {t} : pc'[u] = pc[u] /\ why'[u] = why[u],
         pc[t] # "adopt", pc'[t] # "adopt",
         pc'[t] = "build" \/ Replacing(t)' => Replacing(t)
  PROVE  \A u \in Threads : Told(u)'
<1>1. Told(t)'
  BY DEF Told
<1>2. ASSUME NEW u \in Threads \ {t} PROVE Told(u)'
  <2>1. Replacing(u)' <=> Replacing(u)
    BY DEF Replacing
  <2> QED BY <2>1 DEF Told
<1> QED BY <1>1, <1>2

LEMMA ToldStep ==
  ASSUME Discipline # "free", ToldInv, [Next]_vars
  PROVE  ToldInv'
<1> USE DEF Goto, sharedVars, sinkVars, callVars, privateVars, lifeVars
<1> DEFINE Rest == SetterExcludes /\ \A t \in Threads : Told(t)
<1>0. /\ TypeOK /\ SetterExcludes /\ \A t \in Threads : Told(t)
      /\ \A t \in Threads : pc[t] = "idle" <=> op[t] = "none"
      /\ Discipline \in {"open", "quiet"}
  BY DisciplineAssumption DEF ToldInv, MutexInv, PcMatchesOp
<1>1. ASSUME NEW t \in Threads, WriteCall(t) PROVE Rest'
  <2>1. \A u \in Threads \ {t} : op[u] # "set"
    BY <1>0, <1>1 DEF WriteCall, MayWrite
  <2>2. SetterExcludes'
    BY <1>0, <1>1, <2>1 DEF WriteCall, TypeOK, SetterExcludes
  <2>3. \A u \in Threads : Told(u)'
    BY <1>0, <1>1, ToldKept DEF WriteCall, Enter, TypeOK, Replacing
  <2> QED BY <2>2, <2>3
<1>2. ASSUME NEW t \in Threads, NEW w, SetCall(t, w) PROVE Rest'
  <2>1. \A u \in Threads \ {t} : op[u] = "none"
    BY <1>0, <1>2 DEF SetCall, MayConfigure, AloneSoFar, Fresh
  <2>2. \/ UNCHANGED <<op, pc>>
        \/ op' = [op EXCEPT ![t] = "set"] /\ pc' = [pc EXCEPT ![t] = "and"]
    BY <1>2 DEF SetCall
  <2>3. pc[t] = "idle" /\ UNCHANGED <<statusBits, status, newcmp, xcmp, why>>
    BY <1>2 DEF SetCall, Enter
  <2>4. SetterExcludes'
    BY <1>0, <2>1, <2>2 DEF TypeOK, SetterExcludes
  <2>5. \A u \in Threads : Told(u)'
    BY <1>0, <2>2, <2>3, ToldKept DEF TypeOK, Replacing
  <2> QED BY <2>4, <2>5
<1>3. ASSUME NEW t \in Threads, FetchAnd(t) \/ FetchOr(t) \/ FetchRepos(t) PROVE Rest'
  <2>1. /\ pc[t] \in {"and", "or", "repos"} /\ pc'[t] \in {"or", "repos", "token"}
        /\ \A u \in Threads \ {t} : pc'[u] = pc[u]
        /\ UNCHANGED <<op, why, newcmp, status, xcmp>>
    BY <1>0, <1>3 DEF FetchAnd, FetchOr, FetchRepos, TypeOK
  <2>2. op[t] = "set"
    BY <2>1 DEF ToldInv, MutexInv, PcMatchesOp
  <2>3. \A u \in Threads \ {t} : pc[u] = "idle"
    BY <1>0, <2>2 DEF SetterExcludes
  <2>4. \A u \in Threads : Told(u)'
    BY <1>0, <2>1, <2>3 DEF Told, Replacing
  <2> QED BY <1>0, <2>1, <2>4 DEF SetterExcludes
<1>4. ASSUME NEW t \in Threads,
             MakeToken(t) \/ LockSink(t) \/ LockNothing(t) \/ Update(t) \/ PutRaw(t)
               \/ RawDone(t) \/ BlockLock(t) \/ Flush(t)
      PROVE  Rest'
  <2>1. /\ UNCHANGED <<statusBits, status, newcmp, xcmp, op>>
        /\ \A u \in Threads \ {t} : pc'[u] = pc[u] /\ why'[u] = why[u]
        /\ pc[t] # "adopt"
        /\ pc'[t] \notin {"adopt", "build"}
        /\ Replacing(t)' => Replacing(t)
    <3>1. CASE MakeToken(t) \/ LockSink(t) \/ LockNothing(t) \/ Update(t)
      BY <1>0, <3>1 DEF MakeToken, LockSink, LockNothing, Update, AfterLock, AfterUpdate,
                        TypeOK, Replacing
    <3>2. CASE PutRaw(t) \/ RawDone(t) \/ BlockLock(t) \/ Flush(t)
      BY <1>0, <3>2 DEF PutRaw, RawDone, BlockLock, Flush, AfterPut, TypeOK, Replacing
    <3> QED BY <1>4, <3>1, <3>2
  <2>2. \A u \in Threads : Told(u)'
    BY <1>0, <2>1, ToldKept
  <2> QED BY <1>0, <2>1, <2>2 DEF SetterExcludes
<1>5. ASSUME NEW t \in Threads,
             LockLend(t) \/ LockFails(t) \/ PutBlock(t) \/ BlockDone(t) \/ Unlock(t)
      PROVE  Rest'
  <2>1. /\ UNCHANGED <<statusBits, status, newcmp>>
        /\ \A u \in Threads \ {t} : pc'[u] = pc[u] /\ why'[u] = why[u]
        /\ op' = op \/ op' = [op EXCEPT ![t] = "none"]
    <3>1. CASE LockLend(t) \/ LockFails(t)
      BY <1>0, <3>1 DEF LockLend, LockFails, TypeOK
    <3>2. CASE PutBlock(t)
      BY <1>0, <3>2 DEF PutBlock, TypeOK
    <3>3. CASE BlockDone(t) \/ Unlock(t)
      BY <1>0, <3>3 DEF BlockDone, Unlock, TypeOK
    <3> QED BY <1>5, <3>1, <3>2, <3>3
  <2>2. xcmp'[t].kind = xcmp[t].kind /\ \A u \in Threads \ {t} : xcmp'[u] = xcmp[u]
    <3>1. CASE LockLend(t)
      BY <1>0, <3>1 DEF LockLend, TypeOK, Xcmp
    <3>2. CASE LockFails(t)
      BY <1>0, <3>2 DEF LockFails, ReleaseStreambufs, TypeOK, Xcmp
    <3>3. CASE PutBlock(t)
      BY <1>0, <3>3 DEF PutBlock, TypeOK, Xcmp
    <3>4. CASE BlockDone(t)
      BY <1>0, <3>4 DEF BlockDone, TypeOK, Xcmp
    <3>5. CASE Unlock(t)
      BY <1>0, <3>5 DEF Unlock, ReleaseStreambufs, TypeOK, Xcmp
    <3> QED BY <1>5, <3>1, <3>2, <3>3, <3>4, <3>5
  <2>3. \A u \in Threads : xcmp'[u].kind = xcmp[u].kind
    BY <2>2
  <2>4. /\ pc[t] # "adopt" /\ pc'[t] # "adopt"
        /\ pc'[t] = "build" \/ Replacing(t)' => Replacing(t)
    <3>1. CASE LockLend(t) \/ LockFails(t) \/ Unlock(t)
      BY <1>0, <3>1 DEF LockLend, LockFails, Unlock, AfterLock, TypeOK, Replacing
    <3>2. CASE PutBlock(t)
      BY <1>0, <3>2 DEF PutBlock, AfterPut, TypeOK, Replacing
    <3>3. CASE BlockDone(t)
      BY <1>0, <3>3 DEF BlockDone, AfterPut, TypeOK, Replacing
    <3> QED BY <1>5, <3>1, <3>2, <3>3
  <2>5. \A u \in Threads : Told(u)'
    BY <1>0, <2>1, <2>3, <2>4, ToldKept
  <2>6. SetterExcludes'
    BY <1>0, <2>1 DEF TypeOK, SetterExcludes
  <2> QED BY <2>5, <2>6
<1>6. ASSUME NEW t \in Threads, Reconfigure(t) PROVE Rest'
  <2>1. /\ UNCHANGED <<statusBits, status, xcmp, op>>
        /\ pc[t] = "reconf" /\ newcmp'[t] = statusBits.cmp
        /\ \A u \in Threads \ {t} : pc'[u] = pc[u] /\ why'[u] = why[u] /\ newcmp'[u] = newcmp[u]
        /\ pc'[t] = "adopt" => statusBits.cmp = status[t].cmp
    BY <1>0, <1>6 DEF Reconfigure, TypeOK
  <2>2. Told(t)'
    BY <1>0, <2>1 DEF Told
  <2>3. \A u \in Threads \ {t} : Told(u)'
    BY <1>0, <2>1 DEF Told, Replacing
  <2> QED BY <1>0, <2>1, <2>2, <2>3 DEF SetterExcludes
<1>7. ASSUME NEW t \in Threads, Build(t) PROVE Rest'
  <2>1. /\ UNCHANGED <<statusBits, status, why, newcmp>>
        /\ pc[t] = "build" /\ newcmp[t] = statusBits.cmp
        /\ \A u \in Threads \ {t} : pc'[u] = pc[u] /\ xcmp'[u] = xcmp[u]
        /\ op' = op \/ op' = [op EXCEPT ![t] = "none"]
    BY <1>0, <1>7 DEF Build, TypeOK, Told
  <2>2. Told(t)'
    <3>1. CASE newcmp[t] = Codecs
      BY <1>0, <1>7, <2>1, <3>1 DEF Build, TypeOK, Told, Replacing, NoXcmp
    <3>2. CASE newcmp[t] # Codecs
      <4>1. pc'[t] = "adopt" /\ xcmp'[t].kind = KindOf(newcmp[t])
        BY <1>0, <1>7, <3>2 DEF Build, TypeOK, NewXcmp, NoXcmp
      <4> QED BY <2>1, <4>1 DEF Told, Replacing, KindOf
    <3> QED BY <3>1, <3>2
  <2>3. \A u \in Threads \ {t} : Told(u)'
    BY <1>0, <2>1 DEF Told, Replacing
  <2>4. SetterExcludes'
    BY <1>0, <2>1 DEF TypeOK, SetterExcludes
  <2> QED BY <2>2, <2>3, <2>4
<1>8. ASSUME NEW t \in Threads, Adopt(t) PROVE Rest'
  <2>1. /\ UNCHANGED <<statusBits, why, newcmp, xcmp, op>>
        /\ pc[t] = "adopt" /\ pc'[t] \in {"unlock", "put"} /\ status'[t] = statusBits
        /\ \A u \in Threads \ {t} : pc'[u] = pc[u] /\ status'[u] = status[u]
    BY <1>0, <1>8 DEF Adopt, AfterUpdate, TypeOK
  <2>2. Told(t)'
    BY <1>0, <2>1 DEF Told, Replacing
  <2>3. \A u \in Threads \ {t} : Told(u)'
    BY <1>0, <2>1 DEF Told, Replacing
  <2> QED BY <1>0, <2>1, <2>2, <2>3 DEF SetterExcludes
<1>9. ASSUME NEW t \in Threads, CloseThread(t) PROVE Rest'
  <2>1. /\ UNCHANGED <<statusBits, why, newcmp, status, op, pc>>
        /\ \A u \in Threads : xcmp'[u].kind = xcmp[u].kind \/ xcmp'[u].kind = "none"
    BY <1>0, <1>9 DEF CloseThread, TypeOK, NoXcmp
  <2>2. \A u \in Threads : Told(u)'
    BY <1>0, <2>1 DEF Told, Replacing
  <2> QED BY <1>0, <2>1, <2>2 DEF SetterExcludes
<1>10. ASSUME CloseCall \/ CloseDone \/ UNCHANGED vars PROVE Rest'
  <2>1. UNCHANGED <<statusBits, why, newcmp, status, op, pc, xcmp>>
    BY <1>10 DEF CloseCall, CloseDone, vars
  <2> QED BY <1>0, <2>1 DEF SetterExcludes, Told, Replacing
<1>11. Rest'
  BY <1>1, <1>2, <1>3, <1>4, <1>5, <1>6, <1>7, <1>8, <1>9, <1>10
     DEF Next, Call, SetCompressionCall, SetIntegrityCall, Acquire, Proceed, Close
<1>12. MutexInv'
  BY MutexStep DEF ToldInv
<1> QED BY <1>11, <1>12 DEF ToldInv

----------------------------------------------------------------------------
(* What each step does to the records of its thread.                        *)

\* Items of a thread on their way to the sink: the open block of its compressor,
\* or the item it writes without one.
InFlight(t) == IF pc[t] = "raw" THEN <<item[t]>> ELSE xcmp[t].pending
Pending(t) == AsLog(InFlight(t))

\* A thread without a compressor, or one that replaces it, has no open block; its
\* calls write the next record of the thread, and nothing but that.
WritesOK(t) ==
  /\ xcmp[t].kind = "none" \/ pc[t] = "build" => xcmp[t].pending = << >>
  /\ pc[t] = "raw" => xcmp[t].kind = "none"
  /\ op[t] = "write" =>
       /\ ~item[t].tok /\ item[t].by = t /\ item[t].n = written[t] + 1
       /\ pc[t] \in {"block", "emit"} => why[t] # "sync"
  /\ op[t] = "set" /\ pc[t] \in {"lock", "put", "raw"} => item[t].tok

AllWritesOK == \A t \in Threads : WritesOK(t)

LogUntouched(u) ==
  /\ pc'[u] = pc[u] /\ op'[u] = op[u] /\ item'[u] = item[u] /\ why'[u] = why[u]
  /\ written'[u] = written[u] /\ xcmp'[u] = xcmp[u]

\* Seen from the log, a step of a thread changes nothing, accepts a record or
\* delivers what is in flight.
Still(t) == Pending(t)' = Pending(t) /\ HandedOver(t)' = HandedOver(t)
Quiet(t) == UNCHANGED <<sink, phase>> /\ Still(t)
Accepts(t) ==
  /\ UNCHANGED <<sink, phase>> /\ phase = "open"
  /\ HandedOver(t)' = HandedOver(t) + 1
  /\ Pending(t)' = Append(Pending(t), <<t, HandedOver(t) + 1>>)
Delivers(t) ==
  /\ UNCHANGED phase
  /\ HandedOver(t)' = HandedOver(t)
  /\ Pending(t)' = << >>
  /\ SinkLog' = SinkLog \o Pending(t)

Effect(t) == Quiet(t) \/ Accepts(t) \/ Delivers(t)

LEMMA UntouchedStill ==
  ASSUME NEW u \in Threads, LogUntouched(u)
  PROVE  Still(u) /\ (WritesOK(u) => WritesOK(u)')
<1>1. InFlight(u)' = InFlight(u)
  BY DEF LogUntouched, InFlight
<1>2. Pending(u)' = Pending(u)
  BY <1>1 DEF Pending
<1>3. Committed(u)' <=> Committed(u)
  BY DEF LogUntouched, Committed
<1>4. HandedOver(u)' = HandedOver(u)
  BY <1>3 DEF LogUntouched, HandedOver
<1>5. WritesOK(u) => WritesOK(u)'
  BY DEF LogUntouched, WritesOK
<1> QED BY <1>2, <1>4, <1>5 DEF Still

\* The log of the sink when an entry reaches it.
LEMMA SinkLogType ==
  ASSUME TypeOK
  PROVE  /\ SinkLog \in Seq(Entries)
         /\ [i \in DOMAIN sink |-> AsLog(sink[i].items)] \in Seq(Seq(Entries))
<1> DEFINE logs == [i \in 1 .. Len(sink) |-> AsLog(sink[i].items)]
<1>1. Len(sink) \in Nat /\ DOMAIN sink = 1 .. Len(sink)
      /\ \A i \in 1 .. Len(sink) : sink[i].items \in Seq(Item)
  <2>1. sink \in Seq(Entry)
    BY DEF TypeOK, Entry
  <2>2. Len(sink) \in Nat /\ DOMAIN sink = 1 .. Len(sink)
        /\ \A i \in 1 .. Len(sink) : sink[i] \in Entry
    BY <2>1
  <2> QED BY <2>2 DEF Entry
<1>2. \A i \in 1 .. Len(sink) : AsLog(sink[i].items) \in Seq(Entries)
  <2>1. NoItem \in Item
    BY ConstantTypes
  <2> QED BY <1>1, <2>1, AsLogAppend
<1>3. logs \in Seq(Seq(Entries))
  BY <1>1, <1>2
<1> HIDE DEF logs
<1>4. FlattenSeq(logs) \in Seq(Entries)
  <2>1. << >> \in Seq(Entries)
    OBVIOUS
  <2> QED BY <1>3, <2>1, FlattenAppend
<1> QED BY <1>1, <1>3, <1>4 DEF SinkLog, logs

LEMMA EmitLog ==
  ASSUME TypeOK, NEW kind \in Codecs \cup {"none"}, NEW items \in Seq(Item),
         Emit(kind, items)
  PROVE  SinkLog' = SinkLog \o AsLog(items)
<1>1. CASE items = << >>
  <2>1. sink' = sink
    BY <1>1 DEF Emit, sinkVars
  <2>2. SinkLog' = SinkLog
    BY <2>1 DEF SinkLog
  <2>3. SinkLog \in Seq(Entries)
    BY SinkLogType
  <2>4. SinkLog \o << >> = SinkLog
    <3> DEFINE l == SinkLog
    <3>1. l \in Seq(Entries)
      BY <2>3
    <3> HIDE DEF l
    <3>2. l \o << >> = l
      BY <3>1
    <3> QED BY <3>2 DEF l
  <2> QED BY <1>1, <2>2, <2>4, AsLogEmpty
<1>2. CASE items # << >>
  <2> DEFINE entry == [kind |-> kind, items |-> items]
             logs == [i \in DOMAIN sink |-> AsLog(sink[i].items)]
             one == AsLog(items)
  <2>1. sink' = Append(sink, entry)
    BY <1>2 DEF Emit
  <2>2. logs \in Seq(Seq(Entries)) /\ DOMAIN sink = 1 .. Len(sink) /\ Len(sink) \in Nat
    BY SinkLogType DEF TypeOK
  <2>3. one \in Seq(Entries)
    <3>1. NoItem \in Item
      BY ConstantTypes
    <3> QED BY <3>1, AsLogAppend
  <2>4. [i \in DOMAIN sink' |-> AsLog(sink'[i].items)] = Append(logs, one)
    <3> DEFINE n == Len(sink)
               new == Append(sink, entry)
    <3>1. sink \in Seq(Entry)
      BY DEF TypeOK, Entry
    <3>2. entry \in Entry
      BY DEF Entry
    <3>3. entry.items = items
      OBVIOUS
    <3> HIDE DEF entry
    <3>4. DOMAIN new = 1 .. n + 1 /\ new[n + 1] = entry /\ \A i \in 1 .. n : new[i] = sink[i]
      BY <3>1, <3>2
    <3> HIDE DEF new
    <3>5. DOMAIN logs = 1 .. n /\ Len(logs) = n
      BY <2>2
    <3>6. Append(logs, one) = [i \in 1 .. n + 1 |-> IF i = n + 1 THEN one ELSE logs[i]]
      <4> DEFINE X == Seq(Entries)
                 app == Append(logs, one)
      <4>1. logs \in Seq(X) /\ one \in X /\ n \in Nat
        BY <2>2, <2>3
      <4> HIDE DEF logs, one, n, X
      <4>2. app \in Seq(X) /\ Len(app) = n + 1
        BY <3>5, <4>1
      <4>3. \A i \in 1 .. n + 1 : app[i] = IF i = n + 1 THEN one ELSE logs[i]
        BY <3>5, <4>1
      <4>4. app \in [1 .. n + 1 -> X]
        <5> HIDE DEF app
        <5> QED BY <4>2
      <4> HIDE DEF app
      <4>5. app = [i \in 1 .. n + 1 |-> app[i]]
        BY <4>4
      <4>6. app = [i \in 1 .. n + 1 |-> IF i = n + 1 THEN one ELSE logs[i]]
        BY <4>3, <4>5
      <4> QED BY <4>6 DEF app
    <3>7. \A i \in 1 .. n + 1 : AsLog(new[i].items) = IF i = n + 1 THEN one ELSE logs[i]
      <4> TAKE i \in 1 .. n + 1
      <4>1. CASE i = n + 1
        BY <3>3, <3>4, <4>1
      <4>2. CASE i # n + 1
        <5>1. i \in 1 .. n
          BY <2>2, <4>2
        <5> QED BY <2>2, <3>4, <4>2, <5>1
      <4> QED BY <4>1, <4>2
    <3> QED BY <2>1, <3>4, <3>6, <3>7 DEF new
  <2>5. FlattenSeq(Append(logs, one)) = FlattenSeq(logs) \o one
    <3> HIDE DEF logs, one
    <3> QED BY <2>2, <2>3, FlattenAppend
  <2> QED BY <2>4, <2>5 DEF SinkLog
<1> QED BY <1>1, <1>2

\* The sink is left alone, so is its log.
LEMMA SameLog == ASSUME UNCHANGED sink PROVE SinkLog' = SinkLog
  BY DEF SinkLog

\* Every step of a thread leaves the writing of the others alone, keeps its own
\* in order and has one of the three effects.
Works(t) ==
  /\ \A u \in Threads \ {t} : LogUntouched(u)
  /\ WritesOK(t)'
  /\ Effect(t)

\* Steps that concern neither the compressor nor the position in the call.
LEMMA QuietStep ==
  ASSUME NEW t \in Threads, UNCHANGED <<sink, phase, written>>,
         WritesOK(t), InFlight(t)' = InFlight(t), Committed(t)' <=> Committed(t)
  PROVE  Quiet(t)
  BY DEF Quiet, Still, Pending, HandedOver

LEMMA WorkStep ==
  ASSUME MutexInv, MutexInv', AllWritesOK, NEW t \in Threads, Told(t),
         Call(t) \/ Acquire(t) \/ Proceed(t)
  PROVE  Works(t)
<1> USE DEF Goto, sharedVars, sinkVars, callVars, privateVars, lifeVars
<1>0. /\ TypeOK /\ WritesOK(t)
      /\ pc[t] \in {"and", "or", "repos", "token", "flush"} => op[t] = "set"
      /\ pc[t] = "idle" <=> op[t] = "none"
      /\ pc[t] # "idle" => phase = "open"
  BY DEF MutexInv, AllWritesOK, PcMatchesOp, ClosingAlone, TypeOK
<1>1. CASE WriteCall(t)
  <2>1. \A u \in Threads \ {t} : LogUntouched(u)
    BY <1>0, <1>1 DEF WriteCall, TypeOK, LogUntouched
  <2>2. WritesOK(t)'
    BY <1>0, <1>1 DEF WriteCall, Enter, TypeOK, WritesOK
  <2>3. InFlight(t)' = InFlight(t) /\ (Committed(t)' <=> Committed(t))
    BY <1>0, <1>1 DEF WriteCall, Enter, TypeOK, InFlight, Committed
  <2>4. Quiet(t)
    BY <1>0, <1>1, <2>3, QuietStep DEF WriteCall
  <2> QED BY <2>1, <2>2, <2>4 DEF Works, Effect
<1>2. ASSUME NEW w, SetCall(t, w) PROVE Works(t)
  <2>0. \/ UNCHANGED <<op, pc>>
        \/ op' = [op EXCEPT ![t] = "set"] /\ pc' = [pc EXCEPT ![t] = "and"]
    BY <1>2 DEF SetCall
  <2>00. pc[t] = "idle" /\ op[t] = "none" /\ UNCHANGED <<sink, item, why, xcmp, written, phase>>
    BY <1>0, <1>2 DEF SetCall, Enter
  <2>1. \A u \in Threads \ {t} : LogUntouched(u)
    BY <1>0, <2>0, <2>00 DEF TypeOK, LogUntouched
  <2>2. WritesOK(t)'
    BY <1>0, <2>0, <2>00 DEF TypeOK, WritesOK
  <2>3. InFlight(t)' = InFlight(t) /\ (Committed(t)' <=> Committed(t))
    BY <1>0, <2>0, <2>00 DEF TypeOK, InFlight, Committed
  <2>4. Quiet(t)
    BY <1>0, <2>00, <2>3, QuietStep
  <2> QED BY <2>1, <2>2, <2>4 DEF Works, Effect
<1>3. CASE FetchAnd(t)
  <2>1. \A u \in Threads \ {t} : LogUntouched(u)
    BY <1>0, <1>3 DEF FetchAnd, TypeOK, LogUntouched
  <2>2. WritesOK(t)'
    BY <1>0, <1>3 DEF FetchAnd, TypeOK, WritesOK
  <2>3. InFlight(t)' = InFlight(t) /\ (Committed(t)' <=> Committed(t))
    BY <1>0, <1>3 DEF FetchAnd, TypeOK, InFlight, Committed
  <2>4. Quiet(t)
    BY <1>0, <1>3, <2>3, QuietStep DEF FetchAnd
  <2> QED BY <2>1, <2>2, <2>4 DEF Works, Effect
<1>4. CASE FetchOr(t)
  <2>1. \A u \in Threads \ {t} : LogUntouched(u)
    BY <1>0, <1>4 DEF FetchOr, TypeOK, LogUntouched
  <2>2. WritesOK(t)'
    BY <1>0, <1>4 DEF FetchOr, TypeOK, WritesOK
  <2>3. InFlight(t)' = InFlight(t) /\ (Committed(t)' <=> Committed(t))
    BY <1>0, <1>4 DEF FetchOr, TypeOK, InFlight, Committed
  <2>4. Quiet(t)
    BY <1>0, <1>4, <2>3, QuietStep DEF FetchOr
  <2> QED BY <2>1, <2>2, <2>4 DEF Works, Effect
<1>5. CASE FetchRepos(t)
  <2>1. \A u \in Threads \ {t} : LogUntouched(u)
    BY <1>0, <1>5 DEF FetchRepos, TypeOK, LogUntouched
  <2>2. WritesOK(t)'
    BY <1>0, <1>5 DEF FetchRepos, TypeOK, WritesOK
  <2>3. InFlight(t)' = InFlight(t) /\ (Committed(t)' <=> Committed(t))
    BY <1>0, <1>5 DEF FetchRepos, TypeOK, InFlight, Committed
  <2>4. Quiet(t)
    BY <1>0, <1>5, <2>3, QuietStep DEF FetchRepos
  <2> QED BY <2>1, <2>2, <2>4 DEF Works, Effect
<1>6. CASE MakeToken(t)
  <2>1. \A u \in Threads \ {t} : LogUntouched(u)
    BY <1>0, <1>6 DEF MakeToken, TypeOK, LogUntouched
  <2>2. WritesOK(t)'
    BY <1>0, <1>6 DEF MakeToken, TypeOK, WritesOK
  <2>3. InFlight(t)' = InFlight(t) /\ (Committed(t)' <=> Committed(t))
    BY <1>0, <1>6 DEF MakeToken, TypeOK, InFlight, Committed
  <2>4. Quiet(t)
    BY <1>0, <1>6, <2>3, QuietStep DEF MakeToken
  <2> QED BY <2>1, <2>2, <2>4 DEF Works, Effect
<1>7. CASE LockSink(t)
  <2>1. \A u \in Threads \ {t} : LogUntouched(u)
    BY <1>0, <1>7 DEF LockSink, AfterLock, TypeOK, LogUntouched
  <2>2. WritesOK(t)'
    BY <1>0, <1>7 DEF LockSink, AfterLock, TypeOK, WritesOK
  <2>3. InFlight(t)' = InFlight(t) /\ (Committed(t)' <=> Committed(t))
    BY <1>0, <1>7 DEF LockSink, AfterLock, TypeOK, InFlight, Committed
  <2>4. Quiet(t)
    BY <1>0, <1>7, <2>3, QuietStep DEF LockSink, AfterLock
  <2> QED BY <2>1, <2>2, <2>4 DEF Works, Effect
<1>8. CASE LockNothing(t)
  <2>1. \A u \in Threads \ {t} : LogUntouched(u)
    BY <1>0, <1>8 DEF LockNothing, AfterLock, TypeOK, LogUntouched
  <2>2. WritesOK(t)'
    BY <1>0, <1>8 DEF LockNothing, AfterLock, TypeOK, WritesOK
  <2>3. InFlight(t)' = InFlight(t) /\ (Committed(t)' <=> Committed(t))
    BY <1>0, <1>8 DEF LockNothing, AfterLock, TypeOK, InFlight, Committed
  <2>4. Quiet(t)
    BY <1>0, <1>8, <2>3, QuietStep DEF LockNothing, AfterLock
  <2> QED BY <2>1, <2>2, <2>4 DEF Works, Effect
<1>9. CASE LockLend(t)
  <2>1. \A u \in Threads \ {t} : LogUntouched(u)
    BY <1>0, <1>9 DEF LockLend, AfterLock, TypeOK, LogUntouched
  <2>2. /\ pc[t] = "lock" /\ pc'[t] \in {"lock", "put", "update"}
        /\ xcmp'[t].kind = xcmp[t].kind /\ xcmp'[t].pending = xcmp[t].pending
        /\ UNCHANGED <<sink, phase, written, op, item, why>>
    BY <1>0, <1>9 DEF LockLend, AfterLock, TypeOK, Xcmp
  <2>3. WritesOK(t)'
    BY <1>0, <2>2 DEF WritesOK
  <2>4. InFlight(t)' = InFlight(t) /\ (Committed(t)' <=> Committed(t))
    BY <2>2 DEF InFlight, Committed
  <2>5. Quiet(t)
    BY <1>0, <2>2, <2>4, QuietStep
  <2> QED BY <2>1, <2>3, <2>5 DEF Works, Effect
<1>10. CASE LockFails(t)
  <2>1. \A u \in Threads \ {t} : LogUntouched(u)
    BY <1>0, <1>10 DEF LockFails, ReleaseStreambufs, TypeOK, LogUntouched
  <2>2. /\ pc[t] = "lock" /\ pc'[t] = "idle" /\ op'[t] = "none"
        /\ xcmp'[t].kind = xcmp[t].kind /\ xcmp'[t].pending = xcmp[t].pending
        /\ UNCHANGED <<sink, phase, written, item, why>>
    BY <1>0, <1>10 DEF LockFails, ReleaseStreambufs, TypeOK, Xcmp
  <2>3. WritesOK(t)'
    BY <1>0, <2>2 DEF WritesOK
  <2>4. InFlight(t)' = InFlight(t) /\ (Committed(t)' <=> Committed(t))
    BY <2>2 DEF InFlight, Committed
  <2>5. Quiet(t)
    BY <1>0, <2>2, <2>4, QuietStep
  <2> QED BY <2>1, <2>3, <2>5 DEF Works, Effect
<1>11. CASE Update(t)
  <2>1. \A u \in Threads \ {t} : LogUntouched(u)
    BY <1>0, <1>11 DEF Update, AfterUpdate, TypeOK, LogUntouched
  <2>2. WritesOK(t)'
    BY <1>0, <1>11 DEF Update, AfterUpdate, TypeOK, WritesOK
  <2>3. InFlight(t)' = InFlight(t) /\ (Committed(t)' <=> Committed(t))
    BY <1>0, <1>11 DEF Update, AfterUpdate, TypeOK, InFlight, Committed
  <2>4. Quiet(t)
    BY <1>0, <1>11, <2>3, QuietStep DEF Update, AfterUpdate
  <2> QED BY <2>1, <2>2, <2>4 DEF Works, Effect
<1>12. CASE Reconfigure(t)
  <2>1. \A u \in Threads \ {t} : LogUntouched(u)
    BY <1>0, <1>12 DEF Reconfigure, TypeOK, LogUntouched
  <2>2. WritesOK(t)'
    BY <1>0, <1>12 DEF Reconfigure, TypeOK, WritesOK, Told
  <2>3. InFlight(t)' = InFlight(t) /\ (Committed(t)' <=> Committed(t))
    BY <1>0, <1>12 DEF Reconfigure, TypeOK, InFlight, Committed
  <2>4. Quiet(t)
    BY <1>0, <1>12, <2>3, QuietStep DEF Reconfigure
  <2> QED BY <2>1, <2>2, <2>4 DEF Works, Effect
<1>13. CASE Adopt(t)
  <2>1. \A u \in Threads \ {t} : LogUntouched(u)
    BY <1>0, <1>13 DEF Adopt, AfterUpdate, TypeOK, LogUntouched
  <2>2. WritesOK(t)'
    BY <1>0, <1>13 DEF Adopt, AfterUpdate, TypeOK, WritesOK
  <2>3. InFlight(t)' = InFlight(t) /\ (Committed(t)' <=> Committed(t))
    BY <1>0, <1>13 DEF Adopt, AfterUpdate, TypeOK, InFlight, Committed
  <2>4. Quiet(t)
    BY <1>0, <1>13, <2>3, QuietStep DEF Adopt, AfterUpdate
  <2> QED BY <2>1, <2>2, <2>4 DEF Works, Effect
<1>14. CASE BlockLock(t)
  <2>1. \A u \in Threads \ {t} : LogUntouched(u)
    BY <1>0, <1>14 DEF BlockLock, TypeOK, LogUntouched
  <2>2. WritesOK(t)'
    BY <1>0, <1>14 DEF BlockLock, TypeOK, WritesOK
  <2>3. InFlight(t)' = InFlight(t) /\ (Committed(t)' <=> Committed(t))
    BY <1>0, <1>14 DEF BlockLock, TypeOK, InFlight, Committed
  <2>4. Quiet(t)
    BY <1>0, <1>14, <2>3, QuietStep DEF BlockLock
  <2> QED BY <2>1, <2>2, <2>4 DEF Works, Effect
<1>15. CASE Flush(t)
  <2>1. \A u \in Threads \ {t} : LogUntouched(u)
    BY <1>0, <1>15 DEF Flush, TypeOK, LogUntouched
  <2>2. WritesOK(t)'
    BY <1>0, <1>15 DEF Flush, TypeOK, WritesOK
  <2>3. InFlight(t)' = InFlight(t) /\ (Committed(t)' <=> Committed(t))
    BY <1>0, <1>15 DEF Flush, TypeOK, InFlight, Committed
  <2>4. Quiet(t)
    BY <1>0, <1>15, <2>3, QuietStep DEF Flush
  <2> QED BY <2>1, <2>2, <2>4 DEF Works, Effect
<1>16. CASE Build(t)
  <2>1. \A u \in Threads \ {t} : LogUntouched(u)
    BY <1>0, <1>16 DEF Build, TypeOK, LogUntouched
  <2>2. pc[t] = "build" /\ xcmp[t].pending = << >>
    BY <1>0, <1>16 DEF Build, WritesOK
  <2>3. xcmp'[t].pending = << >>
    BY <1>0, <1>16, <2>2 DEF Build, TypeOK, NewXcmp, NoXcmp
  <2>4. pc'[t] \in {"idle", "adopt"} /\ (op'[t] = op[t] \/ op'[t] = "none")
    BY <1>0, <1>16 DEF Build, TypeOK
  <2>5. UNCHANGED <<sink, phase, written, item, why>>
    BY <1>16 DEF Build
  <2>6. WritesOK(t)'
    BY <1>0, <2>3, <2>4, <2>5 DEF WritesOK
  <2>7. InFlight(t)' = InFlight(t)
    BY <2>2, <2>3, <2>4 DEF InFlight
  <2>8. Committed(t)' <=> Committed(t)
    BY <2>2, <2>4 DEF Committed
  <2>9. Quiet(t)
    BY <1>0, <2>5, <2>7, <2>8, QuietStep
  <2> QED BY <2>1, <2>6, <2>9 DEF Works, Effect
<1>17. CASE PutRaw(t)
  <2>1. \A u \in Threads \ {t} : LogUntouched(u)
    BY <1>0, <1>17 DEF PutRaw, TypeOK, LogUntouched
  <2>2. /\ pc[t] = "put" /\ pc'[t] = "raw" /\ op[t] \in {"write", "set"}
        /\ xcmp[t].kind = "none" /\ xcmp[t].pending = << >>
        /\ UNCHANGED <<sink, phase, written, op, xcmp, why>>
        /\ phase = "open"
        /\ item'[t] = Stamped(t)
    BY <1>0, <1>17 DEF PutRaw, TypeOK, WritesOK
  <2>3. /\ item'[t] \in Item /\ item'[t].tok = item[t].tok
        /\ item'[t].by = item[t].by /\ item'[t].n = item[t].n
    BY <1>0, <2>2, StampedType DEF TypeOK, Stamped, Item
  <2>4. WritesOK(t)'
    BY <1>0, <2>2, <2>3 DEF WritesOK
  <2>5. Pending(t) = << >>
    BY <2>2, AsLogEmpty DEF Pending, InFlight
  <2>6. Pending(t)' = IF item[t].tok THEN << >> ELSE <<<<item[t].by, item[t].n>>>>
    <3>1. InFlight(t)' = <<item'[t]>>
      BY <2>2 DEF InFlight
    <3> QED BY <2>3, <3>1, AsLogOne DEF Pending
  <2>7. HandedOver(t) = written[t] /\ written[t] \in Nat
    BY <1>0, <2>2 DEF HandedOver, Committed, TypeOK
  <2>8. CASE op[t] = "write"
    <3>1. HandedOver(t)' = written[t] + 1
      BY <2>2, <2>8 DEF HandedOver, Committed
    <3>2. Pending(t)' = <<<<t, written[t] + 1>>>>
      BY <1>0, <2>6, <2>8 DEF WritesOK
    <3>3. Accepts(t)
      BY <2>2, <2>5, <2>7, <3>1, <3>2 DEF Accepts
    <3> QED BY <2>1, <2>4, <3>3 DEF Works, Effect
  <2>9. CASE op[t] = "set"
    <3>1. HandedOver(t)' = written[t]
      BY <2>2, <2>9 DEF HandedOver, Committed
    <3>2. Pending(t)' = << >>
      BY <1>0, <2>2, <2>6, <2>9 DEF WritesOK
    <3>3. Quiet(t)
      BY <2>2, <2>5, <2>7, <3>1, <3>2 DEF Quiet, Still
    <3> QED BY <2>1, <2>4, <3>3 DEF Works, Effect
  <2> QED BY <2>2, <2>8, <2>9
<1>18. CASE RawDone(t)
  <2>1. \A u \in Threads \ {t} : LogUntouched(u)
    BY <1>0, <1>18 DEF RawDone, TypeOK, LogUntouched
  <2>2. /\ pc[t] = "raw" /\ pc'[t] = AfterPut(t) /\ op[t] \in {"write", "set"}
        /\ xcmp[t].kind = "none" /\ xcmp[t].pending = << >>
        /\ UNCHANGED <<phase, written, op, item, xcmp, why>>
        /\ Emit("none", <<item[t]>>)
    BY <1>0, <1>18 DEF RawDone, TypeOK, WritesOK
  <2>3. WritesOK(t)'
    BY <1>0, <2>2 DEF WritesOK, AfterPut
  <2>4. SinkLog' = SinkLog \o Pending(t)
    <3>1. <<item[t]>> \in Seq(Item)
      BY <1>0 DEF TypeOK
    <3>2. InFlight(t) = <<item[t]>>
      BY <2>2 DEF InFlight
    <3> QED BY <1>0, <2>2, <3>1, <3>2, EmitLog DEF Pending
  <2>5. Pending(t)' = << >>
    <3>1. InFlight(t)' = << >>
      BY <2>2 DEF InFlight, AfterPut
    <3> QED BY <3>1, AsLogEmpty DEF Pending
  <2>6. HandedOver(t)' = HandedOver(t)
    BY <2>2 DEF HandedOver, Committed, AfterPut
  <2>7. Delivers(t)
    BY <2>2, <2>4, <2>5, <2>6 DEF Delivers
  <2> QED BY <2>1, <2>3, <2>7 DEF Works, Effect
<1>19. CASE PutBlock(t)
  <2>1. \A u \in Threads \ {t} : LogUntouched(u)
    BY <1>0, <1>19 DEF PutBlock, TypeOK, LogUntouched
  <2>2. /\ pc[t] = "put" /\ op[t] \in {"write", "set"}
        /\ xcmp[t].kind # "none" /\ phase = "open"
        /\ UNCHANGED <<sink, phase, written, op, item>>
        /\ xcmp'[t].kind = xcmp[t].kind
        /\ xcmp'[t].pending = Append(xcmp[t].pending, Stamped(t))
        /\ \/ pc'[t] = "block" /\ why'[t] = "full"
           \/ pc'[t] = AfterPut(t)
    <3>1. PICK size : 
             /\ xcmp' = [xcmp EXCEPT ![t].pending = Append(@, Stamped(t)),
                                     ![t].offset = @ + size]
             /\ IF xcmp[t].offset + size > BlockLimit[xcmp[t].kind]
                  THEN Goto(t, "block") /\ why' = [why EXCEPT ![t] = "full"]
                  ELSE Goto(t, AfterPut(t)) /\ UNCHANGED why
      BY <1>19 DEF PutBlock
    <3>2. xcmp'[t] = [xcmp[t] EXCEPT !.pending = Append(@, Stamped(t)), !.offset = @ + size]
      BY <1>0, <3>1 DEF TypeOK
    <3>3. xcmp'[t].kind = xcmp[t].kind /\ xcmp'[t].pending = Append(xcmp[t].pending, Stamped(t))
      BY <1>0, <3>2 DEF TypeOK, Xcmp
    <3>4. \/ pc'[t] = "block" /\ why'[t] = "full"
          \/ pc'[t] = AfterPut(t)
      BY <1>0, <3>1 DEF TypeOK
    <3> QED BY <1>0, <1>19, <3>3, <3>4 DEF PutBlock, TypeOK
  <2>3. WritesOK(t)'
    BY <1>0, <2>2 DEF WritesOK, AfterPut
  <2>4. Pending(t) \in Seq(Entries) /\ Pending(t)' = Add(Pending(t), Stamped(t))
    <3>1. InFlight(t) = xcmp[t].pending /\ InFlight(t)' = Append(xcmp[t].pending, Stamped(t))
      BY <2>2 DEF InFlight, AfterPut
    <3>2. xcmp[t].pending \in Seq(Item)
      BY <1>0 DEF TypeOK, Xcmp
    <3>3. Stamped(t) \in Item
      BY <1>0, StampedType
    <3> QED BY <3>1, <3>2, <3>3, AsLogAppend DEF Pending
  <2>5. /\ Stamped(t).tok = item[t].tok
        /\ Stamped(t).by = item[t].by /\ Stamped(t).n = item[t].n
    BY <1>0 DEF TypeOK, Stamped, Item
  <2>6. HandedOver(t) = written[t] /\ written[t] \in Nat
    BY <1>0, <2>2 DEF HandedOver, Committed, TypeOK
  <2>7. CASE op[t] = "write"
    <3>1. HandedOver(t)' = written[t] + 1
      BY <2>2, <2>7 DEF HandedOver, Committed, AfterPut
    <3>2. Pending(t)' = Append(Pending(t), <<t, written[t] + 1>>)
      BY <1>0, <2>4, <2>5, <2>7 DEF WritesOK, Add
    <3>3. Accepts(t)
      BY <2>2, <2>6, <3>1, <3>2 DEF Accepts
    <3> QED BY <2>1, <2>3, <3>3 DEF Works, Effect
  <2>8. CASE op[t] = "set"
    <3>1. HandedOver(t)' = written[t]
      BY <2>2, <2>8 DEF HandedOver, Committed
    <3>2. Pending(t)' = Pending(t)
      BY <1>0, <2>2, <2>4, <2>5, <2>8 DEF WritesOK, Add
    <3>3. Quiet(t)
      BY <2>2, <2>6, <3>1, <3>2 DEF Quiet, Still
    <3> QED BY <2>1, <2>3, <3>3 DEF Works, Effect
  <2> QED BY <2>2, <2>7, <2>8
<1>20. CASE BlockDone(t)
  <2>1. \A u \in Threads \ {t} : LogUntouched(u)
    BY <1>0, <1>20 DEF BlockDone, TypeOK, LogUntouched
  <2>2. /\ pc[t] = "emit" /\ op[t] \in {"write", "set"}
        /\ UNCHANGED <<phase, written, op, item, why>>
        /\ xcmp'[t].kind = xcmp[t].kind /\ xcmp'[t].pending = << >>
        /\ Emit(xcmp[t].kind, xcmp[t].pending)
        /\ why[t] \in {"full", "sync", "drain"}
        /\ pc'[t] = CASE why[t] = "full"  -> AfterPut(t)
                      [] why[t] = "sync"  -> "update"
                      [] why[t] = "drain" -> "build"
    BY <1>0, <1>20 DEF BlockDone, TypeOK, Xcmp
  <2>3. op[t] = "write" => why[t] # "sync"
    BY <1>0, <2>2 DEF WritesOK
  <2>4. WritesOK(t)'
    BY <1>0, <2>2 DEF WritesOK, AfterPut
  <2>5. SinkLog' = SinkLog \o Pending(t)
    <3>1. xcmp[t].pending \in Seq(Item) /\ xcmp[t].kind \in Codecs \cup {"none"}
      BY <1>0 DEF TypeOK, Xcmp
    <3>2. InFlight(t) = xcmp[t].pending
      BY <2>2 DEF InFlight
    <3> QED BY <1>0, <2>2, <3>1, <3>2, EmitLog DEF Pending
  <2>6. Pending(t)' = << >>
    <3>1. InFlight(t)' = << >>
      BY <2>2 DEF InFlight, AfterPut
    <3> QED BY <3>1, AsLogEmpty DEF Pending
  <2>7. HandedOver(t)' = HandedOver(t)
    BY <2>2, <2>3 DEF HandedOver, Committed, AfterPut
  <2>8. Delivers(t)
    BY <2>2, <2>5, <2>6, <2>7 DEF Delivers
  <2> QED BY <2>1, <2>4, <2>8 DEF Works, Effect
<1>21. CASE Unlock(t)
  <2>1. \A u \in Threads \ {t} : LogUntouched(u)
    BY <1>0, <1>21 DEF Unlock, ReleaseStreambufs, TypeOK, LogUntouched
  <2>2. /\ pc[t] = "unlock" /\ pc'[t] = "idle" /\ op'[t] = "none"
        /\ written'[t] = IF op[t] = "write" THEN written[t] + 1 ELSE written[t]
        /\ xcmp'[t].kind = xcmp[t].kind /\ xcmp'[t].pending = xcmp[t].pending
        /\ UNCHANGED <<sink, phase, item, why>>
    BY <1>0, <1>21 DEF Unlock, ReleaseStreambufs, TypeOK, Xcmp
  <2>3. WritesOK(t)'
    BY <1>0, <2>2 DEF WritesOK
  <2>4. InFlight(t)' = InFlight(t)
    BY <2>2 DEF InFlight
  <2>5. HandedOver(t)' = HandedOver(t)
    BY <2>2 DEF HandedOver, Committed
  <2>6. Quiet(t)
    BY <2>2, <2>4, <2>5 DEF Quiet, Still, Pending
  <2> QED BY <2>1, <2>3, <2>6 DEF Works, Effect
<1> QED BY <1>1, <1>2, <1>3, <1>4, <1>5, <1>6, <1>7, <1>8, <1>9, <1>10, <1>11, <1>12,
           <1>13, <1>14, <1>15, <1>16, <1>17, <1>18, <1>19, <1>20, <1>21
       DEF Call, SetCompressionCall, SetIntegrityCall, Acquire, Proceed

\* The destructor closes the open block of one thread.
LEMMA CloseStep ==
  ASSUME MutexInv, AllWritesOK, NEW t \in Threads, CloseThread(t)
  PROVE  Works(t)
<1> USE DEF lifeVars, callVars
<1>0. TypeOK /\ WritesOK(t) /\ pc[t] = "idle"
  BY DEF MutexInv, AllWritesOK, ClosingAlone, CloseThread
<1>1. \A u \in Threads \ {t} : LogUntouched(u)
  BY <1>0 DEF CloseThread, TypeOK, LogUntouched
<1>2. /\ UNCHANGED <<phase, written, op, item, why, pc>>
      /\ xcmp'[t].kind = "none" /\ xcmp'[t].pending = << >>
      /\ Emit(xcmp[t].kind, xcmp[t].pending)
  BY <1>0 DEF CloseThread, TypeOK, NoXcmp
<1>3. WritesOK(t)'
  BY <1>0, <1>2 DEF WritesOK
<1>4. SinkLog' = SinkLog \o Pending(t)
  <2>1. xcmp[t].pending \in Seq(Item) /\ xcmp[t].kind \in Codecs \cup {"none"}
    BY <1>0 DEF TypeOK, Xcmp
  <2>2. InFlight(t) = xcmp[t].pending
    BY <1>0 DEF InFlight
  <2> QED BY <1>0, <1>2, <2>1, <2>2, EmitLog DEF Pending
<1>5. Pending(t)' = << >>
  <2>1. InFlight(t)' = << >>
    BY <1>0, <1>2 DEF InFlight
  <2> QED BY <2>1, AsLogEmpty DEF Pending
<1>6. HandedOver(t)' = HandedOver(t)
  BY <1>2 DEF HandedOver, Committed
<1>7. Delivers(t)
  BY <1>2, <1>4, <1>5, <1>6 DEF Delivers
<1> QED BY <1>1, <1>3, <1>7 DEF Works, Effect

\* So every step of the system is the work of a thread, or leaves the log and the
\* threads alone; only the end of the destructor closes the log.
Rests == UNCHANGED sink /\ \A u \in Threads : LogUntouched(u)

LEMMA StepEffects ==
  ASSUME MutexInv, \A t \in Threads : Told(t), AllWritesOK, [Next]_vars
  PROVE  /\ AllWritesOK'
         /\ \/ \E t \in Threads : Works(t)
            \/ Rests /\ (phase' = "closed" <=> phase = "closed")
            \/ Rests /\ CloseDone
<1>0. MutexInv'
  BY MutexStep
<1>1. ASSUME NEW t \in Threads, Works(t)
      PROVE  AllWritesOK'
  <2>1. \A u \in Threads \ {t} : WritesOK(u)'
    BY <1>1, UntouchedStill DEF AllWritesOK, Works
  <2> QED BY <1>1, <2>1 DEF AllWritesOK, Works
<1>2. ASSUME Rests PROVE AllWritesOK'
  BY <1>2, UntouchedStill DEF AllWritesOK, Rests
<1>3. ASSUME NEW t \in Threads, Call(t) \/ Acquire(t) \/ Proceed(t) PROVE Works(t)
  BY <1>0, <1>3, WorkStep
<1>4. ASSUME CloseCall PROVE Rests /\ (phase' = "closed" <=> phase = "closed")
  BY <1>4 DEF CloseCall, Rests, LogUntouched, sinkVars, callVars, privateVars
<1>5. ASSUME CloseDone PROVE Rests
  BY <1>5 DEF CloseDone, Rests, LogUntouched, sinkVars, callVars, privateVars
<1>6. ASSUME UNCHANGED vars PROVE Rests /\ (phase' = "closed" <=> phase = "closed")
  BY <1>6 DEF vars, Rests, LogUntouched, sinkVars, callVars, privateVars, lifeVars
<1>7. \/ \E t \in Threads : Call(t) \/ Acquire(t) \/ Proceed(t)
      \/ \E t \in Threads : CloseThread(t)
      \/ CloseCall \/ CloseDone \/ UNCHANGED vars
  BY DEF Next, Close
<1>8. \/ \E t \in Threads : Works(t)
      \/ Rests /\ (phase' = "closed" <=> phase = "closed")
      \/ Rests /\ CloseDone
  BY <1>3, <1>4, <1>5, <1>6, <1>7, CloseStep
<1> QED BY <1>1, <1>2, <1>8

----------------------------------------------------------------------------
(* Counting the records of a thread in a log.                               *)

\* Records of writer w among the first i of a log.
Places(log, w, i) == {j \in 1 .. i : log[j][1] = w}
Count(log, w, i) == Cardinality(Places(log, w, i))

\* Each record has the number its place gives it.
InOrder(log) == \A i \in 1 .. Len(log) : log[i][2] = Count(log, log[i][1], i)

\* The k records of w that follow its first d.
Run(w, d, k) == [i \in 1 .. k |-> <<w, d + i>>]

LEMMA CountType ==
  ASSUME NEW log, NEW w, NEW i \in Nat
  PROVE  IsFiniteSet(Places(log, w, i)) /\ Count(log, w, i) \in Nat
<1>1. IsFiniteSet(1 .. i)
  BY FS_Interval
<1>2. Places(log, w, i) \in SUBSET (1 .. i)
  BY DEF Places
<1>3. IsFiniteSet(Places(log, w, i))
  BY <1>1, <1>2, FS_Subset
<1> QED BY <1>3, FS_CardinalityType DEF Count

LEMMA RunType ==
  ASSUME NEW w \in Threads, NEW d \in Nat, NEW k \in Nat
  PROVE  /\ Run(w, d, k) \in Seq(Entries) /\ Len(Run(w, d, k)) = k
         /\ \A i \in 1 .. k : Run(w, d, k)[i] = <<w, d + i>>
  BY DEF Run, Entries

\* A run that is put behind a log leaves the counts in front as they are.
LEMMA CountOld ==
  ASSUME NEW log \in Seq(Entries), NEW more \in Seq(Entries),
         NEW w, NEW i \in 0 .. Len(log)
  PROVE  Count(log \o more, w, i) = Count(log, w, i)
<1>1. \A j \in 1 .. i : (log \o more)[j] = log[j]
  OBVIOUS
<1>2. Places(log \o more, w, i) = Places(log, w, i)
  BY <1>1 DEF Places
<1> QED BY <1>2 DEF Count

\* The first i of k records put behind a log count for their writer only.
CountsRun(log, t, d, k, w, i) ==
  LET count == Count(log \o Run(t, d, k), w, Len(log) + i)
  IN /\ w = t => count = Count(log, w, Len(log)) + i
     /\ w # t => count = Count(log, w, Len(log))

LEMMA CountNew ==
  ASSUME NEW log \in Seq(Entries), NEW t \in Threads, NEW d \in Nat, NEW k \in Nat,
         NEW w, NEW i \in 0 .. k
  PROVE  CountsRun(log, t, d, k, w, i)
<1> DEFINE n == Len(log)
           run == Run(t, d, k)
           all == log \o run
           old == Places(log, w, n)
           new == IF w = t THEN n + 1 .. n + i ELSE {}
<1>1. n \in Nat /\ i \in Nat
  OBVIOUS
<1>2. run \in Seq(Entries) /\ Len(run) = k /\ \A j \in 1 .. k : run[j] = <<t, d + j>>
  BY RunType
<1>3. /\ \A j \in 1 .. n : all[j] = log[j]
      /\ \A j \in n + 1 .. n + i : all[j] = run[j - n]
  <2> HIDE DEF run
  <2> QED BY <1>2
<1>4. \A j \in n + 1 .. n + i : all[j][1] = t
  <2> HIDE DEF run, all
  <2> TAKE j \in n + 1 .. n + i
  <2>1. j - n \in 1 .. k
    BY <1>1
  <2> QED BY <1>2, <1>3, <2>1
<1>5. Places(all, w, n + i) = old \cup new
  <2> HIDE DEF all, n
  <2>1. \A j \in 1 .. n + i : j \in 1 .. n \/ j \in n + 1 .. n + i
    BY <1>1
  <2>2. 1 .. n \subseteq 1 .. n + i /\ n + 1 .. n + i \subseteq 1 .. n + i
    BY <1>1
  <2> QED BY <1>3, <1>4, <2>1, <2>2 DEF Places
<1>6. old \cap new = {}
  <2> HIDE DEF n
  <2> QED BY <1>1 DEF Places
<1>7. IsFiniteSet(old) /\ Cardinality(old) \in Nat
  BY <1>1, CountType DEF Count
<1>8. IsFiniteSet(new) /\ Cardinality(new) = IF w = t THEN i ELSE 0
  <2> HIDE DEF n
  <2>1. IsFiniteSet(n + 1 .. n + i) /\ Cardinality(n + 1 .. n + i) = i
    <3> DEFINE a == n + 1
               b == n + i
    <3>1. a \in Int /\ b \in Int
      BY <1>1
    <3>2. IsFiniteSet(a .. b) /\ Cardinality(a .. b) = IF a > b THEN 0 ELSE b - a + 1
      <4> HIDE DEF a, b
      <4> QED BY <3>1, FS_Interval
    <3>3. (IF a > b THEN 0 ELSE b - a + 1) = i
      BY <1>1
    <3> HIDE DEF a, b
    <3>4. Cardinality(a .. b) = i
      BY <3>2, <3>3
    <3> QED BY <3>2, <3>4 DEF a, b
  <2> QED BY <2>1, FS_EmptySet
<1>9. Cardinality(old \cup new) = Cardinality(old) + Cardinality(new)
  <2> HIDE DEF old, new
  <2>1. Cardinality(old \cup new) =
          Cardinality(old) + Cardinality(new) - Cardinality(old \cap new)
    BY <1>7, <1>8, FS_Union
  <2>2. Cardinality(old \cap new) = 0
    BY <1>6, FS_EmptySet
  <2>3. Cardinality(new) \in Nat
    BY <1>8, FS_CardinalityType
  <2> QED BY <1>7, <2>1, <2>2, <2>3
<1>10. Count(all, w, n + i) = Count(log, w, n) + IF w = t THEN i ELSE 0
  <2> HIDE DEF all, n, new
  <2> QED BY <1>5, <1>8, <1>9 DEF Count
<1> HIDE DEF all, n
<1>11. Count(log, w, n) \in Nat
  BY <1>1, CountType
<1>12. /\ w = t => Count(all, w, n + i) = Count(log, w, n) + i
       /\ w # t => Count(all, w, n + i) = Count(log, w, n)
  BY <1>10, <1>11
<1> QED BY <1>12 DEF CountsRun, all, n, run

\* A log stays in order when the next records of a writer are put behind it.
LEMMA InOrderExtend ==
  ASSUME NEW log \in Seq(Entries), NEW t \in Threads, NEW k \in Nat, InOrder(log)
  PROVE  LET all == log \o Run(t, Count(log, t, Len(log)), k)
         IN /\ InOrder(all) /\ all \in Seq(Entries)
            /\ Len(all) = Len(log) + k
            /\ Count(all, t, Len(all)) = Count(log, t, Len(log)) + k
            /\ \A u \in Threads \ {t} : Count(all, u, Len(all)) = Count(log, u, Len(log))
<1> DEFINE n == Len(log)
           d == Count(log, t, n)
           run == Run(t, d, k)
           all == log \o run
<1>1. n \in Nat /\ d \in Nat
  BY CountType
<1>2. run \in Seq(Entries) /\ Len(run) = k /\ \A j \in 1 .. k : run[j] = <<t, d + j>>
  <2> HIDE DEF d
  <2> QED BY <1>1, RunType
<1>3. /\ all \in Seq(Entries) /\ Len(all) = n + k
      /\ \A j \in 1 .. n : all[j] = log[j]
      /\ \A j \in n + 1 .. n + k : all[j] = run[j - n]
  <2> HIDE DEF run, d
  <2>1. all \in Seq(Entries) /\ Len(all) = n + k
    BY <1>2, SMTT(40)
  <2>2. \A j \in 1 .. n : all[j] = log[j]
    BY <1>2
  <2>3. \A j \in n + 1 .. n + k : all[j] = run[j - n]
    BY <1>2
  <2> QED BY <2>1, <2>2, <2>3
<1>4. ASSUME NEW i \in 0 .. k, NEW w
      PROVE  /\ w = t => Count(all, w, n + i) = Count(log, w, n) + i
             /\ w # t => Count(all, w, n + i) = Count(log, w, n)
  <2> HIDE DEF d
  <2>1. CountsRun(log, t, d, k, w, i)
    BY <1>1, CountNew
  <2> QED BY <2>1 DEF CountsRun
<1>5. ASSUME NEW i \in 1 .. Len(all) PROVE all[i][2] = Count(all, all[i][1], i)
  <2>1. CASE i \in 1 .. n
    <3> DEFINE w == log[i][1]
    <3>1. Count(all, w, i) = Count(log, w, i)
      <4> HIDE DEF run
      <4>1. i \in 0 .. Len(log)
        BY <2>1
      <4> QED BY <1>2, <4>1, CountOld
    <3>2. log[i][2] = Count(log, w, i)
      BY <2>1 DEF InOrder
    <3> QED BY <1>3, <2>1, <3>1, <3>2
  <2>2. CASE i \notin 1 .. n
    <3> DEFINE m == i - n
    <3> HIDE DEF n, all, run, d
    <3>1. m \in 1 .. k /\ m \in 0 .. k /\ i = n + m /\ i \in n + 1 .. n + k
      BY <1>1, <1>3, <2>2
    <3>2. all[i] = <<t, d + m>>
      BY <1>2, <1>3, <3>1
    <3>3. Count(all, t, n + m) = Count(log, t, n) + m
      BY <1>4, <3>1
    <3> QED BY <3>1, <3>2, <3>3 DEF d
  <2> QED BY <2>1, <2>2
<1>6. k \in 0 .. k
  OBVIOUS
<1>7. \A u \in Threads \ {t} : Count(all, u, n + k) = Count(log, u, n)
  <2> HIDE DEF all, n
  <2> QED BY <1>4, <1>6
<1>8. Count(all, t, n + k) = Count(log, t, n) + k
  <2> HIDE DEF all, n
  <2> QED BY <1>4, <1>6
<1>9. InOrder(all)
  BY <1>5 DEF InOrder
<1> HIDE DEF all, n
<1> QED BY <1>3, <1>7, <1>8, <1>9 DEF all, n, run, d

----------------------------------------------------------------------------
(* The invariant: what is in flight continues the log.                      *)

InSinkLog(t) == Count(SinkLog, t, Len(SinkLog))

\* k records of t are in flight, the ones that follow those in the log.
InFlightRun(t, k) ==
  /\ Pending(t) = Run(t, InSinkLog(t), k)
  /\ HandedOver(t) = InSinkLog(t) + k

LogInv == InOrder(SinkLog) /\ \A t \in Threads : \E k \in Nat : InFlightRun(t, k)

WritingInv == ToldInv /\ AllWritesOK /\ LogInv

LEMMA RunEmpty ==
  ASSUME NEW w \in Threads, NEW d \in Nat, NEW k \in Nat
  PROVE  Run(w, d, k) = << >> <=> k = 0
<1>1. ASSUME k = 0 PROVE Run(w, d, k) = << >>
  BY <1>1 DEF Run
<1>2. ASSUME Run(w, d, k) = << >> PROVE k = 0
  <2>1. Len(Run(w, d, k)) = k
    BY RunType
  <2>2. Len(<< >>) = 0
    OBVIOUS
  <2> QED BY <1>2, <2>1, <2>2
<1> QED BY <1>1, <1>2

LEMMA RunAppend ==
  ASSUME NEW w \in Threads, NEW d \in Nat, NEW k \in Nat
  PROVE  Append(Run(w, d, k), <<w, d + k + 1>>) = Run(w, d, k + 1)
<1> DEFINE run == Run(w, d, k)
           app == Append(run, <<w, d + k + 1>>)
<1>1. <<w, d + k + 1>> \in Entries
  BY DEF Entries
<1>2. run \in Seq(Entries) /\ Len(run) = k /\ \A i \in 1 .. k : run[i] = <<w, d + i>>
  BY RunType
<1> HIDE DEF run
<1>3. app \in Seq(Entries) /\ Len(app) = k + 1
  BY <1>1, <1>2
<1>4. \A i \in 1 .. k + 1 : app[i] = <<w, d + i>>
  <2> TAKE i \in 1 .. k + 1
  <2>1. app = Append(run, <<w, d + k + 1>>)
    OBVIOUS
  <2> HIDE DEF app
  <2>2. CASE i = k + 1
    <3> DEFINE e == <<w, d + k + 1>>
    <3>1. e \in Entries /\ app = Append(run, e) /\ e = <<w, d + i>>
      BY <1>1, <2>1, <2>2
    <3> HIDE DEF e
    <3>2. app[i] = e
      BY <1>2, <2>2, <3>1
    <3> QED BY <3>1, <3>2
  <2>3. CASE i # k + 1
    <3>1. i \in 1 .. k
      BY <2>3
    <3>2. app[i] = run[i]
      BY <1>1, <1>2, <2>1, <3>1
    <3> QED BY <1>2, <3>1, <3>2
  <2> QED BY <2>2, <2>3
<1> HIDE DEF app
<1>5. app = [i \in 1 .. k + 1 |-> app[i]]
  BY <1>3
<1>6. app = Run(w, d, k + 1)
  BY <1>4, <1>5 DEF Run
<1> QED BY <1>6 DEF app, run

LEMMA SinkCount ==
  ASSUME TypeOK, NEW t \in Threads
  PROVE  InSinkLog(t) \in Nat /\ Log!Delivered(t) = InSinkLog(t)
<1> DEFINE l == SinkLog
<1>1. l \in Seq(Entries)
  BY SinkLogType
<1>2. Len(l) \in Nat /\ DOMAIN l = 1 .. Len(l)
  <2> HIDE DEF l
  <2> QED BY <1>1
<1>3. Log!Delivered(t) = Cardinality({i \in DOMAIN l : l[i][1] = t})
  BY DEF Log!Delivered, Log!Cardinality, Cardinality
<1>4. Log!Delivered(t) = Count(l, t, Len(l))
  <2> HIDE DEF l
  <2> QED BY <1>2, <1>3 DEF Count, Places
<1>5. Count(l, t, Len(l)) \in Nat
  <2> HIDE DEF l
  <2> QED BY <1>2, CountType
<1> QED BY <1>4, <1>5 DEF InSinkLog

\* Records that are delivered extend the log of the sink.
LEMMA DeliverStep ==
  ASSUME TypeOK, LogInv, NEW t \in Threads, NEW k \in Nat, InFlightRun(t, k),
         SinkLog' = SinkLog \o Pending(t)
  PROVE  /\ InOrder(SinkLog)'
         /\ InSinkLog(t)' = InSinkLog(t) + k
         /\ \A u \in Threads \ {t} : InSinkLog(u)' = InSinkLog(u)
<1> DEFINE l == SinkLog
           all == l \o Run(t, Count(l, t, Len(l)), k)
<1>1. l \in Seq(Entries) /\ InOrder(l)
  BY SinkLogType DEF LogInv
<1>2. /\ InOrder(all)
      /\ Count(all, t, Len(all)) = Count(l, t, Len(l)) + k
      /\ \A u \in Threads \ {t} : Count(all, u, Len(all)) = Count(l, u, Len(l))
  <2> HIDE DEF l
  <2> QED BY <1>1, InOrderExtend
<1>3. SinkLog' = all
  BY DEF InFlightRun, InSinkLog
<1> HIDE DEF all
<1> QED BY <1>2, <1>3 DEF InSinkLog

LEMMA LogStep ==
  ASSUME Discipline # "free", WritingInv, [Next]_vars
  PROVE  WritingInv'
<1>0. ToldInv' /\ AllWritesOK' /\ TypeOK /\ TypeOK'
  BY MutexStep, StepEffects, ToldStep DEF WritingInv, ToldInv, MutexInv
<1>1. ASSUME UNCHANGED sink PROVE InOrder(SinkLog)' /\ \A u \in Threads : InSinkLog(u)' = InSinkLog(u)
  BY <1>1, SameLog DEF WritingInv, LogInv, InSinkLog
<1>2. ASSUME NEW u \in Threads, InSinkLog(u)' = InSinkLog(u), Still(u)
      PROVE  (\E k \in Nat : InFlightRun(u, k))'
  <2>1. PICK k \in Nat : InFlightRun(u, k)
    BY DEF WritingInv, LogInv
  <2>2. InFlightRun(u, k)'
    BY <1>2, <2>1 DEF InFlightRun, Still
  <2> QED BY <2>2
<1>3. ASSUME NEW t \in Threads, Works(t) PROVE LogInv'
  <2>1. \A u \in Threads \ {t} : Still(u)
    BY <1>3, UntouchedStill DEF Works
  <2>2. CASE Quiet(t)
    BY <1>1, <1>2, <2>1, <2>2 DEF Quiet, LogInv
  <2>3. CASE Accepts(t)
    <3>1. InOrder(SinkLog)' /\ \A u \in Threads : InSinkLog(u)' = InSinkLog(u)
      BY <1>1, <2>3 DEF Accepts
    <3>2. PICK k \in Nat : InFlightRun(t, k)
      BY DEF WritingInv, LogInv
    <3>3. InFlightRun(t, k + 1)'
      <4> DEFINE d == InSinkLog(t)
      <4>1. d \in Nat
        BY <1>0, SinkCount
      <4>2. Pending(t) = Run(t, d, k) /\ HandedOver(t) = d + k
        BY <3>2 DEF InFlightRun
      <4>3. HandedOver(t)' = d + k + 1 /\ Pending(t)' = Append(Run(t, d, k), <<t, d + k + 1>>)
        BY <2>3, <4>2 DEF Accepts
      <4> HIDE DEF d
      <4>4. Pending(t)' = Run(t, d, k + 1)
        BY <4>1, <4>3, RunAppend
      <4>5. InSinkLog(t)' = d
        BY <3>1 DEF d
      <4>6. HandedOver(t)' = d + (k + 1)
        BY <4>1, <4>3
      <4> QED BY <4>4, <4>5, <4>6 DEF InFlightRun
    <3>4. (\E m \in Nat : InFlightRun(t, m))'
      <4>1. k + 1 \in Nat
        OBVIOUS
      <4> QED BY <3>3, <4>1
    <3> QED BY <1>2, <2>1, <3>1, <3>4 DEF LogInv
  <2>4. CASE Delivers(t)
    <3>1. PICK k \in Nat : InFlightRun(t, k)
      BY DEF WritingInv, LogInv
    <3>2. /\ InOrder(SinkLog)'
          /\ InSinkLog(t)' = InSinkLog(t) + k
          /\ \A u \in Threads \ {t} : InSinkLog(u)' = InSinkLog(u)
      BY <1>0, <2>4, <3>1, DeliverStep DEF Delivers, WritingInv
    <3>3. InFlightRun(t, 0)'
      <4>1. InSinkLog(t) \in Nat /\ InSinkLog(t)' \in Nat
        <5>1. InSinkLog(t) \in Nat
          BY <1>0, SinkCount
        <5> QED BY <3>2, <5>1
      <4>2. HandedOver(t)' = InSinkLog(t)' + 0
        BY <2>4, <3>1, <3>2, <4>1 DEF Delivers, InFlightRun
      <4>3. Pending(t)' = Run(t, InSinkLog(t)', 0)
        BY <2>4, <4>1, RunEmpty DEF Delivers
      <4> QED BY <4>2, <4>3 DEF InFlightRun
    <3>4. (\E m \in Nat : InFlightRun(t, m))'
      BY <3>3
    <3> QED BY <1>2, <2>1, <3>2, <3>4 DEF LogInv
  <2> QED BY <1>3, <2>2, <2>3, <2>4 DEF Works, Effect
<1>4. ASSUME Rests PROVE LogInv'
  <2>1. \A u \in Threads : Still(u)
    BY <1>4, UntouchedStill DEF Rests
  <2> QED BY <1>1, <1>2, <1>4, <2>1 DEF Rests, LogInv
<1>5. LogInv'
  BY <1>3, <1>4, StepEffects DEF WritingInv, ToldInv
<1> QED BY <1>0, <1>5 DEF WritingInv

LEMMA LogStart ==
  ASSUME Init
  PROVE  WritingInv
<1>1. ToldInv /\ TypeOK
  BY MutexInit DEF ToldInv, MutexInv, SetterExcludes, Told, Replacing, Init, NoXcmp
<1>2. AllWritesOK
  BY DEF Init, AllWritesOK, WritesOK, NoXcmp
<1>3. SinkLog = << >>
  <2>1. [i \in DOMAIN sink |-> AsLog(sink[i].items)] = << >>
    BY DEF Init
  <2> QED BY <2>1, FlattenEmpty DEF SinkLog
<1>4. InOrder(SinkLog)
  BY <1>3 DEF InOrder
<1>5. ASSUME NEW t \in Threads PROVE InFlightRun(t, 0)
  <2>1. InSinkLog(t) = 0
    <3>1. Places(<< >>, t, 0) = {}
      BY DEF Places
    <3> QED BY <1>3, <3>1, FS_EmptySet DEF InSinkLog, Count
  <2>2. Pending(t) = << >>
    BY AsLogEmpty DEF Init, Pending, InFlight, NoXcmp
  <2>3. HandedOver(t) = 0
    BY DEF Init, HandedOver, Committed
  <2>4. Run(t, 0, 0) = << >>
    BY RunEmpty
  <2> QED BY <2>1, <2>2, <2>3, <2>4 DEF InFlightRun
<1> QED BY <1>1, <1>2, <1>4, <1>5 DEF WritingInv, LogInv

\* What is written is in order, at every moment.
LEMMA Writing == ASSUME Discipline # "free" PROVE Spec => []WritingInv
<1>1. Init => WritingInv
  BY LogStart
<1>2. WritingInv /\ [Next]_vars => WritingInv'
  BY LogStep
<1> QED BY <1>1, <1>2, PTL DEF Spec

----------------------------------------------------------------------------
(* The refinement.                                                          *)

LEMMA RefineStep ==
  ASSUME WritingInv, [Next]_vars
  PROVE  [Log!LogNext]_(Log!logVars)
<1>0. TypeOK /\ MutexInv /\ AllWritesOK /\ LogInv /\ \A t \in Threads : Told(t)
  BY DEF WritingInv, ToldInv, MutexInv
<1>1. ASSUME NEW t \in Threads, Works(t) PROVE [Log!LogNext]_(Log!logVars)
  <2>1. \A u \in Threads \ {t} : HandedOver(u)' = HandedOver(u)
    BY <1>1, UntouchedStill DEF Works, Still
  <2>2. CASE Quiet(t)
    <3>1. Accepted' = Accepted /\ SinkLog' = SinkLog /\ phase' = phase
      BY <2>1, <2>2, SameLog DEF Quiet, Still, Accepted
    <3> QED BY <3>1 DEF Log!logVars
  <2>3. CASE Accepts(t)
    <3>1. Accepted' = [Accepted EXCEPT ![t] = @ + 1] /\ SinkLog' = SinkLog
          /\ phase' = phase /\ phase = "open"
      BY <2>1, <2>3, SameLog DEF Accepts, Accepted
    <3>2. Log!Accept(t)
      BY <3>1 DEF Log!Accept
    <3> QED BY <3>2 DEF Log!LogNext
  <2>4. CASE Delivers(t)
    <3>1. Accepted' = Accepted /\ phase' = phase
      BY <2>1, <2>4 DEF Delivers, Accepted
    <3>2. PICK k \in Nat : InFlightRun(t, k)
      BY <1>0 DEF LogInv
    <3> DEFINE d == Log!Delivered(t)
    <3>3. d \in Nat /\ d = InSinkLog(t)
      BY <1>0, SinkCount
    <3>4. Pending(t) = [i \in 1 .. k |-> <<t, d + i>>] /\ Accepted[t] = d + k
      BY <3>2, <3>3 DEF InFlightRun, Run, Accepted
    <3>5. CASE k = 0
      <4>1. Pending(t) = << >>
        BY <3>4, <3>5
      <4> DEFINE l == SinkLog
      <4>2. l \in Seq(Entries) /\ SinkLog' = l \o << >>
        BY <1>0, <2>4, <4>1, SinkLogType DEF Delivers
      <4>3. SinkLog' = SinkLog
        <5>1. SinkLog' = l
          <6> HIDE DEF l
          <6> QED BY <4>2
        <5> QED BY <5>1
      <4> QED BY <3>1, <4>3 DEF Log!logVars
    <3>6. CASE k # 0
      <4>1. k \in 1 .. Accepted[t] - d
        <5> HIDE DEF d
        <5> QED BY <3>3, <3>4, <3>6
      <4>2. SinkLog' = SinkLog \o [i \in 1 .. k |-> <<t, d + i>>]
        BY <2>4, <3>4 DEF Delivers
      <4>3. Log!Deliver(t)
        BY <3>1, <4>1, <4>2 DEF Log!Deliver
      <4> QED BY <4>3 DEF Log!LogNext
    <3> QED BY <3>5, <3>6
  <2> QED BY <1>1, <2>2, <2>3, <2>4 DEF Works, Effect
<1>2. ASSUME Rests PROVE Accepted' = Accepted /\ SinkLog' = SinkLog
  <2>1. \A u \in Threads : HandedOver(u)' = HandedOver(u)
    BY <1>2, UntouchedStill DEF Rests, Still
  <2> QED BY <1>2, <2>1, SameLog DEF Rests, Accepted
<1>3. ASSUME Rests, phase' = "closed" <=> phase = "closed" PROVE [Log!LogNext]_(Log!logVars)
  BY <1>2, <1>3 DEF Log!logVars
<1>4. ASSUME Rests, CloseDone PROVE [Log!LogNext]_(Log!logVars)
  <2>1. phase = "closing" /\ phase' = "closed" /\ \A t \in Threads : pc[t] = "idle" /\ xcmp[t].kind = "none"
    BY <1>0, <1>4 DEF CloseDone, MutexInv, ClosingAlone
  <2>2. ASSUME NEW t \in Threads PROVE Log!Delivered(t) = Accepted[t]
    <3>1. Pending(t) = << >>
      BY <1>0, <2>1, AsLogEmpty DEF AllWritesOK, WritesOK, Pending, InFlight
    <3>2. PICK k \in Nat : InFlightRun(t, k)
      BY <1>0 DEF LogInv
    <3>3. InSinkLog(t) \in Nat /\ Log!Delivered(t) = InSinkLog(t)
      BY <1>0, SinkCount
    <3>4. k = 0
      BY <3>1, <3>2, <3>3, RunEmpty DEF InFlightRun
    <3> QED BY <3>2, <3>3, <3>4 DEF InFlightRun, Accepted
  <2>3. Log!CloseLog
    BY <1>2, <1>4, <2>1, <2>2 DEF Log!CloseLog
  <2> QED BY <2>3 DEF Log!LogNext
<1> QED BY <1>0, <1>1, <1>3, <1>4, StepEffects

\* As long as the configuration is changed by nobody else while a thread is in a
\* call, the stream is a log of the threads' records: each record of an operator<<
\* that is bound to succeed reaches the sink exactly once, behind the earlier ones
\* of its thread, and the destructor leaves none of them in a compressor.  A call
\* that fails with an exception hands over nothing.
THEOREM LogImplemented == ASSUME Discipline # "free" PROVE Spec => ImplementsLog
<1>1. Init => Log!LogInit
  <2> SUFFICES ASSUME Init PROVE Log!LogInit
    OBVIOUS
  <2>1. SinkLog = << >>
    <3>1. [i \in DOMAIN sink |-> AsLog(sink[i].items)] = << >>
      BY DEF Init
    <3> QED BY <3>1, FlattenEmpty DEF SinkLog
  <2>2. Accepted = [t \in Threads |-> 0]
    BY DEF Init, Accepted, HandedOver, Committed
  <2>3. phase # "closed"
    BY DEF Init
  <2> QED BY <2>1, <2>2, <2>3 DEF Log!LogInit
<1>2. WritingInv /\ [Next]_vars => [Log!LogNext]_(Log!logVars)
  BY RefineStep
<1> QED BY <1>1, <1>2, Writing, PTL DEF Spec, ImplementsLog, Log!LogSpec

----------------------------------------------------------------------------
(* Conservation.                                                            *)

LEMMA ConservedHolds ==
  ASSUME WritingInv
  PROVE  Conserved
<1> SUFFICES ASSUME NEW t \in Threads
             PROVE  LET all == SinkLog \o AsLog(xcmp[t].pending)
                        own == {i \in DOMAIN all : all[i][1] = t}
                    IN /\ \A i \in own : all[i][2] = Cardinality({j \in own : j <= i})
                       /\ Cardinality(own) >= written[t]
  BY DEF Conserved
<1> DEFINE l == SinkLog
           d == Count(l, t, Len(l))
           open == AsLog(xcmp[t].pending)
           all == l \o open
           own == {i \in DOMAIN all : all[i][1] = t}
<1>0. TypeOK /\ WritesOK(t) /\ l \in Seq(Entries) /\ InOrder(l)
  BY SinkLogType DEF WritingInv, ToldInv, MutexInv, AllWritesOK, LogInv
<1>1. PICK k \in Nat : InFlightRun(t, k)
  BY DEF WritingInv, LogInv
<1>2. d \in Nat /\ d = InSinkLog(t)
  BY <1>0, SinkCount DEF InSinkLog
<1>3. written[t] \in Nat /\ HandedOver(t) \in {written[t], written[t] + 1}
  BY <1>0 DEF TypeOK, HandedOver
<1>4. \E m \in Nat : open = Run(t, d, m) /\ d + m >= written[t]
  <2>1. CASE pc[t] # "raw"
    <3>1. open = Run(t, d, k) /\ d + k = HandedOver(t)
      BY <1>1, <1>2, <2>1 DEF InFlightRun, Pending, InFlight
    <3> HIDE DEF d, open
    <3>2. d + k >= written[t]
      BY <1>2, <1>3, <3>1
    <3> QED BY <3>1, <3>2
  <2>2. CASE pc[t] = "raw"
    <3>1. open = << >>
      BY <1>0, <2>2, AsLogEmpty DEF WritesOK
    <3>2. open = Run(t, d, 0)
      BY <1>2, <3>1, RunEmpty
    <3>3. Pending(t) = IF item[t].tok THEN << >> ELSE <<<<item[t].by, item[t].n>>>>
      BY <1>0, <2>2, AsLogOne DEF Pending, InFlight, TypeOK
    <3>4. k = Len(Pending(t))
      BY <1>1, <1>2, RunType DEF InFlightRun
    <3>5. HandedOver(t) = d + k
      BY <1>1, <1>2 DEF InFlightRun
    <3>6. d + 0 >= written[t]
      <4>1. CASE op[t] = "write"
        <5>1. HandedOver(t) = written[t] + 1
          BY <2>2, <4>1 DEF HandedOver, Committed
        <5>2. k = 1
          BY <1>0, <3>3, <3>4, <4>1 DEF WritesOK
        <5> HIDE DEF d
        <5> QED BY <1>2, <1>3, <3>5, <5>1, <5>2
      <4>2. CASE op[t] # "write"
        <5>1. op[t] = "set"
          BY <2>2, <4>2 DEF WritingInv, ToldInv, MutexInv, PcMatchesOp, TypeOK
        <5>2. k = 0
          BY <1>0, <2>2, <3>3, <3>4, <5>1 DEF WritesOK
        <5>3. HandedOver(t) = written[t]
          BY <4>2 DEF HandedOver, Committed
        <5> HIDE DEF d
        <5> QED BY <1>2, <1>3, <3>5, <5>2, <5>3
      <4> QED BY <4>1, <4>2
    <3> QED BY <3>2, <3>6
  <2> QED BY <2>1, <2>2
<1>5. PICK m \in Nat : open = Run(t, d, m) /\ d + m >= written[t]
  BY <1>4
<1>6. /\ InOrder(all) /\ all \in Seq(Entries)
      /\ Count(all, t, Len(all)) = d + m
  <2>1. all = l \o Run(t, Count(l, t, Len(l)), m)
    BY <1>5
  <2> HIDE DEF l
  <2>2. LET a == l \o Run(t, Count(l, t, Len(l)), m)
        IN InOrder(a) /\ a \in Seq(Entries) /\ Count(a, t, Len(a)) = Count(l, t, Len(l)) + m
    BY <1>0, InOrderExtend
  <2> HIDE DEF all
  <2> QED BY <2>1, <2>2
<1> HIDE DEF all, d, open, l
<1>7. Len(all) \in Nat /\ DOMAIN all = 1 .. Len(all)
  BY <1>6
<1>8. own = Places(all, t, Len(all))
  BY <1>7 DEF Places
<1>9. Cardinality(own) >= written[t]
  BY <1>5, <1>6, <1>8 DEF Count
<1>10. ASSUME NEW i \in own PROVE all[i][2] = Cardinality({j \in own : j <= i})
  <2>1. i \in 1 .. Len(all) /\ all[i][1] = t
    BY <1>7
  <2>2. {j \in own : j <= i} = Places(all, t, i)
    BY <1>7, <2>1 DEF Places
  <2> QED BY <1>6, <2>1, <2>2 DEF InOrder, Count
<1> QED BY <1>9, <1>10 DEF all, open, l

\* As long as the configuration is changed by nobody else while a thread is in a
\* call, every record of a returned operator<< is in the sink or in the open block
\* of its thread, once and in the order of the calls.
THEOREM LogConserved == ASSUME Discipline # "free" PROVE Spec => []Conserved
<1>1. WritingInv => Conserved
  BY ConservedHolds
<1> QED BY <1>1, Writing, PTL
================================================================================
