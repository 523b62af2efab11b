------------------------- MODULE RemoteStreambufProofs -------------------------
(***************************************************************************)
(* Theorems about RemoteStreambuf, for files of any length, any look-back  *)
(* and read-ahead, and any clients.  Memory safety needs fewer clients     *)
(* than blocks read ahead.                                                 *)
(***************************************************************************)
EXTENDS RemoteStreambuf, SequenceTheorems, FiniteSetTheorems, TLAPS

----------------------------------------------------------------------------
(* The invariant behind the properties.                                     *)

\* A client that waits has advanced buffer_index_, and so has the end each time it
\* was met: what remains is the place in the deque, from 0, of the block handed
\* out last.
Waiting == IF caller = Nobody THEN 0 ELSE 1
Ends == Cardinality(ended) + (IF peeked THEN 1 ELSE 0)
AtEnd == peeked \/ ended # {}
Current == index - Ends - Waiting

\* The deque holds consecutive blocks of the file.
Consecutive(dq) == \A i \in DOMAIN dq : dq[i].at = dq[1].at + i - 1

\* The blocks up to n are those whose threads were joined.
JoinedUpTo(dq, n) == \A i \in DOMAIN dq : dq[i].reader <=> i > n

\* The stream while its clients read it: Readahead blocks lie from the current
\* one on, and the end stays the end.
OpenShape ==
  /\ Current \in 0 .. Lookback
  /\ Len(deque) = Current + Readahead
  /\ Consecutive(deque)
  /\ JoinedUpTo(deque, Current + 1 + Ends)
  /\ caller \notin ended
  /\ index <= Len(deque)
  /\ caller # Nobody => index < Len(deque)
  /\ area # -1 => area = deque[Current + 1].at
  /\ AtEnd => ~HasData(deque[1].at + Current + 1)

\* The deque while it exists: only its threads run, and the get area is in it.
HeldShape ==
  /\ fills \subseteq Started(deque)
  /\ area # -1 => area \in Places(deque)
  /\ Len(deque) <= Lookback + Readahead

MemoryInv ==
  /\ RemoteTypeOK
  /\ IsFiniteSet(ended)
  /\ phase = "new" => caller = Nobody /\ ~AtEnd
  /\ phase = "open" => OpenShape
  /\ phase = "closing" => caller = Nobody
  /\ phase \in {"open", "closing"} => HeldShape

\* The blocks handed out are those up to the current one, and none of an empty
\* file.
Delivered ==
  IF source.blocks = 0 THEN deque[1].at + Current = 0 /\ served = << >>
                       ELSE Len(served) = deque[1].at + Current + 1

OrderInv ==
  /\ MemoryInv
  /\ RemoteInOrder
  /\ phase = "new" => served = << >>
  /\ phase = "open" => Delivered

----------------------------------------------------------------------------
(* The operators on the deque.                                              *)

LEMMA TupleIsSeq ==
  ASSUME NEW S, NEW n \in Nat, NEW f \in [1 .. n -> S]
  PROVE  f \in Seq(S) /\ Len(f) = n
OBVIOUS

\* advance() keeps the blocks it finds and appends blocks with running threads
\* until Readahead of them lie from the current one on.
LEMMA AdvanceGrows ==
  ASSUME NEW dq \in Seq(Block), NEW ix \in Nat, Len(dq) > 0,
         Readahead - (Len(dq) - ix) \in Nat
  PROVE  /\ Advance(dq, ix) \in Seq(Block)
         /\ Len(Advance(dq, ix)) = ix + Readahead
         /\ \A i \in 1 .. ix + Readahead :
              Advance(dq, ix)[i] =
                IF i <= Len(dq) THEN dq[i]
                ELSE [at |-> dq[Len(dq)].at + (i - Len(dq)), reader |-> TRUE]
<1> DEFINE k == Readahead - (Len(dq) - ix)
           new == [i \in 1 .. k |-> [at |-> Last(dq).at + i, reader |-> TRUE]]
<1>1. Len(dq) \in Nat /\ dq[Len(dq)] \in Block
  BY ElementOfSeq, LenProperties
<1>2. Readahead \in Nat
  BY RemoteAssumption
<1>3. \A i \in 1 .. k : new[i] \in Block
  BY <1>1 DEF Last, Block
<1>4. new \in [1 .. k -> Block]
  BY <1>3
<1>5. new \in Seq(Block) /\ Len(new) = k
  <2>1. k \in Nat
    OBVIOUS
  <2> HIDE DEF k, new
  <2> QED BY <1>4, <2>1, TupleIsSeq
<1>6. \A i \in 1 .. k : new[i] = [at |-> dq[Len(dq)].at + i, reader |-> TRUE]
  BY DEF Last
<1>7. Advance(dq, ix) = dq \o new
  BY DEF Advance
<1>8. /\ dq \o new \in Seq(Block)
      /\ Len(dq \o new) = Len(dq) + k
      /\ \A i \in 1 .. Len(dq) + k :
           (dq \o new)[i] = IF i <= Len(dq) THEN dq[i] ELSE new[i - Len(dq)]
  BY <1>5, ConcatProperties
<1>9. Len(dq) + k = ix + Readahead
  BY <1>1, <1>2
<1> HIDE DEF new, k
<1>10. ASSUME NEW i \in 1 .. ix + Readahead, ~(i <= Len(dq))
       PROVE  i - Len(dq) \in 1 .. k
  BY <1>1, <1>2, <1>9, <1>10 DEF k
<1> QED BY <1>6, <1>7, <1>8, <1>9, <1>10

\* Blocks are dropped from the front.
LEMMA DropFront ==
  ASSUME NEW dq \in Seq(Block), NEW n \in Nat, n < Len(dq)
  PROVE  /\ SubSeq(dq, n + 1, Len(dq)) \in Seq(Block)
         /\ Len(SubSeq(dq, n + 1, Len(dq))) = Len(dq) - n
         /\ \A i \in 1 .. Len(dq) - n : SubSeq(dq, n + 1, Len(dq))[i] = dq[n + i]
<1>1. Len(dq) \in Nat /\ \A i \in (n + 1) .. Len(dq) : dq[i] \in Block
  BY LenProperties, ElementOfSeq
<1>2. n + 1 \in Int /\ Len(dq) \in Int
  BY <1>1
<1>3. /\ SubSeq(dq, n + 1, Len(dq)) \in Seq(Block)
      /\ Len(SubSeq(dq, n + 1, Len(dq))) =
           IF n + 1 <= Len(dq) THEN Len(dq) - (n + 1) + 1 ELSE 0
      /\ \A i \in 1 .. Len(dq) - (n + 1) + 1 :
           SubSeq(dq, n + 1, Len(dq))[i] = dq[n + 1 + i - 1]
  BY <1>1, <1>2, SubSeqProperties
<1>4. Len(dq) - (n + 1) + 1 = Len(dq) - n /\ n + 1 <= Len(dq)
  BY <1>1
<1>5. \A i \in 1 .. Len(dq) - n : n + 1 + i - 1 = n + i
  BY <1>1
<1> QED BY <1>3, <1>4, <1>5

\* A block is among the places of its deque.
LEMMA PlaceOf ==
  ASSUME NEW dq \in Seq(Block), NEW i \in 1 .. Len(dq)
  PROVE  /\ dq[i].at \in Places(dq)
         /\ dq[i].reader => dq[i].at \in Started(dq)
<1>1. i \in DOMAIN dq
  BY LenProperties
<1> QED BY <1>1 DEF Places, Started

LEMMA StartedAreBlocks ==
  ASSUME NEW dq \in Seq(Block), NEW b \in Started(dq)
  PROVE  \E i \in 1 .. Len(dq) : dq[i].at = b /\ dq[i].reader
BY LenProperties DEF Started

\* No end was met yet exactly when nobody was told of one.
LEMMA EndsCount ==
  ASSUME IsFiniteSet(ended), peeked \in BOOLEAN
  PROVE  Ends \in Nat /\ (Ends = 0 <=> ~AtEnd)
<1>1. Cardinality(ended) \in Nat /\ (Cardinality(ended) = 0 <=> ended = {})
  BY FS_CardinalityType, FS_EmptySet
<1> QED BY <1>1 DEF Ends, AtEnd

\* Each time the end is met it is counted once.
LEMMA EndMet ==
  ASSUME IsFiniteSet(ended), peeked \in BOOLEAN, ended \subseteq Clients,
         NEW c \in Clients, c \notin ended, MeetEnd(c)
  PROVE  /\ Ends' = Ends + 1 /\ AtEnd'
         /\ IsFiniteSet(ended') /\ peeked' \in BOOLEAN /\ ended' \subseteq Clients
<1>1. Cardinality(ended) \in Nat
  BY FS_CardinalityType
<1>2. CASE source.packed /\ served # << >> /\ ~peeked
  BY <1>1, <1>2 DEF MeetEnd, Ends, AtEnd
<1>3. CASE ~(source.packed /\ served # << >> /\ ~peeked)
  <2>1. ended' = ended \cup {c} /\ peeked' = peeked
    BY <1>3 DEF MeetEnd
  <2>2. IsFiniteSet(ended') /\ Cardinality(ended') = Cardinality(ended) + 1
    BY <2>1, FS_AddElement
  <2> QED BY <1>1, <2>1, <2>2 DEF Ends, AtEnd
<1> QED BY <1>2, <1>3

\* Fewer clients than blocks read ahead: all but one of them and a look-ahead
\* leave room for one more end.
LEMMA RoomForEnds ==
  ASSUME FewClients, ended \subseteq Clients, NEW c \in Clients, c \notin ended,
         peeked \in BOOLEAN
  PROVE  Ends \in Nat /\ Ends + 1 <= Readahead
<1>1. IsFiniteSet(ended) /\ Cardinality(ended) \in Nat /\ Cardinality(Clients) \in Nat
  BY FS_Subset, FS_CardinalityType DEF FewClients
<1>2. Cardinality(ended \cup {c}) = Cardinality(ended) + 1
  BY <1>1, FS_AddElement
<1>3. Cardinality(ended \cup {c}) <= Cardinality(Clients)
  <2>1. ended \cup {c} \subseteq Clients
    OBVIOUS
  <2> QED BY <2>1, FS_Subset DEF FewClients
<1> QED BY <1>1, <1>2, <1>3, RemoteAssumption DEF Ends, FewClients

----------------------------------------------------------------------------
(* The steps of the stream.                                                 *)

LEMMA OpenStep ==
  ASSUME MemoryInv, NEW t \in {"http", "xrootd"}, NEW n \in 0 .. MaxFileBlocks,
         NEW p \in BOOLEAN, Open(t, n, p)
  PROVE  MemoryInv' /\ (phase' = "open" => deque'[1].at + Current' = 0)
<1> DEFINE first == <<[at |-> 0, reader |-> FALSE]>>
<1>1. /\ source' \in [transport : {"http", "xrootd"}, blocks : 0 .. MaxFileBlocks,
                      packed : BOOLEAN]
      /\ caller' = Nobody /\ ended' = {} /\ peeked' = FALSE /\ ~AtEnd'
      /\ IsFiniteSet(ended')
  BY FS_EmptySet DEF MemoryInv, RemoteTypeOK, Open, AtEnd
<1>2. CASE phase' = "refused"
  BY <1>1, <1>2 DEF Open, MemoryInv, RemoteTypeOK
<1>3. CASE phase' = "open"
  <2>1. /\ first \in Seq(Block) /\ Len(first) = 1
        /\ first[1].at = 0 /\ first[1].reader = FALSE
    BY DEF Block
  <2>2. /\ index' = 0 /\ deque' = Advance(first, 0) /\ fills' = Started(deque')
        /\ \/ area' = 0 /\ served' = <<0>>
           \/ area' = -1 /\ served' = << >>
    BY <1>3 DEF Open
  <2>3. /\ Readahead \in Nat /\ Readahead > 0 /\ Lookback \in Nat
    BY RemoteAssumption
  <2>4. /\ deque' \in Seq(Block) /\ Len(deque') = Readahead
        /\ \A i \in 1 .. Readahead :
             deque'[i] = IF i <= 1 THEN first[i] ELSE [at |-> 0 + (i - 1), reader |-> TRUE]
    <3> HIDE DEF first
    <3>1. Readahead - (Len(first) - 0) \in Nat /\ Len(first) > 0
      BY <2>1, <2>3
    <3>2. /\ Advance(first, 0) \in Seq(Block) /\ Len(Advance(first, 0)) = 0 + Readahead
          /\ \A i \in 1 .. 0 + Readahead :
               Advance(first, 0)[i] =
                 IF i <= Len(first) THEN first[i]
                 ELSE [at |-> first[Len(first)].at + (i - Len(first)), reader |-> TRUE]
      BY <2>1, <3>1, AdvanceGrows
    <3> QED BY <2>1, <2>2, <2>3, <3>2
  <2>5. DOMAIN deque' = 1 .. Readahead
    BY <2>4, LenProperties
  <2>6. Consecutive(deque') /\ JoinedUpTo(deque', 1)
    BY <2>1, <2>3, <2>4, <2>5 DEF Consecutive, JoinedUpTo
  <2>7. Ends' = 0 /\ Waiting' = 0
    BY <1>1, FS_EmptySet DEF Waiting, Ends
  <2>8. Current' = 0
    BY <2>2, <2>7 DEF Current
  <2>9. deque'[1].at = 0
    BY <2>1, <2>3, <2>4
  <2>10. OpenShape'
    BY <1>1, <2>2, <2>3, <2>4, <2>6, <2>7, <2>8, <2>9 DEF OpenShape, AtEnd
  <2>11. fills' \subseteq Nat
    <3>1. ASSUME NEW b \in Started(deque')  PROVE b \in Nat
      <4>1. PICK i \in 1 .. Readahead : deque'[i].at = b
        BY <2>5 DEF Started
      <4>2. deque'[i] \in Block
        BY <2>4, ElementOfSeq
      <4> QED BY <4>1, <4>2 DEF Block
    <3> QED BY <2>2, <3>1
  <2>12. deque'[1].at \in Places(deque')
    BY <2>3, <2>5 DEF Places
  <2>13. HeldShape'
    BY <2>2, <2>3, <2>4, <2>9, <2>12 DEF HeldShape
  <2>14. RemoteTypeOK'
    <3>1. served' \in Seq(Nat) /\ area' \in Nat \cup {-1}
      <4>1. CASE area' = 0 /\ served' = <<0>>
        BY <4>1
      <4>2. CASE area' = -1 /\ served' = << >>
        BY <4>2
      <4> QED BY <2>2, <4>1, <4>2
    <3>2. index' \in -1 .. Lookback + Readahead + 1
      BY <2>2, <2>3, <2>4
    <3> QED BY <1>1, <1>3, <2>4, <2>11, <3>1, <3>2 DEF RemoteTypeOK
  <2> QED BY <1>1, <1>3, <2>2, <2>3, <2>8, <2>9, <2>10, <2>13, <2>14 DEF MemoryInv
<1> QED BY <1>2, <1>3 DEF Open

LEMMA UnderflowStep ==
  ASSUME MemoryInv, NEW c \in Clients, Underflow(c)
  PROVE  /\ MemoryInv' /\ (AtEnd' => AtEnd)
         /\ phase' = "open" => Current' = Current
<1>1. /\ phase = "open" /\ caller = Nobody /\ c \notin ended
      /\ index' = index + 1
      /\ UNCHANGED <<source, deque, area, served>>
  BY DEF Underflow
<1>2. /\ RemoteTypeOK /\ OpenShape /\ HeldShape
      /\ Current \in Nat /\ index \in Int /\ Len(deque) \in Nat
      /\ Lookback \in Nat /\ Readahead \in Nat /\ c # Nobody
      /\ ended \subseteq Clients /\ peeked \in BOOLEAN /\ IsFiniteSet(ended)
      /\ index' \in Nat /\ index' <= Len(deque) + 1
      /\ Len(deque) <= Lookback + Readahead
  <2>1. RemoteTypeOK /\ OpenShape /\ HeldShape /\ IsFiniteSet(ended)
    BY <1>1 DEF MemoryInv
  <2>2. Len(deque) \in Nat
    BY <2>1, LenProperties DEF RemoteTypeOK
  <2>3. /\ Current \in Nat /\ index \in Int /\ index >= -1 /\ index <= Len(deque)
        /\ Len(deque) <= Lookback + Readahead
    BY <2>1, RemoteAssumption DEF RemoteTypeOK, OpenShape, HeldShape
  <2> QED BY <1>1, <2>1, <2>2, <2>3, RemoteAssumption DEF RemoteTypeOK
<1>3. Ends \in Nat /\ (Ends = 0 <=> ~AtEnd) /\ Waiting = 0
  BY <1>1, <1>2, EndsCount DEF Waiting
<1>4. Len(deque) = Current + Readahead /\ index = Current + Ends
  BY <1>2, <1>3 DEF OpenShape, Current
<1>5. index' \in -1 .. Lookback + Readahead + 1
  BY <1>2
\* The block exists: the client waits for its thread.
<1>6. ASSUME index' < Len(deque), caller' = c, UNCHANGED <<phase, fills, peeked, ended>>
      PROVE  MemoryInv' /\ (AtEnd' => AtEnd) /\ Current' = Current
  <2>1. Waiting' = 1 /\ Ends' = Ends /\ AtEnd' = AtEnd
    BY <1>2, <1>6 DEF Waiting, Ends, AtEnd
  <2>2. Current' = Current
    BY <1>1, <1>2, <1>3, <2>1 DEF Current
  <2>3. OpenShape'
    BY <1>1, <1>2, <1>6, <2>1, <2>2 DEF OpenShape, HasData
  <2>4. RemoteTypeOK'
    BY <1>1, <1>2, <1>5, <1>6 DEF RemoteTypeOK
  <2> QED BY <1>1, <1>2, <1>6, <2>1, <2>2, <2>3, <2>4 DEF MemoryInv, HeldShape
\* The deque is used up: the client, or its look-ahead, meets the end, and so did
\* others before it.
<1>7. ASSUME index' = Len(deque), MeetEnd(c), UNCHANGED <<phase, fills, caller>>
      PROVE  MemoryInv' /\ (AtEnd' => AtEnd) /\ Current' = Current
  <2>1. /\ Ends' = Ends + 1 /\ AtEnd' /\ Waiting' = 0
        /\ IsFiniteSet(ended') /\ peeked' \in BOOLEAN /\ ended' \subseteq Clients
    BY <1>1, <1>2, <1>7, EndMet DEF Waiting
  <2>2. AtEnd
    BY <1>1, <1>2, <1>3, <1>4, <1>7, RemoteAssumption
  <2>3. Current' = Current
    BY <1>1, <1>2, <1>3, <2>1 DEF Current
  <2>4. JoinedUpTo(deque, Current + 1 + Ends')
    <3>1. DOMAIN deque = 1 .. Len(deque)
      BY <1>2, LenProperties DEF RemoteTypeOK
    <3>2. Len(deque) = Current + 1 + Ends
      BY <1>1, <1>2, <1>3, <1>4, <1>7
    <3> QED BY <1>2, <1>3, <2>1, <3>1, <3>2 DEF OpenShape, JoinedUpTo
  <2>5. caller' = Nobody /\ caller' \notin ended'
    BY <1>1, <1>7, <2>1, RemoteAssumption
  <2>6. OpenShape'
    BY <1>1, <1>2, <1>7, <2>1, <2>2, <2>3, <2>4, <2>5 DEF OpenShape, HasData
  <2>7. RemoteTypeOK'
    BY <1>1, <1>2, <1>5, <1>7, <2>1 DEF RemoteTypeOK
  <2> QED BY <1>1, <1>2, <1>7, <2>1, <2>2, <2>3, <2>6, <2>7 DEF MemoryInv, HeldShape
\* Behind the deque: nothing is said of what follows.
<1>8. ASSUME phase' = "undefined", fills' = {}, UNCHANGED <<caller, peeked, ended>>
      PROVE  MemoryInv' /\ (AtEnd' => AtEnd)
  <2>1. RemoteTypeOK'
    BY <1>1, <1>2, <1>5, <1>8 DEF RemoteTypeOK
  <2> QED BY <1>2, <1>8, <2>1 DEF MemoryInv, AtEnd
<1> QED BY <1>6, <1>7, <1>8 DEF Underflow

LEMMA JoinBlock ==
  ASSUME NEW b \in Block
  PROVE  LET j == [b EXCEPT !.reader = FALSE]
         IN  j \in Block /\ j.at = b.at /\ j.reader = FALSE
BY DEF Block

\* The reader that waited takes a block with data: blocks more than Lookback
\* behind go, new ones are started.
LEMMA JoinServes ==
  ASSUME MemoryInv, Join, HasData(deque[index + 1].at)
  PROVE  /\ MemoryInv'
         /\ ~AtEnd /\ deque[index + 1].at = deque[1].at + Current + 1
         /\ deque'[1].at + Current' = deque[1].at + Current + 1
<1> DEFINE block  == deque[index + 1]
           joined == [deque EXCEPT ![index + 1].reader = FALSE]
           gone   == Behind(index)
           kept   == SubSeq(joined, gone + 1, Len(joined))
<1>1. /\ phase = "open" /\ caller # Nobody /\ block.reader /\ block.at \notin fills
      /\ caller' = Nobody /\ area' = block.at /\ served' = Append(served, block.at)
      /\ index' = index - gone /\ deque' = Advance(kept, index')
      /\ fills' = fills \cup (Started(deque') \ Places(deque))
      /\ UNCHANGED <<peeked, ended, source, phase>>
  BY DEF Join
<1>2. /\ RemoteTypeOK /\ OpenShape /\ HeldShape /\ Current \in Nat
      /\ Lookback \in Nat /\ Readahead \in Nat /\ Readahead > 1
      /\ index \in Int /\ Len(deque) \in Nat /\ deque \in Seq(Block)
      /\ DOMAIN deque = 1 .. Len(deque)
  <2>1. RemoteTypeOK /\ OpenShape /\ HeldShape
    BY <1>1 DEF MemoryInv
  <2>2. Len(deque) \in Nat /\ DOMAIN deque = 1 .. Len(deque)
    BY <2>1, LenProperties DEF RemoteTypeOK
  <2> QED BY <2>1, <2>2, RemoteAssumption, SMTT(40) DEF RemoteTypeOK, OpenShape
<1>3. Ends \in Nat /\ Waiting = 1 /\ (Ends = 0 <=> ~AtEnd) /\ IsFiniteSet(ended)
  BY <1>1, <1>2, EndsCount DEF MemoryInv, Waiting, RemoteTypeOK
<1>4. /\ index = Current + Ends + 1
      /\ index < Len(deque) /\ Len(deque) = Current + Readahead
      /\ index + 1 \in 1 .. Len(deque) /\ 1 \in 1 .. Len(deque)
  BY <1>1, <1>2, <1>3 DEF OpenShape, Current
<1>5. /\ block.at = deque[1].at + index /\ deque[1].at \in Nat
      /\ block.at \in Nat
  <2>1. deque[1] \in Block /\ deque[index + 1] \in Block
    BY <1>2, <1>4, ElementOfSeq
  <2> QED BY <1>2, <1>4, <2>1 DEF OpenShape, Consecutive, Block
\* Once the end was met there are no data further on.
<1>6. ~AtEnd
  <2>1. SUFFICES ASSUME AtEnd  PROVE FALSE
    OBVIOUS
  <2>2. ~HasData(deque[1].at + Current + 1)
    BY <1>2, <2>1 DEF OpenShape
  <2>3. deque[1].at + Current + 1 <= block.at
    BY <1>2, <1>3, <1>4, <1>5
  <2>4. source.blocks \in Nat
    BY <1>2, RemoteAssumption DEF RemoteTypeOK
  <2> QED BY <1>2, <1>5, <2>2, <2>3, <2>4 DEF HasData
<1>7. index = Current + 1 /\ Ends = 0
  BY <1>2, <1>3, <1>4, <1>6
<1>8. /\ gone \in Nat /\ gone <= index /\ index - gone <= Lookback
      /\ gone <= Current \/ Lookback = 0
  BY <1>2, <1>4, <1>7 DEF Behind, OpenShape
<1>9. /\ joined \in Seq(Block) /\ Len(joined) = Len(deque)
      /\ \A i \in 1 .. Len(deque) : joined[i] =
           IF i = index + 1 THEN [deque[index + 1] EXCEPT !.reader = FALSE] ELSE deque[i]
  <2>1. [deque[index + 1] EXCEPT !.reader = FALSE] \in Block
    <3>1. deque[index + 1] \in Block
      BY <1>2, <1>4, ElementOfSeq
    <3> QED BY <3>1, JoinBlock
  <2>2. joined = [deque EXCEPT ![index + 1] = [deque[index + 1] EXCEPT !.reader = FALSE]]
    BY <1>2, <1>4
  <2> QED BY <1>2, <1>4, <2>1, <2>2, ExceptSeq
<1>10. /\ kept \in Seq(Block) /\ Len(kept) = Len(deque) - gone
       /\ \A i \in 1 .. Len(deque) - gone : kept[i] = joined[gone + i]
  <2> HIDE DEF joined, gone
  <2>1. gone < Len(joined)
    BY <1>2, <1>4, <1>8, <1>9
  <2> QED BY <1>8, <1>9, <2>1, DropFront
<1> HIDE DEF block, joined, gone, kept
<1>11. index' \in Nat /\ index' = index - gone /\ Len(kept) = index' + Readahead - 1
  BY <1>1, <1>2, <1>4, <1>7, <1>8, <1>10
<1>12. /\ deque' \in Seq(Block) /\ Len(deque') = index' + Readahead
       /\ \A i \in 1 .. index' + Readahead :
            deque'[i] = IF i <= Len(kept) THEN kept[i]
                        ELSE [at |-> kept[Len(kept)].at + (i - Len(kept)), reader |-> TRUE]
  <2>1. Len(kept) > 0 /\ Readahead - (Len(kept) - index') \in Nat
    BY <1>2, <1>11
  <2> QED BY <1>1, <1>10, <1>11, <2>1, AdvanceGrows
\* What is left of the deque, by its places in the old one.
<1>13. /\ deque'[1].at = deque[1].at + gone
       /\ \A i \in 1 .. index' + Readahead :
            /\ deque'[i].at = deque[1].at + gone + i - 1
            /\ deque'[i].reader <=> i > index' + 1
            /\ i < index' + Readahead /\ i # index' + 1 => deque'[i] = deque[gone + i]
  <2>1. \A i \in 1 .. Len(kept) :
          /\ kept[i].at = deque[1].at + gone + i - 1
          /\ kept[i].reader <=> i > index' + 1
          /\ i # index' + 1 => kept[i] = deque[gone + i]
    <3>1. TAKE i \in 1 .. Len(kept)
    <3>2. gone + i \in 1 .. Len(deque) /\ kept[i] = joined[gone + i]
      BY <1>2, <1>8, <1>10
    <3>3. deque[gone + i] \in Block
      BY <1>2, <3>2, ElementOfSeq
    <3>4. deque[gone + i].at = deque[1].at + gone + i - 1
      <4>1. deque[gone + i].at = deque[1].at + (gone + i) - 1
        BY <1>2, <3>2 DEF OpenShape, Consecutive
      <4> QED BY <1>5, <1>8, <4>1
    <3>5. deque[gone + i].reader <=> gone + i > index
      BY <1>2, <1>7, <3>2 DEF OpenShape, JoinedUpTo
    <3>6. CASE gone + i = index + 1
      <4>1. i = index' + 1
        BY <1>2, <1>8, <1>11, <3>6
      <4>2. kept[i] = [deque[gone + i] EXCEPT !.reader = FALSE]
        BY <1>9, <3>2, <3>6
      <4>3. kept[i].at = deque[gone + i].at /\ kept[i].reader = FALSE
        BY <3>3, <4>2, JoinBlock
      <4> QED BY <1>11, <3>4, <4>1, <4>3
    <3>7. CASE gone + i # index + 1
      <4>1. kept[i] = deque[gone + i]
        BY <1>9, <3>2, <3>7
      <4>2. gone + i > index <=> i > index' + 1
        BY <1>2, <1>8, <1>11, <3>7
      <4> QED BY <3>4, <3>5, <4>1, <4>2
    <3> QED BY <3>6, <3>7
  <2>2. Len(kept) \in Nat /\ Len(kept) >= 1
    BY <1>2, <1>11
  <2>3. 1 \in 1 .. Len(kept) /\ Len(kept) \in 1 .. Len(kept)
    BY <2>2
  <2>4. kept[Len(kept)].at = deque[1].at + gone + Len(kept) - 1
    BY <2>1, <2>3
  <2>5. ASSUME NEW i \in 1 .. index' + Readahead, i > Len(kept)
        PROVE  /\ deque'[i].at = deque[1].at + gone + i - 1 /\ deque'[i].reader
               /\ i > index' + 1 /\ ~(i < index' + Readahead)
    <3>1. i = Len(kept) + 1 /\ i = index' + Readahead
      BY <1>2, <1>11, <2>2, <2>5
    <3>2. deque'[i].at = kept[Len(kept)].at + (i - Len(kept)) /\ deque'[i].reader
      BY <1>12, <2>2, <2>5
    <3>3. deque'[i].at = deque[1].at + gone + Len(kept) - 1 + (i - Len(kept))
      BY <2>4, <3>2
    <3> QED BY <1>2, <1>5, <1>8, <1>11, <2>2, <3>1, <3>2, <3>3, SMTT(40)
  <2>6. ASSUME NEW i \in 1 .. index' + Readahead, i <= Len(kept)
        PROVE  i \in 1 .. Len(kept) /\ deque'[i] = kept[i]
    BY <1>12, <2>2, <2>6
  <2>7. deque'[1].at = deque[1].at + gone
    <3>1. 1 \in 1 .. index' + Readahead /\ 1 <= Len(kept)
      BY <1>2, <1>11, <2>2
    <3>2. deque'[1] = kept[1] /\ kept[1].at = deque[1].at + gone + 1 - 1
      BY <2>1, <2>3, <2>6, <3>1
    <3> QED BY <1>5, <1>8, <3>2
  <2>8. \A i \in 1 .. index' + Readahead : i <= Len(kept) <=> i < index' + Readahead
    BY <1>2, <1>11
  <2>9. ASSUME NEW i \in 1 .. index' + Readahead
        PROVE  /\ deque'[i].at = deque[1].at + gone + i - 1
               /\ deque'[i].reader <=> i > index' + 1
               /\ i < index' + Readahead /\ i # index' + 1 => deque'[i] = deque[gone + i]
    <3>1. CASE i <= Len(kept)
      BY <2>1, <2>6, <3>1
    <3>2. CASE i > Len(kept)
      BY <2>5, <3>2
    <3> QED BY <2>2, <3>1, <3>2
  <2> QED BY <2>7, <2>9
<1>14. /\ DOMAIN deque' = 1 .. index' + Readahead
       /\ Waiting' = 0 /\ Ends' = 0 /\ Current' = index'
  <2>1. Waiting' = 0 /\ Ends' = 0
    BY <1>1, <1>7 DEF Waiting, Ends
  <2> QED BY <1>11, <1>12, <2>1, LenProperties DEF Current
<1>15. OpenShape'
  <2>1. Consecutive(deque')
    BY <1>13, <1>14 DEF Consecutive
  <2>2. JoinedUpTo(deque', index' + 1)
    BY <1>13, <1>14 DEF JoinedUpTo
  <2>3. area' = deque'[index' + 1].at
    <3>1. index' + 1 \in 1 .. index' + Readahead
      BY <1>2, <1>11
    <3>2. deque'[index' + 1].at = deque[1].at + gone + (index' + 1) - 1
      BY <1>13, <3>1
    <3>3. deque'[index' + 1].at = deque[1].at + index
      <4>1. gone + (index' + 1) - 1 = index
        BY <1>2, <1>8, <1>11
      <4>2. deque[1].at + gone + (index' + 1) - 1 = deque[1].at + (gone + (index' + 1) - 1)
        BY <1>5, <1>8, <1>11
      <4> QED BY <3>2, <4>1, <4>2
    <3> QED BY <1>1, <1>5, <3>3
  <2> QED
    BY <1>1, <1>2, <1>6, <1>8, <1>11, <1>12, <1>14, <2>1, <2>2, <2>3, RemoteAssumption
    DEF OpenShape, RemoteTypeOK, AtEnd
<1>16. fills' \subseteq Started(deque')
  <2>1. ASSUME NEW b \in fills  PROVE b \in Started(deque')
    <3>1. PICK i \in 1 .. Len(deque) : deque[i].at = b /\ deque[i].reader
      BY <1>2, StartedAreBlocks DEF HeldShape
    <3>2. i > index /\ i # index + 1
      <4>1. i > Current + 1 + Ends
        BY <1>2, <3>1 DEF OpenShape, JoinedUpTo
      <4>2. i # index + 1
        BY <1>1, <3>1 DEF block
      <4> QED BY <1>2, <1>7, <4>1, <4>2
    <3>3. /\ i - gone \in 1 .. index' + Readahead /\ i - gone < index' + Readahead
          /\ i - gone # index' + 1 /\ gone + (i - gone) = i
      BY <1>2, <1>8, <1>10, <1>11, <3>2
    <3>4. deque'[i - gone] = deque[i]
      BY <1>13, <3>3
    <3> QED BY <1>14, <3>1, <3>3, <3>4 DEF Started
  <2> QED BY <1>1, <2>1
<1>17. HeldShape'
  <2>1. index' + 1 \in DOMAIN deque'
    BY <1>2, <1>11, <1>14
  <2>2. area' \in Places(deque') \/ area' = -1
    BY <1>14, <1>15, <2>1 DEF OpenShape, Places
  <2> QED BY <1>2, <1>8, <1>11, <1>12, <1>16, <2>2 DEF HeldShape
<1>18. RemoteTypeOK'
  <2>1. served' \in Seq(Nat)
    BY <1>1, <1>2, <1>5, AppendProperties DEF RemoteTypeOK
  <2>2. index' \in -1 .. Lookback + Readahead + 1
    BY <1>2, <1>8, <1>11, SMTT(40)
  <2>3. fills' \subseteq Nat
    <3>1. ASSUME NEW b \in fills'  PROVE b \in Nat
      <4>1. PICK i \in 1 .. Len(deque') : deque'[i].at = b
        BY <1>12, <1>16, StartedAreBlocks
      <4>2. deque'[i] \in Block
        BY <1>12, <4>1, ElementOfSeq
      <4> QED BY <4>1, <4>2 DEF Block
    <3> QED BY <3>1
  <2> QED BY <1>1, <1>2, <1>5, <1>12, <2>1, <2>2, <2>3 DEF RemoteTypeOK
<1>19. MemoryInv'
  BY <1>1, <1>2, <1>3, <1>15, <1>17, <1>18 DEF MemoryInv, RemoteTypeOK
<1>20. deque'[1].at + Current' = deque[1].at + Current + 1
  <2>1. deque'[1].at + Current' = (deque[1].at + gone) + (index - gone)
    BY <1>11, <1>13, <1>14
  <2> QED BY <1>2, <1>5, <1>7, <1>8, <2>1
<1> QED BY <1>2, <1>5, <1>6, <1>7, <1>19, <1>20 DEF block

\* The reader that waited takes an empty block: the end is met.
LEMMA JoinEnds ==
  ASSUME MemoryInv, Join, ~HasData(deque[index + 1].at)
  PROVE  MemoryInv' /\ AtEnd' /\ Current' = Current /\ deque'[1].at = deque[1].at
<1> DEFINE block  == deque[index + 1]
           joined == [deque EXCEPT ![index + 1].reader = FALSE]
<1>1. /\ phase = "open" /\ caller # Nobody /\ block.reader /\ block.at \notin fills
      /\ caller' = Nobody /\ deque' = joined /\ MeetEnd(caller)
      /\ UNCHANGED <<area, served, index, fills, source, phase>>
  BY DEF Join
<1>2. /\ RemoteTypeOK /\ OpenShape /\ HeldShape /\ Current \in Nat
      /\ Lookback \in Nat /\ Readahead \in Nat /\ caller \in Clients \ ended
      /\ index \in Int /\ Len(deque) \in Nat /\ deque \in Seq(Block)
      /\ DOMAIN deque = 1 .. Len(deque)
      /\ ended \subseteq Clients /\ peeked \in BOOLEAN /\ IsFiniteSet(ended)
  <2>1. RemoteTypeOK /\ OpenShape /\ HeldShape /\ IsFiniteSet(ended)
    BY <1>1 DEF MemoryInv
  <2>2. Len(deque) \in Nat /\ DOMAIN deque = 1 .. Len(deque)
    BY <2>1, LenProperties DEF RemoteTypeOK
  <2>3. caller \in Clients \ ended
    BY <1>1, <2>1 DEF RemoteTypeOK, OpenShape
  <2> QED BY <2>1, <2>2, <2>3, RemoteAssumption, SMTT(40) DEF RemoteTypeOK, OpenShape
<1>3. /\ Ends \in Nat /\ Waiting = 1 /\ (Ends = 0 <=> ~AtEnd)
      /\ Ends' = Ends + 1 /\ AtEnd'
      /\ IsFiniteSet(ended') /\ peeked' \in BOOLEAN /\ ended' \subseteq Clients
  BY <1>1, <1>2, EndsCount, EndMet DEF Waiting
<1>4. /\ index = Current + Ends + 1
      /\ index < Len(deque) /\ Len(deque) = Current + Readahead
      /\ index + 1 \in 1 .. Len(deque) /\ 1 \in 1 .. Len(deque)
      /\ Current + 1 \in 1 .. Len(deque) /\ Current + 1 # index + 1
  BY <1>1, <1>2, <1>3, SMTT(40) DEF OpenShape, Current
<1>5. deque[index + 1] \in Block /\ deque[1].at \in Nat
  <2>1. deque[1] \in Block /\ deque[index + 1] \in Block
    BY <1>2, <1>4, ElementOfSeq
  <2> QED BY <2>1 DEF Block
<1>6. /\ joined \in Seq(Block) /\ Len(joined) = Len(deque)
      /\ \A i \in 1 .. Len(deque) : joined[i] =
           IF i = index + 1 THEN [deque[index + 1] EXCEPT !.reader = FALSE] ELSE deque[i]
  <2>1. [deque[index + 1] EXCEPT !.reader = FALSE] \in Block
    BY <1>5, JoinBlock
  <2>2. joined = [deque EXCEPT ![index + 1] = [deque[index + 1] EXCEPT !.reader = FALSE]]
    BY <1>2, <1>4
  <2> QED BY <1>2, <1>4, <2>1, <2>2, ExceptSeq
<1> HIDE DEF block, joined
<1>7. /\ deque' \in Seq(Block) /\ Len(deque') = Len(deque) /\ DOMAIN deque' = DOMAIN deque
      /\ \A i \in 1 .. Len(deque) :
           /\ deque'[i].at = deque[i].at
           /\ deque'[i].reader <=> deque[i].reader /\ i # index + 1
           /\ i # index + 1 => deque'[i] = deque[i]
  <2>1. deque' \in Seq(Block) /\ Len(deque') = Len(deque)
    BY <1>1, <1>6
  <2>2. DOMAIN deque' = DOMAIN deque
    BY <1>2, <2>1, LenProperties
  <2>3. ASSUME NEW i \in 1 .. Len(deque)
        PROVE  /\ deque'[i].at = deque[i].at
               /\ deque'[i].reader <=> deque[i].reader /\ i # index + 1
               /\ i # index + 1 => deque'[i] = deque[i]
    <3>1. CASE i = index + 1
      <4>1. deque'[i] = [deque[index + 1] EXCEPT !.reader = FALSE]
        BY <1>1, <1>6, <3>1
      <4> QED BY <1>5, <3>1, <4>1, JoinBlock
    <3>2. CASE i # index + 1
      BY <1>1, <1>6, <3>2
    <3> QED BY <3>1, <3>2
  <2> QED BY <2>1, <2>2, <2>3
<1>8. Waiting' = 0
  BY <1>1 DEF Waiting
<1>9. Current' = Current
  BY <1>1, <1>2, <1>3, <1>8 DEF Current
<1>10. Consecutive(deque')
  BY <1>2, <1>4, <1>7 DEF OpenShape, Consecutive
<1>11. JoinedUpTo(deque', Current + 1 + Ends')
  <2>1. \A i \in 1 .. Len(deque) :
          i > Current + 1 + (Ends + 1)
            <=> i > Current + 1 + Ends /\ i # index + 1
    BY <1>2, <1>3, <1>4
  <2> QED BY <1>2, <1>3, <1>7, <2>1 DEF OpenShape, JoinedUpTo
<1>12. ~HasData(deque[1].at + Current + 1)
  <2>1. CASE ~AtEnd
    <3>1. index = Current + 1
      BY <1>2, <1>3, <1>4, <2>1
    <3>2. deque[index + 1].at = deque[1].at + (index + 1) - 1
      BY <1>2, <1>4 DEF OpenShape, Consecutive
    <3>3. deque[1].at + (index + 1) - 1 = deque[1].at + Current + 1
      BY <1>2, <1>5, <3>1
    <3> QED BY <3>2, <3>3
  <2>2. CASE AtEnd
    BY <1>2, <2>2 DEF OpenShape
  <2> QED BY <2>1, <2>2
<1>13. deque'[1].at = deque[1].at /\ deque'[Current + 1].at = deque[Current + 1].at
  BY <1>4, <1>7
<1>14. OpenShape'
  <2>1. ~HasData(deque[1].at + Current + 1)'
    BY <1>1, <1>9, <1>12, <1>13 DEF HasData
  <2>2. caller' \notin ended'
    BY <1>1, <1>3, RemoteAssumption
  <2>3. index' <= Len(deque')
    BY <1>1, <1>2, <1>7 DEF OpenShape
  <2> QED BY <1>1, <1>2, <1>7, <1>9, <1>10, <1>11, <1>13, <2>1, <2>2, <2>3 DEF OpenShape
<1>15. HeldShape'
  <2>1. ASSUME NEW b \in fills  PROVE b \in Started(deque')
    <3>1. PICK i \in 1 .. Len(deque) : deque[i].at = b /\ deque[i].reader
      BY <1>2, StartedAreBlocks DEF HeldShape
    <3>2. i # index + 1
      BY <1>1, <3>1 DEF block
    <3> QED BY <1>2, <1>7, <3>1, <3>2 DEF Started
  <2>2. area # -1 => area \in Places(deque')
    BY <1>2, <1>4, <1>7, <1>13 DEF OpenShape, Places
  <2> QED BY <1>1, <1>2, <1>7, <2>1, <2>2 DEF HeldShape
<1>16. RemoteTypeOK'
  BY <1>1, <1>2, <1>3, <1>7 DEF RemoteTypeOK
<1> QED BY <1>1, <1>3, <1>9, <1>13, <1>14, <1>15, <1>16 DEF MemoryInv

\* The destructor deletes the first block when its thread was joined.
LEMMA DeleteStep ==
  ASSUME MemoryInv, DeleteBlock
  PROVE  MemoryInv'
<1>1. /\ phase = "closing" /\ caller = Nobody /\ RemoteTypeOK /\ HeldShape
      /\ IsFiniteSet(ended)
      /\ UNCHANGED <<source, index, fills, caller, peeked, ended, served>>
  BY DEF DeleteBlock, MemoryInv
<1>2. CASE deque = << >>
  BY <1>1, <1>2 DEF DeleteBlock, MemoryInv, RemoteTypeOK
<1>3. CASE deque # << >>
  <2>1. /\ deque[1].reader => deque[1].at \notin fills
        /\ deque' = Tail(deque) /\ phase' = phase
        /\ area' = IF deque[1].at = area THEN -1 ELSE area
    BY <1>3 DEF DeleteBlock
  <2>2. /\ deque \in Seq(Block) /\ Len(deque) \in Nat /\ index \in Int /\ index >= -1
        /\ Lookback \in Nat /\ Readahead \in Nat
    BY <1>1, LenProperties, RemoteAssumption DEF RemoteTypeOK
  <2>3. /\ deque' \in Seq(Block) /\ Len(deque') = Len(deque) - 1 /\ Len(deque') \in Nat
        /\ \A i \in 1 .. Len(deque') : deque'[i] = deque[i + 1]
    <3>1. /\ Tail(deque) \in Seq(Block) /\ Len(Tail(deque)) = Len(deque) - 1
          /\ \A i \in 1 .. Len(Tail(deque)) : Tail(deque)[i] = deque[i + 1]
      BY <1>3, <2>2, HeadTailProperties
    <3> QED BY <2>1, <3>1, LenProperties
  <2>4. ASSUME NEW i \in 1 .. Len(deque), i # 1
        PROVE  i - 1 \in 1 .. Len(deque') /\ deque'[i - 1] = deque[i]
    <3>1. i - 1 \in 1 .. Len(deque') /\ (i - 1) + 1 = i
      BY <2>2, <2>3, <2>4
    <3>2. deque'[i - 1] = deque[(i - 1) + 1]
      BY <2>3, <3>1
    <3> QED BY <3>1, <3>2
  <2>5. ASSUME NEW b \in fills  PROVE b \in Started(deque')
    <3>1. PICK i \in 1 .. Len(deque) : deque[i].at = b /\ deque[i].reader
      BY <1>1, <2>2, StartedAreBlocks DEF HeldShape
    <3>2. i # 1
      BY <2>1, <3>1
    <3> QED BY <2>3, <2>4, <3>1, <3>2, PlaceOf
  <2>6. ASSUME area' # -1  PROVE area' \in Places(deque')
    <3>1. area' = area /\ area # -1 /\ deque[1].at # area
      BY <2>1, <2>6
    <3>2. PICK i \in 1 .. Len(deque) : deque[i].at = area
      BY <1>1, <2>2, <3>1, LenProperties DEF HeldShape, Places
    <3>3. i # 1
      BY <3>1, <3>2
    <3> QED BY <2>3, <2>4, <3>1, <3>2, <3>3, PlaceOf
  <2>7. HeldShape'
    BY <1>1, <2>2, <2>3, <2>5, <2>6 DEF HeldShape
  <2>8. RemoteTypeOK'
    <3>1. area' \in Nat \cup {-1}
      BY <1>1, <2>1 DEF RemoteTypeOK
    <3> QED BY <1>1, <2>1, <2>3, <3>1 DEF RemoteTypeOK
  <2> QED BY <1>1, <2>1, <2>7, <2>8 DEF MemoryInv
<1> QED BY <1>2, <1>3

LEMMA MemoryStep ==
  ASSUME MemoryInv, [RemoteNext]_remoteVars
  PROVE  MemoryInv'
<1>1. ASSUME NEW t \in {"http", "xrootd"}, NEW n \in 0 .. MaxFileBlocks, NEW p \in BOOLEAN,
             Open(t, n, p)
      PROVE  MemoryInv'
  BY <1>1, OpenStep
<1>2. ASSUME NEW b \in fills, Fill(b)  PROVE MemoryInv'
  BY <1>2
  DEF MemoryInv, RemoteTypeOK, OpenShape, HeldShape, Fill, HasData, Current, Waiting, Ends,
      AtEnd
<1>3. ASSUME NEW b \in fills, FillFails(b)  PROVE MemoryInv'
  BY <1>3 DEF MemoryInv, RemoteTypeOK, FillFails
<1>4. ASSUME NEW c \in Clients, Underflow(c)  PROVE MemoryInv'
  BY <1>4, UnderflowStep
<1>5. ASSUME Join  PROVE MemoryInv'
  BY <1>5, JoinServes, JoinEnds
<1>6. ASSUME Close  PROVE MemoryInv'
  BY <1>6 DEF MemoryInv, RemoteTypeOK, HeldShape, Close
<1>7. ASSUME DeleteBlock  PROVE MemoryInv'
  BY <1>7, DeleteStep
<1>8. ASSUME UNCHANGED remoteVars  PROVE MemoryInv'
  BY <1>8
  DEF MemoryInv, RemoteTypeOK, OpenShape, HeldShape, remoteVars, HasData, Current, Waiting,
      Ends, AtEnd
<1> QED BY <1>1, <1>2, <1>3, <1>4, <1>5, <1>6, <1>7, <1>8 DEF RemoteNext

LEMMA MemoryInit ==
  ASSUME RemoteInit
  PROVE  MemoryInv
<1>1. RemoteTypeOK
  <2>1. index \in -1 .. Lookback + Readahead + 1
    BY RemoteAssumption DEF RemoteInit
  <2>2. source \in [transport : {"http", "xrootd"}, blocks : 0 .. MaxFileBlocks,
                    packed : BOOLEAN]
    BY RemoteAssumption DEF RemoteInit
  <2>3. deque \in Seq(Block) /\ served \in Seq(Nat)
    BY DEF RemoteInit
  <2> QED BY <2>1, <2>2, <2>3 DEF RemoteInit, RemoteTypeOK
<1>2. phase = "new" /\ caller = Nobody /\ ~AtEnd /\ IsFiniteSet(ended)
  BY FS_EmptySet DEF RemoteInit, AtEnd
<1> QED BY <1>1, <1>2 DEF MemoryInv

\* Whatever the server answers and whenever, and however many clients there are,
\* the variables keep their types: up to the step that overruns the deque, if there
\* is one, buffer_index_ is at most one behind the last block the buffer can hold.
THEOREM RemoteTypes == RemoteSpec => []RemoteTypeOK
<1>1. MemoryInv => RemoteTypeOK
  BY DEF MemoryInv
<1> QED BY <1>1, MemoryInit, MemoryStep, PTL DEF RemoteSpec

\* With fewer clients than blocks read ahead and whatever the server answers and
\* whenever, the deque is never overrun, however its file ends, no block is deleted
\* while its thread writes into it or the get area points into it, the block a
\* reader waits for exists and still has its thread, and the buffer keeps at most
\* Lookback + Readahead blocks of a file of any length.
THEOREM RemoteMemorySafe ==
  ASSUME FewClients
  PROVE  RemoteSpec => []RemoteMemory
<1> DEFINE Inv == MemoryInv /\ phase # "undefined"
<1>1. Inv => RemoteMemory
  <2>1. SUFFICES ASSUME MemoryInv, phase # "undefined", phase \in {"open", "closing"}
                 PROVE  RemoteMemory
    BY DEF RemoteMemory
  <2>2. HeldShape /\ RemoteTypeOK
    BY <2>1 DEF MemoryInv
  <2>3. fills \subseteq Places(deque)
    BY <2>2 DEF HeldShape, Started, Places
  <2>4. ASSUME caller # Nobody  PROVE index < Len(deque) /\ deque[index + 1].reader
    <3>1. phase = "open" /\ OpenShape
      BY <2>1, <2>4 DEF MemoryInv
    <3>2. /\ Ends \in Nat /\ Waiting = 1 /\ Current \in Nat
          /\ Len(deque) \in Nat /\ DOMAIN deque = 1 .. Len(deque) /\ index \in Int
      <4>1. Ends \in Nat /\ Waiting = 1
        BY <2>1, <2>2, <2>4, EndsCount DEF MemoryInv, Waiting, RemoteTypeOK
      <4>2. Len(deque) \in Nat /\ DOMAIN deque = 1 .. Len(deque)
        BY <2>2, LenProperties DEF RemoteTypeOK
      <4> QED BY <2>2, <3>1, <4>1, <4>2, RemoteAssumption DEF RemoteTypeOK, OpenShape
    <3>3. index < Len(deque) /\ index = Current + Ends + 1
      BY <2>4, <3>1, <3>2 DEF OpenShape, Current
    <3>4. index + 1 \in 1 .. Len(deque) /\ index + 1 > Current + 1 + Ends
      BY <3>2, <3>3
    <3> QED BY <3>1, <3>2, <3>3, <3>4 DEF OpenShape, JoinedUpTo
  <2> QED BY <2>1, <2>2, <2>3, <2>4 DEF RemoteMemory, HeldShape
\* The end is met at most once by each client and once by the look-ahead: there is
\* a block behind the current one for all but the last of them.
<1>2. ASSUME Inv, [RemoteNext]_remoteVars  PROVE Inv'
  <2>1. ASSUME NEW c \in Clients, Underflow(c)  PROVE phase' # "undefined"
    <3>1. /\ phase = "open" /\ caller = Nobody /\ c \notin ended
          /\ index' = index + 1 /\ RemoteTypeOK /\ OpenShape
      BY <1>2, <2>1 DEF MemoryInv, Underflow
    <3>2. Len(deque) \in Nat /\ Current \in Nat /\ Readahead \in Nat /\ index \in Int
      BY <3>1, LenProperties, RemoteAssumption DEF RemoteTypeOK, OpenShape
    <3>3. Ends \in Nat /\ Ends + 1 <= Readahead
      BY <3>1, RoomForEnds DEF RemoteTypeOK
    <3>4. index = Current + Ends /\ Len(deque) = Current + Readahead
      BY <3>1, <3>2, <3>3 DEF OpenShape, Current, Waiting
    <3>5. ~(index' > Len(deque))
      BY <3>1, <3>2, <3>3, <3>4
    <3> QED BY <2>1, <3>1, <3>5 DEF Underflow
  <2>2. phase' # "undefined"
    BY <1>2, <2>1
    DEF RemoteNext, remoteVars, Open, Fill, FillFails, Join, Close, DeleteBlock
  <2> QED BY <1>2, <2>2, MemoryStep
<1>3. RemoteInit => Inv
  BY MemoryInit DEF RemoteInit
<1> QED BY <1>1, <1>2, <1>3, PTL DEF RemoteSpec

----------------------------------------------------------------------------
(* What the clients get, from a source whose opening read succeeds and      *)
(* whose refusals have no body.                                             *)

\* The blocks handed out are numbered from 0 on: one more keeps them so.
LEMMA CountedOn ==
  ASSUME NEW s \in Seq(Nat), s = [i \in 1 .. Len(s) |-> i - 1]
  PROVE  /\ Append(s, Len(s)) = [i \in 1 .. Len(Append(s, Len(s))) |-> i - 1]
         /\ Len(Append(s, Len(s))) = Len(s) + 1 /\ Len(s) \in Nat
<1> DEFINE a == Append(s, Len(s))
<1>1. Len(s) \in Nat
  BY LenProperties
<1>2. /\ a \in Seq(Nat) /\ Len(a) = Len(s) + 1
      /\ \A i \in 1 .. Len(s) : a[i] = s[i]
      /\ a[Len(s) + 1] = Len(s)
  BY <1>1, AppendProperties
<1>3. a \in [1 .. Len(a) -> Nat]
  BY <1>2, LenProperties
<1>4. \A i \in 1 .. Len(s) : s[i] = i - 1
  OBVIOUS
<1> HIDE DEF a
<1>5. \A i \in 1 .. Len(a) : a[i] = i - 1
  <2>1. TAKE i \in 1 .. Len(a)
  <2>2. CASE i = Len(s) + 1
    BY <1>1, <1>2, <2>2
  <2>3. CASE i # Len(s) + 1
    <3>1. i \in 1 .. Len(s)
      BY <1>1, <1>2, <2>3
    <3> QED BY <1>2, <1>4, <3>1
  <2> QED BY <2>2, <2>3
<1>6. a = [i \in 1 .. Len(a) |-> i - 1]
  BY <1>3, <1>5
<1> QED BY <1>1, <1>2, <1>6 DEF a

LEMMA PlaceInDeque ==
  ASSUME MemoryInv, phase = "open"
  PROVE  deque[1].at \in Nat /\ Current \in Nat
<1>1. /\ deque \in Seq(Block) /\ Current \in Nat /\ Len(deque) = Current + Readahead
      /\ Readahead > 1 /\ Readahead \in Nat
  BY RemoteAssumption DEF MemoryInv, RemoteTypeOK, OpenShape
<1>2. 1 \in 1 .. Len(deque)
  BY <1>1
<1>3. deque[1] \in Block
  BY <1>1, <1>2, ElementOfSeq
<1> QED BY <1>1, <1>3 DEF Block

LEMMA OrderStep ==
  ASSUME OrderInv, ~FirstReadFails, ~ErrorHasBody, [RemoteNext]_remoteVars
  PROVE  OrderInv'
<1>1. MemoryInv /\ MemoryInv'
  BY MemoryStep DEF OrderInv
<1>2. RemoteTypeOK /\ source.blocks \in Nat /\ Len(served) \in Nat
  BY <1>1, RemoteAssumption, LenProperties DEF MemoryInv, RemoteTypeOK
<1>3. ASSUME NEW t \in {"http", "xrootd"}, NEW n \in 0 .. MaxFileBlocks, NEW p \in BOOLEAN,
             Open(t, n, p)
      PROVE  OrderInv'
  <2>1. served = << >> /\ ~AtEnd' /\ n \in Nat /\ source'.blocks = n /\ phase' # "new"
    <3>1. phase = "new" /\ AtEnd' = AtEnd /\ source'.blocks = n
      BY <1>3 DEF Open, AtEnd
    <3>2. phase' # "new"
      BY <1>3 DEF Open
    <3> QED BY <1>1, <3>1, <3>2, RemoteAssumption DEF OrderInv, MemoryInv
  <2>2. CASE phase' = "refused"
    BY <1>1, <1>3, <2>1, <2>2 DEF Open, OrderInv, RemoteInOrder, AtEnd
  <2>3. CASE phase' = "open"
    <3>1. IF n > 0 THEN served' = <<0>> ELSE served' = << >>
      BY <1>3, <2>3 DEF Open
    <3>2. /\ Len(served') = IF n > 0 THEN 1 ELSE 0
          /\ served' = [i \in 1 .. Len(served') |-> i - 1]
      <4>1. <<0>> = [i \in 1 .. 1 |-> i - 1] /\ Len(<<0>>) = 1
        OBVIOUS
      <4>2. << >> = [i \in 1 .. 0 |-> i - 1] /\ Len(<< >>) = 0
        OBVIOUS
      <4> QED BY <3>1, <4>1, <4>2
    <3>3. RemoteInOrder'
      BY <2>1, <3>2 DEF RemoteInOrder, AtEnd
    <3>4. deque'[1].at + Current' = 0
      BY <1>1, <1>3, <2>3, OpenStep
    <3>5. Delivered'
      BY <2>1, <3>1, <3>2, <3>4 DEF Delivered
    <3> QED BY <1>1, <2>1, <2>3, <3>3, <3>5 DEF OrderInv
  <2> QED BY <1>3, <2>2, <2>3 DEF Open
<1>4. ASSUME NEW b \in fills, Fill(b)  PROVE OrderInv'
  BY <1>1, <1>4 DEF OrderInv, RemoteInOrder, Delivered, Fill, Current, Waiting, Ends
<1>5. ASSUME NEW b \in fills, FillFails(b)  PROVE OrderInv'
  BY <1>1, <1>5 DEF OrderInv, RemoteInOrder, FillFails
<1>6. ASSUME NEW c \in Clients, Underflow(c)  PROVE OrderInv'
  <2>1. /\ phase = "open" /\ Delivered /\ RemoteInOrder /\ phase' # "new"
        /\ UNCHANGED <<source, served, deque>>
    BY <1>1, <1>6 DEF Underflow, OrderInv
  <2>2. phase' = "open" => Current' = Current
    BY <1>1, <1>6, UnderflowStep
  <2>3. AtEnd' => AtEnd
    BY <1>1, <1>6, UnderflowStep
  <2>4. RemoteInOrder'
    BY <2>1, <2>3 DEF RemoteInOrder, AtEnd
  <2> QED BY <1>1, <2>1, <2>2, <2>4 DEF OrderInv, Delivered
<1>7. ASSUME Join  PROVE OrderInv'
  <2>1. phase = "open" /\ UNCHANGED <<phase, source>> /\ Delivered /\ RemoteInOrder
    BY <1>7 DEF Join, OrderInv
  <2>2. CASE HasData(deque[index + 1].at)
    <3>1. /\ ~AtEnd /\ deque[index + 1].at = deque[1].at + Current + 1
          /\ deque'[1].at + Current' = deque[1].at + Current + 1
      BY <1>1, <1>7, <2>2, JoinServes
    <3>2. /\ served' = Append(served, deque[index + 1].at) /\ AtEnd' = AtEnd
      BY <1>7, <2>2 DEF Join, AtEnd
    <3>3. deque[index + 1].at < source.blocks
      BY <2>2 DEF HasData
    <3>4. source.blocks # 0 /\ Len(served) = deque[index + 1].at
      BY <1>1, <1>2, <2>1, <3>1, <3>3, PlaceInDeque DEF Delivered
    <3>5. /\ served' = [i \in 1 .. Len(served') |-> i - 1] /\ Len(served') = Len(served) + 1
      BY <1>2, <2>1, <3>2, <3>4, CountedOn DEF RemoteTypeOK, RemoteInOrder
    <3>6. RemoteInOrder'
      BY <1>2, <2>1, <3>1, <3>2, <3>3, <3>4, <3>5 DEF RemoteInOrder, AtEnd
    <3>7. Delivered'
      BY <1>2, <2>1, <3>1, <3>4, <3>5 DEF Delivered
    <3> QED BY <1>1, <2>1, <3>6, <3>7 DEF OrderInv
  <2>3. CASE ~HasData(deque[index + 1].at)
    <3>1. AtEnd' /\ Current' = Current /\ deque'[1].at = deque[1].at
      BY <1>1, <1>7, <2>3, JoinEnds
    <3>2. served' = served
      BY <1>7, <2>3 DEF Join
    <3>3. OpenShape'
      BY <1>1, <2>1 DEF MemoryInv
    \* The end is where the source ends.
    <3>4. source.blocks <= deque[1].at + Current + 1
      <4>1. ~HasData(deque[1].at + Current + 1)
        BY <2>1, <3>1, <3>3 DEF OpenShape, HasData
      <4> QED BY <1>1, <1>2, <2>1, <4>1, PlaceInDeque DEF HasData
    <3>5. Len(served) = source.blocks
      BY <1>2, <2>1, <3>4 DEF Delivered, RemoteInOrder
    <3> QED BY <1>1, <2>1, <3>1, <3>2, <3>5 DEF OrderInv, RemoteInOrder, Delivered
  <2> QED BY <2>2, <2>3
<1>8. ASSUME Close  PROVE OrderInv'
  BY <1>1, <1>8 DEF OrderInv, RemoteInOrder, Close
<1>9. ASSUME DeleteBlock  PROVE OrderInv'
  BY <1>1, <1>9 DEF OrderInv, RemoteInOrder, DeleteBlock
<1>10. ASSUME UNCHANGED remoteVars  PROVE OrderInv'
  BY <1>1, <1>10 DEF OrderInv, RemoteInOrder, Delivered, remoteVars, Current, Waiting, Ends
<1> QED BY <1>3, <1>4, <1>5, <1>6, <1>7, <1>8, <1>9, <1>10 DEF RemoteNext

\* While no opening read fails unnoticed and no refusal comes with a body, the
\* clients together get the blocks of the file, each once and in order, and
\* nobody is told of the end before the last block is out, however the answers
\* to the requests overtake each other.
THEOREM RemoteDelivery ==
  ASSUME ~FirstReadFails, ~ErrorHasBody
  PROVE  RemoteSpec => []RemoteInOrder
<1>1. RemoteInit => OrderInv
  <2>1. SUFFICES ASSUME RemoteInit  PROVE OrderInv
    OBVIOUS
  <2>2. served = << >> /\ source.blocks = 0 /\ phase = "new" /\ ~peeked /\ ended = {}
    BY <2>1 DEF RemoteInit
  <2>3. RemoteInOrder
    BY <2>2 DEF RemoteInOrder
  <2> QED BY <2>1, <2>2, <2>3, MemoryInit DEF OrderInv
<1>2. OrderInv /\ [RemoteNext]_remoteVars => OrderInv'
  BY OrderStep
<1>3. OrderInv => RemoteInOrder
  BY DEF OrderInv
<1> QED BY <1>1, <1>2, <1>3, PTL DEF RemoteSpec
================================================================================
