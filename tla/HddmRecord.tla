------------------------------- MODULE HddmRecord -------------------------------
(***************************************************************************)
(* Schemas, records, and the words a record is encoded in, as the          *)
(* generated streamers (src/src/hddm-cpp.cpp: writeStreamers,              *)
(* HDDM_ElementList, HDDM_ElementLink, ostream::operator<<) and the event  *)
(* buffer produce them.                                                    *)
(*                                                                         *)
(* A tag has one definition wherever it appears in a schema: how many      *)
(* words its attributes need, whether it may be repeated, and the tags in  *)
(* it, in order.  A record is the set of its elements: an element is named *)
(* by its path from the root, a sequence of pairs <<tag, place>>, and      *)
(* carries one number, which stands for the values of its attributes.      *)
(* All sizes are counted in the four-byte words of XDR.                    *)
(***************************************************************************)
EXTENDS Integers, SequencesExt

CONSTANTS Tags, Root

ASSUME RootAssumption == Root \in Tags

Schemas ==
  [sig : [Tags -> Nat], many : [Tags -> BOOLEAN], kids : [Tags -> Seq(Tags)]]

TagOf(p) == IF p = << >> THEN Root ELSE Last(p)[1]
Child(p, k, i) == Append(p, <<k, i>>)

\* The elements of tag k in element p of record r.
Count(r, p, k) == Cardinality({q \in DOMAIN r : q # << >> /\ Front(q) = p /\ TagOf(q) = k})

\* All elements of schema s down to a depth, n[k] of tag k in each element, at
\* most one if k may not be repeated.
Paths(s, n, depth) ==
  LET Places(k) == 1 .. IF s.many[k] THEN n[k] ELSE IF n[k] > 0 THEN 1 ELSE 0
      upto[d \in 0 .. depth] ==
        IF d = 0 THEN {<< >>}
        ELSE upto[d - 1] \cup
             {Child(p, ki[1], ki[2]) : <<p, ki>> \in
                {<<q, kj>> \in upto[d - 1] \X (Tags \X (1 .. 2)) :
                   kj[1] \in ToSet(s.kids[TagOf(q)]) /\ kj[2] \in Places(kj[1])}}
  IN upto[depth]

-----------------------------------------------------------------------------
(* The reference encoding: each container is preceded by the size of what  *)
(* follows; a list starts with its length, unless it is empty.             *)

Values(s, r, p) == [i \in 1 .. s.sig[TagOf(p)] |-> r[p]]

RECURSIVE Encoded(_, _, _)
EncodedList(s, r, p, k) ==
  LET n == Count(r, p, k)
      bodies == FlattenSeq([i \in 1 .. n |-> Encoded(s, r, Child(p, k, i))])
      body == IF s.many[k] /\ n > 0 THEN <<n>> \o bodies ELSE bodies
  IN <<Len(body)>> \o body

Encoded(s, r, p) ==
  LET kids == s.kids[TagOf(p)]
  IN Values(s, r, p) \o FlattenSeq([j \in DOMAIN kids |-> EncodedList(s, r, p, kids[j])])

EncodedRecord(s, r) == <<Len(Encoded(s, r, << >>))>> \o Encoded(s, r, << >>)

-----------------------------------------------------------------------------
(* The output side: an ostreambuffer of fixed capacity, in which what does *)
(* not fit is lost, and in which sizes are patched after their contents.   *)

Buffer == [words : Seq(Nat), pos : Nat, cap : Nat]
EmptyBuffer(cap) == [words |-> << >>, pos |-> 0, cap |-> cap]

Put(b, w) ==
  IF b.pos = b.cap THEN b
  ELSE [b EXCEPT !.words = IF b.pos < Len(@) THEN [@ EXCEPT ![b.pos + 1] = w]
                                             ELSE Append(@, w),
                 !.pos = @ + 1]
Seek(b, pos) == [b EXCEPT !.pos = pos]
PutAll(b, ws) == FoldLeft(Put, b, ws)

RECURSIVE StreamElement(_, _, _, _)

\* HDDM_ElementList::streamer and HDDM_ElementLink::streamer: nothing at all for
\* an empty one.
StreamList(b, s, r, pk) ==
  LET n == Count(r, pk[1], pk[2])
      Each(acc, i) == StreamElement(acc, s, r, Child(pk[1], pk[2], i))
  IN IF n = 0 THEN b
     ELSE FoldLeft(Each, IF s.many[pk[2]] THEN Put(b, n) ELSE b, [i \in 1 .. n |-> i])

\* ostream::operator<<(streamable): behind a place for its size an object was
\* streamed; the size is written there.
Sized(opened, filled) ==
  Seek(Put(Seek(filled, opened.pos - 1), filled.pos - opened.pos), filled.pos)

\* The streamer of an element: its attributes, then its containers.
StreamElement(b, s, r, p) ==
  LET kids == s.kids[TagOf(p)]
      Each(acc, k) == LET opened == Put(acc, 0)
                      IN Sized(opened, StreamList(opened, s, r, <<p, k>>))
  IN FoldLeft(Each, PutAll(b, Values(s, r, p)), kids)

StreamRecord(b, s, r) ==
  LET opened == Put(b, 0) IN Sized(opened, StreamElement(opened, s, r, << >>))

-----------------------------------------------------------------------------
(* What a program built for schema ref may know of a record written under  *)
(* schema src: the elements whose tags, all the way up, are in both with   *)
(* the same definition.                                                    *)

SameTag(src, ref, k) ==
  k = Root \/ (src.sig[k] = ref.sig[k] /\ src.many[k] = ref.many[k])

InBoth(src, ref, p) == \A j \in DOMAIN p :
  /\ p[j][1] \in ToSet(ref.kids[TagOf(SubSeq(p, 1, j - 1))])
  /\ SameTag(src, ref, p[j][1])

CommonPart(src, ref, r) ==
  [p \in {q \in DOMAIN r : InBoth(src, ref, q)} |-> IF ref.sig[TagOf(p)] > 0 THEN r[p] ELSE 0]
================================================================================
