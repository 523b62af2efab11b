----------------------------- MODULE SchemaMatching -----------------------------
(***************************************************************************)
(* A record written by a C++ library generated from schema src and read by *)
(* one generated from schema ref (src/src/hddm-cpp.cpp: synthesize and     *)
(* sequencer, the two operators << and >> with their event buffers).       *)
(*                                                                         *)
(* When it opens the file the reader matches the two schemas into a tree   *)
(* of codons, one for each tag of src.  For each element it then lets the  *)
(* element's streamer register its containers as targets of the current    *)
(* codon, and hands what comes to the target the codon of its tag names,   *)
(* or to none.                                                             *)
(***************************************************************************)
EXTENDS HddmRecord

CONSTANTS
  SchemaPairs,   \* pairs <<src, ref>> that are tried
  Counts,        \* how many elements of each tag the records have
  Capacities,    \* sizes of the event buffers at the start
  MaxReads       \* bound: records per file

\* A link whose elements have neither attributes nor contents is written as
\* nothing at all, and read as absent: such schemas are left out.
ASSUME NoHollowLinks == \A pair \in SchemaPairs : \A k \in Tags :
  \/ pair[1].sig[k] > 0 \/ pair[1].kids[k] # << >> \/ pair[1].many[k]

VARIABLES
  pair,       \* the schemas of the writer and the reader
  record,     \* the record under way
  obuf,       \* the event buffer of the writer
  stream,     \* the words that reached the file
  incap,      \* event_buffer_size of the reader
  reader,     \* the reader: genome, place, codon, targets
  received,   \* the record the reader has built
  done,       \* records read
  stage       \* idle, streaming, streamed, written, read

matchVars == <<pair, record, obuf, stream, incap, reader, received, done, stage>>

Source == pair[1]
Target == pair[2]

-----------------------------------------------------------------------------
(* Codons.  One is addressed by its path in the tree, a sequence of places. *)

\* synthesize: m_order is the place of the tag among its siblings in ref, 0 if it
\* is not there or collides; then it has no sequence of its own.
Order(src, ref, t, k) ==
  IF SameTag(src, ref, k) /\ k \in ToSet(ref.kids[t])
    THEN SelectInSeq(ref.kids[t], LAMBDA x : x = k) ELSE 0

RECURSIVE Synthesize(_, _, _)
Synthesize(src, ref, t) ==
  [j \in DOMAIN src.kids[t] |->
     LET k == src.kids[t][j]
         order == Order(src, ref, t, k)
     IN [tag |-> k, order |-> order,
         seq |-> IF order > 0 THEN Synthesize(src, ref, k) ELSE << >>]]

\* The chromosome below the codon at path c of a genome.
Sequence(genome, c) ==
  LET down[n \in 0 .. Len(c)] ==
        IF n = 0 THEN genome ELSE down[n - 1][c[n]].seq
  IN down[Len(c)]

-----------------------------------------------------------------------------
(* Streamables of the reader: an element, a container of an element, and    *)
(* the null_streamable.                                                     *)

Nothing == [kind |-> "null", path |-> << >>, tag |-> Root]
AnElement(p) == [kind |-> "element", path |-> p, tag |-> TagOf(p)]
Container(p, k) == [kind |-> "list", path |-> p, tag |-> k]

\* The reader as a record: its genome, and the schema its streamers were
\* generated from; the words of a record, and a place in them; sequencing and
\* codon; m_target of each codon; the elements built so far.
WordAt(x) == IF x.pos < Len(x.words) THEN x.words[x.pos + 1] ELSE 0
Skipped(x, n) == [x EXCEPT !.pos = @ + n]
Targets(x, c) == IF c \in DOMAIN x.target THEN x.target[c] ELSE << >>
SetTargets(x, c, ts) ==
  [x EXCEPT !.target = [d \in DOMAIN @ \cup {c} |-> IF d = c THEN ts ELSE @[d]]]
WithElement(x, p, v) ==
  [x EXCEPT !.built = [q \in DOMAIN @ \cup {p} |-> IF q = p THEN v ELSE @[q]]]

RECURSIVE Sequencer(_, _)

\* operator>>(streamable): while sequencing it only registers the target.
Input(x, obj) ==
  IF x.sequencing
    THEN SetTargets(x, x.codon, Append(Targets(x, x.codon), obj))
    ELSE LET size == WordAt(x)
             from == Skipped(x, 1)
         IN IF size > 0 THEN [Sequencer(from, obj) EXCEPT !.pos = from.pos + size]
                        ELSE from

\* The streamer of an element: the attributes are read, the containers register.
\* An element no attribute of which is read is there all the same.
ElementIn(x, p) ==
  LET n == x.ref.sig[TagOf(p)]
      Each(acc, k) == Input(acc, Container(p, k))
  IN FoldLeft(Each, Skipped(WithElement(x, p, IF n > 0 THEN WordAt(x) ELSE 0), n),
              x.ref.kids[TagOf(p)])

\* The streamer of a list runs the sequencer on each element and then switches
\* sequencing off, for the sequencer that called it has nothing left to do.
ListIn(x, p, k) ==
  LET n == WordAt(x)
      Each(acc, i) == Sequencer(acc, AnElement(Child(p, k, i)))
  IN [FoldLeft(Each, Skipped(x, 1), [i \in 1 .. n |-> i]) EXCEPT !.sequencing = FALSE]

StreamerIn(x, obj) ==
  CASE obj.kind = "null"    -> x
    [] obj.kind = "element" -> ElementIn(x, obj.path)
    [] obj.kind = "list" /\ x.ref.many[obj.tag]   -> ListIn(x, obj.path, obj.tag)
    [] obj.kind = "list" /\ ~ x.ref.many[obj.tag] -> ElementIn(x, Child(obj.path, obj.tag, 1))

\* Wrong variants, to show what the properties detect: targets of an earlier
\* element kept, the buffer grown once and not checked again.
KeepsTargets(x) == [x EXCEPT !.sequencing = TRUE]
GrowNever(b) == FALSE

Begun(x) == SetTargets([x EXCEPT !.sequencing = TRUE], x.codon, << >>)

Sequencer(x, obj) ==
  LET gene     == x.codon
      streamed == StreamerIn(Begun(x), obj)
      ready    == SetTargets([streamed EXCEPT !.sequencing = FALSE], gene,
                             <<Nothing>> \o Targets(streamed, gene))
      genes    == Sequence(x.genome, gene)
      Each(acc, j) == Input([acc EXCEPT !.codon = Append(gene, j)],
                            Targets(acc, gene)[genes[j].order + 1])
  IN IF streamed.sequencing
       THEN [FoldLeft(Each, ready, [j \in DOMAIN genes |-> j]) EXCEPT !.codon = gene]
       ELSE streamed

NewReader(src, ref) ==
  [genome |-> Synthesize(src, ref, Root), ref |-> ref, words |-> << >>, pos |-> 0,
   sequencing |-> FALSE, codon |-> << >>, target |-> << >>, built |-> << >>]

-----------------------------------------------------------------------------
MatchInit ==
  /\ pair = <<>> /\ record = << >> /\ obuf = EmptyBuffer(0) /\ stream = << >>
  /\ incap = 0 /\ reader = << >> /\ received = << >> /\ done = 0 /\ stage = "idle"

\* A file is created and opened: the schema is in its header.
OpenBoth(pr, cap) ==
  /\ stage = "idle"
  /\ pair' = pr
  /\ obuf' = EmptyBuffer(cap)
  /\ incap' = cap
  /\ reader' = NewReader(pr[1], pr[2])
  /\ stage' = "read"
  /\ UNCHANGED <<record, stream, received, done>>

\* A value for each element, different for all of a record.
TagNumber(k) == CHOOSE i \in 1 .. Cardinality(Tags) : k = SetToSeq(Tags)[i]
NewRecord(s, paths, seed) ==
  [p \in paths |->
     IF s.sig[TagOf(p)] = 0 THEN 0
     ELSE 100 + FoldLeft(LAMBDA acc, q : 8 * acc + 2 * TagNumber(q[1]) + q[2], seed, p)]

\* ostream::operator<<(HDDM): reset, then stream the record into the buffer.
Begin(n) ==
  /\ stage = "read" /\ done < MaxReads
  /\ record' = NewRecord(Source, Paths(Source, n, 3), done)
  /\ obuf' = EmptyBuffer(obuf.cap)
  /\ stage' = "streaming"
  /\ UNCHANGED <<pair, stream, incap, reader, received, done>>

Stream ==
  /\ stage = "streaming"
  /\ obuf' = StreamRecord(obuf, Source, record)
  /\ stage' = "streamed"
  /\ UNCHANGED <<pair, record, stream, incap, reader, received, done>>

\* The buffer was too small if it is full.
Full(b) == b.pos = b.cap

Grow ==
  /\ stage = "streamed" /\ Full(obuf)
  /\ obuf' = EmptyBuffer(2 * obuf.cap)
  /\ stage' = "streaming"
  /\ UNCHANGED <<pair, record, stream, incap, reader, received, done>>

WriteOut ==
  /\ stage = "streamed" /\ ~ Full(obuf)
  /\ stream' = stream \o SubSeq(obuf.words, 1, obuf.pos)
  /\ stage' = "written"
  /\ UNCHANGED <<pair, record, obuf, incap, reader, received, done>>

\* istream::operator>>(HDDM): the size word, a larger buffer if need be, into
\* which the size word is copied, the rest of the record, the sequencer.
ReadIn ==
  LET size   == Head(stream)
      room   == IF size + 2 > incap THEN size + 250 ELSE incap
      loaded == [reader EXCEPT !.words = SubSeq(stream, 1, size + 1), !.pos = 0,
                               !.codon = << >>, !.built = << >>]
      x      == Input(loaded, AnElement(<< >>))
  IN /\ stage = "written"
     /\ incap' = room
     /\ reader' = [x EXCEPT !.words = << >>]
     /\ received' = x.built
     /\ stream' = SubSeq(stream, size + 2, Len(stream))
     /\ done' = done + 1
     /\ stage' = "read"
     /\ UNCHANGED <<pair, record, obuf>>

MatchNext ==
  \/ \E pr \in SchemaPairs, cap \in Capacities : OpenBoth(pr, cap)
  \/ \E n \in Counts : Begin(n)
  \/ Stream
  \/ Grow
  \/ WriteOut
  \/ ReadIn

MatchSpec == MatchInit /\ [][MatchNext]_matchVars

-----------------------------------------------------------------------------
MatchTypeOK ==
  /\ pair \in SchemaPairs \cup {<< >>}
  /\ obuf \in Buffer
  /\ stream \in Seq(Nat)
  /\ incap \in Nat
  /\ done \in 0 .. MaxReads
  /\ stage \in {"idle", "streaming", "streamed", "written", "read"}

\* What reaches the file is the whole record with every size right, however
\* often the event buffer was too small for it on the way
\* (hddm-cpp.cpp:4446-4458 and 4495-4505).
RecordWhole == stage = "written" => stream = EncodedRecord(Source, record)

\* A reader built for another schema gets exactly the elements both schemas
\* have, each with its own values, whatever stands before, between or below
\* them in the file, record after record (hddm-cpp.cpp:4402-4443, 1040-1051).
ReadsCommonPart ==
  (stage = "read" /\ done > 0) => /\ received = CommonPart(Source, Target, record)
                                 /\ stream = << >>
================================================================================
