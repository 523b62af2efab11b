---------------------------------- MODULE HddmC ----------------------------------
(***************************************************************************)
(* The C library that hddm-c generates (src/src/hddm-c.cpp): packers,      *)
(* unpackers and the pop tree that tells the unpackers how the schema of a *)
(* file differs from the library's own.  It shares the file format with    *)
(* the C++ library: files it writes are read by both here.                 *)
(*                                                                         *)
(* The files have neither compression nor integrity checks: a C program    *)
(* exits when it meets the token that announces one.                       *)
(***************************************************************************)
EXTENDS SchemaMatching

CONSTANTS
  IobufferSizes,    \* pairs of sizes of iobuffer, <<writer's, reader's>>
  LeafListsMatch,   \* are repeated tags without contents in the reader's schema
                    \* without contents in the file's as well?
  FitTwice          \* does each record fit in twice the buffer of its reader?

ASSUME CAssumption == LeafListsMatch \in BOOLEAN /\ FitTwice \in BOOLEAN

VARIABLES
  cpair,      \* the schemas of the writer and the reader
  csize,      \* iobuffer_size of the writer, and of the reader
  popTop,     \* the pop list of the reader
  cfile,      \* the words of the file not yet read
  pending,    \* the records in them
  taken,      \* the record the reader took last, and what came of it
  cstage      \* new, created, refused, open, exited, overrun

cVars == <<cpair, csize, popTop, cfile, pending, taken, cstage>>

-----------------------------------------------------------------------------
(* matches(): a pop node for each tag of the file the library knows, with   *)
(* its place in the structure of its parent; NoNode for the others.         *)

NoNode == [inParent |-> 0, list |-> << >>]

RECURSIVE PopList(_, _, _)
PopList(src, ref, t) ==
  [j \in DOMAIN src.kids[t] |->
     LET k == src.kids[t][j]
         place == Order(src, ref, t, k)
     IN IF place = 0 THEN NoNode
        ELSE [inParent |-> place, list |-> PopList(src, ref, k)]]

\* A list of one tag that only the file gives contents to: what a C reader does
\* not expect there, it does not skip between two elements of the list.
LeafListGrown(src, ref) ==
  \E k \in Tags : ref.many[k] /\ ref.kids[k] = << >> /\ src.kids[k] # << >>

-----------------------------------------------------------------------------
(* unpack: the position in the words, and the structures built so far.      *)

NothingBut(x, p) == WithElement(x, p, IF x.ref.sig[TagOf(p)] > 0 THEN WordAt(x) ELSE 0)

RECURSIVE UnpackItem(_, _, _, _)

\* The attributes, then what the pop list says, if the structure has contents.
UnpackElement(x, p, list) ==
  LET kids == x.ref.kids[TagOf(p)]
      Each(acc, node) ==
        IF node = NoNode THEN Skipped(acc, 1 + WordAt(acc))
                         ELSE UnpackItem(acc, p, kids[node.inParent], node.list)
      own == Skipped(NothingBut(x, p), x.ref.sig[TagOf(p)])
  IN IF kids = << >> THEN own ELSE FoldLeft(Each, own, list)

UnpackItem(x, p, k, list) ==
  LET size == WordAt(x)
      from == Skipped(x, 1)
      mult == WordAt(from)
      Each(acc, i) == UnpackElement(acc, Child(p, k, i), list)
      read == IF x.ref.many[k]
                THEN FoldLeft(Each, Skipped(from, 1), [i \in 1 .. mult |-> i])
                ELSE UnpackElement(from, Child(p, k, 1), list)
  IN IF size = 0 THEN from ELSE [read EXCEPT !.pos = from.pos + size]

Unpack(ref, list, words) ==
  UnpackElement([ref |-> ref, words |-> words, pos |-> 1, built |-> << >>],
                << >>, list).built

-----------------------------------------------------------------------------
(* pack: an empty list is the null target, or a structure with mult = 0.    *)

RECURSIVE PackElement(_, _, _, _, _)

PackItem(b, s, r, p, k, nulls) ==
  LET n == Count(r, p, k)
      Each(acc, i) == PackElement(acc, s, r, Child(p, k, i), nulls)
      opened == Put(b, 0)
      counted == IF s.many[k] THEN Put(opened, n) ELSE opened
  IN IF n = 0 /\ (nulls \/ ~ s.many[k]) THEN Put(b, 0)
     ELSE Sized(opened, FoldLeft(Each, counted, [i \in 1 .. n |-> i]))

PackElement(b, s, r, p, nulls) ==
  FoldLeft(LAMBDA acc, k : PackItem(acc, s, r, p, k, nulls),
           PutAll(b, Values(s, r, p)), s.kids[TagOf(p)])

\* Wrong variants: the length of an empty list is left out of its size; tags the
\* library does not know are not skipped.
PackCountless(b, s, r, nulls) ==
  LET opened == Put(b, 0)
      x == Sized(opened, PackElement(opened, s, r, << >>, TRUE))
  IN IF nulls THEN x ELSE Put(x, 0)

TopListKnownOnly(src, ref) ==
  SelectSeq(PopList(src, ref, Root), LAMBDA node : node # NoNode)

Pack(b, s, r, nulls) ==
  LET opened == Put(b, 0) IN Sized(opened, PackElement(opened, s, r, << >>, nulls))

TopList(src, ref) == PopList(src, ref, Root)

-----------------------------------------------------------------------------
CInit ==
  /\ cpair = << >> /\ csize = [out |-> 0, in |-> 0] /\ popTop = << >>
  /\ cfile = << >> /\ pending = << >> /\ cstage = "new"
  /\ taken = [record |-> << >>, byC |-> << >>, byCpp |-> << >>]

\* init_HDDM: the file, under the schema of its writer.
CCreate(pr, size) ==
  /\ cstage = "new"
  /\ LeafListsMatch => ~ LeafListGrown(pr[1], pr[2])
  /\ cpair' = pr
  /\ csize' = [csize EXCEPT !.out = size]
  /\ cstage' = "created"
  /\ UNCHANGED <<popTop, cfile, pending, taken>>

\* open_HDDM: a file whose root has no contents is refused.
COpen(size) ==
  /\ cstage = "created"
  /\ csize' = [csize EXCEPT !.in = size]
  /\ popTop' = TopList(cpair[1], cpair[2])
  /\ cstage' = IF popTop' = << >> THEN "refused" ELSE "open"
  /\ UNCHANGED <<cpair, cfile, pending, taken>>

\* flush_HDDM: the first word that finds no room ends the program.  The buffer is
\* given one word more than it has: if that is used, a word found no room.
Flush(n, nulls) ==
  LET s == cpair[1]
      r == NewRecord(s, Paths(s, n, 3), Len(pending))
      b == Pack(EmptyBuffer(csize.out + 1), s, r, nulls)
  IN /\ cstage = "open" /\ Len(pending) < MaxReads
     /\ FitTwice => Full(b) \/ Len(b.words) <= 2 * csize.in
     /\ IF Full(b)
          THEN /\ cstage' = "exited"
               /\ UNCHANGED <<cfile, pending>>
          ELSE /\ cfile' = cfile \o b.words
               /\ pending' = Append(pending, r)
               /\ UNCHANGED cstage
     /\ UNCHANGED <<cpair, csize, popTop, taken>>

\* read_HDDM and skip_HDDM: the buffer is doubled once if the record does not fit.
Fetch ==
  LET size == Head(cfile)
  IN /\ cstage = "open" /\ cfile # << >>
     /\ csize' = [csize EXCEPT !.in = IF size + 1 > @ THEN 2 * @ ELSE @]
     /\ cstage' = IF size + 1 > csize'.in THEN "overrun" ELSE cstage
     /\ cfile' = SubSeq(cfile, size + 2, Len(cfile))
     /\ pending' = Tail(pending)
     /\ UNCHANGED <<cpair, popTop>>

Read ==
  LET words == SubSeq(cfile, 1, Head(cfile) + 1)
      cpp   == [NewReader(cpair[1], cpair[2]) EXCEPT !.words = words]
  IN /\ Fetch
     /\ taken' = [record |-> Head(pending),
                  byC    |-> Unpack(cpair[2], popTop, words),
                  byCpp  |-> Input(cpp, AnElement(<< >>)).built]

Skip == Fetch /\ UNCHANGED taken

CNext ==
  \/ \E pr \in SchemaPairs, sizes \in IobufferSizes : CCreate(pr, sizes[1])
  \/ \E sizes \in IobufferSizes : csize.out = sizes[1] /\ COpen(sizes[2])
  \/ \E n \in Counts, nulls \in BOOLEAN : Flush(n, nulls)
  \/ Read
  \/ Skip

CSpec == CInit /\ [][CNext]_cVars

-----------------------------------------------------------------------------
CTypeOK ==
  /\ cpair \in SchemaPairs \cup {<< >>}
  /\ csize \in [out : Nat, in : Nat]
  /\ cfile \in Seq(Nat)
  /\ Len(pending) <= MaxReads
  /\ cstage \in {"new", "created", "refused", "open", "exited", "overrun"}

\* A C reader built for another schema gets exactly the elements both schemas
\* have, record after record, also past records it skips (hddm-c.cpp:1140-1330,
\* 1880-1962).
CReadsCommonPart ==
  cstage = "open" => taken.byC = CommonPart(cpair[1], cpair[2], taken.record)

\* The two libraries understand the same files: what C wrote, C++ reads, however
\* the program represented its empty lists; the file of a C writer holds whole
\* records only, and reading one never writes beyond the buffer
\* (hddm-c.cpp:1459-1716, 1356-1376).
CFilesReadable ==
  /\ cstage = "open" => taken.byCpp = CommonPart(cpair[1], cpair[2], taken.record)
  /\ cstage # "overrun"
  /\ cfile = << >> <=> pending = << >>
================================================================================
