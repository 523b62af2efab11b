------------------------------ MODULE HddmIstreamMC ------------------------------
(* Instances of HddmIstream for TLC, and the files they read.               *)
EXTENDS HddmIstream

CONSTANTS r1, r2, r3, free  \* model values: readers, and the free mutex

Plain == DefaultStatus
Crc == [Plain EXCEPT !.crc = TRUE]
Packed(codec, crc) == [cmp |-> {codec}, crc |-> crc, repos |-> TRUE]

Rec(n, bits) == [tok |-> FALSE, n |-> n, bits |-> bits]
Tok(bits) == [tok |-> TRUE, n |-> 0, bits |-> bits]

Raw(i) == [kind |-> "none", items |-> <<i>>]
Block(codec, items) == [kind |-> codec, items |-> items]

\* Files whose compressed tokens all come before the first record, as when the
\* stream is configured before it is used.
TokensFirst == {
  << Raw(Rec(1, Plain)), Raw(Rec(2, Plain)), Raw(Tok(Crc)), Raw(Rec(3, Crc)) >>,
  << Raw(Tok(Crc)), Raw(Rec(1, Crc)), Raw(Tok(Packed("z", TRUE))),
     Block("z", << Rec(2, Packed("z", TRUE)), Rec(3, Packed("z", TRUE)) >>),
     Block("z", << Rec(4, Packed("z", TRUE)) >>) >>,
  << Raw(Tok(Packed("bz2", FALSE))),
     Block("bz2", << Rec(1, Packed("bz2", FALSE)) >>),
     Block("bz2", << Rec(2, Packed("bz2", FALSE)), Rec(3, Packed("bz2", FALSE)) >>),
     Block("bz2", << Rec(4, Packed("bz2", FALSE)) >>) >>,
  << Raw(Tok(Packed("z", FALSE))), Block("z", << Tok(Packed("bz2", FALSE)) >>),
     Block("bz2", << Tok(Packed("bz2", TRUE)) >>),
     Block("bz2", << Rec(1, Packed("bz2", TRUE)), Rec(2, Packed("bz2", TRUE)) >>),
     Block("bz2", << Rec(3, Packed("bz2", TRUE)) >>) >> }

\* A file whose integrity checks were switched on in the middle.
LateToken == {
  << Raw(Tok(Packed("z", FALSE))),
     Block("z", << Rec(1, Packed("z", FALSE)), Tok(Packed("z", TRUE)) >>),
     Block("z", << Rec(2, Packed("z", TRUE)) >>) >> }

\* A file that starts uncompressed.
HalfPacked == {
  << Raw(Rec(1, Plain)), Raw(Tok(Packed("z", FALSE))),
     Block("z", << Rec(2, Packed("z", FALSE)) >>) >> }

\* Every file of up to MaxEntries entries that one writer can produce: from each
\* configuration, the entries that may come next.
MaxEntries == 3

Changes(bits) ==
  {[bits EXCEPT !.crc = ~@]} \cup
  {[cmp |-> {c}, crc |-> bits.crc, repos |-> TRUE] : c \in {d \in Codecs : bits.cmp # {d}}}

Extensions(f) ==
  LET bits == Replay(f).bits
      n == Cardinality(RecordsOf(f))
      records(m) == [i \in 1 .. m |-> Rec(n + i, bits)]
      more == IF bits.cmp = {}
                THEN {<< Rec(n + 1, bits) >>} \cup {<< Tok(b) >> : b \in Changes(bits)}
                ELSE {records(m) : m \in {1, 3}} \cup
                     {Append(records(m), Tok(b)) : m \in {0, 1}, b \in Changes(bits)}
  IN {Append(f, [kind |-> KindOf(bits.cmp), items |-> items]) : items \in more}

AllFiles ==
  LET g[k \in 0 .. MaxEntries] ==
        IF k = 0 THEN {<< >>} ELSE UNION {Extensions(f) : f \in g[k - 1]}
  IN UNION {g[k] : k \in 1 .. MaxEntries}
================================================================================
