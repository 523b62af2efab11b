------------------------------ MODULE HddmOstreamMC ------------------------------
(* Instances of HddmOstream for TLC.                                        *)
EXTENDS HddmOstreamLog

CONSTANTS t1, t2, t3, free  \* model values: threads, and the free mutex

\* Arguments of setCompression.
NoCompression == {}
ZOnly == {{"z"}}
ZAndBz2 == {{"z"}, {"bz2"}}
ZAndOff == {{"z"}, {}}
AllCompressions == {{"z"}, {"bz2"}, {}}

\* Blocks of two records, and blocks of one.
TwoPerBlock == [z |-> 1, bz2 |-> 1]
OnePerBlock == [z |-> 0, bz2 |-> 0]

\* The threads other than the opener are interchangeable.
Workers == Permutations(Threads \ {Opener})
================================================================================
