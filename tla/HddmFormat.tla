------------------------------- MODULE HddmFormat -------------------------------
(***************************************************************************)
(* What a native HDDM file consists of, as far as streams care: entries    *)
(* that are either a single uncompressed record or token, or a compressed  *)
(* block of them, and the configuration word that says how an entry and    *)
(* the records in it are encoded (src/src/hddm-cpp.cpp, the k_* constants, *)
(* ostream::setCompression, istream::operator>>).                          *)
(***************************************************************************)
EXTENDS Integers, Sequences

Codecs == {"z", "bz2"}

\* The status word: the compression bits (a set, because the code updates
\* them with fetch_and and fetch_or), the crc bit and k_can_reposition.
Status == [cmp : SUBSET Codecs, crc : BOOLEAN, repos : BOOLEAN]

DefaultStatus == [cmp |-> {}, crc |-> FALSE, repos |-> FALSE]

\* The kind of entry a configuration calls for.
KindOf(cmp) == IF cmp = {"z"} THEN "z" ELSE IF cmp = {"bz2"} THEN "bz2" ELSE "none"

\* An entry is [kind, items]; an item is a token, whose bits are the
\* configuration it announces, or a record, whose bits are the configuration
\* it was encoded under.  An entry is readable when it is encoded the way the
\* configuration in force says, and a token, which changes that, ends it.
Fits(bits, entry) ==
  /\ entry.kind = KindOf(bits.cmp)
  /\ \A i \in DOMAIN entry.items :
        IF entry.items[i].tok THEN i = Len(entry.items)
                              ELSE entry.items[i].bits.crc = bits.crc

\* The configuration in force after an entry.
BitsAfter(bits, entry) ==
  LET n == Len(entry.items)
  IN IF n > 0 /\ entry.items[n].tok THEN entry.items[n].bits ELSE bits

\* A reader that takes the entries one after the other, in order.
ReplayStart == [bits |-> DefaultStatus, ok |-> TRUE]

ReplayStep(r, entry) ==
  [bits |-> BitsAfter(r.bits, entry), ok |-> r.ok /\ Fits(r.bits, entry)]

Replay(file) ==
  LET r[n \in 0 .. Len(file)] ==
        IF n = 0 THEN ReplayStart ELSE ReplayStep(r[n - 1], file[n])
  IN r[Len(file)]
================================================================================
