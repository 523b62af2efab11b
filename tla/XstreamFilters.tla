------------------------------- MODULE XstreamFilters -------------------------------
(***************************************************************************)
(* The output filters of xstream, one behind the other: a tee whose        *)
(* destinations are a checksum, a dater, a base64 encoder and two plain    *)
(* files that may fail (src/xstream/src/tee.cpp, digest.cpp, dater.cpp,    *)
(* base64.cpp).  Bytes are numbers, a base64 digit is its value, Pad and   *)
(* Delim stand for '=' and the line delimiter, Date for the text of a date.*)
(***************************************************************************)
EXTENDS SequencesExt, Integers

CONSTANTS
  FilterBytes,   \* bytes that are written
  Widths,        \* line widths of the base64 encoder, 0 for no lines
  MaxSent,       \* bound: bytes written
  DigestRoom     \* the size of the buffer of the checksum

\* Lines of less than a group of digits confuse the encoder and the decoder.
ASSUME FilterAssumption ==
  /\ \A w \in Widths : w = 0 \/ w >= 4
  /\ FilterBytes \subseteq 0 .. 255 /\ DigestRoom \in Nat \ {0}

Pad == 64
Delim == 65
Date == 256
Separator == 10
Disks == {"disk1", "disk2"}

VARIABLES
  sent,      \* the bytes the program has written
  teeDest,   \* destinations of the tee
  summed,    \* the checksum: [fed, held]
  dated,     \* the dater: [text, next : write_next]
  coded,     \* the base64 encoder: [held, col, out, width]
  disks,     \* what each file holds
  broken,    \* the files that fail
  takenOut,  \* those the program has not added to the tee or has removed
  bytewise,  \* was every byte written by a call of its own?
  fstage     \* new, open, bad (the program's stream), undefined, closed

filterVars == <<sent, teeDest, summed, dated, coded, disks, broken, takenOut, bytewise, fstage>>

-----------------------------------------------------------------------------
(* base64.                                                                  *)

Encode(b) == <<b[1] \div 4, (b[1] % 4) * 16 + b[2] \div 16,
               (b[2] % 16) * 4 + b[3] \div 64, b[3] % 64>>

Decode(e) == <<(e[1] * 4 + e[2] \div 16) % 256, (e[2] * 16 + e[3] \div 4) % 256,
               (e[3] * 64 + e[4]) % 256>>

\* A wrong variant: the column is not counted on over the delimiter.
LineRestarts(x, enc) ==
  IF x.width > 0 /\ x.width - x.col <= 4
    THEN [x EXCEPT !.out = @ \o enc \o <<Delim>>, !.col = 0]
    ELSE [x EXCEPT !.out = @ \o enc, !.col = @ + 4]

\* ostreambuf::write of a group of four digits.
WriteGroup(x, enc) ==
  LET rcol == x.width - x.col
  IN IF x.width > 0 /\ rcol <= 4
       THEN [x EXCEPT !.out = @ \o SubSeq(enc, 1, rcol) \o <<Delim>> \o SubSeq(enc, rcol + 1, 4),
                      !.col = 4 - rcol]
       ELSE [x EXCEPT !.out = @ \o enc, !.col = @ + 4]

CodedPut(x, c) ==
  IF Len(x.held) < 3 THEN [x EXCEPT !.held = Append(@, c)]
  ELSE [WriteGroup(x, Encode(x.held)) EXCEPT !.held = <<c>>]

\* The destructor pads what is left.
CodedClose(x) ==
  LET n   == Len(x.held)
      enc == Encode([i \in 1 .. 3 |-> IF i <= n THEN x.held[i] ELSE 0])
  IN IF n = 0 THEN x
     ELSE WriteGroup(x, [i \in 1 .. 4 |-> IF i <= n + 1 THEN enc[i] ELSE Pad])

\* istreambuf::underflow until the end, from column col on.
RECURSIVE DecodeAll(_, _, _)
DecodeAll(in, width, col) ==
  LET av   == width - col
      line == width > 0 /\ av <= 4
      raw  == SubSeq(in, 1, IF line THEN 5 ELSE 4)
      enc  == IF line THEN RemoveAt(raw, av + 1) ELSE raw
      len  == IF enc[4] # Pad THEN 3 ELSE IF enc[3] # Pad THEN 2 ELSE 1
      full == [i \in 1 .. 4 |-> IF enc[i] = Pad THEN 0 ELSE enc[i]]
  IN IF Len(in) < (IF line THEN 5 ELSE 4) THEN << >>
     ELSE IF line /\ raw[av + 1] # Delim THEN <<-1>>
     ELSE SubSeq(Decode(full), 1, len) \o
          IF len < 3 THEN << >>
          ELSE DecodeAll(SubSeq(in, Len(raw) + 1, Len(in)), width,
                         IF line THEN 4 - av ELSE col + 4)

-----------------------------------------------------------------------------
(* The checksum: what was fed to it, and what its buffer holds.             *)

SummedSync(x) == [fed |-> x.fed \o x.held, held |-> << >>]

SummedPut(x, c) ==
  LET room == IF Len(x.held) < DigestRoom THEN x ELSE SummedSync(x)
  IN [room EXCEPT !.held = Append(@, c)]

SummedWrite(x, s) == [SummedSync(x) EXCEPT !.fed = @ \o s]

-----------------------------------------------------------------------------
(* The dater: a date before the first byte of each line.                    *)

WriteDate(x) == IF x.next THEN [text |-> Append(x.text, Date), next |-> FALSE] ELSE x

DatedPut(x, c) ==
  LET y == WriteDate(x)
  IN [text |-> Append(y.text, c), next |-> y.next \/ c = Separator]

\* xsputn writes up to the last separator; of what follows only the date is
\* written, at the first byte, and the rest is dropped.
DatedWrite(x, s) ==
  LET Step(y, i) ==
        LET z == WriteDate(y.out)
            line == SubSeq(s, y.beg, i)
        IN IF s[i] = Separator
             THEN [out |-> [text |-> z.text \o line, next |-> TRUE], beg |-> i + 1]
             ELSE [y EXCEPT !.out = z]
  IN FoldLeft(Step, [out |-> x, beg |-> 1], [i \in DOMAIN s |-> i]).out

-----------------------------------------------------------------------------
(* The tee.  After a call it erases the destinations that returned eof, one *)
(* after the other, each time going on from the iterator it has erased:     *)
(* then it may miss others, or end anywhere.                                *)

\* A wrong variant: one failure and all files are given up.
AllErased(failed, stage, left) ==
  left = IF failed = {} THEN teeDest ELSE teeDest \ Disks

Erased(failed, stage, left) ==
  /\ failed = {} => left = teeDest
  /\ failed # {} => \E gone \in SUBSET failed : gone # {} /\ left = teeDest \ gone

\* A call has been passed on to all destinations, and failed is what some said.
AfterCall(failed) ==
  \E left \in SUBSET teeDest, undefined \in BOOLEAN :
    /\ Erased(failed, fstage, left)
    /\ undefined => failed # {}
    /\ teeDest' = left
    /\ fstage' = IF undefined THEN "undefined" ELSE IF left = {} THEN "bad" ELSE "open"

Reached(d, new, old) == IF d \in teeDest THEN new ELSE old
DisksGet(s) == [d \in Disks |-> IF d \in teeDest \ broken THEN disks[d] \o s ELSE disks[d]]

FilterInit ==
  /\ sent = << >> /\ teeDest = {} /\ summed = [fed |-> << >>, held |-> << >>]
  /\ dated = [text |-> << >>, next |-> TRUE]
  /\ coded = [held |-> << >>, col |-> 0, out |-> << >>, width |-> 0]
  /\ disks = [d \in Disks |-> << >>] /\ broken = {} /\ takenOut = {} /\ bytewise = TRUE /\ fstage = "new"

\* The program builds the filters, and adds all but one file, or only the files, to the tee.
FOpen(dests, w) ==
  /\ fstage = "new"
  /\ teeDest' = dests
  /\ coded' = [coded EXCEPT !.width = w]
  /\ takenOut' = Disks \ dests
  /\ fstage' = "open"
  /\ UNCHANGED <<sent, summed, dated, disks, broken, bytewise>>

\* tee overflow: one byte.
FPut(c) ==
  /\ fstage = "open" /\ Len(sent) < MaxSent
  /\ sent' = Append(sent, c)
  /\ summed' = Reached("sum", SummedPut(summed, c), summed)
  /\ dated' = Reached("dater", DatedPut(dated, c), dated)
  /\ coded' = Reached("base64", CodedPut(coded, c), coded)
  /\ disks' = DisksGet(<<c>>)
  /\ AfterCall(teeDest \cap broken)
  /\ UNCHANGED <<broken, takenOut, bytewise>>

\* tee xsputn: a destination that takes less than it was given is no failure.
FWrite(s) ==
  /\ fstage = "open" /\ Len(sent) + Len(s) <= MaxSent
  /\ sent' = sent \o s
  /\ summed' = Reached("sum", SummedWrite(summed, s), summed)
  /\ dated' = Reached("dater", DatedWrite(dated, s), dated)
  /\ coded' = Reached("base64", FoldLeft(CodedPut, coded, s), coded)
  /\ disks' = DisksGet(s)
  /\ AfterCall({})
  /\ bytewise' = FALSE
  /\ UNCHANGED <<broken, takenOut>>

\* tee sync.
FSync ==
  /\ fstage = "open"
  /\ summed' = Reached("sum", SummedSync(summed), summed)
  /\ AfterCall(teeDest \cap broken)
  /\ UNCHANGED <<sent, dated, coded, disks, broken, takenOut, bytewise>>

FRemove(d) ==
  /\ fstage = "open" /\ d \in teeDest
  /\ teeDest' = teeDest \ {d}
  /\ takenOut' = takenOut \cup {d}
  /\ UNCHANGED <<sent, summed, dated, coded, disks, broken, bytewise, fstage>>

\* A file is full.
FBreak(d) ==
  /\ fstage = "open" /\ d \notin broken
  /\ broken' = broken \cup {d}
  /\ UNCHANGED <<sent, teeDest, summed, dated, coded, disks, takenOut, bytewise, fstage>>

\* The program asks for the sum, which syncs the digest first; the destructors.
FClose ==
  /\ fstage = "open"
  /\ summed' = SummedSync(summed)
  /\ coded' = CodedClose(coded)
  /\ fstage' = "closed"
  /\ UNCHANGED <<sent, teeDest, dated, disks, broken, takenOut, bytewise>>

FilterNext ==
  \/ FOpen(Disks, 0)
  \/ \E w \in Widths : FOpen({"sum", "dater", "base64", "disk1"}, w)
  \/ \E c \in FilterBytes : FPut(c)
  \/ \E s \in UNION {[1 .. n -> FilterBytes] : n \in 2 .. 3} : FWrite(s)
  \/ FSync
  \/ \E d \in Disks : FRemove(d) \/ FBreak(d)
  \/ FClose

-----------------------------------------------------------------------------
FilterTypeOK ==
  /\ sent \in Seq(FilterBytes) /\ Len(sent) <= MaxSent
  /\ teeDest \subseteq Disks \cup {"sum", "dater", "base64"}
  /\ Len(summed.held) <= DigestRoom
  /\ Len(coded.held) <= 3 /\ coded.col \in Nat
  /\ broken \subseteq Disks /\ takenOut \subseteq Disks /\ bytewise \in BOOLEAN
  /\ fstage \in {"new", "open", "bad", "undefined", "closed"}

\* However the program cuts what it writes into calls, and whatever happens to
\* other destinations of the tee: the checksum is that of all bytes; a file that
\* works and was not removed has them all, and no error is reported while there
\* is one; a decoder gets back from the encoder what was written; the dater dates
\* each line at its start and nowhere else and keeps every separator, and every
\* byte that came in a call of its own (tee.cpp:66-128, digest.cpp:26-63,
\* base64.cpp:48-112, 192-253, dater.cpp:22-63).
FiltersDeliver ==
  /\ "sum" \in teeDest => summed.fed \o summed.held = sent
  /\ "sum" \in teeDest /\ fstage = "closed" => summed.fed = sent
  /\ fstage # "new" => \A d \in Disks \ (broken \cup takenOut) : d \in teeDest /\ disks[d] = sent
  /\ \A d \in Disks : IsPrefix(disks[d], sent)
  /\ fstage = "bad" => Disks \subseteq broken \cup takenOut
  /\ "base64" \in teeDest /\ fstage = "closed" => DecodeAll(coded.out, coded.width, 0) = sent
  /\ "dater" \in teeDest =>
       LET t == dated.text
           Seps(s) == Len(SelectSeq(s, LAMBDA c : c = Separator))
       IN /\ \A i \in DOMAIN t : t[i] = Date <=> (i = 1 \/ t[i - 1] = Separator)
          /\ Seps(t) = Seps(sent)
          /\ bytewise => SelectSeq(t, LAMBDA c : c # Date) = sent
================================================================================
