--------------------------------- MODULE HddmXml ---------------------------------
(***************************************************************************)
(* The command line tools: hddmcat puts native files one after the other,  *)
(* hddm-xml turns a native file into an xml document, xml-hddm a document  *)
(* into a native file (src/src/hddmcat.cpp, hddm-xml.cpp, xml-hddm.cpp).   *)
(*                                                                         *)
(* A document is a sequence of trees, one for each element below the root, *)
(* whose attribute values are texts.  What becomes of a value depends on   *)
(* its type: hddm-xml prints six digits of a float or a double, the name   *)
(* and the code of a particle, and a string as it is, markup and all.      *)
(*                                                                         *)
(* Names of tags are taken to be such that none of them begins another,    *)
(* and a document written by hand to have one top element in a line.       *)
(***************************************************************************)
EXTENDS HddmC

CONSTANTS
  XmlSchemas,      \* the schemas of the files

  MaxEntries,      \* bound: records and tokens per file
  PlainEnds,       \* does every file but the last end in the default configuration?
  SwitchedOnce     \* is compression switched on at most once, and never off?

ASSUME XmlAssumption ==
  /\ PlainEnds \in BOOLEAN /\ SwitchedOnce \in BOOLEAN
  /\ \A s \in XmlSchemas : s.type \in [Tags -> {"int", "float", "Particle_t", "string", "anyURI"}]

VARIABLES
  xschema,    \* the schema of all files
  xmode,      \* the configuration in which the file under way is written
  xfiles,     \* the finished files and the one under way, sequences of entries
  xin,        \* the entries hddm-xml has not read yet
  byHand,     \* is the document written by hand?
  xreader,    \* its compression_mode and integrity_check_mode
  document,   \* what it has written
  xout,       \* the records that xml-hddm has written, as words
  xstage      \* new, writing, converting, document, encoded, or what went wrong

xmlVars == <<xschema, xmode, xfiles, xin, byHand, xreader, document, xout, xstage>>

Mode == [comp : {0, 16, 32}, integ : {0, 1}]
DefaultMode == [comp |-> 0, integ |-> 0]

-----------------------------------------------------------------------------
(* Texts of attribute values.  Type int stands for int, long and boolean,   *)
(* whose texts say all, and float for float and double.                     *)

\* Numbers with six digits are the even ones.
SixDigits(v) == v - (v % 2)

\* Strings of five kinds: empty, plain, with characters that xml does not allow
\* in a value (markup), with an entity or a line break, that xml reads as another
\* text (reference), and with a `>' that comes before any other markup and does
\* not follow a `/'.
IsText(type) == type \in {"string", "anyURI"}
TextKinds == 0 .. 4
TextKind(v) == <<"empty", "plain", "markup", "reference", "greater">>[(v % 5) + 1]
Resolved(v) == v - 1

Written(type, v) ==
  CASE type = "Particle_t" -> <<v, "name(code)">>
    [] type = "float"      -> <<SixDigits(v), "number">>
    [] type = "int"        -> <<v, "number">>
    [] IsText(type)        -> <<v, "raw">>

\* A user writes the name of a particle, all digits of a number and markup as
\* entities.
ByHand(type, v) ==
  CASE type = "Particle_t"       -> <<v, "name">>
    [] type \in {"int", "float"} -> <<v, "number">>
    [] IsText(type)              -> <<v, "escaped">>

\* The document is not well formed, or a value is missing, which only a string may
\* be: xml-hddm gives up.
Refused(type, text) ==
  \/ text[2] = "raw" /\ TextKind(text[1]) = "markup"
  \/ type = "anyURI" /\ TextKind(text[1]) = "empty"

\* xml-hddm looks among the first 99 particles for one of that name.
Parsed(type, text) ==
  CASE type = "Particle_t" -> IF text[2] = "name" /\ text[1] < 99 THEN text[1] ELSE 99
    [] text[2] = "raw" /\ TextKind(text[1]) = "reference" -> Resolved(text[1])
    [] OTHER -> text[1]

-----------------------------------------------------------------------------
(* hddm-xml: constructXML of the elements of tag k, which take size words.  *)

Tree(k, text, kids) == [tag |-> k, text |-> text, kids |-> kids]

RECURSIVE ConstructXML(_, _, _, _)

\* One element: its attributes and its containers, whose trees are collected in
\* out; left is what is left of the size.
ElementXML(x, s, k) ==
  LET n == s.sig[k]
      Each(acc, c) ==
        LET held == WordAt(acc)
            from  == [Skipped(acc, 1) EXCEPT !.left = @ - 1 - held]
        IN IF held > 0 THEN [ConstructXML(from, s, c, held) EXCEPT !.left = from.left]
                        ELSE from
      own  == [Skipped(x, n) EXCEPT !.left = @ - n, !.out = << >>]
      full == FoldLeft(Each, own, s.kids[k])
      text == IF n > 0 THEN Written(s.type[k], WordAt(x)) ELSE << >>
  IN [full EXCEPT !.out = Append(x.out, Tree(k, text, full.out)), !.seen = x.seen + 1]

ConstructXML(x, s, k, size) ==
  LET many == s.many[k]
      rep  == IF many THEN WordAt(x) ELSE 1
      from == IF many THEN [Skipped(x, 1) EXCEPT !.left = size - 1, !.seen = 0]
                      ELSE [x EXCEPT !.left = size, !.seen = 0]
      Each(acc, r) == IF acc.left > 0 THEN ElementXML(acc, s, k) ELSE acc
      all  == FoldLeft(Each, from, [r \in 1 .. rep |-> r])
  IN [all EXCEPT !.ok = @ /\ all.left = 0 /\ all.seen = rep, !.seen = x.seen]

\* The containers of the root, in the loop of main.
RecordXML(s, words) ==
  ElementXML([words |-> words, pos |-> 1, left |-> 0, out |-> << >>, seen |-> 0,
              ok |-> TRUE], s, Root)

-----------------------------------------------------------------------------
(* xml-hddm: outputStream of one tree under the schema.                     *)

RECURSIVE OutputStream(_, _)
OutputStream(s, tree) ==
  LET Sequel(k) ==
        LET here == SelectSeq(tree.kids, LAMBDA t : t.tag = k)
            body == FlattenSeq([i \in DOMAIN here |-> OutputStream(s, here[i])])
        IN IF s.many[k] THEN <<Len(body) + 1, Len(here)>> \o body
                        ELSE <<Len(body)>> \o body
      kids == s.kids[tree.tag]
      value == IF tree.text = << >> THEN 0 ELSE Parsed(s.type[tree.tag], tree.text)
  IN [i \in 1 .. s.sig[tree.tag] |-> value]
     \o FlattenSeq([j \in DOMAIN kids |-> Sequel(kids[j])])

\* Wrong variants, to show what the properties detect: a record without its
\* size, a token that only changes the compression.
OneRecordUnsized(s, tree) == OutputStream(s, Tree(Root, << >>, <<tree>>))
ModeBut(mode, bits) == [bits EXCEPT !.integ = mode.integ]

\* main takes the document apart at its top elements and makes a record of each.
OneRecord(s, tree) ==
  LET body == OutputStream(s, Tree(Root, << >>, <<tree>>))
  IN <<Len(body)>> \o body

\* A tree that it cannot parse, or whose values it does not accept.
RECURSIVE Unreadable(_, _)
Unreadable(s, tree) ==
  \/ tree.text # << >> /\ Refused(s.type[tree.tag], tree.text)
  \/ \E i \in DOMAIN tree.kids : Unreadable(s, tree.kids[i])

\* The first `>' of a top element is taken for the end of its tag; if no contents
\* are to follow, main reads on for an end tag that never comes.
Endless(s, tree) ==
  /\ s.kids[tree.tag] = << >> /\ tree.text # << >>
  /\ tree.text[2] = "raw" /\ TextKind(tree.text[1]) = "greater"

Outcome(s, tree) ==
  IF Endless(s, tree) THEN "stuck" ELSE IF Unreadable(s, tree) THEN "refused" ELSE "encoded"

NewMode(mode, bits) == bits

\* A document written by hand from a record.
RECURSIVE HandTree(_, _, _)
HandTree(s, r, p) ==
  LET k == TagOf(p)
      Kids(c) == [i \in 1 .. Count(r, p, c) |-> HandTree(s, r, Child(p, c, i))]
  IN Tree(k, IF s.sig[k] > 0 THEN ByHand(s.type[k], r[p]) ELSE << >>,
          FlattenSeq([j \in DOMAIN s.kids[k] |-> Kids(s.kids[k][j])]))

-----------------------------------------------------------------------------
XmlInit ==
  /\ xschema = << >> /\ xmode = DefaultMode /\ xfiles = << << >> >> /\ xin = << >>
  /\ byHand = FALSE /\ xreader = DefaultMode /\ document = << >> /\ xout = << >> /\ xstage = "new"

Entries == Len(FlattenSeq(xfiles))
Add(entry) == xfiles' = [xfiles EXCEPT ![Len(xfiles)] = Append(@, entry)]

\* Records of all values: a particle code among the first 110, strings of a kind.
XRecord(s, n, kind) ==
  LET r == NewRecord(s, Paths(s, n, 3), Entries)
      Value(type, v) ==
        CASE type = "Particle_t" -> v % 110
          [] IsText(type) -> IF kind = 0 THEN 0 ELSE 5 * v + kind
          [] OTHER -> v
  IN [p \in DOMAIN r |-> IF s.sig[TagOf(p)] > 0 THEN Value(s.type[TagOf(p)], r[p]) ELSE r[p]]

\* The kinds of its strings, if it has any; bound: one record with others than
\* plain ones.
HasText(s, k) == s.sig[k] > 0 /\ IsText(s.type[k])

Ordinary(s, r) == \A p \in DOMAIN r : HasText(s, TagOf(p)) => TextKind(r[p]) = "plain"

KindsIn(s) ==
  IF \A k \in Tags : ~HasText(s, k) THEN {0}
  ELSE IF \A e \in Range(FlattenSeq(xfiles)) : e.kind = "record" => Ordinary(s, e.of)
    THEN TextKinds ELSE {1}

XOpen(s) ==
  /\ xstage = "new"
  /\ xschema' = s
  /\ xstage' = "writing"
  /\ UNCHANGED <<xmode, xfiles, xin, xreader, document, xout, byHand>>

\* A record of a C++ or, in the default configuration, of a C program.
XWrite(n, byC) ==
  /\ xstage = "writing" /\ Entries < MaxEntries
  /\ byC => xmode = DefaultMode
  /\ \E kind \in KindsIn(xschema) :
       LET r == XRecord(xschema, n, kind)
           words == IF byC THEN Pack(EmptyBuffer(1000), xschema, r, FALSE).words
                           ELSE EncodedRecord(xschema, r)
       IN Add([kind |-> "record", under |-> xmode, bits |-> xmode, words |-> words, of |-> r])
  /\ UNCHANGED <<xschema, xmode, xin, xreader, document, xout, xstage, byHand>>

\* setCompression or setIntegrityChecks: a token in the configuration so far.
XToken(bits) ==
  /\ xstage = "writing" /\ Entries < MaxEntries /\ bits # xmode
  /\ SwitchedOnce => xmode.comp \in {0, bits.comp}
  /\ xmode' = bits
  /\ Add([kind |-> "token", under |-> xmode, bits |-> bits, words |-> << >>, of |-> << >>])
  /\ UNCHANGED <<xschema, xin, xreader, document, xout, xstage, byHand>>

\* hddmcat goes on with the next file, if it has the same header.
XNextFile ==
  /\ xstage = "writing" /\ Len(xfiles) < 2 /\ Last(xfiles) # << >>
  /\ PlainEnds => xmode = DefaultMode
  /\ xmode' = DefaultMode
  /\ xfiles' = Append(xfiles, << >>)
  /\ UNCHANGED <<xschema, xin, xreader, document, xout, xstage, byHand>>

\* A document of one record, written by hand.
XHand(n) ==
  /\ xstage = "writing" /\ Entries = 0
  /\ \E kind \in KindsIn(xschema) :
       LET r == XRecord(xschema, n, kind)
       IN /\ Add([kind |-> "record", under |-> xmode, bits |-> xmode, words |-> << >>, of |-> r])
          /\ document' = HandTree(xschema, r, << >>).kids
  /\ byHand' = TRUE
  /\ xstage' = "document"
  /\ UNCHANGED <<xschema, xmode, xin, xreader, xout>>

\* hddm-xml reads the header; it starts in the default configuration.
XConvert ==
  /\ xstage = "writing" /\ Entries > 0
  /\ xin' = FlattenSeq(xfiles)
  /\ xstage' = "converting"
  /\ UNCHANGED <<xschema, xmode, xfiles, xreader, document, xout, byHand>>

\* What follows is not what the modes of hddm-xml say.
Garbled == Head(xin).under # xreader

\* A token.  A decompressor that is replaced by another one stays the source of
\* that one and is deleted; one that is removed takes 8 look-ahead bytes along.
XTakeToken ==
  LET bits == Head(xin).bits
      rest == Tail(xin)
  IN /\ xstage = "converting" /\ xin # << >> /\ Head(xin).kind = "token"
     /\ xin' = rest
     /\ xreader' = NewMode(xreader, bits)
     /\ xstage' = IF Garbled THEN "garbled"
                  ELSE IF xreader.comp \in {0, bits.comp} THEN xstage
                  ELSE IF bits.comp # 0 THEN "undefined"
                  ELSE IF rest # << >> THEN "garbled" ELSE xstage
     /\ UNCHANGED <<xschema, xmode, xfiles, document, xout, byHand>>

\* A record: what does not add up ends the program.  Asked whether to go on when a
\* tag below the root has no elements, the user says yes.
XTakeRecord ==
  LET x == RecordXML(xschema, Head(xin).words)
  IN /\ xstage = "converting" /\ xin # << >> /\ Head(xin).kind = "record"
     /\ xin' = Tail(xin)
     /\ document' = document \o Last(x.out).kids
     /\ xstage' = IF Garbled THEN "garbled" ELSE IF x.ok THEN xstage ELSE "exited"
     /\ UNCHANGED <<xschema, xmode, xfiles, xreader, xout, byHand>>

XEnd ==
  /\ xstage = "converting" /\ xin = << >>
  /\ xstage' = "document"
  /\ UNCHANGED <<xschema, xmode, xfiles, xin, xreader, document, xout, byHand>>

\* xml-hddm, up to the first top element that stops it.
XBack ==
  LET bad  == {i \in DOMAIN document : Outcome(xschema, document[i]) # "encoded"}
      good == IF bad = {} THEN Len(document) ELSE Min(bad) - 1
  IN
  /\ xstage = "document"
  /\ xout' = [i \in 1 .. good |-> OneRecord(xschema, document[i])]
  /\ xstage' = IF bad = {} THEN "encoded" ELSE Outcome(xschema, document[good + 1])
  /\ UNCHANGED <<xschema, xmode, xfiles, xin, xreader, document, byHand>>

XmlNext ==
  \/ \E s \in XmlSchemas : XOpen(s)
  \/ \E n \in Counts, byC \in BOOLEAN : XWrite(n, byC)
  \/ \E bits \in Mode : XToken(bits)
  \/ XNextFile
  \/ \E n \in Counts : XHand(n)
  \/ XConvert
  \/ XTakeToken
  \/ XTakeRecord
  \/ XEnd
  \/ XBack

XmlSpec == XmlInit /\ [][XmlNext]_xmlVars

-----------------------------------------------------------------------------
XmlTypeOK ==
  /\ xschema \in XmlSchemas \cup {<< >>}
  /\ xmode \in Mode /\ xreader \in Mode
  /\ byHand \in BOOLEAN
  /\ xstage \in {"new", "writing", "converting", "document", "encoded",
                 "garbled", "undefined", "exited", "refused", "stuck"}

XRecords ==
  LET entries == SelectSeq(FlattenSeq(xfiles), LAMBDA e : e.kind = "record")
  IN [i \in DOMAIN entries |-> entries[i].of]

\* The elements below the root, in order; the record that has only one of them.
Tops(s, r) == FlattenSeq([j \in DOMAIN s.kids[Root] |->
  LET k == s.kids[Root][j] IN [i \in 1 .. Count(r, << >>, k) |-> <<k, i>>]])

Alone(r, top) ==
  LET Moved(p) == IF p = << >> THEN p ELSE <<top>> \o Tail(p)
  IN [p \in {q \in {<< >>} \cup {<< <<top[1], 1>> >> \o Tail(o) : o \in DOMAIN r \ {<< >>}} :
               Moved(q) \in DOMAIN r} |-> r[Moved(p)]]

\* What a value has become on its way through hddm-xml and xml-hddm, or through
\* xml-hddm only.
Kept(type, v) ==
  CASE type = "Particle_t" -> IF byHand /\ v < 99 THEN v ELSE 99
    [] byHand -> v
    [] type = "float" -> SixDigits(v)
    [] IsText(type) /\ TextKind(v) = "reference" -> Resolved(v)
    [] OTHER -> v

\* Elements that do not come back: one with an empty anyURI, and, if hddm-xml has
\* written them, one with markup and one without contents whose text has a `>'.
Stops(r) ==
  \E p \in DOMAIN r \ {<< >>} :
    LET k == TagOf(p)
    IN /\ HasText(xschema, k)
       /\ \/ xschema.type[k] = "anyURI" /\ r[p] = 0
          \/ ~byHand /\ TextKind(r[p]) = "markup"
          \/ ~byHand /\ TextKind(r[p]) = "greater" /\ Len(p) = 1 /\ xschema.kids[k] = << >>

\* hddmcat, hddm-xml and xml-hddm together give back the elements below the root
\* of all records, in order, each in a record of its own with everything in it,
\* whichever library wrote them, up to the first that stops xml-hddm.  Of a value
\* written by hand only codes of particles from 99 on are lost; hddm-xml loses all
\* codes of particles, digits after the sixth, and the spelling of strings that xml
\* reads as other ones (xml-hddm.cpp:237-337, 402-605, hddm-xml.cpp:548-712).
XmlRoundTrip ==
  xstage \in {"encoded", "refused", "stuck"} =>
    LET want == FlattenSeq([i \in DOMAIN XRecords |->
                  LET r == XRecords[i]
                      tops == Tops(xschema, r)
                  IN [j \in DOMAIN tops |-> Alone(r, tops[j])]])
        Got(words) ==
          Input([NewReader(xschema, xschema) EXCEPT !.words = words], AnElement(<< >>)).built
        Whole(p, v) == IF xschema.sig[TagOf(p)] > 0 THEN Kept(xschema.type[TagOf(p)], v) ELSE v
    IN /\ xstage = "encoded" => Len(xout) = Len(want)
       /\ xstage # "encoded" => Len(xout) < Len(want) /\ Stops(want[Len(xout) + 1])
       /\ \A i \in DOMAIN xout :
            /\ ~Stops(want[i])
            /\ Got(xout[i]) = [p \in DOMAIN want[i] |-> Whole(p, want[i][p])]

\* hddm-xml gets through files and concatenations of files that keep the promises
\* SwitchedOnce and PlainEnds; only a list of elements without attributes and
\* contents makes it give up (hddm-xml.cpp:317-419, 700-711).
XmlReadsAll ==
  /\ xstage \notin {"garbled", "undefined"}
  /\ xstage = "exited" =>
       \E i \in DOMAIN XRecords : \E p \in DOMAIN XRecords[i] :
         LET k == TagOf(p)
         IN xschema.many[k] /\ xschema.sig[k] = 0 /\ xschema.kids[k] = << >>
================================================================================
