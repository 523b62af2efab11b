--------------------------------- MODULE HddmRoot ---------------------------------
(***************************************************************************)
(* hddm-root (src/src/hddm-root.cpp): the records of a native file as rows *)
(* of trees, one tree for each place of a tag in the schema.  A row has a  *)
(* key, the attributes of the elements around it, and its own.             *)
(*                                                                         *)
(* An occurrence is a place in the schema: the tags from the root to it.   *)
(***************************************************************************)
EXTENDS SchemaMatching

CONSTANTS
  RootSchemas,   \* the schemas of the files
  AttrName,      \* the name of the attribute of each tag
  MaxEvents      \* bound: records per file

\* A branch that has the name of an attribute of an element around it is hidden
\* behind that one: the test that should rename it looks for a name among keys.
ASSUME AttrNamesDiffer == \A j, k \in Tags : AttrName[j] = AttrName[k] => j = k

VARIABLES
  rschema,    \* the schema
  branches,   \* the branches of each tree, pairs <<column, name>>
  rows,       \* its rows
  rkey,       \* the value of the key column
  columnVal,  \* the values of the other columns
  events,     \* the records read
  rstage      \* new, filling, aborted

rootVars == <<rschema, branches, rows, rkey, columnVal, events, rstage>>

-----------------------------------------------------------------------------
(* build: a tree has the name of its tag; each tree before it with that     *)
(* name puts the name of the parent in front.  A column is named after the  *)
(* tree and the attribute; names are sequences, joined by underscores.      *)

\* A wrong variant: trees of one tag have the same name.
TagOnly(names, parent, k) == <<k>>

NameOf(names, parent, k) ==
  FoldLeft(LAMBDA name, other : IF name = other THEN parent \o name ELSE name, <<k>>, names)

\* The trees built so far: names in order, and by occurrence the name and the
\* branches; own columns behind inherited ones.
RECURSIVE Build(_, _, _)
Build(s, b, o) ==
  LET k        == Last(o)
      up       == Front(o)
      name     == NameOf(b.names, b.name[up], k)
      column   == Append(name, AttrName[k])
      branch   == IF \E i \in DOMAIN b.branches[up] : b.branches[up][i][1] = <<AttrName[k]>>
                    THEN column ELSE <<AttrName[k]>>
      own      == IF s.sig[k] > 0 THEN << <<column, branch>> >> ELSE << >>
      here     == [names    |-> Append(b.names, name),
                   name     |-> [p \in DOMAIN b.name \cup {o} |->
                                   IF p = o THEN name ELSE b.name[p]],
                   branches |-> [p \in DOMAIN b.branches \cup {o} |->
                                   IF p = o THEN b.branches[up] \o own ELSE b.branches[p]]]
  IN FoldLeft(LAMBDA acc, c : Build(s, acc, Append(o, c)), here, s.kids[k])

Built(s) ==
  FoldLeft(LAMBDA acc, c : Build(s, acc, <<c>>),
           [names    |-> << <<Root>> >>,
            name     |-> [p \in {<< >>} |-> <<Root>>],
            branches |-> [p \in {<< >>} |-> << >>]], s.kids[Root])

-----------------------------------------------------------------------------
(* element_t::read, of the occurrence o.                                    *)

\* Fill: a row of the tree of o, with what the columns hold now.
Filled(x, o) ==
  LET row == [key |-> x.key,
              val |-> [i \in DOMAIN x.branches[o] |-> x.value[x.branches[o][i][1]]]]
  IN [x EXCEPT !.rows[o] = Append(@, row)]

\* A wrong variant: rows of different elements have the same key.
KeyedNever(x) == x

Keyed(x) == [x EXCEPT !.key = @ + 1]

Stored(x, o, v) ==
  [x EXCEPT !.value = [c \in DOMAIN @ \cup {Last(x.branches[o])[1]} |->
                         IF c = Last(x.branches[o])[1] THEN v ELSE @[c]]]

RECURSIVE ReadElement(_, _, _)
ReadElement(x, s, o) ==
  LET k    == Last(o)
      size == WordAt(x)
      end  == x.pos + 1 + size
      from == Skipped(x, 1)
      reps == IF s.many[k] THEN WordAt(from) ELSE 1
      One(acc) ==
        LET own  == Skipped(IF s.sig[k] > 0 THEN Stored(acc, o, WordAt(acc)) ELSE acc, s.sig[k])
            full == FoldLeft(LAMBDA y, c : ReadElement(y, s, Append(o, c)), own, s.kids[k])
        IN [IF s.kids[k] = << >> THEN Keyed(Filled(own, o)) ELSE Filled(full, o)
              EXCEPT !.reps = acc.reps - 1]
      all  == FoldLeft(LAMBDA acc, i : IF acc.pos < end THEN One(acc) ELSE acc,
                       [IF s.many[k] THEN Skipped(from, 1) ELSE from EXCEPT !.reps = reps],
                       [i \in 1 .. size |-> i])
  IN IF size = 0 THEN from
     ELSE [all EXCEPT !.reps = x.reps,
                      !.ok = @ /\ all.pos = end /\ (s.many[k] => all.reps = 0)]

-----------------------------------------------------------------------------
RootInit ==
  /\ rschema = << >> /\ branches = << >> /\ rows = << >> /\ rkey = 0
  /\ columnVal = << >> /\ events = << >> /\ rstage = "new"

\* main: the trees, all columns 0.
ROpen(s) ==
  /\ rstage = "new"
  /\ rschema' = s
  /\ branches' = Built(s).branches
  /\ rows' = [o \in DOMAIN branches' |-> << >>]
  /\ columnVal' =
       [c \in UNION {{b[1] : b \in ToSet(branches'[o])} : o \in DOMAIN branches'} |-> 0]
  /\ rstage' = "filling"
  /\ UNCHANGED <<rkey, events>>

\* filltrees: one record of the file.  A failed assert aborts.
RFill(n) ==
  LET r == NewRecord(rschema, Paths(rschema, n, 3), Len(events))
      x == FoldLeft(LAMBDA acc, c : ReadElement(acc, rschema, <<c>>),
                    [words |-> EncodedRecord(rschema, r), pos |-> 1, key |-> rkey,
                     value |-> columnVal, branches |-> branches, rows |-> rows,
                     reps |-> 0, ok |-> TRUE], rschema.kids[Root])
  IN /\ rstage = "filling" /\ Len(events) < MaxEvents
     /\ events' = Append(events, r)
     /\ rows' = x.rows
     /\ rkey' = x.key
     /\ columnVal' = x.value
     /\ rstage' = IF x.ok THEN "filling" ELSE "aborted"
     /\ UNCHANGED <<rschema, branches>>

RootNext ==
  \/ \E s \in RootSchemas : ROpen(s)
  \/ \E n \in Counts : RFill(n)

RootSpec == RootInit /\ [][RootNext]_rootVars

-----------------------------------------------------------------------------
RootTypeOK ==
  /\ rschema \in RootSchemas \cup {<< >>}
  /\ DOMAIN rows = DOMAIN branches
  /\ rkey \in Nat
  /\ rstage \in {"new", "filling", "aborted"}

\* The elements of a record at occurrence o, in document order.
RECURSIVE InOrder(_, _, _)
InOrder(r, p, o) ==
  IF o = << >> THEN <<p>>
  ELSE FlattenSeq([i \in 1 .. Count(r, p, Head(o)) |-> InOrder(r, Child(p, Head(o), i), Tail(o))])

\* What the row of element p has to say.
RowOf(r, p) ==
  LET valued == SelectSeq([j \in DOMAIN p |-> SubSeq(p, 1, j)],
                          LAMBDA q : rschema.sig[TagOf(q)] > 0)
  IN [i \in DOMAIN valued |-> <<AttrName[TagOf(valued[i])], r[valued[i]]>>]

Elements(o) ==
  FlattenSeq([e \in DOMAIN events |->
                LET ps == InOrder(events[e], << >>, o)
                IN [i \in DOMAIN ps |-> <<e, ps[i]>>]])

\* Each tree has one row for each element of its occurrence, in order, and in it
\* the element's attributes and those of all elements around it, each under a name
\* of its own; trees have different names, however often a tag is used (hddm-root.cpp:441-515, 909-1051).
RootRows ==
  rstage = "filling" => \A o \in DOMAIN rows \ {<< >>} :
    LET es == Elements(o)
    IN /\ Len(rows[o]) = Len(es)
       /\ \A i \in DOMAIN es :
            RowOf(events[es[i][1]], es[i][2]) =
              [j \in DOMAIN branches[o] |-> <<branches[o][j][2][1], rows[o][i].val[j]>>]
       /\ \A j, l \in DOMAIN branches[o] :
            branches[o][j][2] = branches[o][l][2] => j = l
       /\ \A p \in DOMAIN rows \ {o} : Built(rschema).name[p] # Built(rschema).name[o]

\* The keys say which rows belong together: the row of an element around a leaf
\* is the first one in its tree with a larger key (hddm-root.cpp:479-507, 934-944).
RootKeys ==
  rstage = "filling" => \A o \in DOMAIN rows \ {<< >>} :
    rschema.kids[Last(o)] = << >> =>
      LET es == Elements(o)
      IN \A u \in 1 .. Len(o) - 1 : \A i \in DOMAIN es :
           LET up     == SubSeq(o, 1, u)
               over   == Elements(up)
               around == SelectInSeq(over, LAMBDA e :
                           e[1] = es[i][1] /\ e[2] = SubSeq(es[i][2], 1, u))
           IN around = SelectInSeq(rows[up], LAMBDA row : row.key > rows[o][i].key)
================================================================================
