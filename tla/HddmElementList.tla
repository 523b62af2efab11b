----------------------------- MODULE HddmElementList -----------------------------
(***************************************************************************)
(* The container of repeated elements in the generated C++ library         *)
(* (src/src/hddm-cpp.cpp: class HDDM_ElementList).                         *)
(*                                                                         *)
(* A record keeps all elements of a tag in one std::list, the host list.   *)
(* Each container element sees its own elements through an ElementList: an *)
(* iterator to the first, an iterator to the last, and a size.  add and    *)
(* del work on the host list and correct the iterators of the one list     *)
(* they were called on; the iterators of the other lists must remain       *)
(* right by themselves.                                                    *)
(*                                                                         *)
(* An iterator is the cell it points to, or End.  Cells come from the      *)
(* heap: a cell that was freed may be handed out again, and an iterator    *)
(* to a freed cell dangles.                                                *)
(***************************************************************************)
EXTENDS Integers, SequencesExt

CONSTANTS
  Nodes,     \* cells of the heap
  Parents,   \* container elements
  End,       \* the iterator past the last cell of the host list
  Null,      \* the null pointer
  Careful,   \* do callers refill an emptied list only where it still belongs?
  MaxCount   \* bound: elements added by one call

ASSUME EndAssumption == End \notin Nodes
ASSUME NullAssumption == Null \notin Parents
ASSUME CarefulAssumption == Careful \in BOOLEAN
ASSUME MaxCountAssumption == MaxCount \in Nat

VARIABLES
  host,    \* the host list, a sequence of cells
  parent,  \* m_parent of the element each cell points to, Null if to none
  live,    \* the container elements that exist
  list     \* the ElementList of each container element

vars == <<host, parent, live, list>>

\* m_first_iter, m_last_iter, m_size.  A new list is empty, at the end.
ElementList == [first : Nodes \cup {End}, last : Nodes \cup {End}, size : Nat]
NewList == [first |-> End, last |-> End, size |-> 0]

-----------------------------------------------------------------------------
(* Iterators, by their positions in a host list h, which is a ring through *)
(* End.  A dangling iterator has position 0.                               *)

Cells(h) == {h[i] : i \in DOMAIN h}
Valid(h, it) == it = End \/ it \in Cells(h)
Pos(h, it) == IF it = End THEN Len(h) + 1 ELSE SelectInSeq(h, LAMBDA c : c = it)
At(h, i) == IF i \in DOMAIN h THEN h[i] ELSE End

\* begin() and end() of a list, as positions.
Begin(h, l) == Pos(h, l.first)
Past(h, l) == Pos(h, l.last) + IF l.size > 0 THEN 1 ELSE 0

\* What an iteration over a list visits.
Elements(h, l) ==
  IF l.size > 0 /\ {l.first, l.last} \subseteq Cells(h)
    THEN SubSeq(h, Begin(h, l), Past(h, l) - 1)
    ELSE << >>

\* std::list: insertion before position i, erasure of positions i to j - 1.
Splice(h, i, ns) == SubSeq(h, 1, i - 1) \o ns \o SubSeq(h, i, Len(h))
Cut(h, i, j) == SubSeq(h, 1, i - 1) \o SubSeq(h, j, Len(h))

-----------------------------------------------------------------------------
\* Wrong variants, to show what the properties detect: a negative start counted
\* as in Python, the last iterator left behind by an appending insertion, and the
\* rest of a list taken one too long.
PlaceOneOff(h, l, start) ==
  CASE l.size = 0 \/ start = 0      -> Pos(h, l.first)
    [] l.size > 0 /\ start = -1 -> Pos(h, l.last) + 1
    [] l.size > 0 /\ start > 0  -> Pos(h, l.first) + start
    [] l.size > 0 /\ start < -1 -> Pos(h, l.last) + start + 1

LastForgotten(h, new, l, at, n) ==
  IF l.size = 0 THEN At(new, Pos(new, l.last) - 1) ELSE l.last

SpanTooLong(l, start, count) ==
  LET s == IF start < 0 THEN start + l.size ELSE start
  IN [start |-> s, count |-> IF count = -1 THEN l.size - s + 1 ELSE count]

\* Where insert puts new cells.  An empty list ignores start and begins where
\* it rests; start = -1 appends, and below -1 it counts back from the end.
Place(h, l, start) ==
  CASE l.size = 0 \/ start = 0      -> Pos(h, l.first)
    [] l.size > 0 /\ start = -1 -> Pos(h, l.last) + 1
    [] l.size > 0 /\ start > 0  -> Pos(h, l.first) + start
    [] l.size > 0 /\ start < -1 -> Pos(h, l.last) + start + 2

\* m_last_iter after n cells were inserted at position at, which made new of h.
LastAfter(h, new, l, at, n) ==
  CASE l.size = 0 -> At(new, Pos(new, l.last) - 1)
    [] l.size > 0 /\ at = Pos(h, l.last) + 1 -> At(new, at + n - 1)
    [] OTHER -> l.last

\* insert: the new host list, the position of the returned iterator, and the
\* list with its corrected iterators.
Insert(h, l, start, ns) ==
  LET at == Place(h, l, start)
      new == Splice(h, at, ns)
  IN [host |-> new, at |-> at,
      list |-> [first |-> IF l.size = 0 \/ start = 0 THEN At(new, at) ELSE l.first,
                last |-> LastAfter(h, new, l, at, Len(ns)),
                size |-> l.size + Len(ns)]]

\* Index of the first element to erase, and their number: start below 0 counts
\* from the end, count = -1 means all the rest.
Span(l, start, count) ==
  LET s == CASE start < 0 -> start + l.size
             [] start >= 0 -> IF start < l.size THEN start ELSE l.size
  IN [start |-> s, count |-> IF count = -1 THEN l.size - s ELSE count]

\* erase: all of the list, its end, its front, or a part in between.
Erase(h, l, start, count) ==
  LET s == Span(l, start, count).start
      n == Span(l, start, count).count
      i == Pos(h, l.first) + s
      j == IF n = l.size THEN Pos(h, l.last) + 1 ELSE i + n
      new == Cut(h, i, j)
      next == At(h, j)
      less == [l EXCEPT !.size = @ - n]
  IN [host |-> new,
      list |-> CASE n = l.size -> [less EXCEPT !.first = next, !.last = next]
                 [] n # l.size /\ s > 0 /\ s + n = l.size ->
                      [less EXCEPT !.last =
                         IF next = l.first THEN next
                         ELSE At(new, Pos(new, next) - 1)]
                 [] n # l.size /\ s = 0 -> [less EXCEPT !.first = next]
                 [] OTHER -> less]

\* The elements del destroys before it calls erase.
Deleted(h, l, start, count) ==
  LET i == IF start < 0 THEN Past(h, l) + start ELSE Begin(h, l) + start
      j == IF count >= 0 THEN i + count ELSE Past(h, l)
  IN {h[k] : k \in i .. j - 1}

\* del returns early on an empty list and for a count of 0.
Del(h, l, start, count) ==
  IF l.size = 0 \/ count = 0
    THEN [host |-> h, list |-> l, freed |-> {}]
    ELSE LET erased == Erase(h, l, start, count)
         IN [host |-> erased.host, list |-> erased.list,
             freed |-> Deleted(h, l, start, count)]

\* The decrement of the last iterator left out.
InflateOneOff(h, ref, size) ==
  [first |-> At(h, 1 + ref), last |-> At(h, 1 + ref + size), size |-> size]

\* deflate keeps the index of the first cell and the size of a list, inflate
\* finds the iterators again in a host list of the same length.
Deflate(h, l) == Pos(h, l.first) - 1
Inflate(h, ref, size) ==
  [first |-> At(h, 1 + ref), size |-> size,
   last |-> At(h, 1 + ref + size - IF size > 0 THEN 1 ELSE 0)]

-----------------------------------------------------------------------------
(* The calls.                                                              *)

\* Cells operator new can return for n new elements.
Fresh(n) ==
  {ns \in [1 .. n -> Nodes \ Cells(host)] : \A i, j \in 1 .. n : ns[i] = ns[j] => i = j}

\* Arguments with a meaning.
Starts(l) == IF l.size = 0 THEN {0, -1} ELSE -l.size .. l.size
Counts(l, start) ==
  LET rest == IF start < 0 THEN -start ELSE l.size - start
  IN {n \in -1 .. rest : n # 0 /\ rest > 0}

\* An emptied list keeps pointing at the cell that followed it.  It is settled
\* there as long as no call on the list of that cell has come in between.
Settled(p) ==
  list[p].size = 0 =>
    \/ list[p].first = End
    \/ \E q \in live : list[q].size > 0 /\ list[q].first = list[p].first

\* Inserting at a dangling iterator is undefined, and no behaviour follows it.
Usable(p) == Valid(host, list[p].first) /\ (Careful => Settled(p))

Init ==
  /\ host = << >>
  /\ parent = [c \in Nodes |-> Null]
  /\ live = {}
  /\ list = [p \in Parents |-> NewList]

\* A new container element, with an empty list at the end of the host list.
Construct(p) ==
  /\ p \notin live
  /\ live' = live \cup {p}
  /\ list' = [list EXCEPT ![p] = NewList]
  /\ UNCHANGED <<host, parent>>

\* addElements(count, start) constructs an element in each of the cells that
\* follow the iterator insert returns, whatever they held.
Add(p, start) ==
  /\ p \in live /\ Usable(p)
  /\ \E n \in 1 .. MaxCount : \E ns \in Fresh(n) :
       LET r == Insert(host, list[p], start, ns)
           filled == {At(r.host, i) : i \in r.at .. r.at + n - 1}
       IN /\ host' = r.host
          /\ list' = [list EXCEPT ![p] = r.list]
          /\ parent' = [c \in Nodes |-> IF c \in filled THEN p ELSE parent[c]]
  /\ UNCHANGED live

\* deleteElements(count, start) destroys the elements, then erases their cells.
Delete(p, start, count) ==
  LET d == Del(host, list[p], start, count)
  IN /\ host' = d.host
     /\ list' = [list EXCEPT ![p] = d.list]
     /\ parent' = [c \in Nodes |-> IF c \in d.freed THEN Null ELSE parent[c]]

\* The destructor forgets what the element contains.
DestroyLeaks(p) ==
  /\ p \in live
  /\ live' = live \ {p}
  /\ UNCHANGED <<host, parent, list>>

\* The destructor of a container element deletes all it contains.
Destroy(p) ==
  /\ p \in live
  /\ live' = live \ {p}
  /\ Delete(p, 0, -1)

Next ==
  \E p \in Parents :
    \/ Construct(p)
    \/ \E start \in Starts(list[p]) : Add(p, start)
    \/ /\ p \in live /\ UNCHANGED live
       /\ \E start \in Starts(list[p]) : \E count \in Counts(list[p], start) :
            Delete(p, start, count)
    \/ Destroy(p)

Spec == Init /\ [][Next]_vars

-----------------------------------------------------------------------------
TypeOK ==
  /\ host \in Seq(Nodes)
  /\ parent \in [Nodes -> Parents \cup {Null}]
  /\ live \subseteq Parents
  /\ list \in [Parents -> ElementList]

\* getElements of a container element iterates over exactly the elements that
\* were added to it, in the order of the host list, of which there are size(),
\* and every cell of the record holds an element of a container element that
\* exists.
OwnContents ==
  /\ \A p \in live :
       LET visited == Elements(host, list[p])
       IN /\ {i \in DOMAIN host : parent[host[i]] = p}
               = {Begin(host, list[p]) + k - 1 : k \in DOMAIN visited}
          /\ Len(visited) = list[p].size
  /\ {parent[c] : c \in Cells(host)} \subseteq live
  /\ \A c \in Nodes : parent[c] # Null => c \in Cells(host)

\* add(count, start) puts the new elements immediately before the element at
\* position start, at the end for -1, and one further from the end for each
\* step below; del(count, start) takes away the count elements from position
\* start on, as add and get count positions.
EditsPlaced ==
  \A p \in live :
    LET l == list[p]
        before == Elements(host, l)
        Index(start) == IF start < 0 THEN start + l.size ELSE start
    IN /\ Usable(p) =>
            \A n \in 1 .. MaxCount, start \in Starts(l) : \A ns \in Fresh(n) :
              LET r == Insert(host, l, start, ns)
                  i == IF l.size = 0 THEN 0
                       ELSE Index(start) + IF start < 0 THEN 1 ELSE 0
              IN /\ Elements(r.host, r.list) = Splice(before, i + 1, ns)
                 /\ At(r.host, r.at) = ns[1]
       /\ l.size > 0 =>
            \A start \in Starts(l) : \A n \in Counts(l, start) :
              LET d == Del(host, l, start, n)
                  i == Index(start) + 1
                  j == IF n = -1 THEN l.size + 1 ELSE i + n
              IN Elements(d.host, d.list) = Cut(before, i, j)

\* A record written to an HDF5 file and read back has the lists it had: the
\* index and the size that deflate keeps determine both iterators.  An empty
\* list whose iterators dangle is excepted: deflate finds no end for it.
RoundTrip ==
  \A p \in live :
    Valid(host, list[p].first) =>
      Inflate(host, Deflate(host, list[p]), list[p].size) = list[p]

\* Each list is the sequence of its container's own elements, whatever is done
\* to the lists beside it in the host list.
Lists == INSTANCE ElementSequences WITH
  containers <- live, contents <- [p \in Parents |-> Elements(host, list[p])]
ImplementsSequences == Lists!SeqSpec
================================================================================
