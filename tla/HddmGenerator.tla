------------------------------- MODULE HddmGenerator -------------------------------
(***************************************************************************)
(* The generators' reading of a schema: constructGroup and                 *)
(* checkConsistency of hddm-cpp.cpp (hddm-py.cpp has the same text) and of *)
(* hddm-c.cpp, and the getters of inherited attributes that hddm-cpp       *)
(* writes for what was read.                                               *)
(*                                                                         *)
(* A document is a tree of nodes [tag, attrs, many, kids]: attrs gives the *)
(* type of each attribute, many says that maxOccurs is above 1.  minOccurs *)
(* is compared nowhere and left out.  A node is named by its path, the     *)
(* positions that lead to it from the root.                                *)
(***************************************************************************)
EXTENDS SequencesExt, FiniteSetsExt, Functions, Integers

CONSTANTS Documents   \* the schemas to generate from

VARIABLES
  gdoc,       \* the document
  target,     \* cpp or c
  visits,     \* the recursion: pairs <<node, children done>>
  tagList,    \* the nodes whose tags are known
  written,    \* the nodes whose classes are written, in order
  parents,    \* for each tag the nodes around it, as found
  children,   \* for each tag the tags of its children, as found
  outcome     \* none, reading, refused, accepted

genVars == <<gdoc, target, visits, tagList, written, parents, children, outcome>>

-----------------------------------------------------------------------------
Node(d, p) == FoldLeft(LAMBDA n, i : n.kids[i], d, p)

\* The nodes in the order of the document.
RECURSIVE DocumentOrder(_)
DocumentOrder(n) ==
  FoldLeft(LAMBDA ps, i : LET below == DocumentOrder(n.kids[i])
                          IN ps \o [j \in DOMAIN below |-> <<i>> \o below[j]],
           << << >> >>, [i \in DOMAIN n.kids |-> i])

NodePaths(n) == Range(DocumentOrder(n))

TagsOf(d) == {Node(d, p).tag : p \in NodePaths(d)}

\* getElementsByTagName: the nodes below p that have the tag.
Below(d, p, tag) ==
  {q \in NodePaths(d) : IsStrictPrefix(p, q) /\ Node(d, q).tag = tag}

\* A wrong variant: only the attributes of the first occurrence are compared.
OneSided(n, ref) == \A x \in DOMAIN ref.attrs : x \in DOMAIN n.attrs /\ n.attrs[x] = ref.attrs[x]

SameAttributes(n, ref) == n.attrs = ref.attrs

\* checkConsistency of p with the first occurrence, ref.
Consistent(d, p, ref) ==
  LET n == Node(d, p)
      r == Node(d, ref)
  IN /\ Front(p) # Front(ref)
     /\ SameAttributes(n, r)
     /\ n.many = r.many
     /\ Len(n.kids) = Len(r.kids)
     /\ \A i \in DOMAIN r.kids : Cardinality(Below(d, p, r.kids[i].tag)) = 1

-----------------------------------------------------------------------------
GenInit ==
  /\ gdoc = [tag |-> "HDDM", attrs |-> << >>, many |-> FALSE, kids |-> << >>]
  /\ target = "cpp"
  /\ visits = << >> /\ tagList = << >> /\ written = << >>
  /\ parents = << >> /\ children = << >>
  /\ outcome = "none"

\* main: the root is no other tag's occurrence.  hddm-c enters a tag in the list
\* before its children, hddm-cpp behind them.
GOpen ==
  /\ outcome = "none"
  /\ \E d \in Documents, g \in {"cpp", "c"} :
       /\ gdoc' = d /\ target' = g
       /\ tagList' = IF g = "c" THEN << << >> >> ELSE << >>
       /\ parents' = [t \in TagsOf(d) |-> << >>]
       /\ children' = [t \in TagsOf(d) |-> << >>]
  /\ visits' = << << << >>, 0>> >>
  /\ written' = << >>
  /\ outcome' = "reading"

\* constructGroup goes on to the next child: a tag that is in the list is compared
\* with its first occurrence, and not entered.
Descend ==
  /\ outcome = "reading"
  /\ LET p     == Last(visits)[1]
         i     == Last(visits)[2] + 1
         q     == Append(p, i)
         tag   == Node(gdoc, q).tag
         known == SelectSeq(tagList, LAMBDA r : Node(gdoc, r).tag = tag)
         next  == [visits EXCEPT ![Len(visits)] = <<p, i>>]
     IN /\ i <= Len(Node(gdoc, p).kids)
        /\ IF target = "c" THEN UNCHANGED <<parents, children>>
           ELSE /\ children' = [children EXCEPT ![Node(gdoc, p).tag] = Append(@, tag)]
                /\ parents' = [parents EXCEPT ![tag] = [j \in DOMAIN visits |-> visits[j][1]] \o @]
        /\ IF known = << >>
             THEN /\ visits' = Append(next, <<q, 0>>)
                  /\ tagList' = IF target = "c" THEN Append(tagList, q) ELSE tagList
                  /\ UNCHANGED outcome
             ELSE /\ visits' = next
                  /\ outcome' = IF Consistent(gdoc, q, known[1]) THEN outcome ELSE "refused"
                  /\ UNCHANGED tagList
  /\ UNCHANGED <<gdoc, target, written>>

\* The group is complete: its class follows those of its children.
Ascend ==
  /\ outcome = "reading"
  /\ LET p == Last(visits)[1]
     IN /\ Last(visits)[2] = Len(Node(gdoc, p).kids)
        /\ written' = Append(written, p)
        /\ tagList' = IF target = "c" THEN tagList ELSE Append(tagList, p)
  /\ visits' = Front(visits)
  /\ outcome' = IF Len(visits) = 1 THEN "accepted" ELSE outcome
  /\ UNCHANGED <<gdoc, target, parents, children>>

GenNext == GOpen \/ Descend \/ Ascend

-----------------------------------------------------------------------------
(* The classes of hddm-cpp.                                                 *)

ClassOf(tag) == Node(gdoc, CHOOSE p \in Range(written) : Node(gdoc, p).tag = tag)

\* The type of the getter of the inherited attribute x: that of the first node in
\* parents that has it.  Own attributes hide it.
Inherits(tag, x) ==
  /\ x \notin DOMAIN ClassOf(tag).attrs
  /\ \E j \in DOMAIN parents[tag] : x \in DOMAIN Node(gdoc, parents[tag][j]).attrs

GetterType(tag, x) ==
  Node(gdoc, SelectSeq(parents[tag], LAMBDA p : x \in DOMAIN Node(gdoc, p).attrs)[1]).attrs[x]

\* The elements around an element of the class, from the record inwards.
RECURSIVE Hosts(_)
Hosts(tag) ==
  IF tag = "HDDM" THEN {<< >>}
  ELSE UNION {{Append(h, up) : h \in Hosts(up)} :
              up \in {u \in DOMAIN children : \E i \in DOMAIN children[u] : children[u][i] = tag}}

\* getAttribute, asked of the element around: the innermost that has the attribute.
Looked(hosts, x) ==
  LET k == CHOOSE k \in DOMAIN hosts :
             /\ x \in DOMAIN ClassOf(hosts[k]).attrs
             /\ \A j \in k + 1 .. Len(hosts) : x \notin DOMAIN ClassOf(hosts[j]).attrs
  IN ClassOf(hosts[k]).attrs[x]

-----------------------------------------------------------------------------
GenTypeOK ==
  /\ target \in {"cpp", "c"} /\ outcome \in {"none", "reading", "refused", "accepted"}
  /\ \A p \in Range(tagList) \cup Range(written) : p \in NodePaths(gdoc)
  /\ \A v \in Range(visits) : v[1] \in NodePaths(gdoc) /\ v[2] \in 0 .. Len(Node(gdoc, v[1]).kids)

NestedInItself(d) ==
  \E p, q \in NodePaths(d) : IsStrictPrefix(p, q) /\ Node(d, p).tag = Node(d, q).tag

\* What is a child in one occurrence of a tag lies no deeper in another: the check
\* counts descendants.
Layered(d) ==
  \A p, q \in NodePaths(d) : Node(d, p).tag = Node(d, q).tag =>
    \A i \in DOMAIN Node(d, q).kids :
      \A r \in Below(d, p, Node(d, q).kids[i].tag) : Len(r) = Len(p) + 1

Earlier(p, q) ==
  \E i \in DOMAIN p \cap DOMAIN q : p[i] < q[i] /\ SubSeq(p, 1, i - 1) = SubSeq(q, 1, i - 1)

\* The nodes the generator sees: all but those below a repeated occurrence.
Seen(d) ==
  FoldLeft(LAMBDA seen, p :
             IF p = << >> \/ /\ Front(p) \in seen
                             /\ \A q \in seen : Node(d, q).tag = Node(d, Front(p)).tag
                                                  => ~ Earlier(q, Front(p))
             THEN seen \cup {p} ELSE seen,
           {}, DocumentOrder(d))

ChildTags(n) == {n.kids[i].tag : i \in DOMAIN n.kids}

OneDefinition(d) ==
  \A p, q \in Seen(d) : p # q /\ Node(d, p).tag = Node(d, q).tag =>
    /\ Front(p) # Front(q)
    /\ Node(d, p).attrs = Node(d, q).attrs
    /\ Node(d, p).many = Node(d, q).many
    /\ ChildTags(Node(d, p)) = ChildTags(Node(d, q))
    /\ Len(Node(d, p).kids) = Len(Node(d, q).kids)

\* The generators accept a layered document exactly when the occurrences they see
\* of each tag define it alike; hddm-c refuses a tag below itself.  What they
\* accept has every tag's class once, behind those of its children; and a getter
\* of hddm-cpp's classes exists for each attribute that an element of the class has
\* around it wherever it stands, with the type of the value it finds there if the
\* attribute has one type.
GeneratedClasses ==
  /\ outcome \in {"refused", "accepted"} /\ ~ NestedInItself(gdoc) /\ Layered(gdoc) =>
       (outcome = "accepted" <=> OneDefinition(gdoc))
  /\ target = "c" /\ NestedInItself(gdoc) => outcome # "accepted"
  /\ outcome = "accepted" /\ ~ NestedInItself(gdoc) =>
       LET tagAt(i) == Node(gdoc, written[i]).tag
       IN /\ {tagAt(i) : i \in DOMAIN written} = {Node(gdoc, p).tag : p \in Seen(gdoc)}
          /\ \A i, j \in DOMAIN written :
               /\ tagAt(i) = tagAt(j) => i = j
               /\ tagAt(j) \in ChildTags(Node(gdoc, written[i])) => j < i
  /\ outcome = "accepted" /\ target = "cpp" /\ ~ NestedInItself(gdoc) =>
       \A tag \in {Node(gdoc, p).tag : p \in Range(written)}, x \in {"x", "y"} :
         LET around(h) == \E k \in DOMAIN h : x \in DOMAIN ClassOf(h[k]).attrs
             types == {Node(gdoc, p).attrs[x] :
                         p \in {q \in Seen(gdoc) : x \in DOMAIN Node(gdoc, q).attrs}}
         IN x \notin DOMAIN ClassOf(tag).attrs =>
              /\ Hosts(tag) # {} /\ (\A h \in Hosts(tag) : around(h)) => Inherits(tag, x)
              /\ Inherits(tag, x) /\ Cardinality(types) = 1 =>
                   \A h \in Hosts(tag) : around(h) => GetterType(tag, x) = Looked(h, x)
=============================================================================
