---------------------------- MODULE HddmPythonProofs ----------------------------
(***************************************************************************)
(* Theorems about HddmPython, for any finite number of variables and any   *)
(* number of objects and elements.                                         *)
(***************************************************************************)
EXTENDS HddmPython, SequenceTheorems, FiniteSetTheorems, TLAPS

----------------------------------------------------------------------------
(* The invariant.                                                           *)

Kinds == {"record", "element", "list", "copy"}
Paths == Seq(Nat)
Objects == [kind : Kinds, target : Paths, items : SUBSET Paths, host : Nat, refs : Nat,
            live : BOOLEAN]

IsRecord(o) == o \in DOMAIN objs /\ objs[o].kind = "record"

\* A path into the record of object o.
Within(q, o) == q \in Paths /\ q # << >> /\ q[1] = objs[o].host

\* An object belongs to a record, which belongs to itself.
ObjectOK(o) ==
  /\ IsRecord(objs[o].host)
  /\ IsRecord(o) <=> objs[o].host = o
  /\ objs[o].live <=> objs[o].refs > 0
  /\ \A q \in {objs[o].target} \cup objs[o].items : Within(q, o)

Shape ==
  /\ objs \in Seq(Objects)
  /\ \A o \in DOMAIN objs : ObjectOK(o)
  /\ held \in [PyNames -> 0 .. Len(objs)]
  /\ writing = 0 \/ IsRecord(writing)
  /\ \A o \in leaked : IsRecord(o)

\* What counts as a reference to an object.
Names(o) == {v \in PyNames : held[v] = o}
Parts(o) == {x \in DOMAIN objs : x # o /\ IsLive(x) /\ objs[x].host = o}
Count(o) ==
  Cardinality(Names(o)) + Cardinality(Parts(o))
  + (IF writing = o THEN 1 ELSE 0) + (IF o \in leaked THEN 1 ELSE 0)

Counted == \A o \in DOMAIN objs : objs[o].refs = Count(o)

\* The elements, those that a call deleted among them: their records exist, and
\* the numbers of all below a record are used up.
Elemental ==
  /\ serial \in Nat
  /\ \A q \in elements \cup removed :
       /\ q \in Paths /\ q # << >> /\ IsRecord(q[1])
       /\ Len(q) > 1 => q[Len(q)] <= serial
  /\ \A q \in elements : objs[q[1]].live
  /\ elements \cap removed = {}

\* An object that lives stands for something.
Founded ==
  \A o \in DOMAIN objs : objs[o].live =>
    {objs[o].target} \cup objs[o].items \subseteq elements \cup removed

Streaming ==
  /\ pyStream.phase = "closing" => pyStream.hddm = "null"
  /\ pyStream.hddm = "open" => pyStream.file = "open"

PyInv == Shape /\ Counted /\ Elemental /\ Founded /\ Streaming

----------------------------------------------------------------------------
(* Changes of one object.                                                   *)

LEMMA IncrefFields ==
  ASSUME NEW os \in Seq(Objects), NEW o \in DOMAIN os
  PROVE  LET new == Incref(os, o)
         IN /\ new \in Seq(Objects) /\ Len(new) = Len(os) /\ DOMAIN new = DOMAIN os
            /\ \A x \in DOMAIN os :
                 /\ new[x].kind = os[x].kind /\ new[x].target = os[x].target
                 /\ new[x].items = os[x].items /\ new[x].host = os[x].host
                 /\ new[x].live = os[x].live
                 /\ new[x].refs = IF x = o THEN os[x].refs + 1 ELSE os[x].refs
<1> DEFINE y == [os[o] EXCEPT !.refs = @ + 1]
           new == [os EXCEPT ![o] = y]
<1>1. os[o] \in Objects
  BY ElementOfSeq
<1>2. /\ y \in Objects /\ y.kind = os[o].kind /\ y.target = os[o].target
      /\ y.items = os[o].items /\ y.host = os[o].host /\ y.live = os[o].live
      /\ y.refs = os[o].refs + 1
  <2> DEFINE x == os[o]
             r == os[o].refs + 1
  <2>1. x \in Objects /\ r \in Nat
    BY <1>1 DEF Objects
  <2>2. y = [x EXCEPT !.refs = r]
    OBVIOUS
  <2> HIDE DEF x, r, y
  <2>3. /\ y \in Objects /\ y.kind = x.kind /\ y.target = x.target
        /\ y.items = x.items /\ y.host = x.host /\ y.live = x.live /\ y.refs = r
    BY <2>1, <2>2 DEF Objects
  <2> QED BY <2>3 DEF x, r
<1> HIDE DEF y
<1>3. new \in Seq(Objects) /\ Len(new) = Len(os) /\ DOMAIN new = DOMAIN os
  BY <1>2, ExceptSeq
<1>4. \A x \in DOMAIN os : new[x] = IF x = o THEN y ELSE os[x]
  OBVIOUS
<1> HIDE DEF new
<1>5. \A x \in DOMAIN os :
        /\ new[x].kind = os[x].kind /\ new[x].target = os[x].target
        /\ new[x].items = os[x].items /\ new[x].host = os[x].host
        /\ new[x].live = os[x].live
        /\ new[x].refs = IF x = o THEN os[x].refs + 1 ELSE os[x].refs
  BY <1>2, <1>4
<1>6. Incref(os, o) = new
  BY DEF Incref, new, y
<1> QED BY <1>3, <1>5, <1>6

LEMMA DecrefFields ==
  ASSUME NEW os \in Seq(Objects), NEW o \in DOMAIN os, os[o].refs > 0
  PROVE  LET new == Decref(os, o)
         IN /\ new \in Seq(Objects) /\ Len(new) = Len(os) /\ DOMAIN new = DOMAIN os
            /\ \A x \in DOMAIN os :
                 /\ new[x].kind = os[x].kind /\ new[x].target = os[x].target
                 /\ new[x].items = os[x].items /\ new[x].host = os[x].host
                 /\ x # o => new[x].live = os[x].live
                 /\ new[x].refs = IF x = o THEN os[x].refs - 1 ELSE os[x].refs
            /\ new[o].live <=> os[o].refs > 1
<1> DEFINE y == [os[o] EXCEPT !.refs = @ - 1, !.live = os[o].refs > 1]
           new == [os EXCEPT ![o] = y]
<1>1. os[o] \in Objects /\ os[o].refs - 1 \in Nat
  <2>1. os[o] \in Objects
    BY ElementOfSeq
  <2> QED BY <2>1 DEF Objects
<1>2. /\ y \in Objects /\ y.kind = os[o].kind /\ y.target = os[o].target
      /\ y.items = os[o].items /\ y.host = os[o].host /\ (y.live <=> os[o].refs > 1)
      /\ y.refs = os[o].refs - 1
  <2> DEFINE x == os[o]
             r == os[o].refs - 1
             b == os[o].refs > 1
  <2>1. x \in Objects /\ r \in Nat /\ b \in BOOLEAN
    BY <1>1
  <2>2. y = [x EXCEPT !.refs = r, !.live = b]
    OBVIOUS
  <2> HIDE DEF x, r, b, y
  <2>3. /\ y \in Objects /\ y.kind = x.kind /\ y.target = x.target
        /\ y.items = x.items /\ y.host = x.host /\ y.live = b /\ y.refs = r
    BY <2>1, <2>2 DEF Objects
  <2> QED BY <2>3 DEF x, r, b
<1> HIDE DEF y
<1>3. new \in Seq(Objects) /\ Len(new) = Len(os) /\ DOMAIN new = DOMAIN os
  BY <1>2, ExceptSeq
<1>4. \A x \in DOMAIN os : new[x] = IF x = o THEN y ELSE os[x]
  OBVIOUS
<1> HIDE DEF new
<1>5. \A x \in DOMAIN os :
        /\ new[x].kind = os[x].kind /\ new[x].target = os[x].target
        /\ new[x].items = os[x].items /\ new[x].host = os[x].host
        /\ x # o => new[x].live = os[x].live
        /\ new[x].refs = IF x = o THEN os[x].refs - 1 ELSE os[x].refs
  BY <1>2, <1>4
<1>6. new[o].live <=> os[o].refs > 1
  BY <1>2, <1>4
<1>7. Decref(os, o) = new
  <2>1. Decref(os, o) = [[os EXCEPT ![o].refs = @ - 1] EXCEPT ![o].live = os[o].refs > 1]
    BY DEF Decref
  <2> QED BY <1>1, <2>1, ElementOfSeq DEF new, y, Objects
<1> QED BY <1>3, <1>5, <1>6, <1>7

\* A new object stands behind the others.
LEMMA AppendFields ==
  ASSUME NEW os \in Seq(Objects), NEW y \in Objects
  PROVE  /\ Append(os, y) \in Seq(Objects) /\ Len(Append(os, y)) = Len(os) + 1
         /\ DOMAIN Append(os, y) = DOMAIN os \cup {Len(os) + 1} /\ Len(os) + 1 \notin DOMAIN os
         /\ \A x \in DOMAIN os : Append(os, y)[x] = os[x]
         /\ Append(os, y)[Len(os) + 1] = y
         /\ Len(os) \in Nat /\ DOMAIN os = 1 .. Len(os)
<1>1. /\ Append(os, y) \in Seq(Objects) /\ Len(Append(os, y)) = Len(os) + 1
      /\ \A x \in 1 .. Len(os) : Append(os, y)[x] = os[x]
      /\ Append(os, y)[Len(os) + 1] = y /\ Len(os) \in Nat /\ DOMAIN os = 1 .. Len(os)
      /\ DOMAIN Append(os, y) = 1 .. Len(os) + 1
  BY AppendProperties, LenProperties
<1> QED BY <1>1

\* The counts are numbers.
LEMMA CountTypes ==
  ASSUME Shape, NEW o
  PROVE  /\ IsFiniteSet(Names(o)) /\ Cardinality(Names(o)) \in Nat
         /\ IsFiniteSet(Parts(o)) /\ Cardinality(Parts(o)) \in Nat
<1>1. IsFiniteSet(Names(o))
  <2>1. Names(o) \in SUBSET PyNames
    BY DEF Names
  <2> QED BY <2>1, PyNamesAssumption, FS_Subset
<1>2. IsFiniteSet(Parts(o))
  <2>1. Len(objs) \in Nat /\ DOMAIN objs = 1 .. Len(objs)
    BY LenProperties DEF Shape
  <2>2. IsFiniteSet(1 .. Len(objs))
    BY <2>1, FS_Interval
  <2>3. Parts(o) \in SUBSET (1 .. Len(objs))
    BY <2>1 DEF Parts
  <2> QED BY <2>2, <2>3, FS_Subset
<1> QED BY <1>1, <1>2, FS_CardinalityType

\* A variable is bound to an object, or no longer.
Binds(v, n) == held[v] = 0 /\ held' = [held EXCEPT ![v] = n]

LEMMA NamesBind ==
  ASSUME Shape, NEW v \in PyNames, NEW n, Binds(v, n), NEW o, o # 0
  PROVE  Cardinality(Names(o)') = Cardinality(Names(o)) + (IF n = o THEN 1 ELSE 0)
<1>1. held[v] = 0 /\ \A w \in PyNames : held'[w] = IF w = v THEN n ELSE held[w]
  BY DEF Shape, Binds
<1>2. CASE n = o
  <2>1. Names(o)' = Names(o) \cup {v} /\ v \notin Names(o)
    BY <1>1, <1>2 DEF Names
  <2> QED BY <1>2, <2>1, CountTypes, FS_AddElement
<1>3. CASE n # o
  <2>1. Names(o)' = Names(o)
    BY <1>1, <1>3 DEF Names
  <2> QED BY <1>3, <2>1, CountTypes
<1> QED BY <1>2, <1>3

LEMMA NamesUnbind ==
  ASSUME Shape, NEW v \in PyNames, held' = [held EXCEPT ![v] = 0], NEW o, o # 0
  PROVE  Cardinality(Names(o)') = Cardinality(Names(o)) - (IF held[v] = o THEN 1 ELSE 0)
<1>1. \A w \in PyNames : held'[w] = IF w = v THEN 0 ELSE held[w]
  BY DEF Shape
<1>2. CASE held[v] = o
  <2>1. Names(o)' = Names(o) \ {v} /\ v \in Names(o)
    BY <1>1, <1>2 DEF Names
  <2> QED BY <1>2, <2>1, CountTypes, FS_RemoveElement
<1>3. CASE held[v] # o
  <2>1. Names(o)' = Names(o)
    BY <1>1, <1>3 DEF Names
  <2> QED BY <1>3, <2>1, CountTypes
<1> QED BY <1>2, <1>3

\* An object joins a record, or leaves it when it dies.
LEMMA PartsJoin ==
  ASSUME Shape, NEW n, n \notin DOMAIN objs, DOMAIN objs' = DOMAIN objs \cup {n},
         \A x \in DOMAIN objs : objs'[x].live = objs[x].live /\ objs'[x].host = objs[x].host,
         objs'[n].live, NEW o
  PROVE  Cardinality(Parts(o)') = Cardinality(Parts(o))
            + (IF objs'[n].host = o /\ n # o THEN 1 ELSE 0)
<1>1. \A x \in DOMAIN objs : x \in Parts(o)' <=> x \in Parts(o)
  BY DEF Parts, IsLive
<1>2. n \in Parts(o)' <=> objs'[n].host = o /\ n # o
  BY DEF Parts, IsLive
<1>3. /\ n \notin Parts(o) /\ Parts(o) \subseteq DOMAIN objs
      /\ Parts(o)' \subseteq DOMAIN objs \cup {n}
  BY DEF Parts
<1>4. CASE objs'[n].host = o /\ n # o
  <2>1. Parts(o)' = Parts(o) \cup {n}
    BY <1>1, <1>2, <1>3, <1>4
  <2>2. IsFiniteSet(Parts(o)) /\ Cardinality(Parts(o)) \in Nat /\ n \notin Parts(o)
    BY <1>3, CountTypes
  <2>3. Cardinality(Parts(o)') = Cardinality(Parts(o)) + 1
    BY <2>1, <2>2, FS_AddElement
  <2>4. (IF objs'[n].host = o /\ n # o THEN 1 ELSE 0) = 1
    BY <1>4
  <2> QED BY <2>3, <2>4
<1>5. CASE ~(objs'[n].host = o /\ n # o)
  <2>1. Parts(o)' = Parts(o)
    BY <1>1, <1>2, <1>3, <1>5
  <2> QED BY <1>5, <2>1, CountTypes
<1> QED BY <1>4, <1>5

LEMMA PartsSame ==
  ASSUME DOMAIN objs' = DOMAIN objs,
         \A x \in DOMAIN objs : objs'[x].host = objs[x].host,
         \A x \in DOMAIN objs : objs[x].host # x => objs'[x].live = objs[x].live,
         NEW o
  PROVE  Parts(o)' = Parts(o)
<1>1. ASSUME NEW x \in DOMAIN objs  PROVE x \in Parts(o)' <=> x \in Parts(o)
  <2>1. CASE objs[x].host = x
    BY <2>1 DEF Parts, IsLive
  <2>2. CASE objs[x].host # x
    BY <2>2 DEF Parts, IsLive
  <2> QED BY <2>1, <2>2
<1>2. Parts(o) \subseteq DOMAIN objs /\ Parts(o)' \subseteq DOMAIN objs
  BY DEF Parts
<1>3. Parts(o)' \subseteq Parts(o) /\ Parts(o) \subseteq Parts(o)'
  BY <1>1, <1>2
<1> QED BY <1>3

LEMMA PartsLeave ==
  ASSUME Shape, NEW n \in DOMAIN objs, DOMAIN objs' = DOMAIN objs,
         \A x \in DOMAIN objs : objs'[x].host = objs[x].host,
         \A x \in DOMAIN objs \ {n} : objs[x].host # x => objs'[x].live = objs[x].live,
         objs[n].live, ~objs'[n].live, NEW o
  PROVE  Cardinality(Parts(o)') = Cardinality(Parts(o))
            - (IF objs[n].host = o /\ n # o THEN 1 ELSE 0)
<1>1. \A x \in DOMAIN objs \ {n} : x \in Parts(o)' <=> x \in Parts(o)
  <2>1. ASSUME NEW x \in DOMAIN objs \ {n}  PROVE x \in Parts(o)' <=> x \in Parts(o)
    <3>1. CASE objs[x].host = x
      BY <3>1 DEF Parts, IsLive
    <3>2. CASE objs[x].host # x
      BY <3>2 DEF Parts, IsLive
    <3> QED BY <3>1, <3>2
  <2> QED BY <2>1
<1>2. n \in Parts(o) <=> objs[n].host = o /\ n # o
  BY DEF Parts, IsLive
<1>3. n \notin Parts(o)' /\ Parts(o) \subseteq DOMAIN objs /\ Parts(o)' \subseteq DOMAIN objs
  BY DEF Parts, IsLive
<1>4. CASE objs[n].host = o /\ n # o
  <2>1. Parts(o)' = Parts(o) \ {n}
    BY <1>1, <1>3
  <2>2. IsFiniteSet(Parts(o)) /\ Cardinality(Parts(o)) \in Nat /\ n \in Parts(o)
    BY <1>2, <1>4, CountTypes
  <2>3. Cardinality(Parts(o)') = Cardinality(Parts(o)) - 1
    BY <2>1, <2>2, FS_RemoveElement, ZenonT(60)
  <2>4. (IF objs[n].host = o /\ n # o THEN 1 ELSE 0) = 1
    BY <1>4
  <2> QED BY <2>3, <2>4
<1>5. CASE ~(objs[n].host = o /\ n # o)
  <2>1. Parts(o)' = Parts(o)
    <3>1. n \notin Parts(o) /\ n \notin Parts(o)'
      BY <1>2, <1>3, <1>5
    <3>2. Parts(o)' \subseteq Parts(o) /\ Parts(o) \subseteq Parts(o)'
      BY <1>1, <1>3, <3>1
    <3> QED BY <3>2
  <2> QED BY <1>5, <2>1, CountTypes
<1> QED BY <1>4, <1>5

----------------------------------------------------------------------------
(* What the counts say.                                                     *)

LEMMA ObjectTypes ==
  ASSUME Shape, NEW o \in DOMAIN objs
  PROVE  /\ objs[o] \in Objects /\ objs[o].kind \in Kinds /\ objs[o].target \in Paths
         /\ objs[o].items \in SUBSET Paths /\ objs[o].host \in Nat /\ objs[o].refs \in Nat
         /\ objs[o].live \in BOOLEAN
         /\ Len(objs) \in Nat /\ DOMAIN objs = 1 .. Len(objs) /\ o \in Nat /\ o > 0
<1>1. objs[o] \in Objects
  BY ElementOfSeq DEF Shape
<1>2. Len(objs) \in Nat /\ DOMAIN objs = 1 .. Len(objs)
  BY LenProperties DEF Shape
<1> QED BY <1>1, <1>2 DEF Objects

\* What is referred to lives, and what lives is referred to.
LEMMA Referred ==
  ASSUME Shape, Counted, NEW o \in DOMAIN objs
  PROVE  objs[o].live <=> \/ \E v \in PyNames : held[v] = o
                          \/ \E x \in DOMAIN objs : x # o /\ IsLive(x) /\ objs[x].host = o
                          \/ writing = o \/ o \in leaked
<1>1. objs[o].live <=> objs[o].refs > 0
  BY DEF Shape, ObjectOK
<1>2. objs[o].refs = Count(o)
  BY DEF Counted
<1>3. /\ Cardinality(Names(o)) \in Nat /\ (Cardinality(Names(o)) = 0 <=> Names(o) = {})
      /\ Cardinality(Parts(o)) \in Nat /\ (Cardinality(Parts(o)) = 0 <=> Parts(o) = {})
  BY CountTypes, FS_EmptySet
<1>4. Count(o) > 0 <=> Names(o) # {} \/ Parts(o) # {} \/ writing = o \/ o \in leaked
  BY <1>3 DEF Count
<1> QED BY <1>1, <1>2, <1>4 DEF Names, Parts

\* So a record lives as long as any part of it.
LEMMA HostLives ==
  ASSUME Shape, Counted, NEW o \in DOMAIN objs, objs[o].live
  PROVE  IsRecord(objs[o].host) /\ objs[objs[o].host].live
<1>1. IsRecord(objs[o].host)
  BY DEF Shape, ObjectOK
<1>2. objs[o].host # o => objs[objs[o].host].live
  BY <1>1, Referred DEF IsRecord, IsLive
<1> QED BY <1>1, <1>2

----------------------------------------------------------------------------
(* Steps that refer to an object once more.                                 *)

\* Objects whose references alone changed.
SameObjects ==
  /\ objs' \in Seq(Objects) /\ Len(objs') = Len(objs) /\ DOMAIN objs' = DOMAIN objs
  /\ \A x \in DOMAIN objs :
       /\ objs'[x].kind = objs[x].kind /\ objs'[x].target = objs[x].target
       /\ objs'[x].items = objs[x].items /\ objs'[x].host = objs[x].host

LEMMA SameShape ==
  ASSUME Shape, SameObjects, \A x \in DOMAIN objs : objs'[x].live <=> objs'[x].refs > 0,
         held' \in [PyNames -> 0 .. Len(objs)], writing' = 0 \/ IsRecord(writing'),
         leaked' = leaked
  PROVE  Shape'
<1>1. \A x : IsRecord(x)' <=> IsRecord(x)
  BY DEF SameObjects, IsRecord
<1>2. ASSUME NEW x \in DOMAIN objs  PROVE ObjectOK(x)'
  <2>1. ObjectOK(x)
    BY DEF Shape
  <2> QED BY <1>1, <2>1 DEF SameObjects, ObjectOK, Within
<1>3. writing' = 0 \/ IsRecord(writing)'
  BY <1>1 DEF IsRecord, SameObjects
<1> QED BY <1>1, <1>2, <1>3 DEF Shape, SameObjects

\* Nor did the elements, but that some may have been deleted.
LEMMA SameElements ==
  ASSUME Elemental, Founded, SameObjects,
         \A x \in DOMAIN objs : objs'[x].live = objs[x].live,
         serial' = serial, elements' \subseteq elements,
         elements' \cup removed' = elements \cup removed, elements' \cap removed' = {}
  PROVE  Elemental' /\ Founded'
<1>1. \A x : IsRecord(x)' <=> IsRecord(x)
  BY DEF SameObjects, IsRecord
<1>2. Elemental'
  <2>1. \A q \in elements' \cup removed' :
          /\ q \in Paths /\ q # << >> /\ IsRecord(q[1])'
          /\ Len(q) > 1 => q[Len(q)] <= serial'
    BY <1>1 DEF Elemental
  <2>2. \A q \in elements' : objs'[q[1]].live
    BY DEF Elemental, IsRecord
  <2> QED BY <2>1, <2>2 DEF Elemental
<1>3. Founded'
  BY DEF Founded, SameObjects
<1> QED BY <1>2, <1>3

LEMMA ReferStep ==
  ASSUME Shape, Counted, NEW o \in DOMAIN objs, objs[o].live, objs' = Incref(objs, o),
         leaked' = leaked,
         \/ /\ \E v \in PyNames : held[v] = 0 /\ held' = [held EXCEPT ![v] = o]
            /\ writing' = writing
         \/ writing = 0 /\ writing' = o /\ held' = held /\ IsRecord(o)
  PROVE  /\ Shape' /\ Counted' /\ SameObjects
         /\ \A x \in DOMAIN objs : objs'[x].live = objs[x].live
<1>1. /\ SameObjects /\ \A x \in DOMAIN objs : objs'[x].live = objs[x].live
      /\ \A x \in DOMAIN objs : objs'[x].refs = IF x = o THEN objs[x].refs + 1 ELSE objs[x].refs
  <2>1. objs \in Seq(Objects)
    BY DEF Shape
  <2>2. /\ objs' \in Seq(Objects) /\ Len(objs') = Len(objs) /\ DOMAIN objs' = DOMAIN objs
        /\ \A x \in DOMAIN objs :
             /\ objs'[x].kind = objs[x].kind /\ objs'[x].target = objs[x].target
             /\ objs'[x].items = objs[x].items /\ objs'[x].host = objs[x].host
             /\ objs'[x].live = objs[x].live
             /\ objs'[x].refs = IF x = o THEN objs[x].refs + 1 ELSE objs[x].refs
    BY <2>1, IncrefFields
  <2> QED BY <2>2 DEF SameObjects
<1>2. \A x \in DOMAIN objs : objs[x].refs \in Nat /\ x # 0 /\ (objs[x].live <=> objs[x].refs > 0)
  BY ObjectTypes DEF Shape, ObjectOK
<1>3. Shape'
  <2>1. \A x \in DOMAIN objs : objs'[x].live <=> objs'[x].refs > 0
    <3>1. ASSUME NEW x \in DOMAIN objs  PROVE objs'[x].live <=> objs'[x].refs > 0
      BY <1>1, <1>2
    <3> QED BY <3>1
  <2>2. held' \in [PyNames -> 0 .. Len(objs)]
    <3>1. o \in 0 .. Len(objs)
      BY ObjectTypes
    <3> QED BY <3>1 DEF Shape
  <2>3. writing' = 0 \/ IsRecord(writing')
    BY DEF Shape
  <2> QED BY <1>1, <2>1, <2>2, <2>3, SameShape
<1>4. Counted'
  <2>1. ASSUME NEW x \in DOMAIN objs  PROVE objs'[x].refs = Count(x)'
    <3>1. Parts(x)' = Parts(x)
      BY <1>1, PartsSame DEF SameObjects
    <3>2. objs[x].refs = Count(x) /\ objs'[x].refs = objs[x].refs + (IF o = x THEN 1 ELSE 0)
      BY <1>1, <1>2 DEF Counted
    <3>3. Cardinality(Names(x)) \in Nat /\ Cardinality(Parts(x)) \in Nat
      BY CountTypes
    <3>4. ASSUME NEW v \in PyNames, held[v] = 0, held' = [held EXCEPT ![v] = o],
                 writing' = writing
          PROVE  objs'[x].refs = Count(x)'
      <4>1. x # 0 /\ Binds(v, o)
        BY <1>2, <3>4 DEF Binds
      <4>2. Cardinality(Names(x)') = Cardinality(Names(x)) + (IF o = x THEN 1 ELSE 0)
        BY <4>1, NamesBind
      <4> QED BY <3>1, <3>2, <3>3, <3>4, <4>2 DEF Count
    <3>5. CASE writing = 0 /\ writing' = o /\ held' = held
      <4>1. Names(x)' = Names(x)
        BY <3>5 DEF Names
      <4>2. (IF writing' = x THEN 1 ELSE 0) = (IF writing = x THEN 1 ELSE 0)
               + (IF o = x THEN 1 ELSE 0)
        BY <1>2, <3>5
      <4> QED BY <3>1, <3>2, <3>3, <4>1, <4>2 DEF Count
    <3> QED BY <3>4, <3>5
  <2> QED BY <1>1, <2>1 DEF Counted, SameObjects
<1> QED BY <1>1, <1>3, <1>4

----------------------------------------------------------------------------
(* Steps that make an object.                                               *)

\* Object n has joined the others, whose references alone changed.
Grown(n) ==
  /\ objs' \in Seq(Objects) /\ n = Len(objs) + 1 /\ Len(objs') = n
  /\ DOMAIN objs' = DOMAIN objs \cup {n} /\ n \notin DOMAIN objs
  /\ objs'[n].live /\ objs'[n].refs = 1
  /\ \A x \in DOMAIN objs :
       /\ objs'[x].kind = objs[x].kind /\ objs'[x].target = objs[x].target
       /\ objs'[x].items = objs[x].items /\ objs'[x].host = objs[x].host
       /\ objs'[x].live = objs[x].live

LEMMA GrownRecords ==
  ASSUME NEW n, Grown(n), NEW x, IsRecord(x)
  PROVE  IsRecord(x)'
BY DEF Grown, IsRecord

LEMMA GrownShape ==
  ASSUME Shape, NEW n, Grown(n), \A x \in DOMAIN objs : objs'[x].live <=> objs'[x].refs > 0,
         ObjectOK(n)', NEW v \in PyNames,
         held' = held \/ held' = [held EXCEPT ![v] = n], writing' = writing,
         \A o \in leaked' : IsRecord(o)'
  PROVE  Shape'
<1>1. ASSUME NEW x \in DOMAIN objs  PROVE ObjectOK(x)'
  <2>1. ObjectOK(x)
    BY DEF Shape
  <2>2. objs'[x].host = objs[x].host /\ IsRecord(objs[x].host)'
    BY <2>1, GrownRecords DEF Grown, ObjectOK
  <2>3. IsRecord(x)' <=> IsRecord(x)
    BY DEF Grown, IsRecord
  <2> QED BY <2>1, <2>2, <2>3 DEF Grown, ObjectOK, Within
<1>2. \A x \in DOMAIN objs' : ObjectOK(x)'
  BY <1>1 DEF Grown
<1>3. Len(objs) \in Nat /\ n \in 0 .. n /\ \A k \in 0 .. Len(objs) : k \in 0 .. n
  <2>1. Len(objs) \in Nat /\ n = Len(objs) + 1
    BY LenProperties DEF Shape, Grown
  <2> QED BY <2>1
<1>4. held' \in [PyNames -> 0 .. Len(objs')]
  <2>1. \A w \in PyNames : held'[w] \in 0 .. n
    BY <1>3 DEF Shape
  <2>2. held' = [w \in PyNames |-> held'[w]]
    BY DEF Shape
  <2> QED BY <2>1, <2>2 DEF Grown
<1>5. writing' = 0 \/ IsRecord(writing)'
  BY GrownRecords DEF Shape
<1> QED BY <1>2, <1>4, <1>5 DEF Shape, Grown, IsRecord

LEMMA GrownElements ==
  ASSUME Elemental, Founded, NEW n, Grown(n), removed' = removed, elements \subseteq elements',
         serial' \in Nat, serial <= serial',
         \A q \in elements' \ elements :
           /\ q \in Paths /\ q # << >> /\ IsRecord(q[1])' /\ objs'[q[1]].live
           /\ Len(q) > 1 => q[Len(q)] <= serial'
           /\ q \notin removed,
         {objs'[n].target} \cup objs'[n].items \subseteq elements' \cup removed'
  PROVE  Elemental' /\ Founded'
<1>1. ASSUME NEW q \in elements' \cup removed'
      PROVE  /\ q \in Paths /\ q # << >> /\ IsRecord(q[1])'
             /\ Len(q) > 1 => q[Len(q)] <= serial'
  <2>1. CASE q \in elements' \ elements
    BY <2>1
  <2>2. CASE q \in elements \cup removed
    <3>1. /\ q \in Paths /\ q # << >> /\ IsRecord(q[1]) /\ serial \in Nat
          /\ Len(q) > 1 => q[Len(q)] <= serial
      BY <2>2 DEF Elemental
    <3>2. IsRecord(q[1])'
      BY <3>1, GrownRecords
    <3>3. Len(q) > 1 => q[Len(q)] \in Nat
      <4>1. Len(q) \in Nat /\ \A i \in 1 .. Len(q) : q[i] \in Nat
        BY <3>1, ElementOfSeq, LenProperties DEF Paths
      <4> QED BY <4>1
    <3> QED BY <3>1, <3>2, <3>3
  <2> QED BY <2>1, <2>2
<1>2. \A q \in elements' : objs'[q[1]].live
  BY DEF Elemental, Grown, IsRecord
<1>3. elements' \cap removed' = {}
  BY DEF Elemental
<1>4. Elemental'
  BY <1>1, <1>2, <1>3 DEF Elemental
<1>5. ASSUME NEW x \in DOMAIN objs', objs'[x].live
      PROVE  {objs'[x].target} \cup objs'[x].items \subseteq elements' \cup removed'
  <2>1. CASE x = n
    BY <2>1
  <2>2. CASE x # n
    BY <1>5, <2>2 DEF Grown, Founded
  <2> QED BY <2>1, <2>2
<1>6. Founded'
  BY <1>5 DEF Founded
<1> QED BY <1>4, <1>6

\* The first counts of a new object.
LEMMA NewCounts ==
  ASSUME Shape, NEW n, n = Len(objs) + 1
  PROVE  /\ Names(n) = {} /\ Parts(n) = {} /\ writing # n /\ n \notin leaked
         /\ n # 0 /\ n \notin DOMAIN objs
<1>1. Len(objs) \in Nat /\ DOMAIN objs = 1 .. Len(objs)
  BY LenProperties DEF Shape
<1>2. Names(n) = {}
  BY <1>1 DEF Names, Shape
<1>3. n \notin DOMAIN objs /\ n # 0
  BY <1>1
<1>4. Parts(n) = {}
  BY <1>3 DEF Parts, Shape, ObjectOK, IsRecord
<1> QED BY <1>2, <1>3, <1>4 DEF Shape, IsRecord

LEMMA MadeStep ==
  ASSUME Shape, Counted, NEW n, n = Len(objs) + 1, objs' = Append(objs, NewObject(n)),
         writing' = writing, NEW v \in PyNames, held[v] = 0,
         \/ held' = [held EXCEPT ![v] = n] /\ leaked' = leaked
         \/ held' = held /\ leaked' = leaked \cup {n}
  PROVE  /\ Shape' /\ Counted' /\ Grown(n)
         /\ objs'[n].kind = "record" /\ objs'[n].host = n /\ objs'[n].target = <<n>>
         /\ objs'[n].items = {}
<1>1. /\ n \notin DOMAIN objs /\ n # 0 /\ Names(n) = {} /\ Parts(n) = {} /\ writing # n
      /\ n \notin leaked /\ n \in Nat
  <2>1. Len(objs) \in Nat
    BY LenProperties DEF Shape
  <2> QED BY <2>1, NewCounts
<1>2. /\ Grown(n) /\ objs'[n] = NewObject(n)
      /\ \A x \in DOMAIN objs : objs'[x] = objs[x]
  <2>1. NewObject(n) \in Objects /\ objs \in Seq(Objects)
    <3>1. <<n>> \in Seq(Nat)
      BY <1>1
    <3> QED BY <1>1, <3>1 DEF NewObject, Objects, Kinds, Paths, Shape
  <2>2. /\ objs' \in Seq(Objects) /\ Len(objs') = n
        /\ DOMAIN objs' = DOMAIN objs \cup {n} /\ n \notin DOMAIN objs
        /\ \A x \in DOMAIN objs : objs'[x] = objs[x]
        /\ objs'[n] = NewObject(n)
    BY <2>1, AppendFields
  <2>3. NewObject(n).live /\ NewObject(n).refs = 1
    BY DEF NewObject
  <2> QED BY <2>2, <2>3 DEF Grown
<1>3. /\ objs'[n].kind = "record" /\ objs'[n].host = n /\ objs'[n].target = <<n>>
      /\ objs'[n].items = {} /\ objs'[n].refs = 1 /\ objs'[n].live
  BY <1>2 DEF NewObject
<1>4. IsRecord(n)' /\ \A x : IsRecord(x) => IsRecord(x)'
  BY <1>2, <1>3, GrownRecords DEF Grown, IsRecord
<1>5. Shape'
  <2>1. ObjectOK(n)'
    <3>1. <<n>> \in Paths /\ <<n>> # << >> /\ <<n>>[1] = n
      BY <1>1 DEF Paths
    <3> QED BY <1>3, <1>4, <3>1 DEF ObjectOK, Within
  <2>2. \A x \in DOMAIN objs : objs'[x].live <=> objs'[x].refs > 0
    BY <1>2 DEF Shape, ObjectOK
  <2>3. \A o \in leaked' : IsRecord(o)'
    BY <1>4 DEF Shape
  <2> QED BY <1>2, <2>1, <2>2, <2>3, GrownShape
<1>6. Counted'
  <2>1. ASSUME NEW x \in DOMAIN objs'
        PROVE  /\ Cardinality(Parts(x)') = Cardinality(Parts(x))
               /\ Cardinality(Parts(x)) \in Nat /\ Cardinality(Names(x)) \in Nat /\ x # 0
    <3>1. Cardinality(Parts(x)') = Cardinality(Parts(x))
             + (IF objs'[n].host = x /\ n # x THEN 1 ELSE 0)
      BY <1>2, <1>3, PartsJoin DEF Grown
    <3>2. (IF objs'[n].host = x /\ n # x THEN 1 ELSE 0) = 0
      BY <1>3
    <3>3. x # 0
      BY <1>1, <1>2, ObjectTypes DEF Grown
    <3> QED BY <3>1, <3>2, <3>3, CountTypes
  <2>2. ASSUME NEW x \in DOMAIN objs  PROVE objs'[x].refs = Count(x)'
    <3>1. objs'[x].refs = Count(x) /\ x # n
      BY <1>1, <1>2 DEF Counted
    <3>2. Cardinality(Names(x)') = Cardinality(Names(x))
      <4>1. CASE held' = held
        BY <4>1 DEF Names
      <4>2. CASE held' = [held EXCEPT ![v] = n]
        <5>1. x # 0 /\ Cardinality(Names(x)) \in Nat /\ Binds(v, n)
          BY <1>2, <2>1, <4>2 DEF Grown, Binds
        <5>2. Cardinality(Names(x)') = Cardinality(Names(x)) + (IF n = x THEN 1 ELSE 0)
          BY <5>1, NamesBind
        <5>3. (IF n = x THEN 1 ELSE 0) = 0
          BY <3>1
        <5> QED BY <5>1, <5>2, <5>3
      <4> QED BY <4>1, <4>2
    <3>3. x \in leaked' <=> x \in leaked
      BY <3>1
    <3>4. (IF x \in leaked' THEN 1 ELSE 0) = (IF x \in leaked THEN 1 ELSE 0)
      BY <3>3
    <3> QED BY <1>2, <2>1, <3>1, <3>2, <3>4 DEF Count, Grown
  <2>3. objs'[n].refs = Count(n)'
    <3>1. Cardinality(Parts(n)') = 0 /\ Cardinality(Names(n)) = 0
      <4>1. n \in DOMAIN objs'
        BY <1>2 DEF Grown
      <4> QED BY <1>1, <2>1, <4>1, FS_EmptySet
    <3>2. CASE held' = [held EXCEPT ![v] = n] /\ leaked' = leaked
      <4>1. Cardinality(Names(n)') = Cardinality(Names(n)) + (IF n = n THEN 1 ELSE 0)
        <5>1. Binds(v, n) /\ n # 0
          BY <1>1, <3>2 DEF Binds
        <5> QED BY <5>1, NamesBind
      <4>2. (IF n = n THEN 1 ELSE 0) = 1
        OBVIOUS
      <4>3. Cardinality(Names(n)') = 1
        BY <3>1, <4>1, <4>2
      <4> QED BY <1>1, <1>3, <3>1, <3>2, <4>3 DEF Count
    <3>3. CASE held' = held /\ leaked' = leaked \cup {n}
      <4>1. Names(n)' = Names(n)
        BY <3>3 DEF Names
      <4> QED BY <1>1, <1>3, <3>1, <3>3, <4>1 DEF Count
    <3> QED BY <3>2, <3>3
  <2> QED BY <1>2, <2>2, <2>3 DEF Counted, Grown
<1> QED BY <1>2, <1>3, <1>5, <1>6

LEMMA WrapStep ==
  ASSUME Shape, Counted, NEW n, n = Len(objs) + 1, NEW o \in DOMAIN objs, objs[o].live,
         NEW kind \in Kinds \ {"record"}, NEW target, NEW items,
         \A q \in {target} \cup items : Within(q, o),
         objs' = Wrap(kind, target, items, objs[o].host), writing' = writing,
         leaked' = leaked,
         NEW v \in PyNames, held[v] = 0, held' = [held EXCEPT ![v] = n]
  PROVE  /\ Shape' /\ Counted' /\ Grown(n)
         /\ objs'[n].target = target /\ objs'[n].items = items
<1> DEFINE h == objs[o].host
           os == Incref(objs, h)
           y == [kind |-> kind, target |-> target, items |-> items, host |-> h, refs |-> 1,
                 live |-> TRUE]
<1>1. /\ n \notin DOMAIN objs /\ n # 0 /\ Names(n) = {} /\ Parts(n) = {} /\ writing # n
      /\ n \notin leaked
  BY NewCounts
<1>2. IsRecord(h) /\ h \in DOMAIN objs /\ h # n /\ h \in Nat
  <2>1. IsRecord(h)
    BY HostLives
  <2> QED BY <1>1, <2>1, ObjectTypes DEF IsRecord
<1>3. /\ os \in Seq(Objects) /\ Len(os) = Len(objs) /\ DOMAIN os = DOMAIN objs
      /\ \A x \in DOMAIN objs :
           /\ os[x].kind = objs[x].kind /\ os[x].target = objs[x].target
           /\ os[x].items = objs[x].items /\ os[x].host = objs[x].host
           /\ os[x].live = objs[x].live
           /\ os[x].refs = IF x = h THEN objs[x].refs + 1 ELSE objs[x].refs
  <2>1. objs \in Seq(Objects)
    BY DEF Shape
  <2> HIDE DEF h
  <2> QED BY <1>2, <2>1, IncrefFields
<1>4. /\ y \in Objects /\ y.kind = kind /\ y.target = target /\ y.items = items /\ y.host = h
      /\ y.refs = 1 /\ y.live
  <2>1. target \in Paths /\ items \in SUBSET Paths
    BY DEF Within
  <2> QED BY <1>2, <2>1 DEF Objects, Kinds
<1>5. objs' = Append(os, y)
  BY DEF Wrap
<1> HIDE DEF h, os, y
<1>6. /\ objs' \in Seq(Objects) /\ Len(objs') = n /\ DOMAIN objs' = DOMAIN objs \cup {n}
      /\ \A x \in DOMAIN objs : objs'[x] = os[x]
      /\ objs'[n] = y
  BY <1>3, <1>4, <1>5, AppendFields
<1>7. Grown(n)
  BY <1>1, <1>3, <1>4, <1>6 DEF Grown
<1>8. /\ objs'[n].host = h /\ objs'[n].kind = kind /\ objs'[n].refs = 1 /\ objs'[n].live
      /\ objs'[n].target = target /\ objs'[n].items = items
      /\ \A x \in DOMAIN objs :
           objs'[x].refs = IF x = h THEN objs[x].refs + 1 ELSE objs[x].refs
  BY <1>3, <1>4, <1>6
<1>9. Shape'
  <2>1. ObjectOK(n)'
    <3>1. h \in DOMAIN objs' /\ objs'[h].kind = "record"
      BY <1>2, <1>7 DEF Grown, IsRecord
    <3>2. ~IsRecord(n)'
      BY <1>8 DEF IsRecord
    <3>3. \A q \in {objs'[n].target} \cup objs'[n].items : Within(q, n)'
      BY <1>8 DEF Within, h
    <3>4. objs'[n].live <=> objs'[n].refs > 0
      BY <1>8
    <3>5. IsRecord(objs[n].host)' /\ objs'[n].host # n
      BY <1>2, <1>8, <3>1 DEF IsRecord
    <3> QED BY <3>2, <3>3, <3>4, <3>5 DEF ObjectOK
  <2>2. ASSUME NEW x \in DOMAIN objs  PROVE objs'[x].live <=> objs'[x].refs > 0
    <3>1. objs[x].refs \in Nat /\ (objs[x].live <=> objs[x].refs > 0)
      BY ObjectTypes DEF Shape, ObjectOK
    <3>2. objs[h].live
      BY HostLives DEF h
    <3>3. objs'[x].live = objs[x].live
      BY <1>7 DEF Grown
    <3> QED BY <1>8, <3>1, <3>2, <3>3
  <2>3. \A x \in leaked' : IsRecord(x)'
    BY <1>7, GrownRecords DEF Shape
  <2> QED BY <1>7, <2>1, <2>2, <2>3, GrownShape
<1>10. Counted'
  <2>1. ASSUME NEW x \in DOMAIN objs'
        PROVE  /\ Cardinality(Parts(x)') = Cardinality(Parts(x))
                     + (IF h = x /\ n # x THEN 1 ELSE 0)
               /\ Cardinality(Names(x)') = Cardinality(Names(x)) + (IF n = x THEN 1 ELSE 0)
               /\ Cardinality(Parts(x)) \in Nat /\ Cardinality(Names(x)) \in Nat
    <3>1. Cardinality(Parts(x)') = Cardinality(Parts(x))
             + (IF objs'[n].host = x /\ n # x THEN 1 ELSE 0)
      BY <1>1, <1>6, <1>7, PartsJoin DEF Grown
    <3>2. x # 0 /\ Binds(v, n)
      BY <1>1, <1>6, ObjectTypes DEF Binds
    <3>3. Cardinality(Names(x)') = Cardinality(Names(x)) + (IF n = x THEN 1 ELSE 0)
      BY <3>2, NamesBind
    <3> QED BY <1>8, <3>1, <3>3, CountTypes
  <2>2. ASSUME NEW x \in DOMAIN objs  PROVE objs'[x].refs = Count(x)'
    <3>1. objs[x].refs = Count(x) /\ x # n /\ x \in DOMAIN objs' /\ objs[x].refs \in Nat
      BY <1>1, <1>6, ObjectTypes DEF Counted
    <3>2. /\ (IF n = x THEN 1 ELSE 0) = 0
          /\ (IF h = x /\ n # x THEN 1 ELSE 0) = IF x = h THEN 1 ELSE 0
      BY <3>1
    <3>3. /\ Cardinality(Parts(x)') = Cardinality(Parts(x)) + IF x = h THEN 1 ELSE 0
          /\ Cardinality(Names(x)') = Cardinality(Names(x))
          /\ Cardinality(Parts(x)) \in Nat /\ Cardinality(Names(x)) \in Nat
      BY <2>1, <3>1, <3>2
    <3> QED BY <1>8, <3>1, <3>3 DEF Count
  <2>3. objs'[n].refs = Count(n)'
    <3>1. (IF n = n THEN 1 ELSE 0) = 1 /\ (IF h = n /\ n # n THEN 1 ELSE 0) = 0
      OBVIOUS
    <3>2. n \in DOMAIN objs' /\ Cardinality(Parts(n)) = 0 /\ Cardinality(Names(n)) = 0
      BY <1>1, <1>6, FS_EmptySet
    <3>3. Cardinality(Parts(n)') = 0 /\ Cardinality(Names(n)') = 1
      BY <2>1, <3>1, <3>2
    <3> QED BY <1>1, <1>8, <3>3 DEF Count
  <2> QED BY <1>6, <2>2, <2>3 DEF Counted
<1> QED BY <1>7, <1>8, <1>9, <1>10

----------------------------------------------------------------------------
(* Steps that give a reference up.                                          *)

LEMMA ReleaseStep ==
  ASSUME Shape, Counted, NEW o \in DOMAIN objs, objs' = Released(objs, o), leaked' = leaked,
         \/ /\ \E v \in PyNames : held[v] = o /\ held' = [held EXCEPT ![v] = 0]
            /\ writing' = writing
         \/ writing = o /\ writing' = 0 /\ held' = held
  PROVE  /\ Shape' /\ Counted' /\ SameObjects
         /\ \A x \in DOMAIN objs : objs'[x].live => objs[x].live
<1> DEFINE first == Decref(objs, o)
           h == objs[o].host
<1>1. objs[o].live /\ objs[o].refs > 0 /\ objs[o].refs \in Nat
  <2>1. objs[o].live
    BY Referred
  <2> QED BY <2>1, ObjectTypes DEF Shape, ObjectOK
<1>2. /\ first \in Seq(Objects) /\ Len(first) = Len(objs) /\ DOMAIN first = DOMAIN objs
      /\ \A x \in DOMAIN objs :
           /\ first[x].kind = objs[x].kind /\ first[x].target = objs[x].target
           /\ first[x].items = objs[x].items /\ first[x].host = objs[x].host
           /\ x # o => first[x].live = objs[x].live
           /\ first[x].refs = IF x = o THEN objs[x].refs - 1 ELSE objs[x].refs
      /\ first[o].live <=> objs[o].refs > 1
  <2>1. objs \in Seq(Objects)
    BY DEF Shape
  <2> QED BY <1>1, <2>1, DecrefFields
<1>3. \A x \in DOMAIN objs : objs[x].refs \in Nat /\ x # 0 /\ (objs[x].live <=> objs[x].refs > 0)
  BY ObjectTypes DEF Shape, ObjectOK
<1>4. /\ IsRecord(h) /\ h \in DOMAIN objs /\ objs[h].live /\ objs[h].host = h
      /\ IsRecord(o) <=> h = o
  <2>1. IsRecord(h) /\ objs[h].live
    BY <1>1, HostLives
  <2>2. h \in DOMAIN objs
    BY <2>1 DEF IsRecord
  <2>3. objs[h].host = h
    BY <2>1, <2>2 DEF Shape, ObjectOK
  <2>4. IsRecord(o) <=> h = o
    BY DEF Shape, ObjectOK
  <2> QED BY <2>1, <2>2, <2>3, <2>4
<1>5. objs' = IF first[o].live \/ h = o THEN first ELSE Decref(first, h)
  BY <1>4 DEF Released, IsRecord
<1> HIDE DEF first, h
\* Whoever held o, holds it no more.
<1>6. ASSUME NEW x \in DOMAIN objs
      PROVE  /\ Cardinality(Names(x)') + (IF writing' = x THEN 1 ELSE 0)
                  = Cardinality(Names(x)) + (IF writing = x THEN 1 ELSE 0)
                     - (IF o = x THEN 1 ELSE 0)
             /\ Cardinality(Names(x)') \in Int /\ Cardinality(Names(x)) \in Nat
  <2>1. Cardinality(Names(x)) \in Nat /\ x # 0
    BY <1>3, CountTypes
  <2>2. (IF writing = x THEN 1 ELSE 0) \in Nat /\ (IF o = x THEN 1 ELSE 0) \in Nat
    OBVIOUS
  <2>3. ASSUME NEW v \in PyNames, held[v] = o, held' = [held EXCEPT ![v] = 0], writing' = writing
        PROVE  /\ Cardinality(Names(x)') + (IF writing' = x THEN 1 ELSE 0)
                    = Cardinality(Names(x)) + (IF writing = x THEN 1 ELSE 0)
                       - (IF o = x THEN 1 ELSE 0)
               /\ Cardinality(Names(x)') \in Int
    <3>1. Cardinality(Names(x)') = Cardinality(Names(x)) - (IF held[v] = x THEN 1 ELSE 0)
      BY <2>1, <2>3, NamesUnbind
    <3> QED BY <2>1, <2>2, <2>3, <3>1
  <2>4. CASE writing = o /\ writing' = 0 /\ held' = held
    <3>1. Names(x)' = Names(x)
      BY <2>4 DEF Names
    <3>2. /\ (IF writing' = x THEN 1 ELSE 0) = 0
          /\ (IF writing = x THEN 1 ELSE 0) = (IF o = x THEN 1 ELSE 0)
      BY <2>1, <2>4
    <3> QED BY <2>1, <2>2, <3>1, <3>2
  <2> QED BY <2>1, <2>3, <2>4
<1>7. held' \in [PyNames -> 0 .. Len(objs)] /\ (writing' = 0 \/ IsRecord(writing'))
  <2>1. 0 \in 0 .. Len(objs)
    BY ObjectTypes
  <2> QED BY <2>1 DEF Shape
<1>8. CASE first[o].live \/ h = o
  <2>1. objs' = first
    BY <1>5, <1>8
  <2>2. SameObjects
    BY <1>2, <2>1 DEF SameObjects
  <2>3. ASSUME NEW x \in DOMAIN objs
        PROVE  (objs'[x].live <=> objs'[x].refs > 0) /\ (objs'[x].live => objs[x].live)
    BY <1>1, <1>2, <1>3, <2>1
  <2>4. Shape'
    BY <1>7, <2>2, <2>3, SameShape
  <2>5. ASSUME NEW x \in DOMAIN objs  PROVE objs'[x].refs = Count(x)'
    <3>1. Parts(x)' = Parts(x)
      <4>1. \A z \in DOMAIN objs : objs[z].host # z => objs'[z].live = objs[z].live
        <5>1. objs'[o].live = objs[o].live \/ objs[o].host = o
          BY <1>1, <1>2, <1>8, <2>1, <2>4, ObjectTypes DEF h, Shape, Objects
        <5> QED BY <1>2, <2>1, <5>1
      <4> QED BY <2>2, <4>1, PartsSame DEF SameObjects
    <3> DEFINE before == IF writing = x THEN 1 ELSE 0
               after == IF writing' = x THEN 1 ELSE 0
               given == IF o = x THEN 1 ELSE 0
               kept == IF x \in leaked THEN 1 ELSE 0
    <3>2. objs'[x].refs = objs[x].refs - given
      BY <1>2, <1>3, <2>1
    <3>3. objs[x].refs = Cardinality(Names(x)) + Cardinality(Parts(x)) + before + kept
      BY DEF Counted, Count
    <3>4. Count(x)' = Cardinality(Names(x)') + Cardinality(Parts(x)') + after + kept
      BY DEF Count
    <3>5. Cardinality(Names(x)') + after = Cardinality(Names(x)) + before - given
      BY <1>6
    <3>6. before \in Nat /\ after \in Nat /\ given \in Nat /\ kept \in Nat
      OBVIOUS
    <3>7. /\ Cardinality(Names(x)') \in Int /\ Cardinality(Names(x)) \in Nat
          /\ Cardinality(Parts(x)) \in Nat
      BY <1>6, CountTypes
    <3> HIDE DEF before, after, given, kept
    <3> QED BY <3>1, <3>2, <3>3, <3>4, <3>5, <3>6, <3>7
  <2> QED BY <2>2, <2>3, <2>4, <2>5 DEF Counted, SameObjects
<1>9. CASE ~(first[o].live \/ h = o)
  <2>1. objs' = Decref(first, h) /\ h # o /\ objs[o].refs = 1
    BY <1>1, <1>2, <1>5, <1>9
  <2>2. /\ first \in Seq(Objects) /\ h \in DOMAIN first /\ first[h].refs > 0
        /\ first[h].refs = objs[h].refs
    BY <1>2, <1>3, <1>4, <2>1
  <2>3. /\ objs' \in Seq(Objects) /\ Len(objs') = Len(first) /\ DOMAIN objs' = DOMAIN first
        /\ \A x \in DOMAIN first :
             /\ objs'[x].kind = first[x].kind /\ objs'[x].target = first[x].target
             /\ objs'[x].items = first[x].items /\ objs'[x].host = first[x].host
             /\ x # h => objs'[x].live = first[x].live
             /\ objs'[x].refs = IF x = h THEN first[x].refs - 1 ELSE first[x].refs
        /\ objs'[h].live <=> first[h].refs > 1
    BY <2>1, <2>2, DecrefFields
  <2>4. SameObjects
    BY <1>2, <2>3 DEF SameObjects
  <2>5. ASSUME NEW x \in DOMAIN objs
        PROVE  (objs'[x].live <=> objs'[x].refs > 0) /\ (objs'[x].live => objs[x].live)
    <3>1. CASE x = o
      BY <1>1, <1>2, <1>9, <2>1, <2>3, <3>1
    <3>2. CASE x = h
      BY <1>2, <1>3, <1>4, <2>1, <2>2, <2>3, <3>2
    <3>3. CASE x # o /\ x # h
      BY <1>2, <1>3, <2>3, <3>3
    <3> QED BY <3>1, <3>2, <3>3
  <2>6. Shape'
    BY <1>7, <2>4, <2>5, SameShape
  <2>7. ASSUME NEW x \in DOMAIN objs  PROVE objs'[x].refs = Count(x)'
    <3>1. Cardinality(Parts(x)') = Cardinality(Parts(x)) - (IF h = x /\ o # x THEN 1 ELSE 0)
      <4>1. \A z \in DOMAIN objs \ {o} : objs[z].host # z => objs'[z].live = objs[z].live
        BY <1>2, <1>4, <2>3
      <4>2. objs[o].live /\ ~objs'[o].live
        BY <1>1, <1>2, <1>9, <2>1, <2>3
      <4>3. Cardinality(Parts(x)') = Cardinality(Parts(x))
               - (IF objs[o].host = x /\ o # x THEN 1 ELSE 0)
        BY <2>4, <4>1, <4>2, PartsLeave DEF SameObjects
      <4> QED BY <4>3 DEF h
    <3> DEFINE before == IF writing = x THEN 1 ELSE 0
               after == IF writing' = x THEN 1 ELSE 0
               given == IF o = x THEN 1 ELSE 0
               gone == IF h = x /\ o # x THEN 1 ELSE 0
               kept == IF x \in leaked THEN 1 ELSE 0
    <3>2. objs'[x].refs = objs[x].refs - given - gone
      BY <1>2, <1>3, <2>1, <2>3
    <3>3. objs[x].refs = Cardinality(Names(x)) + Cardinality(Parts(x)) + before + kept
      BY DEF Counted, Count
    <3>4. Count(x)' = Cardinality(Names(x)') + Cardinality(Parts(x)') + after + kept
      BY DEF Count
    <3>5. /\ Cardinality(Names(x)') + after = Cardinality(Names(x)) + before - given
          /\ Cardinality(Parts(x)') = Cardinality(Parts(x)) - gone
      BY <1>6, <3>1
    <3>6. before \in Nat /\ after \in Nat /\ given \in Nat /\ gone \in Nat /\ kept \in Nat
      OBVIOUS
    <3>7. /\ Cardinality(Names(x)') \in Int /\ Cardinality(Names(x)) \in Nat
          /\ Cardinality(Parts(x)) \in Nat
      BY <1>6, CountTypes
    <3> HIDE DEF before, after, given, gone, kept
    <3> QED BY <3>2, <3>3, <3>4, <3>5, <3>6, <3>7
  <2> QED BY <2>4, <2>5, <2>6, <2>7 DEF Counted, SameObjects
<1> QED BY <1>8, <1>9

HostsLive == \A o \in DOMAIN objs : objs[o].live => objs[objs[o].host].live

LEMMA HostsAlways == Shape /\ Counted => HostsLive
BY HostLives DEF HostsLive

\* The elements go with their record, which no object needs any more.
LEMMA DroppedElements ==
  ASSUME Elemental, Founded, SameObjects, Shape', HostsLive',
         \A x \in DOMAIN objs : objs'[x].live => objs[x].live,
         elements' = Dropped(objs'), UNCHANGED <<removed, serial>>
  PROVE  Elemental' /\ Founded'
<1>1. \A x : IsRecord(x)' <=> IsRecord(x)
  BY DEF SameObjects, IsRecord
<1>2. Elemental'
  <2>1. elements' \subseteq elements /\ \A q \in elements' : objs'[q[1]].live
    BY DEF Dropped
  <2> QED BY <1>1, <2>1 DEF Elemental
<1>3. ASSUME NEW x \in DOMAIN objs', objs'[x].live,
             NEW q \in {objs'[x].target} \cup objs'[x].items
      PROVE  q \in elements' \cup removed'
  <2>1. q \in elements \cup removed
    BY <1>3 DEF Founded, SameObjects
  <2>2. q[1] = objs'[x].host
    BY <1>3 DEF Shape, ObjectOK, Within
  <2>3. objs'[q[1]].live
    BY <1>3, <2>2 DEF HostsLive
  <2> QED BY <2>1, <2>3 DEF Dropped
<1> QED BY <1>2, <1>3 DEF Founded

----------------------------------------------------------------------------
(* The elements an object reaches.                                          *)

LEMMA PathTypes ==
  ASSUME NEW q \in Paths, q # << >>
  PROVE  Len(q) \in Nat /\ Len(q) > 0 /\ q[1] \in Nat /\ q[Len(q)] \in Nat
<1>1. Len(q) \in Nat /\ Len(q) > 0 /\ DOMAIN q = 1 .. Len(q)
  BY LenProperties, EmptySeq DEF Paths
<1> QED BY <1>1, ElementOfSeq DEF Paths

LEMMA ShownWithin ==
  ASSUME Shape, Elemental, NEW o \in DOMAIN objs, Usable(o), NEW q \in Shown(o)
  PROVE  q \in elements /\ Within(q, o)
<1>1. CASE objs[o].kind = "copy"
  BY <1>1 DEF Shown, Usable, Shape, ObjectOK
<1>2. CASE objs[o].kind # "copy"
  <2> DEFINE t == objs[o].target
  <2>1. q \in elements /\ IsStrictPrefix(t, q)
    BY <1>2 DEF Shown, Children
  <2>2. q \in Paths /\ q # << >> /\ t \in Paths /\ t # << >> /\ t[1] = objs[o].host
    BY <2>1 DEF Elemental, Shape, ObjectOK, Within
  <2> HIDE DEF t
  <2>3. q[1] = t[1]
    <3>1. Len(t) \in Nat /\ Len(t) > 0 /\ Len(q) \in Nat /\ Len(q) > 0
      BY <2>2, PathTypes
    <3>2. Len(t) <= Len(q) /\ SubSeq(t, 1, Len(t)) = SubSeq(q, 1, Len(t))
      BY <2>1 DEF IsStrictPrefix, IsPrefix
    <3> QED BY <2>2, <3>1, <3>2 DEF Paths
  <2> QED BY <2>1, <2>2, <2>3 DEF Within
<1> QED BY <1>1, <1>2

LEMMA BoundLive ==
  ASSUME Shape, Counted, NEW v \in PyNames, held[v] # 0
  PROVE  held[v] \in DOMAIN objs /\ objs[held[v]].live
<1>1. held[v] \in DOMAIN objs
  <2>1. Len(objs) \in Nat /\ DOMAIN objs = 1 .. Len(objs)
    BY LenProperties DEF Shape
  <2> QED BY <2>1 DEF Shape
<1> QED BY <1>1, Referred

LEMMA SameStep ==
  ASSUME Shape, Counted, UNCHANGED <<objs, held, leaked, writing>>
  PROVE  /\ Shape' /\ Counted' /\ SameObjects
         /\ \A x \in DOMAIN objs : objs'[x].live = objs[x].live
<1>1. Shape'
  BY DEF Shape, ObjectOK, IsRecord, Within
<1>2. Counted'
  BY DEF Counted, Count, Names, Parts, IsLive
<1>3. SameObjects
  BY DEF SameObjects, Shape
<1> QED BY <1>1, <1>2, <1>3

\* Every step of an object that wraps a part of its record.
PartTaken(o, v, kind, target, items) ==
  /\ kind \in Kinds \ {"record"}
  /\ \A q \in {target} \cup items : Within(q, o)
  /\ objs' = Wrap(kind, target, items, objs[o].host)
  /\ held[v] = 0 /\ held' = [held EXCEPT ![v] = Len(objs) + 1]
  /\ UNCHANGED <<removed, leaked, writing>>
  /\ {target} \cup items \subseteq elements'
  /\ \/ elements' = elements /\ serial' = serial
     \/ /\ serial' = serial + 1
        /\ \E q \in items : Len(q) > 1 /\ q[Len(q)] = serial' /\ elements' = elements \cup {q}

LEMMA PartStep ==
  ASSUME PyInv, NEW o \in DOMAIN objs, objs[o].live, NEW v \in PyNames,
         NEW kind, NEW target, NEW items, PartTaken(o, v, kind, target, items)
  PROVE  Shape' /\ Counted' /\ Elemental' /\ Founded'
<1> USE DEF PartTaken, PyInv
<1> DEFINE n == Len(objs) + 1
<1>1. /\ Shape' /\ Counted' /\ Grown(n)
      /\ objs'[n].target = target /\ objs'[n].items = items
  BY WrapStep
<1> HIDE DEF n
<1>2. {objs'[n].target} \cup objs'[n].items \subseteq elements' \cup removed'
  BY <1>1
<1>3. serial \in Nat /\ serial' \in Nat /\ serial <= serial' /\ elements \subseteq elements'
  <2>1. serial \in Nat
    BY DEF Elemental
  <2> QED BY <2>1
<1>4. ASSUME NEW q \in elements' \ elements
      PROVE  /\ q \in Paths /\ q # << >> /\ IsRecord(q[1])' /\ objs'[q[1]].live
             /\ Len(q) > 1 => q[Len(q)] <= serial'
             /\ q \notin removed
  <2>1. q \in items /\ Len(q) > 1 /\ q[Len(q)] = serial' /\ serial' = serial + 1
    BY <1>4
  <2>2. q \in Paths /\ q # << >> /\ q[1] = objs[o].host
    BY <2>1 DEF Within
  <2>3. IsRecord(q[1]) /\ objs[q[1]].live
    BY <2>2, HostLives
  <2>4. IsRecord(q[1])' /\ objs'[q[1]].live
    BY <1>1, <2>3, GrownRecords DEF Grown, IsRecord
  <2>5. q \notin removed
    BY <1>3, <2>1 DEF Elemental
  <2> QED BY <1>3, <2>1, <2>2, <2>4, <2>5
<1>5. Elemental' /\ Founded'
  BY <1>1, <1>2, <1>3, <1>4, GrownElements
<1> QED BY <1>1, <1>5

LEMMA RecordStep ==
  ASSUME PyInv, NEW v \in PyNames, MakeRecord(v) \/ ReadRecord(v), NEW n, n = Len(objs) + 1
  PROVE  Shape' /\ Counted' /\ Elemental' /\ Founded'
<1>1. /\ objs' = Append(objs, NewObject(n)) /\ held[v] = 0
      /\ UNCHANGED <<removed, writing>>
      /\ \/ held' = [held EXCEPT ![v] = n] /\ leaked' = leaked
         \/ held' = held /\ leaked' = leaked \cup {n}
      /\ \/ elements' = elements \cup {<<n>>} /\ serial' = serial
         \/ elements' = elements \cup {<<n>>, <<n, serial + 1>>} /\ serial' = serial + 1
  BY DEF MakeRecord, ReadRecord, Free
<1>2. n \in Nat /\ n \notin DOMAIN objs
  <2>1. Len(objs) \in Nat
    BY LenProperties DEF PyInv, Shape
  <2> QED BY <2>1, NewCounts DEF PyInv
<1>3. /\ Shape' /\ Counted' /\ Grown(n)
      /\ objs'[n].kind = "record" /\ objs'[n].target = <<n>> /\ objs'[n].items = {}
  BY <1>1, MadeStep DEF PyInv
<1>4. serial \in Nat /\ serial' \in Nat /\ serial <= serial' /\ elements \subseteq elements'
  <2>1. serial \in Nat
    BY DEF PyInv, Elemental
  <2> QED BY <1>1, <2>1
<1>5. ASSUME NEW q \in elements' \ elements
      PROVE  /\ q \in Paths /\ q # << >> /\ IsRecord(q[1])' /\ objs'[q[1]].live
             /\ Len(q) > 1 => q[Len(q)] <= serial'
             /\ q \notin removed
  <2>1. /\ q \in Paths /\ q # << >> /\ q[1] = n
        /\ Len(q) > 1 => q[Len(q)] <= serial'
    <3>1. CASE q = <<n>>
      BY <1>2, <3>1 DEF Paths
    <3>2. CASE q # <<n>>
      <4>1. q = <<n, serial + 1>> /\ serial' = serial + 1
        BY <1>1, <1>5, <3>2
      <4> QED BY <1>2, <1>4, <4>1 DEF Paths
    <3> QED BY <3>1, <3>2
  <2>2. IsRecord(n)' /\ objs'[n].live
    BY <1>3 DEF Grown, IsRecord
  <2>3. q \notin removed
    BY <1>2, <2>1 DEF PyInv, Elemental, IsRecord
  <2> QED BY <2>1, <2>2, <2>3
<1>6. {objs'[n].target} \cup objs'[n].items \subseteq elements' \cup removed'
  BY <1>1, <1>3
<1>7. Elemental' /\ Founded'
  BY <1>1, <1>3, <1>4, <1>5, <1>6, GrownElements DEF PyInv
<1> QED BY <1>3, <1>7

LEMMA TakeStep ==
  ASSUME PyInv, NEW o \in DOMAIN objs, NEW v \in PyNames,
         Take(o, v) \/ TakeList(o, v) \/ AddTo(o, v)
  PROVE  Shape' /\ Counted' /\ Elemental' /\ Founded'
<1>1. /\ objs[o].live /\ held[v] = 0 /\ Usable(o) /\ held' = [held EXCEPT ![v] = Len(objs) + 1]
      /\ UNCHANGED <<removed, leaked, writing>>
  BY DEF Take, TakeList, AddTo, Bound, IsLive, Free
<1>2. Shape /\ Counted /\ Elemental /\ Founded
  BY DEF PyInv
<1>3. objs[o].target \in elements /\ Within(objs[o].target, o)
  BY <1>1, <1>2 DEF Usable, Shape, ObjectOK
<1>4. CASE Take(o, v)
  <2>1. PICK q \in Shown(o) : objs' = Wrap("element", q, {}, objs[o].host)
    BY <1>4 DEF Take
  <2>2. q \in elements /\ Within(q, o)
    BY <1>1, <1>2, ShownWithin
  <2>3. elements' = elements /\ serial' = serial
    BY <1>4 DEF Take
  <2>4. "element" \in Kinds \ {"record"}
    BY DEF Kinds
  <2>5. PartTaken(o, v, "element", q, {})
    BY <1>1, <2>1, <2>2, <2>3, <2>4 DEF PartTaken
  <2> QED BY <1>1, <2>5, PartStep
<1>5. CASE TakeList(o, v)
  <2>1. objs' = Wrap("list", objs[o].target, {}, objs[o].host)
    BY <1>5 DEF TakeList
  <2>2. elements' = elements /\ serial' = serial
    BY <1>5 DEF TakeList
  <2>3. "list" \in Kinds \ {"record"}
    BY DEF Kinds
  <2>4. PartTaken(o, v, "list", objs[o].target, {})
    BY <1>1, <1>3, <2>1, <2>2, <2>3 DEF PartTaken
  <2> QED BY <1>1, <2>4, PartStep
<1>6. CASE AddTo(o, v)
  <2> DEFINE t == objs[o].target
             q == Append(t, serial + 1)
  <2>1. /\ objs' = Wrap("copy", t, {q}, objs[o].host) /\ elements' = elements \cup {q}
        /\ serial' = serial + 1
    BY <1>6 DEF AddTo
  <2>2. serial + 1 \in Nat
    BY <1>2 DEF Elemental
  <2>3. t \in Paths /\ t # << >> /\ t[1] = objs[o].host /\ Len(t) \in Nat /\ Len(t) > 0
    BY <1>3, PathTypes DEF Within
  <2>4. /\ q \in Paths /\ q # << >> /\ q[1] = t[1] /\ Len(q) = Len(t) + 1
        /\ q[Len(q)] = serial + 1
    <3> HIDE DEF t
    <3>1. t \in Seq(Nat)
      BY <2>3 DEF Paths
    <3> QED BY <2>2, <2>3, <3>1, AppendProperties DEF Paths
  <2>5. Within(q, o) /\ Len(q) > 1
    BY <2>3, <2>4 DEF Within
  <2>6. "copy" \in Kinds \ {"record"}
    BY DEF Kinds
  <2> HIDE DEF q
  <2>7. \A z \in {t} \cup {q} : Within(z, o)
    BY <1>3, <2>5
  <2>8. {t} \cup {q} \subseteq elements'
    BY <1>3, <2>1
  <2>9. \E z \in {q} : Len(z) > 1 /\ z[Len(z)] = serial' /\ elements' = elements \cup {z}
    BY <2>1, <2>4, <2>5
  <2>10. PartTaken(o, v, "copy", t, {q})
    BY <1>1, <2>1, <2>6, <2>7, <2>8, <2>9 DEF PartTaken
  <2> QED BY <1>1, <2>10, PartStep
<1> QED BY <1>4, <1>5, <1>6

LEMMA RemoveStep ==
  ASSUME PyInv, NEW o \in DOMAIN objs, RemoveFrom(o)
  PROVE  Shape' /\ Counted' /\ Elemental' /\ Founded'
<1>1. Shape /\ Counted /\ Elemental /\ Founded
  BY DEF PyInv
<1>2. objs[o].live /\ UNCHANGED <<serial, leaked, writing>>
  BY DEF RemoveFrom, Bound, IsLive
<1>3. /\ Shape' /\ Counted' /\ SameObjects
      /\ \A x \in DOMAIN objs : objs'[x].live = objs[x].live
  <2>1. CASE UNCHANGED <<objs, held>>
    BY <1>1, <1>2, <2>1, SameStep
  <2>2. CASE ~UNCHANGED <<objs, held>>
    <3>1. PICK v \in PyNames : /\ held[v] = 0 /\ held' = [held EXCEPT ![v] = o]
                               /\ objs' = Incref(objs, o)
      BY <2>2 DEF RemoveFrom, Free
    <3> QED BY <1>1, <1>2, <3>1, ReferStep
  <2> QED BY <2>1, <2>2
<1>4. /\ elements' \subseteq elements /\ elements' \cup removed' = elements \cup removed
      /\ elements' \cap removed' = {}
  <2> DEFINE gone == UNION {Under(q) : q \in Children(objs[o].target)}
  <2>1. gone \subseteq elements
    BY DEF Under
  <2>2. elements' = elements \ gone /\ removed' = removed \cup gone
    BY DEF RemoveFrom
  <2>3. elements \cap removed = {}
    BY <1>1 DEF Elemental
  <2> HIDE DEF gone
  <2> QED BY <2>1, <2>2, <2>3
<1>5. Elemental' /\ Founded'
  BY <1>1, <1>2, <1>3, <1>4, SameElements
<1> QED BY <1>3, <1>5

\* Share and WriteBegins: one more reference.
LEMMA HoldStep ==
  ASSUME PyInv,
         \/ \E v, w \in PyNames : Share(v, w)
         \/ \E o \in DOMAIN objs : WriteBegins(o)
  PROVE  Shape' /\ Counted' /\ Elemental' /\ Founded'
<1>1. Shape /\ Counted /\ Elemental /\ Founded
  BY DEF PyInv
<1>2. UNCHANGED <<elements, removed, serial, leaked>>
  BY DEF Share, WriteBegins
<1>3. /\ Shape' /\ Counted' /\ SameObjects
      /\ \A x \in DOMAIN objs : objs'[x].live = objs[x].live
  <2>1. ASSUME NEW v \in PyNames, NEW w \in PyNames, Share(v, w)
        PROVE  /\ Shape' /\ Counted' /\ SameObjects
               /\ \A x \in DOMAIN objs : objs'[x].live = objs[x].live
    <3>1. /\ held[v] # 0 /\ held[w] = 0 /\ held' = [held EXCEPT ![w] = held[v]]
          /\ objs' = Incref(objs, held[v]) /\ writing' = writing
      BY <2>1 DEF Share, Free
    <3>2. held[v] \in DOMAIN objs /\ objs[held[v]].live
      BY <1>1, <3>1, BoundLive
    <3> QED BY <1>1, <1>2, <3>1, <3>2, ReferStep
  <2>2. ASSUME NEW o \in DOMAIN objs, WriteBegins(o)
        PROVE  /\ Shape' /\ Counted' /\ SameObjects
               /\ \A x \in DOMAIN objs : objs'[x].live = objs[x].live
    <3>1. /\ writing = 0 /\ writing' = o /\ held' = held /\ IsRecord(o) /\ objs[o].live
          /\ objs' = Incref(objs, o)
      BY <2>2 DEF WriteBegins, Bound, IsLive, IsRecord
    <3> QED BY <1>1, <1>2, <3>1, ReferStep
  <2> QED BY <2>1, <2>2
<1>4. Elemental' /\ Founded'
  <2>1. elements \cap removed = {}
    BY <1>1 DEF Elemental
  <2> QED BY <1>1, <1>2, <1>3, <2>1, SameElements
<1> QED BY <1>3, <1>4

\* Drop and WriteEnds: one less.
LEMMA DropStep ==
  ASSUME PyInv, (Shape /\ Counted => HostsLive)', WriteEnds \/ \E v \in PyNames : Drop(v)
  PROVE  Shape' /\ Counted' /\ Elemental' /\ Founded'
<1>1. Shape /\ Counted /\ Elemental /\ Founded
  BY DEF PyInv
<1>2. elements' = Dropped(objs') /\ UNCHANGED <<removed, serial, leaked>>
  BY DEF Drop, WriteEnds
<1>3. /\ Shape' /\ Counted' /\ SameObjects
      /\ \A x \in DOMAIN objs : objs'[x].live => objs[x].live
  <2>1. CASE WriteEnds
    <3>1. writing \in DOMAIN objs
      BY <1>1, <2>1 DEF WriteEnds, Shape, IsRecord
    <3>2. objs' = Released(objs, writing) /\ writing' = 0 /\ held' = held
      BY <2>1 DEF WriteEnds
    <3> QED BY <1>1, <1>2, <3>1, <3>2, ReleaseStep
  <2>2. ASSUME NEW v \in PyNames, Drop(v)
        PROVE  /\ Shape' /\ Counted' /\ SameObjects
               /\ \A x \in DOMAIN objs : objs'[x].live => objs[x].live
    <3>1. /\ held[v] # 0 /\ held' = [held EXCEPT ![v] = 0] /\ objs' = Released(objs, held[v])
          /\ writing' = writing
      BY <2>2 DEF Drop
    <3>2. held[v] \in DOMAIN objs
      BY <1>1, <3>1, BoundLive
    <3> QED BY <1>1, <1>2, <3>1, <3>2, ReleaseStep
  <2> QED BY <2>1, <2>2
<1>4. Elemental' /\ Founded'
  BY <1>1, <1>2, <1>3, DroppedElements
<1> QED BY <1>3, <1>4

\* The steps of the stream object alone, and steps that do nothing.
LEMMA OtherStep ==
  ASSUME PyInv, UNCHANGED <<objs, held, elements, removed, serial, leaked, writing>>
  PROVE  Shape' /\ Counted' /\ Elemental' /\ Founded'
<1>1. /\ Shape' /\ Counted' /\ SameObjects
      /\ \A x \in DOMAIN objs : objs'[x].live = objs[x].live
  BY SameStep DEF PyInv
<1>2. elements \cap removed = {}
  BY DEF PyInv, Elemental
<1> QED BY <1>1, <1>2, SameElements DEF PyInv

LEMMA StreamStep ==
  ASSUME Streaming, [PyNext]_pyVars
  PROVE  Streaming'
<1>1. CASE OpenStream
  BY <1>1 DEF OpenStream, Streaming
<1>2. CASE CloseRecords
  BY <1>2 DEF CloseRecords, Streaming
<1>3. CASE CloseFile
  BY <1>3 DEF CloseFile, Streaming
<1>4. CASE ~(OpenStream \/ CloseRecords \/ CloseFile)
  <2>1. pyStream' = pyStream
    BY <1>4 DEF PyNext, pyVars, WriteEnds, MakeRecord, ReadRecord, Drop, Share, RemoveFrom,
                WriteBegins, Take, TakeList, AddTo
  <2> QED BY <2>1 DEF Streaming
<1> QED BY <1>1, <1>2, <1>3, <1>4

----------------------------------------------------------------------------
(* The theorems.                                                            *)

LEMMA PyStart == PyInit => PyInv
<1> SUFFICES ASSUME PyInit  PROVE PyInv
  OBVIOUS
<1>1. objs = << >> /\ objs \in Seq(Objects) /\ Len(objs) = 0 /\ DOMAIN objs = {}
  BY DEF PyInit
<1>2. Shape
  BY <1>1 DEF PyInit, Shape
<1>3. Elemental
  BY DEF PyInit, Elemental
<1>4. Streaming
  BY DEF PyInit, Streaming
<1> QED BY <1>1, <1>2, <1>3, <1>4 DEF PyInv, Counted, Founded

LEMMA PyStep ==
  ASSUME PyInv, [PyNext]_pyVars, (Shape /\ Counted => HostsLive)'
  PROVE  PyInv'
<1>1. Shape' /\ Counted' /\ Elemental' /\ Founded'
  <2>1. CASE OpenStream \/ CloseRecords \/ CloseFile
    BY <2>1, OtherStep DEF OpenStream, CloseRecords, CloseFile
  <2>2. CASE WriteEnds \/ \E v \in PyNames : Drop(v)
    BY <2>2, DropStep
  <2>3. CASE \E v \in PyNames : MakeRecord(v) \/ ReadRecord(v)
    BY <2>3, RecordStep
  <2>4. CASE (\E v, w \in PyNames : Share(v, w)) \/ \E o \in DOMAIN objs : WriteBegins(o)
    BY <2>4, HoldStep
  <2>5. CASE \E o \in DOMAIN objs : RemoveFrom(o)
    BY <2>5, RemoveStep
  <2>6. CASE \E o \in DOMAIN objs, v \in PyNames : Take(o, v) \/ TakeList(o, v) \/ AddTo(o, v)
    BY <2>6, TakeStep
  <2>7. CASE UNCHANGED pyVars
    BY <2>7, OtherStep DEF pyVars
  <2> QED BY <2>1, <2>2, <2>3, <2>4, <2>5, <2>6, <2>7 DEF PyNext
<1>2. Streaming'
  BY StreamStep DEF PyInv
<1> QED BY <1>1, <1>2 DEF PyInv

LEMMA PyAlways == PySpec => []PyInv
<1>1. PyInit => PyInv
  BY PyStart
<1>2. PyInv /\ [PyNext]_pyVars /\ (Shape /\ Counted => HostsLive)' => PyInv'
  BY PyStep
<1>3. Shape /\ Counted => HostsLive
  BY HostsAlways
<1> QED BY <1>1, <1>2, <1>3, PTL DEF PySpec

\* Every object has a kind, a record and a count, which is above zero exactly while it
\* lives; every variable holds an object or none; and no element is at once there and
\* deleted.
THEOREM PyTypes == PySpec => []PyTypeOK
<1>1. PyInv => PyTypeOK
  <2> SUFFICES ASSUME PyInv  PROVE PyTypeOK
    OBVIOUS
  <2>1. ASSUME NEW o \in DOMAIN objs
        PROVE  /\ objs[o].kind \in {"record", "element", "list", "copy"}
               /\ objs[o].host \in DOMAIN objs
               /\ objs[o].refs >= 0 /\ objs[o].live = (objs[o].refs > 0)
    <3>1. /\ objs[o].kind \in Kinds /\ objs[o].refs \in Nat /\ objs[o].live \in BOOLEAN
      BY ObjectTypes DEF PyInv
    <3>2. IsRecord(objs[o].host) /\ (objs[o].live <=> objs[o].refs > 0)
      BY DEF PyInv, Shape, ObjectOK
    <3> QED BY <3>1, <3>2 DEF Kinds, IsRecord
  <2>2. writing \in 0 .. Len(objs)
    <3>1. Len(objs) \in Nat /\ DOMAIN objs = 1 .. Len(objs)
      BY LenProperties DEF PyInv, Shape
    <3> QED BY <3>1 DEF PyInv, Shape, IsRecord
  <2> QED BY <2>1, <2>2 DEF PyTypeOK, PyInv, Shape, Elemental
<1> QED BY <1>1, PyAlways, PTL

\* The reference counts that hddm-py keeps by hand are right, whatever Python does with
\* its variables: a record lives exactly as long as something holds it or a part of it,
\* so no object that lives has lost its element but to a call that deletes elements, and
\* no element outlives the last variable or call that could reach it, but those of a
\* read that failed.
THEOREM PyAlive == PySpec => []PyRecordAlive
<1>1. PyInv => PyRecordAlive
  <2> SUFFICES ASSUME PyInv  PROVE PyRecordAlive
    OBVIOUS
  <2>1. Shape /\ Counted /\ Elemental /\ Founded
    BY DEF PyInv
  <2>2. ASSUME NEW o \in DOMAIN objs
        PROVE  objs[o].refs
                 = Cardinality({v \in PyNames : held[v] = o})
                   + Cardinality({x \in DOMAIN objs : x # o /\ IsLive(x) /\ objs[x].host = o})
                   + (IF writing = o THEN 1 ELSE 0) + (IF o \in leaked THEN 1 ELSE 0)
    BY <2>1 DEF Counted, Count, Names, Parts
  <2>3. ASSUME NEW o \in DOMAIN objs, IsLive(o)
        PROVE  /\ IsLive(objs[o].host)
               /\ {objs[o].target} \cup objs[o].items \subseteq elements \cup removed
    <3>1. objs[o].live
      BY <2>3 DEF IsLive
    <3> QED BY <2>1, <3>1, HostLives DEF Founded, IsLive, IsRecord
  \* A record that is there: something holds it, or a part of it that something holds.
  <2>4. ASSUME NEW q \in elements
        PROVE  \E o \in DOMAIN objs :
                 /\ IsLive(o) /\ objs[o].host = q[1]
                 /\ o \in leaked \/ writing = o \/ \E v \in PyNames : held[v] = o
    <3> DEFINE h == q[1]
    <3>1. h \in DOMAIN objs /\ IsRecord(h) /\ objs[h].live /\ objs[h].host = h
      BY <2>1 DEF Elemental, IsRecord, Shape, ObjectOK
    <3> HIDE DEF h
    <3>2. CASE h \in leaked \/ writing = h \/ \E v \in PyNames : held[v] = h
      BY <3>1, <3>2 DEF IsLive, h
    <3>3. CASE ~(h \in leaked \/ writing = h \/ \E v \in PyNames : held[v] = h)
      <4>1. PICK x \in DOMAIN objs : x # h /\ IsLive(x) /\ objs[x].host = h
        BY <2>1, <3>1, <3>3, Referred
      <4>2. ~IsRecord(x)
        BY <2>1, <4>1 DEF Shape, ObjectOK
      <4>3. writing # x /\ x \notin leaked
        BY <2>1, <4>1, <4>2, ObjectTypes DEF Shape
      <4>4. ~\E z \in DOMAIN objs : objs[z].host = x
        BY <2>1, <4>2 DEF Shape, ObjectOK
      <4>5. \E v \in PyNames : held[v] = x
        BY <2>1, <4>1, <4>3, <4>4, Referred DEF IsLive
      <4> QED BY <4>1, <4>5 DEF h
    <3> QED BY <3>2, <3>3
  <2> QED BY <2>2, <2>3, <2>4 DEF PyRecordAlive, PyInv, Streaming
<1> QED BY <1>1, PyAlways, PTL
================================================================================
