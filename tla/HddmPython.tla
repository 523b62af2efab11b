-------------------------------- MODULE HddmPython --------------------------------
(***************************************************************************)
(* hddm-py (src/src/hddm-py.cpp): Python objects that stand for the parts  *)
(* of a C++ record, and the reference counts that keep the record alive.   *)
(* An element is its path: the number of its record, then the serial       *)
(* numbers of the elements down to it.  An element has one list; the tags  *)
(* are left out.  Python calls __init__ once, and a list that a deletion   *)
(* left without its elements or container is used no more.  The add of a   *)
(* list object is left out: it makes elements of the base class.           *)
(***************************************************************************)
EXTENDS SequencesExt, FiniteSetsExt, Integers

CONSTANTS
  PyNames,      \* Python variables
  MaxObjects,   \* bound: objects created
  MaxSerial     \* bound: elements created

ASSUME PyNamesAssumption == IsFiniteSet(PyNames)

VARIABLES
  objs,      \* the objects: [kind, target, items, host, refs, live]
  held,      \* the object of each variable, 0 is none
  elements,  \* the C++ elements that exist
  removed,   \* those deleted by a call
  serial,    \* elements created
  leaked,    \* records of reads that failed
  writing,   \* the record that a write, without the interpreter's lock, is at work on
  pyStream   \* the input stream object: [file, hddm, phase]

pyVars == <<objs, held, elements, removed, serial, leaked, writing, pyStream>>

-----------------------------------------------------------------------------
IsLive(o) == o \in DOMAIN objs /\ objs[o].live

\* The object of some variable.
Bound(o) == IsLive(o) /\ \E v \in PyNames : held[v] = o

Under(p) == {q \in elements : IsPrefix(p, q)}
Children(p) == {q \in elements : IsStrictPrefix(p, q) /\ Len(q) = Len(p) + 1}

\* The elements a list shows: those it was made with, or those of its container.
Shown(o) == IF objs[o].kind = "copy" THEN objs[o].items ELSE Children(objs[o].target)

\* The C++ object behind o is there.
Usable(o) == objs[o].target \in elements /\ objs[o].items \subseteq elements

\* My_INCREF and My_DECREF.
Incref(os, o) == [os EXCEPT ![o].refs = @ + 1]
\* A wrong variant: the last reference is given up, and nothing is deleted.
DecrefKeeps(os, o) == [os EXCEPT ![o].refs = @ - 1]

Decref(os, o) == [os EXCEPT ![o].refs = @ - 1, ![o].live = os[o].refs > 1]

\* A wrong variant: the object does not hold its record.
WrapUnheld(kind, target, items, host) ==
  Append(objs, [kind |-> kind, target |-> target, items |-> items, host |-> host,
                refs |-> 1, live |-> TRUE])

\* A new object for a part of the record of the object host.
Wrap(kind, target, items, host) ==
  Append(Incref(objs, host), [kind |-> kind, target |-> target, items |-> items,
                              host |-> host, refs |-> 1, live |-> TRUE])

\* A new record owns itself: nothing counts its host.
NewObject(n) ==
  [kind |-> "record", target |-> <<n>>, items |-> {}, host |-> n, refs |-> 1, live |-> TRUE]

\* The dealloc functions, after the last reference to o went: an element or a list
\* gives up the record, the record deletes its elements.
Released(os, o) ==
  LET first == Decref(os, o)
  IN IF first[o].live \/ os[o].kind = "record" THEN first ELSE Decref(first, os[o].host)

Dropped(os) == {q \in elements : os[q[1]].live}

-----------------------------------------------------------------------------
PyInit ==
  /\ objs = << >> /\ held = [v \in PyNames |-> 0]
  /\ elements = {} /\ removed = {} /\ serial = 0
  /\ leaked = {} /\ writing = 0
  /\ pyStream = [file |-> "null", hddm |-> "null", phase |-> "new"]

Free(v) == held[v] = 0
Room == Len(objs) < MaxObjects

\* _istream_init: the file, then the stream of records on it.
OpenStream ==
  /\ pyStream.phase = "new"
  /\ \E ok \in {"all", "file", "nothing"} :
       pyStream' = [file |-> IF ok = "nothing" THEN "bad" ELSE "open",
                  hddm |-> IF ok = "all" THEN "open" ELSE "null", phase |-> "made"]
  /\ UNCHANGED <<objs, held, elements, removed, serial, leaked, writing>>

\* _istream_dealloc, in two steps.
CloseRecords ==
  /\ pyStream.phase = "made"
  /\ pyStream' = [pyStream EXCEPT !.hddm = "null", !.phase = "closing"]
  /\ UNCHANGED <<objs, held, elements, removed, serial, leaked, writing>>

CloseFile ==
  /\ pyStream.phase = "closing"
  /\ pyStream' = [pyStream EXCEPT !.file = "null", !.phase = "closed"]
  /\ UNCHANGED <<objs, held, elements, removed, serial, leaked, writing>>

\* _HDDM_init.
MakeRecord(v) ==
  /\ Free(v) /\ Room
  /\ LET n == Len(objs) + 1
     IN /\ objs' = Append(objs, NewObject(n))
        /\ held' = [held EXCEPT ![v] = n]
        /\ elements' = elements \cup {<<n>>}
  /\ UNCHANGED <<removed, serial, leaked, writing, pyStream>>

\* _istream_read: a record with an element; at the end of the file and on an error
\* the new record is given to nobody.
ReadRecord(v) ==
  /\ Free(v) /\ Room /\ pyStream.hddm = "open"
  /\ LET n == Len(objs) + 1
     IN /\ objs' = Append(objs, NewObject(n))
        /\ \/ /\ held' = [held EXCEPT ![v] = n]
              /\ serial < MaxSerial /\ serial' = serial + 1
              /\ elements' = elements \cup {<<n>>, <<n, serial + 1>>}
              /\ UNCHANGED leaked
           \/ /\ leaked' = leaked \cup {n}
              /\ elements' = elements \cup {<<n>>}
              /\ UNCHANGED <<held, serial>>
  /\ UNCHANGED <<removed, writing, pyStream>>

\* get<Child> of an element, or an item of a list.
Take(o, v) ==
  /\ Bound(o) /\ Usable(o) /\ Free(v) /\ Room
  /\ \E q \in Shown(o) : objs' = Wrap("element", q, {}, objs[o].host)
  /\ held' = [held EXCEPT ![v] = Len(objs) + 1]
  /\ UNCHANGED <<elements, removed, serial, leaked, writing, pyStream>>

\* get<Children>: the list of the element, borrowed.
TakeList(o, v) ==
  /\ Bound(o) /\ objs[o].kind \in {"record", "element"} /\ Usable(o) /\ Free(v) /\ Room
  /\ objs' = Wrap("list", objs[o].target, {}, objs[o].host)
  /\ held' = [held EXCEPT ![v] = Len(objs) + 1]
  /\ UNCHANGED <<elements, removed, serial, leaked, writing, pyStream>>

\* add<Children>: returns a list of its own with what was added.
AddTo(o, v) ==
  /\ Bound(o) /\ objs[o].kind \in {"record", "element"} /\ Usable(o) /\ Free(v) /\ Room
  /\ serial < MaxSerial /\ serial' = serial + 1
  /\ LET q == Append(objs[o].target, serial + 1)
     IN /\ elements' = elements \cup {q}
        /\ objs' = Wrap("copy", objs[o].target, {q}, objs[o].host)
  /\ held' = [held EXCEPT ![v] = Len(objs) + 1]
  /\ UNCHANGED <<removed, leaked, writing, pyStream>>

\* delete<Children> and clear of an element or record; del and clear of a list,
\* which return the list itself.
RemoveFrom(o) ==
  /\ Bound(o) /\ objs[o].kind # "copy" /\ Usable(o)
  /\ LET gone == UNION {Under(q) : q \in Children(objs[o].target)}
     IN elements' = elements \ gone /\ removed' = removed \cup gone
  /\ IF objs[o].kind = "list"
       THEN \/ \E v \in PyNames : /\ Free(v) /\ held' = [held EXCEPT ![v] = o]
                                  /\ objs' = Incref(objs, o)
            \/ UNCHANGED <<objs, held>>
       ELSE UNCHANGED <<objs, held>>
  /\ UNCHANGED <<serial, leaked, writing, pyStream>>

\* Python: a second variable for the object, and the end of one.
Share(v, w) ==
  /\ held[v] # 0 /\ Free(w)
  /\ held' = [held EXCEPT ![w] = held[v]]
  /\ objs' = Incref(objs, held[v])
  /\ UNCHANGED <<elements, removed, serial, leaked, writing, pyStream>>

Drop(v) ==
  /\ held[v] # 0
  /\ held' = [held EXCEPT ![v] = 0]
  /\ objs' = Released(objs, held[v])
  /\ elements' = Dropped(objs')
  /\ UNCHANGED <<removed, serial, leaked, writing, pyStream>>

\* _ostream_write: the arguments of the call hold the record.
WriteBegins(o) ==
  /\ writing = 0 /\ Bound(o) /\ objs[o].kind = "record"
  /\ writing' = o
  /\ objs' = Incref(objs, o)
  /\ UNCHANGED <<held, elements, removed, serial, leaked, pyStream>>

WriteEnds ==
  /\ writing # 0
  /\ writing' = 0
  /\ objs' = Released(objs, writing)
  /\ elements' = Dropped(objs')
  /\ UNCHANGED <<held, removed, serial, leaked, pyStream>>

PyNext ==
  \/ OpenStream \/ CloseRecords \/ CloseFile \/ WriteEnds
  \/ \E v \in PyNames : MakeRecord(v) \/ ReadRecord(v) \/ Drop(v)
  \/ \E v, w \in PyNames : Share(v, w)
  \/ \E o \in DOMAIN objs : RemoveFrom(o) \/ WriteBegins(o)
  \/ \E o \in DOMAIN objs, v \in PyNames : Take(o, v) \/ TakeList(o, v) \/ AddTo(o, v)

-----------------------------------------------------------------------------
PySpec == PyInit /\ [][PyNext]_pyVars

PyTypeOK ==
  /\ \A o \in DOMAIN objs : /\ objs[o].kind \in {"record", "element", "list", "copy"}
                            /\ objs[o].host \in DOMAIN objs
                            /\ objs[o].refs >= 0 /\ objs[o].live = (objs[o].refs > 0)
  /\ held \in [PyNames -> 0 .. Len(objs)] /\ writing \in 0 .. Len(objs)
  /\ elements \cap removed = {}

\* The reference counts that hddm-py keeps by hand are right: an object counts the
\* variables and calls that hold it and the objects of its record.  So as long as
\* Python holds any part of a record, the record and every element that no call
\* deleted exist; a record nobody holds any more is deleted with its elements,
\* unless it is that of a read that failed; and the stream of records is deleted
\* before the file it reads from.
PyRecordAlive ==
  /\ \A o \in DOMAIN objs :
       objs[o].refs = Cardinality({v \in PyNames : held[v] = o})
                      + Cardinality({x \in DOMAIN objs : x # o /\ IsLive(x) /\ objs[x].host = o})
                      + (IF writing = o THEN 1 ELSE 0) + (IF o \in leaked THEN 1 ELSE 0)
  /\ \A o \in DOMAIN objs : IsLive(o) =>
       /\ IsLive(objs[o].host)
       /\ {objs[o].target} \cup objs[o].items \subseteq elements \cup removed
  /\ \A q \in elements : \E o \in DOMAIN objs :
       /\ IsLive(o) /\ objs[o].host = q[1]
       /\ o \in leaked \/ writing = o \/ \E v \in PyNames : held[v] = o
  /\ pyStream.hddm = "open" => pyStream.file = "open"
=============================================================================
