---------------------------- MODULE ElementSequences ----------------------------
(***************************************************************************)
(* What an HDDM record promises about the repeated elements of one tag:    *)
(* every container element holds a sequence of its own.  Adding to it or   *)
(* deleting from it concerns no other container and keeps the order of the *)
(* elements that stay, and no element is in two places.                    *)
(***************************************************************************)
EXTENDS Integers, Sequences

CONSTANTS
  Nodes,     \* elements
  Parents,   \* container elements
  MaxCount   \* bound: elements added by one call

VARIABLES
  containers,  \* the container elements that exist
  contents     \* the sequence of elements in each of them

seqVars == <<containers, contents>>

InUse == UNION {{contents[p][i] : i \in DOMAIN contents[p]} : p \in Parents}

\* Sequences of distinct elements that are in no container; an element that was
\* removed may be made again.
NewElements ==
  {ns \in UNION {[1 .. n -> Nodes \ InUse] : n \in 1 .. MaxCount} :
     \A i, j \in DOMAIN ns : ns[i] = ns[j] => i = j}

SeqInit == containers = {} /\ contents = [p \in Parents |-> << >>]

Construct(p) ==
  /\ p \notin containers
  /\ containers' = containers \cup {p}
  /\ UNCHANGED contents

\* A container takes its elements with it.
Destroy(p) ==
  /\ containers' = containers \ {p}
  /\ contents' = [contents EXCEPT ![p] = << >>]

\* New elements appear together, somewhere among the old ones.
Insert(p) ==
  /\ \E ns \in NewElements, i \in 0 .. Len(contents[p]) :
       contents' = [contents EXCEPT ![p] =
                      SubSeq(@, 1, i) \o ns \o SubSeq(@, i + 1, Len(@))]
  /\ UNCHANGED containers

\* A run of neighbours disappears.
Remove(p) ==
  /\ \E i \in DOMAIN contents[p] : \E j \in i .. Len(contents[p]) :
       contents' = [contents EXCEPT ![p] =
                      SubSeq(@, 1, i - 1) \o SubSeq(@, j + 1, Len(@))]
  /\ UNCHANGED containers

SeqNext ==
  \/ \E p \in Parents : Construct(p)
  \/ \E p \in containers : Destroy(p) \/ Insert(p) \/ Remove(p)

SeqSpec == SeqInit /\ [][SeqNext]_seqVars
================================================================================
