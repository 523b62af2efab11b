----------------------------- MODULE RemoteStreambuf -----------------------------
(***************************************************************************)
(* A remote file read block by block with read-ahead                       *)
(* (src/httpstream/httpstream.cpp, src/xrootdstream/xrootdstream.cpp).     *)
(*                                                                         *)
(* The buffer is a deque of blocks; each but the first is filled by a      *)
(* thread of its own, started Readahead blocks before it is needed.        *)
(* underflow waits for the next block, hands it out, drops the blocks      *)
(* that are more than Lookback behind and starts new threads.  The threads *)
(* of a program read the stream one at a time (an HDDM istream locks it),  *)
(* each through a std::istream of its own, which asks no more once it has  *)
(* seen the end.  A file that ends with a compressed block is met at its   *)
(* end once more, by the decompressor of the reader that gets this block:  *)
(* it looks eight bytes ahead (z.cpp:621, bz.cpp:656), hands out its       *)
(* records all the same, and asks again for the size of a next block.      *)
(***************************************************************************)
EXTENDS Integers, SequencesExt

CONSTANTS
  Clients,          \* the threads that read the stream
  Nobody,           \* no client
  Lookback,         \* lookback_, 3 in the code
  Readahead,        \* readahead_, 3 in the code: the current block counts
  MaxFileBlocks,    \* bound: blocks of a file
  FirstReadFails,   \* may the first read of an opened xrootd file fail?
  ErrorHasBody      \* does a server answer 416 with a body?

ASSUME RemoteAssumption ==
  /\ Nobody \notin Clients
  /\ Lookback \in Nat
  /\ Readahead \in Nat \ {0, 1}
  /\ MaxFileBlocks \in Nat
  /\ FirstReadFails \in BOOLEAN
  /\ ErrorHasBody \in BOOLEAN

\* Each end that is met advances buffer_index_, one for every client and one for
\* the look-ahead: with no fewer clients than blocks read ahead it may leave the
\* deque.
FewClients == IsFiniteSet(Clients) /\ Cardinality(Clients) < Readahead

VARIABLES
  source,    \* the file: transport, number of blocks, does it end compressed
  phase,     \* of the stream: new, refused, open, closing, closed; terminated
             \* when a thread threw, undefined when buffer_ was overrun
  deque,     \* buffer_, as [at : its place in the file, reader : reader_ # 0]
  index,     \* buffer_index_
  fills,     \* the places whose background_fill is running
  caller,    \* the client that waits in underflow
  peeked,    \* has the look-ahead of a decompressor met the end
  ended,     \* the clients that were told of the end
  area,      \* the block the get area points into, -1 if it is empty
  served     \* the blocks handed out so far

remoteVars == <<source, phase, deque, index, fills, caller, peeked, ended, area, served>>

Block == [at : Nat, reader : BOOLEAN]
Places(dq) == {dq[i].at : i \in DOMAIN dq}
Started(dq) == {dq[i].at : i \in {j \in DOMAIN dq : dq[j].reader}}

\* What a request returns beyond the end of the file.
HasData(at) == at < source.blocks \/ (source.transport = "http" /\ ErrorHasBody)

\* Wrong variants, to show what the properties detect: new blocks placed behind
\* the current one and not behind the last, a block deleted while it is in use,
\* the end of the file asked for again and again.
AdvanceFromCurrent(dq, ix) ==
  dq \o [i \in 1 .. Readahead - (Len(dq) - ix) |->
           [at |-> dq[ix + 1].at + i, reader |-> TRUE]]

BehindTooMany(ix) == ix + 1

FillWithoutEnd(b) ==
  /\ b \in fills /\ b < source.blocks
  /\ fills' = fills \ {b}
  /\ UNCHANGED <<source, phase, deque, index, caller, peeked, ended, area, served>>

\* advance(): new blocks, each with a running thread, until Readahead of them
\* lie from the current one on.
Advance(dq, ix) ==
  dq \o [i \in 1 .. Readahead - (Len(dq) - ix) |->
           [at |-> Last(dq).at + i, reader |-> TRUE]]

\* Blocks more than Lookback behind are deleted.
Behind(ix) == IF ix > Lookback THEN ix - Lookback ELSE 0

\* Client c meets the end.  The first time in a file that ends compressed it is
\* its decompressor that does, after the last block; else c asks no more.
MeetEnd(c) ==
  IF source.packed /\ served # << >> /\ ~peeked
    THEN peeked' = TRUE /\ UNCHANGED ended
    ELSE ended' = ended \cup {c} /\ UNCHANGED peeked

-----------------------------------------------------------------------------
RemoteInit ==
  /\ source = [transport |-> "http", blocks |-> 0, packed |-> FALSE]
  /\ phase = "new" /\ deque = << >> /\ index = -1 /\ fills = {}
  /\ caller = Nobody /\ peeked = FALSE /\ ended = {} /\ area = -1 /\ served = << >>

\* The constructor: the first block is read by the calling thread.  An http
\* server refuses a range of an empty file, the constructor then throws.
Open(transport, blocks, packed) ==
  /\ phase = "new"
  /\ source' = [transport |-> transport, blocks |-> blocks, packed |-> packed]
  /\ \/ /\ transport = "http" /\ blocks = 0
        /\ phase' = "refused"
        /\ UNCHANGED <<deque, index, fills, area, served>>
     \/ /\ ~ (transport = "http" /\ blocks = 0)
        /\ phase' = "open"
        /\ index' = 0
        /\ deque' = Advance(<<[at |-> 0, reader |-> FALSE]>>, 0)
        /\ fills' = Started(deque')
        /\ \E read \in IF transport = "xrootd" /\ FirstReadFails THEN BOOLEAN ELSE {TRUE} :
              IF read /\ blocks > 0 THEN area' = 0 /\ served' = <<0>>
                                    ELSE area' = -1 /\ served' = << >>
  /\ UNCHANGED <<caller, peeked, ended>>

\* background_fill, in the thread of block b.
Fill(b) ==
  /\ b \in fills
  /\ fills' = fills \ {b}
  /\ UNCHANGED <<source, phase, deque, index, caller, peeked, ended, area, served>>

\* Any other answer throws, in a thread that nobody catches from.
FillFails(b) ==
  /\ b \in fills
  /\ phase' = "terminated"
  /\ fills' = {} /\ caller' = Nobody
  /\ UNCHANGED <<source, deque, index, peeked, ended, area, served>>

\* underflow, up to the join.  buffer_index_ is only compared for equality: one
\* more end, and the code reads a block behind the deque.
Underflow(c) ==
  /\ phase = "open" /\ caller = Nobody /\ c \notin ended
  /\ index' = index + 1
  /\ \/ /\ index' < Len(deque)
        /\ caller' = c
        /\ UNCHANGED <<phase, fills, peeked, ended>>
     \/ /\ index' = Len(deque)
        /\ MeetEnd(c)
        /\ UNCHANGED <<phase, fills, caller>>
     \/ /\ index' > Len(deque)
        /\ phase' = "undefined" /\ fills' = {}
        /\ UNCHANGED <<caller, peeked, ended>>
  /\ UNCHANGED <<source, deque, area, served>>

\* underflow, from the join on.
Join ==
  LET block  == deque[index + 1]
      joined == [deque EXCEPT ![index + 1].reader = FALSE]
      gone   == Behind(index)
  IN /\ phase = "open" /\ caller # Nobody
     /\ block.reader /\ block.at \notin fills
     /\ caller' = Nobody
     /\ IF HasData(block.at)
          THEN /\ area' = block.at
               /\ served' = Append(served, block.at)
               /\ index' = index - gone
               /\ deque' = Advance(SubSeq(joined, gone + 1, Len(joined)), index')
               /\ fills' = fills \cup (Started(deque') \ Places(deque))
               /\ UNCHANGED <<peeked, ended>>
          ELSE /\ deque' = joined
               /\ MeetEnd(caller)
               /\ UNCHANGED <<area, served, index, fills>>
     /\ UNCHANGED <<source, phase>>

\* The destructor waits for the threads it has not joined yet, block by block.
Close ==
  /\ phase = "open" /\ caller = Nobody
  /\ phase' = "closing"
  /\ UNCHANGED <<source, deque, index, fills, caller, peeked, ended, area, served>>

DeleteBlock ==
  /\ phase = "closing"
  /\ IF deque = << >>
       THEN phase' = "closed" /\ UNCHANGED <<deque, area>>
       ELSE /\ Head(deque).reader => Head(deque).at \notin fills
            /\ deque' = Tail(deque)
            /\ area' = IF Head(deque).at = area THEN -1 ELSE area
            /\ UNCHANGED phase
  /\ UNCHANGED <<source, index, fills, caller, peeked, ended, served>>

RemoteNext ==
  \/ \E t \in {"http", "xrootd"}, n \in 0 .. MaxFileBlocks, p \in BOOLEAN : Open(t, n, p)
  \/ \E b \in fills : Fill(b) \/ FillFails(b)
  \/ \E c \in Clients : Underflow(c)
  \/ Join
  \/ Close
  \/ DeleteBlock

\* A request is answered at some time, and a thread that can go on does.
RemoteFairness ==
  /\ \A b \in 0 .. MaxFileBlocks + Lookback + Readahead : WF_remoteVars(Fill(b))
  /\ WF_remoteVars(Join)
  /\ WF_remoteVars(DeleteBlock)

RemoteSpec == RemoteInit /\ [][RemoteNext]_remoteVars /\ RemoteFairness

-----------------------------------------------------------------------------
RemoteTypeOK ==
  /\ source \in [transport : {"http", "xrootd"}, blocks : 0 .. MaxFileBlocks,
                 packed : BOOLEAN]
  /\ phase \in {"new", "refused", "open", "closing", "closed", "terminated", "undefined"}
  /\ deque \in Seq(Block)
  /\ index \in -1 .. Lookback + Readahead + 1
  /\ peeked \in BOOLEAN
  /\ fills \subseteq Nat
  /\ caller \in Clients \cup {Nobody}
  /\ ended \subseteq Clients
  /\ area \in Nat \cup {-1}
  /\ served \in Seq(Nat)

\* The clients get the blocks of the file, each once and in order, and no client
\* and no look-ahead is told of the end before the last block is out: no failed or
\* late read is ever taken for the end of the file (httpstream.cpp:64-80, 92-99).
RemoteInOrder ==
  /\ served = [i \in 1 .. Len(served) |-> i - 1]
  /\ Len(served) <= source.blocks
  /\ peeked \/ ended # {} => Len(served) = source.blocks

\* No block is deleted while its thread writes into it or the get area points
\* into it, every block asked for exists, however often the end is met, and the
\* buffer does not grow with the file (httpstream.cpp:35-44, 90-106).
RemoteMemory ==
  /\ phase # "undefined"
  /\ phase \in {"open", "closing"} =>
       /\ fills \subseteq Places(deque)
       /\ area # -1 => area \in Places(deque)
       /\ caller # Nobody => index < Len(deque) /\ deque[index + 1].reader
       /\ Len(deque) <= Lookback + Readahead

\* A client that asks for more is answered, and a stream that is being closed
\* gets closed, unless a failed request ends the program
\* (httpstream.cpp:41 and 92: the joins).
RemoteReturns ==
  /\ caller # Nobody ~> caller = Nobody
  /\ phase = "closing" ~> phase \in {"closed", "terminated"}
================================================================================
