------------------------------ MODULE HddmIstream ------------------------------
(***************************************************************************)
(* The multi-threaded input stream of a generated library                  *)
(* (src/src/hddm-cpp.cpp: class istream) on top of the decompressing       *)
(* stream buffers of xstream (src/xstream/src/z.cpp, bz.cpp).              *)
(*                                                                         *)
(* The readers share one istream over one source.  Each keeps a private    *)
(* copy of the configuration and a private decompressor, which holds the   *)
(* compressed block the reader has fetched and not yet used up.  A token   *)
(* met by any reader changes the shared configuration word, and the others *)
(* catch up with it at their next operation.  As in the output stream the  *)
(* mutex is held through the whole operation on uncompressed data, and is  *)
(* lent to the decompressor, which takes it to fetch a block, otherwise.   *)
(*                                                                         *)
(* The source is a file the output stream can have written: its entries    *)
(* are named by their index, which stands for the byte position where they *)
(* start, and an item by its entry and the number of items before it.      *)
(***************************************************************************)
EXTENDS HddmFormat, FiniteSets

CONSTANTS
  Readers,     \* the threads that read the stream
  NoReader,    \* value of the mutex when it is free
  Files,       \* the files that may be read
  MayLeave,    \* may setPosition go from compressed data back to uncompressed?
  MaxSkips,    \* bound: records skipped over, in total
  MaxSeeks     \* bound: calls to setPosition

\* The records of a file, by entry and by their index in it.
RecordsOf(f) ==
  UNION {{<<e, i>> : i \in {j \in DOMAIN f[e].items : ~f[e].items[j].tok}} : e \in DOMAIN f}

Earlier(p, q) == p[1] < q[1] \/ (p[1] = q[1] /\ p[2] < q[2])

Items == [tok : BOOLEAN, n : Nat, bits : Status]
Entries == [kind : Codecs \cup {"none"}, items : Seq(Items)]

\* The configuration an entry is written under: the last one announced before
\* it, which the record in front of it was written under as well.
InForce(f, e) ==
  IF e = 1 THEN DefaultStatus ELSE f[e - 1].items[Len(f[e - 1].items)].bits

\* The files: readable in order, and once compressed they remain so and can be
\* repositioned in, as everything written by HddmOstream without a crash.  The
\* records are numbered, so that one can tell which of them a reader gets.
Legible(f) ==
  /\ f \in Seq(Entries)
  /\ \A e \in DOMAIN f :
       /\ f[e].items # << >>
       /\ f[e].kind = "none" => Len(f[e].items) = 1
       /\ Fits(InForce(f, e), f[e])
       /\ \A i \in DOMAIN f[e].items :
            LET bits == f[e].items[i].bits
            IN /\ ~f[e].items[i].tok => bits = InForce(f, e)
               /\ bits.cmp # Codecs
               /\ f[e].kind # "none" => bits.cmp # {}
               /\ bits.cmp # {} => bits.repos
  /\ \A p \in RecordsOf(f) :
       f[p[1]].items[p[2]].n = 1 + Cardinality({q \in RecordsOf(f) : Earlier(q, p)})

ASSUME NoReaderAssumption == NoReader \notin Readers
ASSUME FilesAssumption == \A f \in Files : Legible(f)
ASSUME ReaderBoundsAssumption ==
  MayLeave \in BOOLEAN /\ MaxSkips \in Nat /\ MaxSeeks \in Nat

\* A streamposition; entries are counted from 1, and start 0 means none.  The
\* record that was read there goes with it.
Positions == [start : Nat, off : Nat, status : Status, n : Nat]

NoPosition == [start |-> 0, off |-> 0, status |-> DefaultStatus, n |-> 0]

\* The decompressor of a reader: the items of its block it has not used up,
\* where that block starts and how many items of it were used, whether it met
\* the end of the source, and the position it was told to go to.
NoInput == [kind |-> "none", mtx |-> FALSE, left |-> << >>, at |-> 0, off |-> 0,
            end |-> FALSE, seek |-> NoPosition]
NewInput(kind) == [NoInput EXCEPT !.kind = kind]

VARIABLES
  file,        \* the file behind the source
  pos,         \* where the source stands: the next entry
  statusBits,  \* m_status_bits of the stream
  mutex,       \* holder of m_streambuf_mutex
  pc,          \* where each reader is inside the library
  op,          \* the operation it executes: "none", "read" or "seek"
  item,        \* the item it has read
  target,      \* the argument of the setPosition it executes
  newcmp,      \* the local variable newcmp of configure_streambufs
  status,      \* MY(status_bits)
  xcmp,        \* MY(xcmp)
  mutexLock,   \* MY(mutex_lock)
  nextStart,   \* MY(next_start)
  last,        \* MY(last_start) and MY(last_offset), and the status then
  skipping,    \* MY(events_to_skip)
  hitEof,      \* MY(hit_eof)
  marks,       \* positions a caller got from getPosition after a read
  taken,       \* the records each reader has consumed, skipped ones included
  due,         \* the number of the record a reader that reads alone gets next
  skips,       \* number of records asked to be skipped so far
  seeks,       \* number of setPosition calls so far
  fault        \* "none", "crash" (null pointer) or "garbled" (data misread)

sourceVars  == <<file, pos>>
sharedVars  == <<statusBits, mutex>>
callVars    == <<op, item, target, newcmp>>
privateVars == <<status, xcmp, mutexLock, nextStart, last, skipping, hitEof>>
traceVars   == <<marks, taken, due>>
boundVars   == <<skips, seeks>>

vars == <<sourceVars, sharedVars, pc, callVars, privateVars, traceVars, boundVars, fault>>

Labels == {"idle", "lock", "update", "reconf", "build", "adopt", "head", "fetch",
           "source", "parse", "eof", "unlock", "seat"}

Goto(t, label) == pc' = [pc EXCEPT ![t] = label]

Compressed(t) == status[t].cmp # {}

----------------------------------------------------------------------------
(* Callers.                                                                 *)

Enter(t) == fault = "none" /\ pc[t] = "idle"

\* istream::operator>>(HDDM&)
ReadCall(t) ==
  /\ Enter(t)
  /\ op' = [op EXCEPT ![t] = "read"]
  /\ Goto(t, "lock")
  /\ UNCHANGED <<sourceVars, sharedVars, item, target, newcmp, privateVars,
                 traceVars, boundVars, fault>>

\* istream::skip only adds to the count that operator>> works off.
SkipCall(t) ==
  /\ Enter(t)
  /\ \E count \in 1 .. MaxSkips - skips :
       /\ skipping' = [skipping EXCEPT ![t] = @ + count]
       /\ skips' = skips + count
  /\ UNCHANGED <<sourceVars, sharedVars, pc, callVars, status, xcmp, mutexLock,
                 nextStart, last, hitEof, traceVars, seeks, fault>>

\* Variant: the configuration of the position is not restored.
SeekWithoutStatus(t) ==
  /\ Enter(t)
  /\ seeks < MaxSeeks
  /\ seeks' = seeks + 1
  /\ \E p \in marks[t] :
       /\ Compressed(t) /\ p.status.cmp = {} => MayLeave
       /\ target' = [target EXCEPT ![t] = p]
  /\ op' = [op EXCEPT ![t] = "seek"]
  /\ Goto(t, "lock")
  /\ UNCHANGED <<sourceVars, sharedVars, item, newcmp, privateVars, traceVars, skips, fault>>

\* istream::setPosition, with a position got from getPosition: the shared word
\* is overwritten with the configuration of that position.
SeekCall(t) ==
  /\ Enter(t)
  /\ seeks < MaxSeeks
  /\ seeks' = seeks + 1
  /\ \E p \in marks[t] :
       /\ Compressed(t) /\ p.status.cmp = {} => MayLeave
       /\ statusBits' = p.status
       /\ target' = [target EXCEPT ![t] = p]
  /\ op' = [op EXCEPT ![t] = "seek"]
  /\ Goto(t, "lock")
  /\ UNCHANGED <<sourceVars, mutex, item, newcmp, privateVars, traceVars, skips, fault>>

----------------------------------------------------------------------------
(* lock_streambufs and unlock_streambufs.                                   *)

\* No compression: the reader takes the mutex itself.
LockSource(t) ==
  /\ pc[t] = "lock" /\ ~Compressed(t)
  /\ mutex = NoReader
  /\ mutex' = t
  /\ mutexLock' = [mutexLock EXCEPT ![t] = 1]
  /\ Goto(t, "update")
  /\ UNCHANGED <<sourceVars, statusBits, callVars, status, xcmp, nextStart, last,
                 skipping, hitEof, traceVars, boundVars, fault>>

\* z or bz2: the decompressor is lent the mutex.
LockLend(t) ==
  /\ pc[t] = "lock" /\ Compressed(t)
  /\ IF xcmp[t].kind = "none"
       THEN fault' = "crash" /\ UNCHANGED <<pc, xcmp, mutexLock>>
       ELSE /\ xcmp' = [xcmp EXCEPT ![t].mtx = TRUE]
            /\ mutexLock' = [mutexLock EXCEPT ![t] = IF status[t].cmp = {"z"} THEN 2 ELSE 3]
            /\ Goto(t, "update")
            /\ UNCHANGED fault
  /\ UNCHANGED <<sourceVars, sharedVars, callVars, status, nextStart, last, skipping,
                 hitEof, traceVars, boundVars>>

\* Variant: the mutex itself stays locked.
ReleaseWithoutUnlock(t) ==
  /\ mutexLock' = [mutexLock EXCEPT ![t] = 0]
  /\ xcmp' = IF mutexLock[t] \in {2, 3} THEN [xcmp EXCEPT ![t].mtx = FALSE] ELSE xcmp
  /\ UNCHANGED <<mutex, fault>>

\* What unlock_streambufs does: it goes by MY(mutex_lock), and reaches for the
\* decompressor through a pointer it does not check.
ReleaseStreambufs(t) ==
  /\ mutex' = IF mutexLock[t] = 1 THEN NoReader ELSE mutex
  /\ IF mutexLock[t] \in {2, 3} /\ xcmp[t].kind = "none"
       THEN fault' = "crash" /\ UNCHANGED <<xcmp, mutexLock>>
       ELSE /\ xcmp' = IF mutexLock[t] \in {2, 3}
                         THEN [xcmp EXCEPT ![t].mtx = FALSE] ELSE xcmp
            /\ mutexLock' = [mutexLock EXCEPT ![t] = 0]
            /\ UNCHANGED fault

----------------------------------------------------------------------------
(* update_streambufs and configure_streambufs: three reads of the shared    *)
(* word, between which it may change.                                       *)

AfterUpdate(t) == IF op[t] = "seek" THEN "unlock" ELSE "head"

\* update_streambufs: the first of the three reads.
Update(t) ==
  /\ pc[t] = "update"
  /\ Goto(t, IF statusBits = status[t] THEN AfterUpdate(t) ELSE "reconf")
  /\ UNCHANGED <<sourceVars, sharedVars, callVars, privateVars, traceVars, boundVars, fault>>

\* newcmp is read.  The old decompressor goes with what is left of its block.
Reconfigure(t) ==
  /\ pc[t] = "reconf"
  /\ newcmp' = [newcmp EXCEPT ![t] = statusBits.cmp]
  /\ IF statusBits.cmp = status[t].cmp
       THEN Goto(t, "adopt") /\ UNCHANGED xcmp
       ELSE /\ Goto(t, "build")
            /\ xcmp' = IF Compressed(t) THEN [xcmp EXCEPT ![t] = NoInput] ELSE xcmp
  /\ UNCHANGED <<sourceVars, sharedVars, op, item, target, status, mutexLock, nextStart,
                 last, skipping, hitEof, traceVars, boundVars, fault>>

\* Variant: bz2 is recognized, but no decompressor is built for it.
BuildZOnly(t) ==
  /\ pc[t] = "build"
  /\ xcmp' = [xcmp EXCEPT ![t] = IF newcmp[t] = {"z"} THEN NewInput("z") ELSE NoInput]
  /\ Goto(t, "adopt")
  /\ UNCHANGED <<sourceVars, sharedVars, callVars, status, mutexLock, nextStart, last,
                 skipping, hitEof, traceVars, boundVars, fault>>

\* The new decompressor is built.
Build(t) ==
  /\ pc[t] = "build"
  /\ xcmp' = [xcmp EXCEPT ![t] = NewInput(KindOf(newcmp[t]))]
  /\ Goto(t, "adopt")
  /\ UNCHANGED <<sourceVars, sharedVars, callVars, status, mutexLock, nextStart, last,
                 skipping, hitEof, traceVars, boundVars, fault>>

\* MY(status_bits) = m_status_bits
Adopt(t) ==
  /\ pc[t] = "adopt"
  /\ status' = [status EXCEPT ![t] = statusBits]
  /\ Goto(t, AfterUpdate(t))
  /\ UNCHANGED <<sourceVars, sharedVars, callVars, xcmp, mutexLock, nextStart, last,
                 skipping, hitEof, traceVars, boundVars, fault>>

----------------------------------------------------------------------------
(* operator>>: the header of the next item.                                 *)

\* Uncompressed: a pending setPosition moves the source first.
HeadRaw(t) ==
  /\ pc[t] = "head" /\ ~Compressed(t)
  /\ pos' = IF nextStart[t] > 0 THEN nextStart[t] ELSE pos
  /\ last' = [last EXCEPT ![t] = [NoPosition EXCEPT !.start = pos',
                                                     !.status = status[t]]]
  /\ nextStart' = [nextStart EXCEPT ![t] = 0]
  /\ Goto(t, "source")
  /\ UNCHANGED <<file, sharedVars, callVars, status, xcmp, mutexLock, skipping, hitEof,
                 traceVars, boundVars, fault>>

Seeking(t) == xcmp[t].seek.start > 0

\* The position sought lies ahead in the block the decompressor holds.
InsideBlock(t) ==
  /\ xcmp[t].seek.start = xcmp[t].at
  /\ xcmp[t].off <= xcmp[t].seek.off
  /\ xcmp[t].at > 0

\* The rest of a block from an item on.
From(items, n) == SubSeq(items, n + 1, Len(items))

\* Variant: nothing is dropped on the way to the position sought.
HeadBlockNext(t) ==
  /\ pc[t] = "head" /\ Compressed(t)
  /\ IF Seeking(t) THEN InsideBlock(t) ELSE xcmp[t].left # << >>
  /\ LET left == xcmp[t].left
     IN /\ item' = [item EXCEPT ![t] = left[1]]
        /\ xcmp' = [xcmp EXCEPT ![t].left = Tail(left), ![t].off = @ + 1,
                                ![t].seek = NoPosition]
        /\ last' = [last EXCEPT ![t] = [NoPosition EXCEPT !.start = xcmp[t].at,
                                                           !.off = xcmp[t].off,
                                                           !.status = status[t]]]
  /\ Goto(t, "parse")
  /\ UNCHANGED <<sourceVars, sharedVars, op, target, newcmp, status, mutexLock, nextStart,
                 skipping, hitEof, traceVars, boundVars, fault>>

\* Compressed, and the wanted item is in the block: what lies before it is
\* decompressed and dropped, and the item is taken out.
HeadBlock(t) ==
  /\ pc[t] = "head" /\ Compressed(t)
  /\ IF Seeking(t) THEN InsideBlock(t) ELSE xcmp[t].left # << >>
  /\ LET drop == IF Seeking(t) THEN xcmp[t].seek.off - xcmp[t].off ELSE 0
         left == From(xcmp[t].left, drop)
     IN /\ item' = [item EXCEPT ![t] = left[1]]
        /\ xcmp' = [xcmp EXCEPT ![t].left = Tail(left), ![t].off = @ + drop + 1,
                                ![t].seek = NoPosition]
        /\ last' = [last EXCEPT ![t] = [NoPosition EXCEPT !.start = xcmp[t].at,
                                                           !.off = xcmp[t].off + drop,
                                                           !.status = status[t]]]
  /\ Goto(t, "parse")
  /\ UNCHANGED <<sourceVars, sharedVars, op, target, newcmp, status, mutexLock, nextStart,
                 skipping, hitEof, traceVars, boundVars, fault>>

\* Compressed, and another block is needed.
HeadFetch(t) ==
  /\ pc[t] = "head" /\ Compressed(t)
  /\ IF Seeking(t) THEN ~InsideBlock(t) ELSE xcmp[t].left = << >> /\ ~xcmp[t].end
  /\ Goto(t, "fetch")
  /\ UNCHANGED <<sourceVars, sharedVars, callVars, privateVars, traceVars, boundVars, fault>>

\* Compressed, and the end was met.
HeadEnd(t) ==
  /\ pc[t] = "head" /\ Compressed(t)
  /\ ~Seeking(t) /\ xcmp[t].left = << >> /\ xcmp[t].end
  /\ Goto(t, "eof")
  /\ UNCHANGED <<sourceVars, sharedVars, callVars, privateVars, traceVars, boundVars, fault>>

----------------------------------------------------------------------------
(* Reading the source.                                                      *)

\* Variant: the decompressor reads its block without the mutex.
FetchLockNever(t) ==
  /\ pc[t] = "fetch"
  /\ Goto(t, "source")
  /\ UNCHANGED <<sourceVars, sharedVars, callVars, privateVars, traceVars, boundVars, fault>>

\* MUTEX_LOCK: the decompressor takes the mutex if it was lent it, and
\* otherwise counts on its reader holding it.
FetchLock(t) ==
  /\ pc[t] = "fetch"
  /\ IF xcmp[t].mtx THEN mutex = NoReader /\ mutex' = t ELSE UNCHANGED mutex
  /\ Goto(t, "source")
  /\ UNCHANGED <<sourceVars, statusBits, callVars, privateVars, traceVars, boundVars, fault>>

\* Variant: the end of the source, once met, is not forgotten.
FetchBlockStillAtEnd(t) ==
  LET from == IF Seeking(t) THEN xcmp[t].seek.start ELSE pos
      drop == IF Seeking(t) THEN xcmp[t].seek.off ELSE 0
  IN /\ pc[t] = "source" /\ Compressed(t) /\ from <= Len(file)
     /\ file[from].kind = xcmp[t].kind
     /\ pos' = from + 1
     /\ mutex' = IF xcmp[t].mtx THEN NoReader ELSE mutex
     /\ xcmp' = [xcmp EXCEPT ![t].left = From(file[from].items, drop), ![t].at = from,
                             ![t].off = drop, ![t].seek = NoPosition]
     /\ Goto(t, "head")
     /\ UNCHANGED <<file, statusBits, callVars, status, mutexLock, nextStart, last,
                    skipping, hitEof, traceVars, boundVars, fault>>

\* Variant: what was read of the next block is not accounted for.
FetchBlockAgain(t) ==
  LET from == IF Seeking(t) THEN xcmp[t].seek.start ELSE pos
      drop == IF Seeking(t) THEN xcmp[t].seek.off ELSE 0
  IN /\ pc[t] = "source" /\ Compressed(t) /\ from <= Len(file)
     /\ file[from].kind = xcmp[t].kind
     /\ pos' = IF xcmp[t].at = 0 THEN from ELSE from + 1
     /\ mutex' = IF xcmp[t].mtx THEN NoReader ELSE mutex
     /\ xcmp' = [xcmp EXCEPT ![t].left = From(file[from].items, drop), ![t].at = from,
                             ![t].off = drop, ![t].end = FALSE, ![t].seek = NoPosition]
     /\ Goto(t, "head")
     /\ UNCHANGED <<file, statusBits, callVars, status, mutexLock, nextStart, last,
                    skipping, hitEof, traceVars, boundVars, fault>>

\* read_inflate: goes to the position sought, if any, and reads one block there;
\* MUTEX_UNLOCK.  The size word of the block behind it is read as well, but
\* kept for whoever comes next (m_leftovers), so the source stands before it.
FetchBlock(t) ==
  LET from == IF Seeking(t) THEN xcmp[t].seek.start ELSE pos
      drop == IF Seeking(t) THEN xcmp[t].seek.off ELSE 0
  IN /\ pc[t] = "source" /\ Compressed(t) /\ from <= Len(file)
     /\ file[from].kind = xcmp[t].kind
     /\ pos' = from + 1
     /\ mutex' = IF xcmp[t].mtx THEN NoReader ELSE mutex
     /\ xcmp' = [xcmp EXCEPT ![t].left = From(file[from].items, drop), ![t].at = from,
                             ![t].off = drop, ![t].end = FALSE, ![t].seek = NoPosition]
     /\ Goto(t, "head")
     /\ UNCHANGED <<file, statusBits, callVars, status, mutexLock, nextStart, last,
                    skipping, hitEof, traceVars, boundVars, fault>>

\* There is no block left.
FetchNothing(t) ==
  /\ pc[t] = "source" /\ Compressed(t) /\ ~Seeking(t) /\ pos > Len(file)
  /\ mutex' = IF xcmp[t].mtx THEN NoReader ELSE mutex
  /\ xcmp' = [xcmp EXCEPT ![t].at = pos, ![t].end = TRUE]
  /\ Goto(t, "head")
  /\ UNCHANGED <<sourceVars, statusBits, callVars, status, mutexLock, nextStart, last,
                 skipping, hitEof, traceVars, boundVars, fault>>

\* Variant: the last record is taken for the end.
ReadRawShort(t) ==
  /\ pc[t] = "source" /\ ~Compressed(t)
  /\ IF pos >= Len(file)
       THEN Goto(t, "eof") /\ UNCHANGED <<pos, item>>
       ELSE /\ file[pos].kind = "none"
            /\ item' = [item EXCEPT ![t] = file[pos].items[1]]
            /\ pos' = pos + 1
            /\ Goto(t, "parse")
  /\ UNCHANGED <<file, sharedVars, op, target, newcmp, privateVars, traceVars, boundVars,
                 fault>>

\* An uncompressed item is read, or the end is met.
ReadRaw(t) ==
  /\ pc[t] = "source" /\ ~Compressed(t)
  /\ IF pos > Len(file)
       THEN Goto(t, "eof") /\ UNCHANGED <<pos, item>>
       ELSE /\ file[pos].kind = "none"
            /\ item' = [item EXCEPT ![t] = file[pos].items[1]]
            /\ pos' = pos + 1
            /\ Goto(t, "parse")
  /\ UNCHANGED <<file, sharedVars, op, target, newcmp, privateVars, traceVars, boundVars,
                 fault>>

\* What the reader expects is not what the source holds: a block of another
\* kind, or a block where an uncompressed item should be, or the reverse.
Misread(t) ==
  LET from == IF Seeking(t) THEN xcmp[t].seek.start ELSE pos
  IN /\ pc[t] = "source" /\ from <= Len(file)
     /\ file[from].kind # IF Compressed(t) THEN xcmp[t].kind ELSE "none"
     /\ fault' = "garbled"
     /\ UNCHANGED <<sourceVars, sharedVars, pc, callVars, privateVars, traceVars, boundVars>>

----------------------------------------------------------------------------
(* operator>>: what was read.                                               *)

\* Variant: the reader goes on without looking at the new configuration.
TokenIgnored(t) ==
  /\ pc[t] = "parse" /\ item[t].tok
  /\ statusBits' = item[t].bits
  /\ Goto(t, "head")
  /\ UNCHANGED <<sourceVars, mutex, callVars, privateVars, traceVars, boundVars, fault>>

\* A token: m_status_bits.store(flags), and back to update_streambufs.
Token(t) ==
  /\ pc[t] = "parse" /\ item[t].tok
  /\ statusBits' = item[t].bits
  /\ Goto(t, "update")
  /\ UNCHANGED <<sourceVars, mutex, callVars, privateVars, traceVars, boundVars, fault>>

\* A record, with its crc if the configuration says that there is one: if the
\* reader and the record disagree, the reader has lost the record boundaries.
Record(t) ==
  /\ pc[t] = "parse" /\ ~item[t].tok
  /\ fault' = IF item[t].bits.crc = status[t].crc THEN fault ELSE "garbled"
  /\ hitEof' = [hitEof EXCEPT ![t] = FALSE]
  /\ taken' = [taken EXCEPT ![t] = Append(@, item[t].n)]
  /\ due' = [due EXCEPT ![t] = item[t].n + 1]
  /\ Goto(t, "unlock")
  /\ UNCHANGED <<sourceVars, sharedVars, callVars, status, xcmp, mutexLock, nextStart, last,
                 skipping, marks, boundVars>>

\* Variant: the count is worked off whether or not there is one.
UnlockSkipAlways(t) ==
  /\ pc[t] = "unlock" /\ op[t] = "read"
  /\ ReleaseStreambufs(t)
  /\ skipping' = [skipping EXCEPT ![t] = @ - 1]
  /\ IF skipping[t] > 0
       THEN Goto(t, "lock") /\ UNCHANGED <<op, marks>>
       ELSE /\ op' = [op EXCEPT ![t] = "none"]
            /\ marks' = [marks EXCEPT ![t] = @ \cup {[last[t] EXCEPT !.n = item[t].n]}]
            /\ Goto(t, "idle")
  /\ UNCHANGED <<sourceVars, statusBits, item, target, newcmp, status, nextStart, last,
                 hitEof, taken, due, boundVars>>

\* The end of one round: a record to be skipped over is dropped and the next
\* one is read from the start; any other is returned, and the caller may ask
\* for its position.
Unlock(t) ==
  /\ pc[t] = "unlock" /\ op[t] = "read"
  /\ ReleaseStreambufs(t)
  /\ IF skipping[t] > 0
       THEN /\ skipping' = [skipping EXCEPT ![t] = @ - 1]
            /\ Goto(t, "lock")
            /\ UNCHANGED <<op, marks>>
       ELSE /\ op' = [op EXCEPT ![t] = "none"]
            /\ marks' = [marks EXCEPT ![t] = @ \cup {[last[t] EXCEPT !.n = item[t].n]}]
            /\ Goto(t, "idle")
            /\ UNCHANGED skipping
  /\ UNCHANGED <<sourceVars, statusBits, item, target, newcmp, status, nextStart, last,
                 hitEof, taken, due, boundVars>>

\* The end of the data: the call returns without a record, and a count of
\* records still to be skipped stays.
Eof(t) ==
  /\ pc[t] = "eof"
  /\ ReleaseStreambufs(t)
  /\ hitEof' = [hitEof EXCEPT ![t] = TRUE]
  /\ op' = [op EXCEPT ![t] = "none"]
  /\ Goto(t, "idle")
  /\ UNCHANGED <<sourceVars, statusBits, item, target, newcmp, status, nextStart, last,
                 skipping, traceVars, boundVars>>

\* setPosition has caught up with the new configuration and unlocks.
SeekUnlock(t) ==
  /\ pc[t] = "unlock" /\ op[t] = "seek"
  /\ ReleaseStreambufs(t)
  /\ Goto(t, "seat")
  /\ UNCHANGED <<sourceVars, statusBits, callVars, status, nextStart, last, skipping, hitEof,
                 traceVars, boundVars>>

\* Then it only notes where the next read shall go.
Seat(t) ==
  /\ pc[t] = "seat"
  /\ IF Compressed(t)
       THEN xcmp' = [xcmp EXCEPT ![t].seek = target[t]] /\ UNCHANGED nextStart
       ELSE nextStart' = [nextStart EXCEPT ![t] = target[t].start] /\ UNCHANGED xcmp
  /\ due' = [due EXCEPT ![t] = target[t].n]
  /\ op' = [op EXCEPT ![t] = "none"]
  /\ Goto(t, "idle")
  /\ UNCHANGED <<sourceVars, sharedVars, item, target, newcmp, status, mutexLock, last,
                 skipping, hitEof, marks, taken, boundVars, fault>>

----------------------------------------------------------------------------
NoItem == [tok |-> FALSE, n |-> 0, bits |-> DefaultStatus]

Init ==
  /\ file \in Files
  /\ pos = 1
  /\ statusBits = DefaultStatus
  /\ mutex = NoReader
  /\ pc = [t \in Readers |-> "idle"]
  /\ op = [t \in Readers |-> "none"]
  /\ item = [t \in Readers |-> NoItem]
  /\ target = [t \in Readers |-> NoPosition]
  /\ newcmp = [t \in Readers |-> {}]
  /\ status = [t \in Readers |-> DefaultStatus]
  /\ xcmp = [t \in Readers |-> NoInput]
  /\ mutexLock = [t \in Readers |-> 0]
  /\ nextStart = [t \in Readers |-> 0]
  /\ last = [t \in Readers |-> NoPosition]
  /\ skipping = [t \in Readers |-> 0]
  /\ hitEof = [t \in Readers |-> FALSE]
  /\ marks = [t \in Readers |-> {}]
  /\ taken = [t \in Readers |-> << >>]
  /\ due = [t \in Readers |-> 1]
  /\ skips = 0
  /\ seeks = 0
  /\ fault = "none"

Acquire(t) == LockSource(t) \/ FetchLock(t)

Proceed(t) ==
  /\ fault = "none"
  /\ \/ LockLend(t)
     \/ Update(t) \/ Reconfigure(t) \/ Build(t) \/ Adopt(t)
     \/ HeadRaw(t) \/ HeadBlock(t) \/ HeadFetch(t) \/ HeadEnd(t)
     \/ FetchBlock(t) \/ FetchNothing(t) \/ ReadRaw(t) \/ Misread(t)
     \/ Token(t) \/ Record(t)
     \/ Unlock(t) \/ Eof(t) \/ SeekUnlock(t) \/ Seat(t)

Call(t) == ReadCall(t) \/ SkipCall(t) \/ SeekCall(t)

Next == \E t \in Readers : Call(t) \/ (fault = "none" /\ Acquire(t)) \/ Proceed(t)

Spec == Init /\ [][Next]_vars

\* A call in progress runs as long as its thread is scheduled, and a thread
\* that keeps asking for the mutex while others take turns gets it some time.
Fairness ==
  \A t \in Readers : WF_vars(Proceed(t)) /\ SF_vars(fault = "none" /\ Acquire(t))

LiveSpec == Spec /\ Fairness

----------------------------------------------------------------------------
(* Properties.                                                              *)

RecordCount == Cardinality(RecordsOf(file))

Inputs == [kind : Codecs \cup {"none"}, mtx : BOOLEAN, left : Seq(Items), at : Nat,
           off : Nat, end : BOOLEAN, seek : Positions]

\* The type invariant of the variables above.
TypeOK ==
  /\ file \in Files
  /\ pos \in Nat \ {0}
  /\ statusBits \in Status
  /\ mutex \in Readers \cup {NoReader}
  /\ pc \in [Readers -> Labels]
  /\ op \in [Readers -> {"none", "read", "seek"}]
  /\ item \in [Readers -> Items]
  /\ target \in [Readers -> Positions]
  /\ newcmp \in [Readers -> SUBSET Codecs]
  /\ status \in [Readers -> Status]
  /\ xcmp \in [Readers -> Inputs]
  /\ mutexLock \in [Readers -> {0, 1, 2, 3}]
  /\ nextStart \in [Readers -> Nat]
  /\ last \in [Readers -> Positions]
  /\ skipping \in [Readers -> Nat]
  /\ hitEof \in [Readers -> BOOLEAN]
  /\ marks \in [Readers -> SUBSET Positions]
  /\ taken \in [Readers -> Seq(Nat)]
  /\ due \in [Readers -> Nat]
  /\ skips \in Nat /\ seeks \in Nat
  /\ fault \in {"none", "crash", "garbled"}

\* Two readers never use the source at the same time: the seek, the tell and
\* the reads that make up one entry belong together.
SourceExclusive ==
  \A t, u \in Readers : pc[t] = "source" /\ pc[u] = "source" => t = u

\* No reader loses the record boundaries: what it takes for a record or a block
\* is one, encoded as its private status says.
NotGarbled == fault # "garbled"

\* No reader goes through its decompressor pointer while it is null.
NoCrash == fault # "crash"

\* No record is read twice, by the same reader or by two of them, and each
\* reader sees the records it gets in the order of the file.
ExactlyOnce ==
  \A t, u \in Readers : \A i \in DOMAIN taken[t], j \in DOMAIN taken[u] :
    /\ t = u /\ i < j => taken[t][i] < taken[u][j]
    /\ t # u => taken[t][i] # taken[u][j]

\* When every reader has been told that the end was met, every record was read
\* by one of them: no block is lost with a decompressor or between two readers.
Complete ==
  (\A t \in Readers : hitEof[t] /\ pc[t] = "idle") =>
    \A n \in 1 .. RecordCount : \E t \in Readers : \E i \in DOMAIN taken[t] : taken[t][i] = n

\* A reader that is alone gets the records in the order of the file without a
\* gap, through any compression, and after setPosition the one that was read
\* where getPosition had been asked.
ReadsInOrder ==
  [][\A t \in Readers : taken'[t] # taken[t] => taken'[t] = Append(taken[t], due[t])]_vars

\* It is told that the end was met only when no record is left for it.
EofAtEnd ==
  [][\A t \in Readers : pc[t] = "eof" /\ pc'[t] = "idle" => due[t] > RecordCount]_vars

\* Every call returns.
CallsReturn == \A t \in Readers : pc[t] # "idle" ~> pc[t] = "idle"
================================================================================
