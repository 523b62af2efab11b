------------------------------ MODULE HddmOstream ------------------------------
(***************************************************************************)
(* The multi-threaded output stream that hddm-cpp writes into every        *)
(* generated library (src/src/hddm-cpp.cpp: class ostream) on top of the   *)
(* compressing stream buffers of xstream (src/xstream/src/z.cpp, bz.cpp).  *)
(*                                                                         *)
(* Any number of threads share one ostream.  The configuration word        *)
(* m_status_bits is a shared atomic; each thread keeps a private copy and  *)
(* a private compressor (m_xcmp) and catches up with the shared word at    *)
(* its next operation.  A change of configuration is announced to the      *)
(* reader by a token in the data.  One mutex guards the sink: a thread     *)
(* that writes uncompressed data holds it from lock_streambufs to          *)
(* unlock_streambufs, a thread that compresses lends it to its compressor, *)
(* which takes it only around the write of a finished block.               *)
(*                                                                         *)
(* One step is one atomic access to shared state: an atomic load or        *)
(* read-modify-write of m_status_bits, taking or releasing the mutex, or   *)
(* the bytes of one entry reaching the sink.                               *)
(***************************************************************************)
EXTENDS HddmFormat, FiniteSets

CONSTANTS
  Threads,      \* the threads that use the stream
  Opener,       \* the thread that constructed it
  NoThread,     \* value of the mutex when it is free
  Configurers,  \* the threads that call setCompression / setIntegrityChecks
  Compressions, \* the arguments given to setCompression
  Discipline,   \* what the callers promise: "open", "quiet" or "free"
  MayDisable,   \* may compression be switched off again?
  RecordSizes,  \* sizes of serialized records, in block units
  TokenSize,    \* size of a configuration token, in block units
  BlockLimit,   \* a compressed block is closed when it grows beyond this
  MaxRecords,   \* bound: records written per thread
  MaxSettings   \* bound: calls to setCompression and setIntegrityChecks

ASSUME OpenerAssumption == Opener \in Threads
ASSUME NoThreadAssumption == NoThread \notin Threads
ASSUME ConfigurersAssumption == Configurers \subseteq Threads
ASSUME CompressionsAssumption == Compressions \subseteq {{}, {"z"}, {"bz2"}}
ASSUME DisciplineAssumption == Discipline \in {"open", "quiet", "free"}
ASSUME MayDisableAssumption == MayDisable \in BOOLEAN
ASSUME SizesAssumption ==
  /\ RecordSizes \subseteq Nat \ {0}
  /\ TokenSize \in Nat \ {0}
  /\ BlockLimit \in [Codecs -> Nat]
ASSUME BoundsAssumption == MaxRecords \in Nat /\ MaxSettings \in Nat

\* What reaches the sink: records and tokens.  bits is the configuration the
\* record was encoded under, or the configuration the token announces.
Item == [tok : BOOLEAN, by : Threads, n : Nat, bits : Status]

\* The compressor of a thread: the items of the open block (written to it and
\* not yet to the sink), their size, and whether it was lent the mutex.
NoXcmp == [kind |-> "none", mtx |-> FALSE, pending |-> << >>, offset |-> 0]
NewXcmp(kind) == [NoXcmp EXCEPT !.kind = kind]

Xcmp == [kind : Codecs \cup {"none"}, mtx : BOOLEAN,
         pending : Seq(Item), offset : Nat]

VARIABLES
  statusBits,  \* m_status_bits of the stream
  mutex,       \* holder of m_streambuf_mutex
  sink,        \* the entries written to the user's std::ostream
  replay,      \* the state of a sequential reader that has consumed the sink
  pc,          \* where each thread is inside the library
  op,          \* the operation it executes: "none", "write" or "set"
  want,        \* the argument of the setter it executes
  item,        \* the record or token it is writing
  why,         \* what makes its compressor write a block
  newcmp,      \* the local variable newcmp of configure_streambufs
  status,      \* MY(status_bits)
  xcmp,        \* MY(xcmp)
  mutexLock,   \* MY(mutex_lock)
  written,     \* MY(records_written)
  settings,    \* number of setter calls made so far
  crashed,     \* a null compressor was dereferenced
  phase        \* "open", "closing" or "closed" (the destructor has run)

callVars    == <<op, want, item, why, newcmp>>
privateVars == <<status, xcmp, mutexLock>>
sharedVars  == <<statusBits, mutex>>
sinkVars    == <<sink, replay>>
lifeVars    == <<written, settings, crashed, phase>>

vars == <<sharedVars, sinkVars, pc, callVars, privateVars, lifeVars>>

Labels == {"idle", "and", "or", "repos", "token", "lock", "update", "reconf",
           "build", "adopt", "put", "raw", "block", "emit", "flush", "unlock"}

Wants == [cmp : SUBSET Codecs, crc : BOOLEAN, what : {"cmp", "crc"}]

NoWant == [cmp |-> {}, crc |-> FALSE, what |-> "cmp"]
NoItem == [tok |-> FALSE, by |-> Opener, n |-> 0, bits |-> DefaultStatus]

Goto(t, label) == pc' = [pc EXCEPT ![t] = label]

----------------------------------------------------------------------------
(* What the sink holds.                                                     *)

\* One entry reaches the sink; the sequential reader consumes it.  An empty
\* block writes nothing.
Emit(kind, items) ==
  LET entry == [kind |-> kind, items |-> items]
  IN IF items = << >> THEN UNCHANGED sinkVars
     ELSE sink' = Append(sink, entry) /\ replay' = ReplayStep(replay, entry)

----------------------------------------------------------------------------
(* Callers.                                                                 *)

\* A thread that has not used the stream yet has no private data.
Fresh(t) == op[t] = "none" /\ written[t] = 0

\* The caller's discipline.  "open": the opener configures the stream before
\* any other thread uses it.  "quiet": besides, as long as nothing is
\* compressed, the integrity checks may be changed while nobody else is inside
\* the library.  "free": no restriction, as the library claims.
AloneSoFar(t) == t = Opener /\ \A u \in Threads \ {t} : Fresh(u)

MayConfigure(t, w) ==
  /\ t \in Configurers
  /\ Discipline = "open" => AloneSoFar(t)
  /\ Discipline = "quiet" =>
       \/ AloneSoFar(t)
       \/ w.what = "crc" /\ \A u \in Threads : pc[u] = "idle" /\ xcmp[u].kind = "none"

MayWrite(t) ==
  Discipline # "free" => \A u \in Threads \ {t} : op[u] # "set"

Enter(t) == phase = "open" /\ ~crashed /\ pc[t] = "idle"

\* ostream::operator<<(HDDM&): the record is serialized into the thread's own
\* event buffer, then the thread goes for the sink.
WriteCall(t) ==
  /\ Enter(t) /\ MayWrite(t)
  /\ written[t] < MaxRecords
  /\ op' = [op EXCEPT ![t] = "write"]
  /\ item' = [item EXCEPT ![t] = [tok |-> FALSE, by |-> t, n |-> written[t] + 1,
                                  bits |-> DefaultStatus]]
  /\ Goto(t, "lock")
  /\ UNCHANGED <<sharedVars, sinkVars, want, why, newcmp, privateVars, lifeVars>>

\* ostream::setCompression and ostream::setIntegrityChecks start by comparing
\* their argument with the shared word, and return at once if it is the same.
SetCall(t, w) ==
  /\ Enter(t) /\ MayConfigure(t, w)
  /\ settings < MaxSettings
  /\ settings' = settings + 1
  /\ w.what = "cmp" /\ w.cmp = {} => MayDisable
  /\ IF (w.what = "cmp" /\ w.cmp = statusBits.cmp) \/ (w.what = "crc" /\ w.crc = statusBits.crc)
       THEN UNCHANGED <<op, want, pc>>
       ELSE /\ op' = [op EXCEPT ![t] = "set"]
            /\ want' = [want EXCEPT ![t] = w]
            /\ Goto(t, "and")
  /\ UNCHANGED <<sharedVars, sinkVars, item, why, newcmp, privateVars,
                 written, crashed, phase>>

SetCompressionCall(t) ==
  \E c \in Compressions : SetCall(t, [cmp |-> c, crc |-> FALSE, what |-> "cmp"])

SetIntegrityCall(t) ==
  \E b \in BOOLEAN : SetCall(t, [cmp |-> {}, crc |-> b, what |-> "crc"])

----------------------------------------------------------------------------
(* The setters: three separate atomic updates of the shared word, then the  *)
(* token is composed from a fresh read of it.                               *)

\* m_status_bits.fetch_and(~mask | flags)
FetchAnd(t) ==
  /\ pc[t] = "and"
  /\ statusBits' = IF want[t].what = "cmp"
                     THEN [statusBits EXCEPT !.cmp = @ \cap want[t].cmp]
                     ELSE [statusBits EXCEPT !.crc = @ /\ want[t].crc]
  /\ Goto(t, "or")
  /\ UNCHANGED <<mutex, sinkVars, callVars, privateVars, lifeVars>>

\* m_status_bits.fetch_or(mask & flags)
FetchOr(t) ==
  /\ pc[t] = "or"
  /\ statusBits' = IF want[t].what = "cmp"
                     THEN [statusBits EXCEPT !.cmp = @ \cup want[t].cmp]
                     ELSE [statusBits EXCEPT !.crc = @ \/ want[t].crc]
  /\ Goto(t, IF want[t].what = "cmp" /\ want[t].cmp # {} THEN "repos" ELSE "token")
  /\ UNCHANGED <<mutex, sinkVars, callVars, privateVars, lifeVars>>

\* m_status_bits.fetch_or(k_can_reposition), only when compression is on
FetchRepos(t) ==
  /\ pc[t] = "repos"
  /\ statusBits' = [statusBits EXCEPT !.repos = TRUE]
  /\ Goto(t, "token")
  /\ UNCHANGED <<mutex, sinkVars, callVars, privateVars, lifeVars>>

\* The token is composed from the shared word.
MakeToken(t) ==
  /\ pc[t] = "token"
  /\ item' = [item EXCEPT ![t] = [tok |-> TRUE, by |-> t, n |-> 0, bits |-> statusBits]]
  /\ Goto(t, "lock")
  /\ UNCHANGED <<sharedVars, sinkVars, op, want, why, newcmp, privateVars, lifeVars>>

----------------------------------------------------------------------------
(* lock_streambufs: what is locked depends on the thread's private status.  *)

AfterLock(t) == IF op[t] = "set" THEN "put" ELSE "update"

\* No compression: the thread takes the mutex itself.
LockSink(t) ==
  /\ pc[t] = "lock" /\ mutexLock[t] = 0
  /\ status[t].cmp = {}
  /\ mutex = NoThread
  /\ mutex' = t
  /\ mutexLock' = [mutexLock EXCEPT ![t] = 1]
  /\ Goto(t, AfterLock(t))
  /\ UNCHANGED <<statusBits, sinkVars, callVars, status, xcmp, lifeVars>>

\* Variant: mutex_lock is numbered by the bit of the compression.
LockLendByBit(t) ==
  /\ pc[t] = "lock" /\ mutexLock[t] = 0
  /\ KindOf(status[t].cmp) \in Codecs
  /\ IF xcmp[t].kind = "none"
       THEN crashed' = TRUE /\ UNCHANGED <<pc, xcmp, mutexLock>>
       ELSE /\ xcmp' = [xcmp EXCEPT ![t].mtx = TRUE]
            /\ mutexLock' = [mutexLock EXCEPT ![t] = IF status[t].cmp = {"z"} THEN 2 ELSE 4]
            /\ Goto(t, AfterLock(t))
            /\ UNCHANGED crashed
  /\ UNCHANGED <<sharedVars, sinkVars, callVars, status, written, settings, phase>>

\* z or bz2: the compressor is lent the mutex; it is fetched through the
\* private pointer m_xcmp without a check.
LockLend(t) ==
  /\ pc[t] = "lock" /\ mutexLock[t] = 0
  /\ KindOf(status[t].cmp) \in Codecs
  /\ IF xcmp[t].kind = "none"
       THEN crashed' = TRUE /\ UNCHANGED <<pc, xcmp, mutexLock>>
       ELSE /\ xcmp' = [xcmp EXCEPT ![t].mtx = TRUE]
            /\ mutexLock' = [mutexLock EXCEPT ![t] = IF status[t].cmp = {"z"} THEN 2 ELSE 3]
            /\ Goto(t, AfterLock(t))
            /\ UNCHANGED crashed
  /\ UNCHANGED <<sharedVars, sinkVars, callVars, status, written, settings, phase>>

\* Any other private status: nothing is locked at all.
LockNothing(t) ==
  /\ pc[t] = "lock" /\ mutexLock[t] = 0
  /\ status[t].cmp = Codecs
  /\ mutexLock' = [mutexLock EXCEPT ![t] = -1]
  /\ Goto(t, AfterLock(t))
  /\ UNCHANGED <<sharedVars, sinkVars, callVars, status, xcmp, lifeVars>>

\* Variant: mutex_lock is not reset.
ReleaseWithoutReset(t) ==
  /\ mutex' = IF mutexLock[t] = 1 THEN NoThread ELSE mutex
  /\ xcmp' = IF mutexLock[t] \in {2, 3} THEN [xcmp EXCEPT ![t].mtx = FALSE] ELSE xcmp
  /\ UNCHANGED <<mutexLock, crashed>>

\* Variant: the compressor keeps the mutex it was lent.
ReleaseWithoutReturn(t) ==
  /\ mutex' = IF mutexLock[t] = 1 THEN NoThread ELSE mutex
  /\ mutexLock' = [mutexLock EXCEPT ![t] = 0]
  /\ UNCHANGED <<xcmp, crashed>>

\* Variant: the mutex itself stays locked.
ReleaseWithoutUnlock(t) ==
  /\ mutexLock' = [mutexLock EXCEPT ![t] = 0]
  /\ xcmp' = IF mutexLock[t] \in {2, 3} THEN [xcmp EXCEPT ![t].mtx = FALSE] ELSE xcmp
  /\ UNCHANGED <<mutex, crashed>>

\* What unlock_streambufs does to the mutex, the compressor and mutex_lock.
ReleaseStreambufs(t) ==
  /\ mutex' = IF mutexLock[t] = 1 THEN NoThread ELSE mutex
  /\ IF mutexLock[t] \in {2, 3} /\ xcmp[t].kind = "none"
       THEN crashed' = TRUE /\ UNCHANGED <<xcmp, mutexLock>>
       ELSE /\ xcmp' = IF mutexLock[t] \in {2, 3}
                         THEN [xcmp EXCEPT ![t].mtx = FALSE] ELSE xcmp
            /\ mutexLock' = [mutexLock EXCEPT ![t] = 0]
            /\ UNCHANGED crashed

\* A lock left over by an earlier exception: it is released and the call fails.
LockFails(t) ==
  /\ pc[t] = "lock" /\ mutexLock[t] # 0
  /\ ReleaseStreambufs(t)
  /\ op' = [op EXCEPT ![t] = "none"]
  /\ Goto(t, "idle")
  /\ UNCHANGED <<statusBits, sinkVars, want, item, why, newcmp, status,
                 written, settings, phase>>

----------------------------------------------------------------------------
(* update_streambufs and configure_streambufs: three reads of the shared    *)
(* word, between which it may change.                                       *)

AfterUpdate(t) == IF op[t] = "set" THEN "unlock" ELSE "put"

\* update_streambufs: the first of the three reads.
Update(t) ==
  /\ pc[t] = "update"
  /\ Goto(t, IF statusBits = status[t] THEN AfterUpdate(t) ELSE "reconf")
  /\ UNCHANGED <<sharedVars, sinkVars, callVars, privateVars, lifeVars>>

\* newcmp is read.  If the private status names a compression the old compressor
\* is deleted, which makes it write its open block (delete of a null pointer does
\* nothing).
Reconfigure(t) ==
  /\ pc[t] = "reconf"
  /\ newcmp' = [newcmp EXCEPT ![t] = statusBits.cmp]
  /\ IF statusBits.cmp = status[t].cmp THEN Goto(t, "adopt") /\ UNCHANGED why
     ELSE IF status[t].cmp # {} /\ xcmp[t].kind # "none"
       THEN Goto(t, "block") /\ why' = [why EXCEPT ![t] = "drain"]
       ELSE Goto(t, "build") /\ UNCHANGED why
  /\ UNCHANGED <<sharedVars, sinkVars, op, want, item, privateVars, lifeVars>>

\* Variant: bz2 is recognized, but no compressor is built for it.
BuildZOnly(t) ==
  /\ pc[t] = "build"
  /\ xcmp' = [xcmp EXCEPT ![t] = IF newcmp[t] = {"z"} THEN NewXcmp("z") ELSE NoXcmp]
  /\ Goto(t, "adopt")
  /\ UNCHANGED <<sharedVars, sinkVars, callVars, status, mutexLock, lifeVars>>

\* The new compressor is built; one that a private status without compression
\* does not tell of is overwritten, its open block with it.  Two compressions at
\* once are refused with an exception that leaves mutex_lock as it is.
Build(t) ==
  /\ pc[t] = "build"
  /\ IF newcmp[t] = Codecs
       THEN /\ xcmp' = [xcmp EXCEPT ![t] = IF status[t].cmp = {} THEN @ ELSE NoXcmp]
            /\ op' = [op EXCEPT ![t] = "none"]
            /\ Goto(t, "idle")
       ELSE /\ xcmp' = [xcmp EXCEPT ![t] = NewXcmp(KindOf(newcmp[t]))]
            /\ Goto(t, "adopt")
            /\ UNCHANGED op
  /\ UNCHANGED <<sharedVars, sinkVars, want, item, why, newcmp,
                 status, mutexLock, lifeVars>>

\* MY(status_bits) = m_status_bits
Adopt(t) ==
  /\ pc[t] = "adopt"
  /\ status' = [status EXCEPT ![t] = statusBits]
  /\ Goto(t, AfterUpdate(t))
  /\ UNCHANGED <<sharedVars, sinkVars, callVars, xcmp, mutexLock, lifeVars>>

----------------------------------------------------------------------------
(* Writing: straight to the sink, or into the open block of the compressor. *)

AfterPut(t) == IF op[t] = "set" THEN "flush" ELSE "unlock"

\* A record is stamped with the private status: it carries a crc or not.
Stamped(t) ==
  IF item[t].tok THEN item[t] ELSE [item[t] EXCEPT !.bits = status[t]]

PutRaw(t) ==
  /\ pc[t] = "put" /\ xcmp[t].kind = "none"
  /\ item' = [item EXCEPT ![t] = Stamped(t)]
  /\ Goto(t, "raw")
  /\ UNCHANGED <<sharedVars, sinkVars, op, want, why, newcmp, privateVars, lifeVars>>

\* The bytes are in the sink.
RawDone(t) ==
  /\ pc[t] = "raw"
  /\ Emit("none", <<item[t]>>)
  /\ Goto(t, AfterPut(t))
  /\ UNCHANGED <<sharedVars, callVars, privateVars, lifeVars>>

\* xsputn and flush(no_sync): the open block grows, and is closed when it has
\* grown beyond the limit.
PutBlock(t) ==
  /\ pc[t] = "put" /\ xcmp[t].kind # "none"
  /\ \E size \in IF item[t].tok THEN {TokenSize} ELSE RecordSizes :
       /\ xcmp' = [xcmp EXCEPT ![t].pending = Append(@, Stamped(t)),
                               ![t].offset = @ + size]
       /\ IF xcmp[t].offset + size > BlockLimit[xcmp[t].kind]
            THEN Goto(t, "block") /\ why' = [why EXCEPT ![t] = "full"]
            ELSE Goto(t, AfterPut(t)) /\ UNCHANGED why
  /\ UNCHANGED <<sharedVars, sinkVars, op, want, item, newcmp, status, mutexLock, lifeVars>>

\* Variant: the compressor writes its block without the mutex.
BlockLockNever(t) ==
  /\ pc[t] = "block"
  /\ Goto(t, "emit")
  /\ UNCHANGED <<sharedVars, sinkVars, callVars, privateVars, lifeVars>>

\* MUTEX_LOCK: the compressor takes the mutex if it was lent it, and otherwise
\* counts on its thread holding it.
BlockLock(t) ==
  /\ pc[t] = "block"
  /\ IF xcmp[t].mtx THEN mutex = NoThread /\ mutex' = t ELSE UNCHANGED mutex
  /\ Goto(t, "emit")
  /\ UNCHANGED <<statusBits, sinkVars, callVars, privateVars, lifeVars>>

\* Variant: the compressor is not reinitialized after its block.
BlockDoneTwice(t) ==
  /\ pc[t] = "emit"
  /\ Emit(xcmp[t].kind, xcmp[t].pending)
  /\ mutex' = IF xcmp[t].mtx THEN NoThread ELSE mutex
  /\ Goto(t, CASE why[t] = "full"  -> AfterPut(t)
               [] why[t] = "sync"  -> "update"
               [] why[t] = "drain" -> "build")
  /\ UNCHANGED <<statusBits, callVars, privateVars, lifeVars>>

\* The size word and the block are in the sink; MUTEX_UNLOCK.  The call goes
\* on where the compressor was asked to write.
BlockDone(t) ==
  /\ pc[t] = "emit"
  /\ Emit(xcmp[t].kind, xcmp[t].pending)
  /\ xcmp' = [xcmp EXCEPT ![t].pending = << >>, ![t].offset = 0]
  /\ mutex' = IF xcmp[t].mtx THEN NoThread ELSE mutex
  /\ Goto(t, CASE why[t] = "full"  -> AfterPut(t)
               [] why[t] = "sync"  -> "update"
               [] why[t] = "drain" -> "build")
  /\ UNCHANGED <<statusBits, callVars, status, mutexLock, lifeVars>>

\* Variant: the setter leaves the token in the open block.
FlushSkipped(t) ==
  /\ pc[t] = "flush"
  /\ Goto(t, "update")
  /\ UNCHANGED <<sharedVars, sinkVars, callVars, privateVars, lifeVars>>

\* Only setters flush: the compressor's sync takes the mutex, writes the open
\* block if there is one, and flushes the sink.
Flush(t) ==
  /\ pc[t] = "flush"
  /\ IF xcmp[t].kind = "none"
       THEN Goto(t, "update") /\ UNCHANGED why
       ELSE Goto(t, "block") /\ why' = [why EXCEPT ![t] = "sync"]
  /\ UNCHANGED <<sharedVars, sinkVars, op, want, item, newcmp, privateVars, lifeVars>>

\* operator<< asks the compressor for its block position, again through the
\* unchecked private pointer, before it unlocks and returns.
Unlock(t) ==
  /\ pc[t] = "unlock"
  /\ IF op[t] = "write" /\ status[t].cmp # {} /\ xcmp[t].kind = "none"
       THEN crashed' = TRUE /\ UNCHANGED <<mutex, xcmp, mutexLock>>
       ELSE ReleaseStreambufs(t)
  /\ written' = [written EXCEPT ![t] = IF op[t] = "write" THEN @ + 1 ELSE @]
  /\ op' = [op EXCEPT ![t] = "none"]
  /\ Goto(t, "idle")
  /\ UNCHANGED <<statusBits, sinkVars, want, item, why, newcmp, status, settings, phase>>

----------------------------------------------------------------------------
(* The destructor, called when no thread is inside the library: it closes   *)
(* the open block of every thread, one after the other.                     *)

CloseCall ==
  /\ phase = "open" /\ ~crashed
  /\ \A t \in Threads : pc[t] = "idle"
  /\ phase' = "closing"
  /\ UNCHANGED <<sharedVars, sinkVars, pc, callVars, privateVars, written, settings, crashed>>

\* Variant: the compressor is dropped without writing its open block.
CloseWithoutSync(t) ==
  /\ phase = "closing"
  /\ xcmp[t].kind # "none"
  /\ xcmp' = [xcmp EXCEPT ![t] = NoXcmp]
  /\ UNCHANGED <<sharedVars, sinkVars, pc, callVars, status, mutexLock, lifeVars>>

\* One thread's compressor: pubsync, then delete.
CloseThread(t) ==
  /\ phase = "closing"
  /\ xcmp[t].kind # "none"
  /\ Emit(xcmp[t].kind, xcmp[t].pending)
  /\ xcmp' = [xcmp EXCEPT ![t] = NoXcmp]
  /\ UNCHANGED <<sharedVars, pc, callVars, status, mutexLock, lifeVars>>

CloseDone ==
  /\ phase = "closing"
  /\ \A t \in Threads : xcmp[t].kind = "none"
  /\ phase' = "closed"
  /\ UNCHANGED <<sharedVars, sinkVars, pc, callVars, privateVars, written, settings, crashed>>

----------------------------------------------------------------------------
Init ==
  /\ statusBits = DefaultStatus
  /\ mutex = NoThread
  /\ sink = << >>
  /\ replay = ReplayStart
  /\ pc = [t \in Threads |-> "idle"]
  /\ op = [t \in Threads |-> "none"]
  /\ want = [t \in Threads |-> NoWant]
  /\ item = [t \in Threads |-> NoItem]
  /\ why = [t \in Threads |-> "full"]
  /\ newcmp = [t \in Threads |-> {}]
  /\ status = [t \in Threads |-> DefaultStatus]
  /\ xcmp = [t \in Threads |-> NoXcmp]
  /\ mutexLock = [t \in Threads |-> 0]
  /\ written = [t \in Threads |-> 0]
  /\ settings = 0
  /\ crashed = FALSE
  /\ phase = "open"

\* The steps of a call in progress.
Acquire(t) == LockSink(t) \/ BlockLock(t)

Proceed(t) ==
  /\ ~crashed
  /\ \/ FetchAnd(t) \/ FetchOr(t) \/ FetchRepos(t) \/ MakeToken(t)
     \/ LockLend(t) \/ LockNothing(t) \/ LockFails(t)
     \/ Update(t) \/ Reconfigure(t) \/ Build(t) \/ Adopt(t)
     \/ PutRaw(t) \/ RawDone(t) \/ PutBlock(t) \/ BlockDone(t)
     \/ Flush(t) \/ Unlock(t)

Call(t) == WriteCall(t) \/ SetCompressionCall(t) \/ SetIntegrityCall(t)

Close == CloseCall \/ CloseDone \/ \E t \in Threads : CloseThread(t)

Next ==
  \/ \E t \in Threads : Call(t) \/ (~crashed /\ Acquire(t)) \/ Proceed(t)
  \/ Close

Spec == Init /\ [][Next]_vars

\* A call in progress runs as long as its thread is scheduled.  The mutex is
\* not granted in the order of arrival, but a thread that keeps asking while
\* others take turns gets it some time.
Fairness ==
  \A t \in Threads : WF_vars(Proceed(t)) /\ SF_vars(~crashed /\ Acquire(t))

LiveSpec == Spec /\ Fairness

----------------------------------------------------------------------------
(* Properties.                                                              *)

\* The type invariant of the variables above.
TypeOK ==
  /\ statusBits \in Status
  /\ mutex \in Threads \cup {NoThread}
  /\ sink \in Seq([kind : Codecs \cup {"none"}, items : Seq(Item)])
  /\ replay \in [bits : Status, ok : BOOLEAN]
  /\ pc \in [Threads -> Labels]
  /\ op \in [Threads -> {"none", "write", "set"}]
  /\ want \in [Threads -> Wants]
  /\ item \in [Threads -> Item]
  /\ why \in [Threads -> {"full", "sync", "drain"}]
  /\ newcmp \in [Threads -> SUBSET Codecs]
  /\ status \in [Threads -> Status]
  /\ xcmp \in [Threads -> Xcmp]
  /\ mutexLock \in [Threads -> {-1, 0, 1, 2, 3}]
  /\ written \in [Threads -> Nat]
  /\ settings \in Nat
  /\ crashed \in BOOLEAN
  /\ phase \in {"open", "closing", "closed"}

\* The record MY(mutex_lock) keeps of what lock_streambufs locked is truthful
\* whatever the callers do, through every early exit: 1 means that this thread
\* holds the mutex, a compressor takes the mutex only while it is lent it and
\* never when its own thread already holds it (unlock_streambufs and the
\* MUTEX macros of xstream would otherwise unlock the mutex of another thread,
\* or block on their own).
MutexTruthful ==
  \A t \in Threads :
    /\ mutex = t <=> mutexLock[t] = 1 \/ (pc[t] = "emit" /\ xcmp[t].mtx)
    /\ xcmp[t].mtx => mutexLock[t] \in {2, 3}

\* Threads whose bytes are on their way into the user's std::ostream.
InSink == {t \in Threads : pc[t] \in {"raw", "emit"}}

\* Two threads never write to the sink at the same time: the sink is a plain
\* std::ostream, and its only protection is the mutex of the ostream.
SinkExclusive == \A t, u \in InSink : t = u

\* A reader that takes the entries in the order of the file finds each of them
\* encoded as the last configuration token before it announced: every change
\* of m_status_bits reaches the file before the first record that obeys it,
\* and no block of an earlier configuration comes after it.
Framed == replay.ok

\* No thread dereferences its compressor pointer while it is null:
\* lock_streambufs, operator<< and unlock_streambufs rely on MY(status_bits)
\* or MY(mutex_lock) to know that there is one.
NoCrash == ~crashed

\* Between two calls, a thread leaves nothing locked and its private status
\* describes the compressor it has.
Quiescent ==
  \A t \in Threads :
    pc[t] = "idle" => /\ mutexLock[t] = 0
                      /\ mutex # t
                      /\ ~xcmp[t].mtx
                      /\ phase = "open" => xcmp[t].kind = KindOf(status[t].cmp)

\* Every call returns: the mutex that a compressor takes for a block under the
\* call of its thread never closes a cycle, and no exit path keeps it.
CallsReturn == \A t \in Threads : pc[t] # "idle" ~> pc[t] = "idle"
================================================================================
