--------------------------- MODULE HddmOstreamProofs ---------------------------
(***************************************************************************)
(* Theorems about HddmOstream, for any number of threads, records and      *)
(* settings and for blocks of any size.                                    *)
(***************************************************************************)
EXTENDS HddmOstream, TLAPS

----------------------------------------------------------------------------
(* Invariants the theorems need beyond the properties themselves.           *)

\* A thread is inside the library exactly while it executes an operation, and
\* only setters change the shared word or flush.
PcMatchesOp ==
  \A t \in Threads :
    /\ pc[t] = "idle" <=> op[t] = "none"
    /\ pc[t] \in {"and", "or", "repos", "token", "flush"} => op[t] = "set"

\* The destructor runs alone.
ClosingAlone == phase # "open" => \A t \in Threads : pc[t] = "idle"

MutexInv == TypeOK /\ PcMatchesOp /\ ClosingAlone /\ MutexTruthful

\* What follows holds while the stream is configured by its opener only,
\* before the other threads use it.

\* The setter is the opener, and the others have not used the stream yet.
SetterAlone ==
  \A t \in Threads : op[t] = "set" =>
    t = Opener /\ \A u \in Threads \ {t} : Fresh(u)

\* Compression is never switched off, and at most one is on.
WantOK(t) ==
  /\ want[t].cmp # Codecs
  /\ op[t] = "set" /\ want[t].what = "cmp" => want[t].cmp # {}

SettingCmp(t) == pc[t] = "or" /\ want[t].what = "cmp"

StatusOK(t) ==
  /\ status[t].cmp # Codecs
  /\ SettingCmp(t) => statusBits.cmp \subseteq want[t].cmp
  /\ status[t].cmp # {} /\ ~SettingCmp(t) => statusBits.cmp # {}

\* What the compressor of a thread writes its open block for.
Filling(t) == pc[t] \in {"block", "emit"} /\ why[t] = "full"
Replacing(t) == pc[t] \in {"block", "emit"} /\ why[t] = "drain"

\* The private status of a thread is the shared one, unless it sets it or is
\* about to adopt it for the first time.
SyncOK(t) ==
  /\ status[t] = statusBits \/ op[t] = "set" \/ (t # Opener /\ status[t] = DefaultStatus)
  /\ pc[t] = "unlock" => status[t] = statusBits
  /\ op[t] = "write" /\ (pc[t] \in {"put", "raw"} \/ Filling(t)) => status[t] = statusBits
  /\ t # Opener /\ Fresh(t) => status[t] = DefaultStatus

\* The compressor is the one the private status names, except while it is
\* being replaced by the one the shared status names.
XcmpOK(t) ==
  /\ pc[t] = "build" \/ Replacing(t) => newcmp[t] = statusBits.cmp
  /\ pc[t] = "adopt" => xcmp[t].kind = KindOf(statusBits.cmp)
  /\ pc[t] \notin {"build", "adopt"} /\ ~Replacing(t) /\ phase = "open"
       => xcmp[t].kind = KindOf(status[t].cmp)

\* What lock_streambufs locked, seen from any later point of the operation.
Unlocked == {"idle", "and", "or", "repos", "token", "lock"}

LockOK(t) ==
  /\ pc[t] \in Unlocked => mutexLock[t] = 0
  /\ pc[t] \notin Unlocked =>
       /\ mutexLock[t] \in {1, 2, 3}
       /\ mutexLock[t] # 1 => status[t].cmp # {}
       /\ op[t] = "write" /\ mutexLock[t] # 1 => xcmp[t].mtx /\ status[t] = statusBits
  /\ op[t] = "write" /\ (pc[t] \in {"raw", "reconf", "build", "adopt"} \/ Replacing(t))
       => mutexLock[t] = 1

ThreadOK(t) == WantOK(t) /\ StatusOK(t) /\ SyncOK(t) /\ XcmpOK(t) /\ LockOK(t)

OpenInv ==
  /\ MutexInv
  /\ SetterAlone
  /\ statusBits.cmp # Codecs
  /\ \A t \in Threads : ThreadOK(t)
  /\ NoCrash

----------------------------------------------------------------------------
(* Type correctness.                                                        *)

LEMMA ConstantTypes ==
  /\ DefaultStatus \in Status
  /\ NoItem \in Item
  /\ NoWant \in Wants
  /\ NoXcmp \in Xcmp
<1>1. DefaultStatus \in Status  BY DEF DefaultStatus, Status, Codecs
<1>2. NoItem \in Item  BY <1>1, OpenerAssumption DEF NoItem, Item
<1>3. NoWant \in Wants  BY DEF NoWant, Wants
<1>4. NoXcmp \in Xcmp  BY DEF NoXcmp, Xcmp
<1> QED BY <1>1, <1>2, <1>3, <1>4

LEMMA KindTypes ==
  ASSUME NEW cmp \in SUBSET Codecs
  PROVE  KindOf(cmp) \in Codecs \cup {"none"} /\ NewXcmp(KindOf(cmp)) \in Xcmp
<1>1. KindOf(cmp) \in Codecs \cup {"none"}  BY DEF KindOf, Codecs
<1>2. NoXcmp \in Xcmp  BY ConstantTypes
<1> QED BY <1>1, <1>2 DEF NewXcmp, Xcmp

\* Assignments to single fields of a compressor.
LEMMA XcmpLent ==
  ASSUME NEW x \in Xcmp, NEW lent \in BOOLEAN
  PROVE  [x EXCEPT !.mtx = lent] \in Xcmp
BY DEF Xcmp

LEMMA XcmpBlock ==
  ASSUME NEW x \in Xcmp, NEW items \in Seq(Item), NEW size \in Nat
  PROVE  [x EXCEPT !.pending = items, !.offset = size] \in Xcmp
BY DEF Xcmp

LEMMA StampedType == ASSUME TypeOK, NEW t \in Threads  PROVE Stamped(t) \in Item
<1>1. item[t] \in Item /\ status[t] \in Status  BY DEF TypeOK
<1>2. [item[t] EXCEPT !.bits = status[t]] \in Item  BY <1>1 DEF Item
<1> QED BY <1>1, <1>2 DEF Stamped

Entry == [kind : Codecs \cup {"none"}, items : Seq(Item)]

LEMMA EmitTypes ==
  ASSUME sink \in Seq(Entry), replay \in [bits : Status, ok : BOOLEAN],
         NEW kind \in Codecs \cup {"none"}, NEW items \in Seq(Item),
         Emit(kind, items)
  PROVE  sink' \in Seq(Entry) /\ replay' \in [bits : Status, ok : BOOLEAN]
<1> DEFINE entry == [kind |-> kind, items |-> items]
<1>1. entry \in Entry  BY DEF Entry
<1>2. BitsAfter(replay.bits, entry) \in Status
  <2>1. CASE Len(items) > 0
    <3>1. items[Len(items)] \in Item  BY <2>1
    <3> QED BY <3>1 DEF BitsAfter, Item
  <2>2. CASE ~(Len(items) > 0)
    BY <2>2 DEF BitsAfter
  <2> QED BY <2>1, <2>2
<1>3. Fits(replay.bits, entry) \in BOOLEAN
  BY DEF Fits
<1>4. CASE items = << >>
  BY <1>4 DEF Emit, sinkVars
<1>5. CASE items # << >>
  <2> HIDE DEF entry
  <2>1. sink' = Append(sink, entry)
    BY <1>5 DEF Emit, entry
  <2>2. replay' = [bits |-> BitsAfter(replay.bits, entry),
                   ok   |-> replay.ok /\ Fits(replay.bits, entry)]
    BY <1>5 DEF Emit, ReplayStep, entry
  <2> QED BY <1>1, <1>2, <1>3, <2>1, <2>2
<1> QED BY <1>4, <1>5

LEMMA ReleaseTypes ==
  ASSUME TypeOK, NEW t \in Threads, ReleaseStreambufs(t)
  PROVE  /\ mutex' \in Threads \cup {NoThread}
         /\ xcmp' \in [Threads -> Xcmp]
         /\ mutexLock' \in [Threads -> {-1, 0, 1, 2, 3}]
         /\ crashed' \in BOOLEAN
<1>1. [xcmp[t] EXCEPT !.mtx = FALSE] \in Xcmp  BY XcmpLent DEF TypeOK
<1>2. xcmp' \in [Threads -> Xcmp]  BY <1>1 DEF TypeOK, ReleaseStreambufs
<1> QED BY <1>2 DEF TypeOK, ReleaseStreambufs

LEMMA TypeStep ==
  ASSUME TypeOK, [Next]_vars
  PROVE  TypeOK'
<1> USE DEF Goto, Labels
<1>1. ASSUME NEW t \in Threads, WriteCall(t)  PROVE TypeOK'
  BY <1>1, ConstantTypes DEF TypeOK, WriteCall, Enter, Item,
     sharedVars, sinkVars, privateVars, lifeVars
<1>2. ASSUME NEW t \in Threads, NEW w \in Wants, SetCall(t, w)  PROVE TypeOK'
  <2>1. settings' \in Nat  BY <1>2 DEF TypeOK, SetCall
  <2>2. /\ op' \in [Threads -> {"none", "write", "set"}]
        /\ want' \in [Threads -> Wants]
        /\ pc' \in [Threads -> Labels]
    <3>1. CASE UNCHANGED <<op, want, pc>>
      BY <3>1 DEF TypeOK
    <3>2. CASE /\ op' = [op EXCEPT ![t] = "set"]
               /\ want' = [want EXCEPT ![t] = w]
               /\ pc' = [pc EXCEPT ![t] = "and"]
      BY <3>2 DEF TypeOK
    <3> QED BY <1>2, <3>1, <3>2 DEF SetCall
  <2> QED BY <1>2, <2>1, <2>2 DEF TypeOK, SetCall, sharedVars, sinkVars, privateVars
<1>3. ASSUME NEW t \in Threads, FetchAnd(t)  PROVE TypeOK'
  BY <1>3 DEF TypeOK, FetchAnd, Status, Wants,
     sinkVars, callVars, privateVars, lifeVars
<1>4. ASSUME NEW t \in Threads, FetchOr(t)  PROVE TypeOK'
  BY <1>4 DEF TypeOK, FetchOr, Status, Wants,
     sinkVars, callVars, privateVars, lifeVars
<1>5. ASSUME NEW t \in Threads, FetchRepos(t)  PROVE TypeOK'
  BY <1>5 DEF TypeOK, FetchRepos, Status,
     sinkVars, callVars, privateVars, lifeVars
<1>6. ASSUME NEW t \in Threads, MakeToken(t)  PROVE TypeOK'
  BY <1>6 DEF TypeOK, MakeToken, Item, sharedVars, sinkVars, privateVars, lifeVars
<1>7. ASSUME NEW t \in Threads, LockSink(t)  PROVE TypeOK'
  BY <1>7 DEF TypeOK, LockSink, AfterLock, sinkVars, callVars, lifeVars
<1>8. ASSUME NEW t \in Threads, LockLend(t)  PROVE TypeOK'
  <2>1. [xcmp[t] EXCEPT !.mtx = TRUE] \in Xcmp  BY XcmpLent DEF TypeOK
  <2>2. xcmp' \in [Threads -> Xcmp]  BY <1>8, <2>1 DEF TypeOK, LockLend
  <2> QED BY <1>8, <2>2, ZenonT(60) DEF TypeOK, LockLend, AfterLock, sharedVars, sinkVars, callVars
<1>9. ASSUME NEW t \in Threads, LockNothing(t)  PROVE TypeOK'
  BY <1>9 DEF TypeOK, LockNothing, AfterLock, sharedVars, sinkVars, callVars, lifeVars
<1>10. ASSUME NEW t \in Threads, LockFails(t)  PROVE TypeOK'
  <2>1. ReleaseStreambufs(t)  BY <1>10 DEF LockFails
  <2> QED BY <1>10, <2>1, ReleaseTypes DEF TypeOK, LockFails, sinkVars
<1>11. ASSUME NEW t \in Threads, Update(t)  PROVE TypeOK'
  BY <1>11 DEF TypeOK, Update, AfterUpdate,
     sharedVars, sinkVars, callVars, privateVars, lifeVars
<1>12. ASSUME NEW t \in Threads, Reconfigure(t)  PROVE TypeOK'
  BY <1>12, ZenonT(60) DEF TypeOK, Reconfigure, Status, sharedVars, sinkVars, privateVars, lifeVars
<1>13. ASSUME NEW t \in Threads, Build(t)  PROVE TypeOK'
  <2>1. NoXcmp \in Xcmp /\ NewXcmp(KindOf(newcmp[t])) \in Xcmp
    BY ConstantTypes, KindTypes DEF TypeOK
  <2>2. xcmp' \in [Threads -> Xcmp]
    <3>1. xcmp \in [Threads -> Xcmp]  BY DEF TypeOK
    <3>2. PICK x \in Xcmp : xcmp' = [xcmp EXCEPT ![t] = x]
      BY <1>13, <2>1, <3>1 DEF Build
    <3> QED BY <3>1, <3>2
  <2> QED BY <1>13, <2>2 DEF TypeOK, Build, sharedVars, sinkVars, lifeVars
<1>14. ASSUME NEW t \in Threads, Adopt(t)  PROVE TypeOK'
  BY <1>14 DEF TypeOK, Adopt, AfterUpdate, sharedVars, sinkVars, callVars, lifeVars
<1>15. ASSUME NEW t \in Threads, PutRaw(t)  PROVE TypeOK'
  BY <1>15, StampedType DEF TypeOK, PutRaw, sharedVars, sinkVars, privateVars, lifeVars
<1>16. ASSUME NEW t \in Threads, RawDone(t)  PROVE TypeOK'
  <2>1. <<item[t]>> \in Seq(Item)  BY DEF TypeOK
  <2>2. /\ sink' \in Seq(Entry)
        /\ replay' \in [bits : Status, ok : BOOLEAN]
    BY <1>16, <2>1, EmitTypes DEF TypeOK, RawDone, Entry
  <2> QED BY <1>16, <2>2 DEF TypeOK, RawDone, AfterPut, Entry,
             sharedVars, callVars, privateVars, lifeVars
<1>17. ASSUME NEW t \in Threads, PutBlock(t)  PROVE TypeOK'
  <2>1. Append(xcmp[t].pending, Stamped(t)) \in Seq(Item) /\ xcmp[t].offset \in Nat
    BY StampedType DEF TypeOK, Xcmp
  <2>2. PICK size \in Nat :
          xcmp' = [xcmp EXCEPT ![t].pending = Append(@, Stamped(t)),
                               ![t].offset = @ + size]
    BY <1>17, SizesAssumption DEF PutBlock
  <2>3. xcmp' \in [Threads -> Xcmp]
    <3>1. [xcmp[t] EXCEPT !.pending = Append(@, Stamped(t)), !.offset = @ + size] \in Xcmp
      <4>1. xcmp[t] \in Xcmp  BY DEF TypeOK
      <4>2. xcmp[t].offset + size \in Nat  BY <2>1
      <4> QED BY <2>1, <4>1, <4>2, XcmpBlock
    <3> QED BY <2>2, <3>1 DEF TypeOK
  <2>4. /\ pc' \in [Threads -> Labels]
        /\ why' \in [Threads -> {"full", "sync", "drain"}]
    BY <1>17, ZenonT(60) DEF TypeOK, PutBlock, AfterPut
  <2> QED BY <1>17, <2>3, <2>4 DEF TypeOK, PutBlock, sharedVars, sinkVars, lifeVars
<1>18. ASSUME NEW t \in Threads, BlockLock(t)  PROVE TypeOK'
  BY <1>18 DEF TypeOK, BlockLock, sinkVars, callVars, privateVars, lifeVars
<1>19. ASSUME NEW t \in Threads, BlockDone(t)  PROVE TypeOK'
  <2>1. /\ sink' \in Seq(Entry)
        /\ replay' \in [bits : Status, ok : BOOLEAN]
    BY <1>19, EmitTypes DEF TypeOK, BlockDone, Xcmp, Entry
  <2>2. xcmp' \in [Threads -> Xcmp]
    <3>1. [xcmp[t] EXCEPT !.pending = << >>, !.offset = 0] \in Xcmp
      <4>1. xcmp[t] \in Xcmp /\ << >> \in Seq(Item)  BY DEF TypeOK
      <4> QED BY <4>1, XcmpBlock
    <3> QED BY <1>19, <3>1 DEF TypeOK, BlockDone
  <2>3. pc' \in [Threads -> Labels]  BY <1>19 DEF TypeOK, BlockDone, AfterPut
  <2> QED BY <1>19, <2>1, <2>2, <2>3 DEF TypeOK, Entry, BlockDone, callVars, lifeVars
<1>20. ASSUME NEW t \in Threads, Flush(t)  PROVE TypeOK'
  BY <1>20 DEF TypeOK, Flush, sharedVars, sinkVars, privateVars, lifeVars
<1>21. ASSUME NEW t \in Threads, Unlock(t)  PROVE TypeOK'
  <2>1. /\ mutex' \in Threads \cup {NoThread}
        /\ xcmp' \in [Threads -> Xcmp]
        /\ mutexLock' \in [Threads -> {-1, 0, 1, 2, 3}]
        /\ crashed' \in BOOLEAN
    BY <1>21, ReleaseTypes DEF TypeOK, Unlock
  <2>2. written' \in [Threads -> Nat]  BY <1>21 DEF TypeOK, Unlock
  <2> QED BY <1>21, <2>1, <2>2 DEF TypeOK, Unlock, sinkVars
<1>22. ASSUME CloseCall  PROVE TypeOK'
  BY <1>22 DEF TypeOK, CloseCall, sharedVars, sinkVars, callVars, privateVars
<1>23. ASSUME NEW t \in Threads, CloseThread(t)  PROVE TypeOK'
  <2>1. /\ sink' \in Seq(Entry)
        /\ replay' \in [bits : Status, ok : BOOLEAN]
    BY <1>23, EmitTypes DEF TypeOK, CloseThread, Xcmp, Entry
  <2> QED BY <1>23, <2>1, ConstantTypes DEF TypeOK, Entry, CloseThread,
             sharedVars, callVars, lifeVars
<1>24. ASSUME CloseDone  PROVE TypeOK'
  BY <1>24 DEF TypeOK, CloseDone, sharedVars, sinkVars, callVars, privateVars
<1>25. ASSUME UNCHANGED vars  PROVE TypeOK'
  BY <1>25 DEF TypeOK, vars, sharedVars, sinkVars, callVars, privateVars, lifeVars
<1>26. ASSUME NEW t \in Threads, Call(t)  PROVE TypeOK'
  <2>1. ASSUME NEW c \in Compressions
        PROVE  [cmp |-> c, crc |-> FALSE, what |-> "cmp"] \in Wants
    BY CompressionsAssumption DEF Wants, Codecs
  <2>2. ASSUME NEW b \in BOOLEAN
        PROVE  [cmp |-> {}, crc |-> b, what |-> "crc"] \in Wants
    BY DEF Wants
  <2> QED BY <1>1, <1>2, <1>26, <2>1, <2>2 DEF Call, SetCompressionCall, SetIntegrityCall
<1> QED
  BY <1>3, <1>4, <1>5, <1>6, <1>7, <1>8, <1>9, <1>10, <1>11, <1>12, <1>13,
     <1>14, <1>15, <1>16, <1>17, <1>18, <1>19, <1>20, <1>21, <1>22, <1>23,
     <1>24, <1>25, <1>26 DEF Next, Acquire, Proceed, Close

LEMMA TypeInit ==
  ASSUME Init
  PROVE  TypeOK
<1>1. ReplayStart \in [bits : Status, ok : BOOLEAN]
  BY ConstantTypes DEF ReplayStart
<1>2. << >> \in Seq([kind : Codecs \cup {"none"}, items : Seq(Item)])
  OBVIOUS
<1>3. /\ status \in [Threads -> Status]
      /\ want \in [Threads -> Wants]
      /\ item \in [Threads -> Item]
      /\ xcmp \in [Threads -> Xcmp]
      /\ newcmp \in [Threads -> SUBSET Codecs]
  BY ConstantTypes DEF Init
<1>4. /\ pc \in [Threads -> Labels]
      /\ op \in [Threads -> {"none", "write", "set"}]
      /\ why \in [Threads -> {"full", "sync", "drain"}]
      /\ mutexLock \in [Threads -> {-1, 0, 1, 2, 3}]
      /\ written \in [Threads -> Nat]
  BY DEF Init, Labels
<1> QED BY <1>1, <1>2, <1>3, <1>4, ConstantTypes DEF Init, TypeOK

\* Every reachable state has the types the declarations give.
THEOREM TypeCorrect == Spec => []TypeOK
<1>1. Init => TypeOK
  BY TypeInit
<1>2. TypeOK /\ [Next]_vars => TypeOK'
  BY TypeStep
<1> QED BY <1>1, <1>2, PTL DEF Spec

----------------------------------------------------------------------------
(* The mutex.                                                               *)

\* The effect of unlock_streambufs on what MutexTruthful speaks of.
LEMMA ReleaseEffect ==
  ASSUME MutexInv, NEW t \in Threads, ReleaseStreambufs(t)
  PROVE  /\ mutex' = IF mutexLock[t] = 1 THEN NoThread ELSE mutex
         /\ \A u \in Threads \ {t} :
              mutexLock'[u] = mutexLock[u] /\ xcmp'[u] = xcmp[u]
         /\ \/ mutexLock'[t] = 0 /\ ~xcmp'[t].mtx
            \/ mutexLock' = mutexLock /\ xcmp' = xcmp /\ mutexLock[t] # 1
<1>1. CASE mutexLock[t] \in {2, 3} /\ xcmp[t].kind = "none"
  BY <1>1 DEF ReleaseStreambufs
<1>2. CASE mutexLock[t] \in {2, 3} /\ xcmp[t].kind # "none"
  BY <1>2 DEF ReleaseStreambufs, MutexInv, TypeOK, Xcmp
<1>3. CASE mutexLock[t] \notin {2, 3}
  BY <1>3 DEF ReleaseStreambufs, MutexInv, TypeOK, MutexTruthful
<1> QED BY <1>1, <1>2, <1>3

LEMMA MutexStep ==
  ASSUME MutexInv, [Next]_vars
  PROVE  MutexInv'
<1> DEFINE Rest == PcMatchesOp /\ ClosingAlone /\ MutexTruthful
<1> USE DEF MutexInv, PcMatchesOp, ClosingAlone, MutexTruthful, Goto,
            sharedVars, sinkVars, callVars, privateVars, lifeVars
<1>0. TypeOK'
  BY TypeStep
<1> USE NoThreadAssumption
<1>1. ASSUME NEW t \in Threads, WriteCall(t)  PROVE Rest'
  BY <1>1 DEF TypeOK, WriteCall, Enter
<1>2. ASSUME NEW t \in Threads, NEW w, SetCall(t, w)  PROVE Rest'
  <2>1. CASE UNCHANGED <<op, want, pc>>
    BY <1>2, <2>1 DEF SetCall, Enter
  <2>2. CASE op' = [op EXCEPT ![t] = "set"] /\ pc' = [pc EXCEPT ![t] = "and"]
    BY <1>2, <2>2 DEF TypeOK, SetCall, Enter
  <2> QED BY <1>2, <2>1, <2>2 DEF SetCall
<1>3. ASSUME NEW t \in Threads, FetchAnd(t)  PROVE Rest'
  BY <1>3 DEF TypeOK, FetchAnd
<1>4. ASSUME NEW t \in Threads, FetchOr(t)  PROVE Rest'
  BY <1>4 DEF TypeOK, FetchOr
<1>5. ASSUME NEW t \in Threads, FetchRepos(t)  PROVE Rest'
  BY <1>5 DEF TypeOK, FetchRepos
<1>6. ASSUME NEW t \in Threads, MakeToken(t)  PROVE Rest'
  BY <1>6 DEF TypeOK, MakeToken
<1>7. ASSUME NEW t \in Threads, LockSink(t)  PROVE Rest'
  BY <1>7 DEF TypeOK, LockSink, AfterLock
<1>8. ASSUME NEW t \in Threads, LockLend(t)  PROVE Rest'
  BY <1>8 DEF TypeOK, LockLend, AfterLock, KindOf, Codecs
<1>9. ASSUME NEW t \in Threads, LockNothing(t)  PROVE Rest'
  BY <1>9 DEF TypeOK, LockNothing, AfterLock
<1>10. ASSUME NEW t \in Threads, LockFails(t)  PROVE Rest'
  BY <1>10, ReleaseEffect DEF TypeOK, LockFails
<1>11. ASSUME NEW t \in Threads, Update(t)  PROVE Rest'
  BY <1>11 DEF TypeOK, Update, AfterUpdate
<1>12. ASSUME NEW t \in Threads, Reconfigure(t)  PROVE Rest'
  BY <1>12 DEF TypeOK, Reconfigure
<1>13. ASSUME NEW t \in Threads, Build(t)  PROVE Rest'
  <2>1. /\ \A u \in Threads : xcmp'[u].mtx => xcmp[u].mtx
        /\ \A u \in Threads \ {t} : xcmp'[u] = xcmp[u]
    <3>1. \A u \in Threads \ {t} : xcmp'[u] = xcmp[u]
      BY <1>13 DEF TypeOK, Build
    <3>2. xcmp'[t] = xcmp[t] \/ ~xcmp'[t].mtx
      <4>1. \/ xcmp'[t] = xcmp[t]
            \/ xcmp'[t] = NoXcmp
            \/ xcmp'[t] = NewXcmp(KindOf(newcmp[t]))
        BY <1>13 DEF TypeOK, Build
      <4> QED BY <4>1 DEF NewXcmp, NoXcmp
    <3> QED BY <3>1, <3>2
  <2>2. PcMatchesOp' /\ ClosingAlone'
    <3>1. \/ pc' = [pc EXCEPT ![t] = "idle"] /\ op' = [op EXCEPT ![t] = "none"]
          \/ pc' = [pc EXCEPT ![t] = "adopt"] /\ op' = op
      BY <1>13 DEF Build
    <3>2. /\ pc \in [Threads -> Labels] /\ pc[t] = "build"
          /\ op \in [Threads -> {"none", "write", "set"}]
          /\ phase' = phase
      BY <1>13 DEF TypeOK, Build
    <3> QED BY <3>1, <3>2
  <2>3. \A u \in Threads : pc'[u] = "emit" <=> pc[u] = "emit"
    <3>1. pc' = [pc EXCEPT ![t] = "idle"] \/ pc' = [pc EXCEPT ![t] = "adopt"]
      BY <1>13 DEF Build
    <3>2. pc \in [Threads -> Labels] /\ pc[t] = "build"
      BY <1>13 DEF TypeOK, Build
    <3> QED BY <3>1, <3>2
  <2>4. MutexTruthful'
    BY <1>13, <2>1, <2>3 DEF Build
  <2> QED BY <2>2, <2>4
<1>14. ASSUME NEW t \in Threads, Adopt(t)  PROVE Rest'
  BY <1>14 DEF TypeOK, Adopt, AfterUpdate
<1>15. ASSUME NEW t \in Threads, PutRaw(t)  PROVE Rest'
  BY <1>15 DEF TypeOK, PutRaw
<1>16. ASSUME NEW t \in Threads, RawDone(t)  PROVE Rest'
  BY <1>16 DEF TypeOK, RawDone, AfterPut
<1>17. ASSUME NEW t \in Threads, PutBlock(t)  PROVE Rest'
  BY <1>17 DEF TypeOK, PutBlock, AfterPut
<1>18. ASSUME NEW t \in Threads, BlockLock(t)  PROVE Rest'
  BY <1>18 DEF TypeOK, BlockLock
<1>19. ASSUME NEW t \in Threads, BlockDone(t)  PROVE Rest'
  BY <1>19 DEF TypeOK, BlockDone, AfterPut
<1>20. ASSUME NEW t \in Threads, Flush(t)  PROVE Rest'
  BY <1>20 DEF TypeOK, Flush
<1>21. ASSUME NEW t \in Threads, Unlock(t)  PROVE Rest'
  <2>1. PcMatchesOp' /\ ClosingAlone'
    BY <1>21 DEF TypeOK, Unlock
  <2>2. CASE ReleaseStreambufs(t)
    BY <1>21, <2>2, ReleaseEffect DEF TypeOK, Unlock
  <2>3. CASE UNCHANGED <<mutex, xcmp, mutexLock>>
    BY <1>21, <2>3 DEF TypeOK, Unlock
  <2> QED BY <1>21, <2>1, <2>2, <2>3 DEF Unlock
<1>22. ASSUME CloseCall  PROVE Rest'
  BY <1>22 DEF TypeOK, CloseCall
<1>23. ASSUME NEW t \in Threads, CloseThread(t)  PROVE Rest'
  BY <1>23 DEF TypeOK, CloseThread, NoXcmp
<1>24. ASSUME CloseDone  PROVE Rest'
  BY <1>24 DEF TypeOK, CloseDone
<1>25. ASSUME UNCHANGED vars  PROVE Rest'
  BY <1>25 DEF vars
<1>26. Rest'
  BY <1>1, <1>2, <1>3, <1>4, <1>5, <1>6, <1>7, <1>8, <1>9, <1>10, <1>11, <1>12, <1>13, <1>14, <1>15, <1>16, <1>17, <1>18, <1>19, <1>20, <1>21, <1>22, <1>23, <1>24, <1>25
     DEF Next, Call, SetCompressionCall, SetIntegrityCall, Acquire, Proceed, Close
<1> QED BY <1>0, <1>26

LEMMA MutexInit ==
  ASSUME Init
  PROVE  MutexInv
<1>1. TypeOK
  BY TypeInit
<1>2. PcMatchesOp /\ ClosingAlone /\ MutexTruthful
  BY NoThreadAssumption DEF Init, PcMatchesOp, ClosingAlone, MutexTruthful, NoXcmp
<1> QED BY <1>1, <1>2 DEF MutexInv

\* Whatever the callers do, mutex_lock tells the truth about the mutex.
THEOREM MutexCorrect == Spec => []MutexTruthful
<1>1. Init => MutexInv
  BY MutexInit
<1>2. MutexInv /\ [Next]_vars => MutexInv'
  BY MutexStep
<1>3. MutexInv => MutexTruthful
  BY DEF MutexInv
<1> QED BY <1>1, <1>2, <1>3, PTL DEF Spec

----------------------------------------------------------------------------
(* A stream configured by its opener before the other threads use it.       *)

ConfiguredFirst == Discipline = "open" /\ MayDisable = FALSE

\* A step leaves the private state of thread u alone.
Untouched(u) ==
  /\ pc'[u] = pc[u] /\ op'[u] = op[u] /\ want'[u] = want[u] /\ why'[u] = why[u]
  /\ newcmp'[u] = newcmp[u] /\ status'[u] = status[u] /\ xcmp'[u] = xcmp[u]
  /\ mutexLock'[u] = mutexLock[u] /\ written'[u] = written[u]

LEMMA UntouchedOK ==
  ASSUME NEW u \in Threads, ThreadOK(u), Untouched(u),
         statusBits' = statusBits, phase' = phase
  PROVE  ThreadOK(u)'
BY DEF ThreadOK, WantOK, StatusOK, SettingCmp, SyncOK, Fresh, Filling, XcmpOK, Replacing,
       LockOK, Untouched

\* A step of an operation in progress that leaves the shared word alone has to
\* be checked for its own thread only.
LEMMA LocalStep ==
  ASSUME OpenInv, NEW t \in Threads, pc[t] # "idle",
         MutexInv', ThreadOK(t)', \A u \in Threads \ {t} : Untouched(u),
         op'[t] \in {op[t], "none"},
         UNCHANGED <<statusBits, phase, crashed>>
  PROVE  OpenInv'
<1>1. \A u \in Threads : ThreadOK(u)'
  BY UntouchedOK DEF OpenInv
<1>2. SetterAlone'
  BY DEF OpenInv, MutexInv, PcMatchesOp, SetterAlone, Fresh, Untouched
<1> QED BY <1>1, <1>2 DEF OpenInv, NoCrash

\* While a setter is at work, the others are idle and know nothing of it.
LEMMA SetterStep ==
  ASSUME OpenInv, NEW t \in Threads, op[t] = "set", pc[t] # "idle",
         MutexInv', ThreadOK(t)', \A u \in Threads \ {t} : Untouched(u),
         op'[t] = "set", statusBits'.cmp # Codecs,
         UNCHANGED <<phase, crashed>>
  PROVE  OpenInv'
<1>1. ASSUME NEW u \in Threads \ {t}  PROVE ThreadOK(u)'
  <2>1. /\ pc[u] = "idle" /\ op[u] = "none" /\ written[u] = 0
        /\ u # Opener /\ status[u] = DefaultStatus
    BY DEF OpenInv, SetterAlone, MutexInv, PcMatchesOp, Fresh, ThreadOK, SyncOK
  <2>2. ThreadOK(u)
    BY DEF OpenInv
  <2>3. Untouched(u)  OBVIOUS
  <2>4. WantOK(u)'  BY <2>2, <2>3 DEF ThreadOK, WantOK, Untouched
  <2>5. StatusOK(u)'
    BY <2>1, <2>2, <2>3 DEF ThreadOK, StatusOK, SettingCmp, Untouched, DefaultStatus
  <2>6. SyncOK(u)'
    BY <2>1, <2>3 DEF SyncOK, Filling, Untouched
  <2>7. XcmpOK(u)'
    BY <2>1, <2>2, <2>3 DEF ThreadOK, XcmpOK, Replacing, Untouched
  <2>8. LockOK(u)'
    BY <2>1, <2>2, <2>3 DEF ThreadOK, LockOK, Replacing, Unlocked, Untouched
  <2> QED BY <2>4, <2>5, <2>6, <2>7, <2>8 DEF ThreadOK
<1>2. SetterAlone'
  BY DEF OpenInv, SetterAlone, Fresh, Untouched
<1> QED BY <1>1, <1>2 DEF OpenInv, NoCrash

LEMMA OpenStep ==
  ASSUME ConfiguredFirst, OpenInv, [Next]_vars
  PROVE  OpenInv'
<1>0. MutexInv /\ MutexInv' /\ TypeOK
  BY MutexStep DEF OpenInv, MutexInv
<1> USE DEF Goto, Labels, sharedVars, sinkVars, callVars, privateVars, lifeVars
<1>i. ASSUME NEW t \in Threads
      PROVE  /\ ThreadOK(t) /\ statusBits.cmp # Codecs /\ ~crashed
             /\ pc[t] = "idle" <=> op[t] = "none"
             /\ pc[t] \in {"and", "or", "repos", "token", "flush"} => op[t] = "set"
             /\ op[t] = "set" => t = Opener
             /\ pc[t] # "idle" => phase = "open"
             /\ op[t] \in {"none", "write", "set"}
             /\ want[t].what \in {"cmp", "crc"}
             /\ statusBits.cmp \in SUBSET Codecs /\ status[t].cmp \in SUBSET Codecs
             /\ want[t].cmp \in SUBSET Codecs
  BY DEF OpenInv, NoCrash, MutexInv, PcMatchesOp, ClosingAlone, SetterAlone, TypeOK, Status, Wants
<1>3. ASSUME NEW t \in Threads, FetchAnd(t)  PROVE OpenInv'
  <2>1. \A u \in Threads \ {t} : Untouched(u)
    BY <1>3, <1>0 DEF TypeOK, FetchAnd, Untouched
  <2>2. /\ pc[t] = "and"
        /\ phase' = phase /\ crashed' = crashed
        /\ op'[t] = op[t] /\ want'[t] = want[t] /\ why'[t] = why[t] /\ newcmp'[t] = newcmp[t]
        /\ status'[t] = status[t] /\ xcmp'[t] = xcmp[t] /\ mutexLock'[t] = mutexLock[t] /\ written'[t] = written[t]
        /\ pc'[t] = "or"
        /\ statusBits'.cmp = IF want[t].what = "cmp" THEN statusBits.cmp \cap want[t].cmp
                                               ELSE statusBits.cmp
    BY <1>3, <1>0 DEF TypeOK, FetchAnd, Status, Codecs
  <2>3. ThreadOK(t)'
    BY <2>2, <1>i, OpenerAssumption DEF KindOf, Codecs, ThreadOK, WantOK, StatusOK, SettingCmp,
       SyncOK, Fresh, Filling, XcmpOK, Replacing, LockOK, Unlocked
  <2> QED BY <1>0, <1>i, <2>1, <2>2, <2>3, SetterStep DEF Codecs, ThreadOK, WantOK, StatusOK, SettingCmp
<1>4. ASSUME NEW t \in Threads, FetchOr(t)  PROVE OpenInv'
  <2>1. \A u \in Threads \ {t} : Untouched(u)
    BY <1>4, <1>0 DEF TypeOK, FetchOr, Untouched
  <2>2. /\ pc[t] = "or"
        /\ phase' = phase /\ crashed' = crashed
        /\ op'[t] = op[t] /\ want'[t] = want[t] /\ why'[t] = why[t] /\ newcmp'[t] = newcmp[t]
        /\ status'[t] = status[t] /\ xcmp'[t] = xcmp[t] /\ mutexLock'[t] = mutexLock[t] /\ written'[t] = written[t]
        /\ pc'[t] \in {"repos", "token"}
        /\ statusBits'.cmp = IF want[t].what = "cmp" THEN statusBits.cmp \cup want[t].cmp
                                               ELSE statusBits.cmp
    BY <1>4, <1>0 DEF TypeOK, FetchOr, Status, Codecs
  <2>3. ThreadOK(t)'
    BY <2>2, <1>i, OpenerAssumption DEF KindOf, Codecs, ThreadOK, WantOK, StatusOK, SettingCmp,
       SyncOK, Fresh, Filling, XcmpOK, Replacing, LockOK, Unlocked
  <2> QED BY <1>0, <1>i, <2>1, <2>2, <2>3, SetterStep DEF Codecs, ThreadOK, WantOK, StatusOK, SettingCmp
<1>5. ASSUME NEW t \in Threads, FetchRepos(t)  PROVE OpenInv'
  <2>1. \A u \in Threads \ {t} : Untouched(u)
    BY <1>5, <1>0 DEF TypeOK, FetchRepos, Untouched
  <2>2. /\ pc[t] = "repos"
        /\ phase' = phase /\ crashed' = crashed
        /\ op'[t] = op[t] /\ want'[t] = want[t] /\ why'[t] = why[t] /\ newcmp'[t] = newcmp[t]
        /\ status'[t] = status[t] /\ xcmp'[t] = xcmp[t] /\ mutexLock'[t] = mutexLock[t] /\ written'[t] = written[t]
        /\ pc'[t] = "token"
        /\ statusBits'.cmp = statusBits.cmp
    BY <1>5, <1>0 DEF TypeOK, FetchRepos, Status
  <2>3. ThreadOK(t)'
    BY <2>2, <1>i, OpenerAssumption DEF KindOf, Codecs, ThreadOK, WantOK, StatusOK, SettingCmp,
       SyncOK, Fresh, Filling, XcmpOK, Replacing, LockOK, Unlocked
  <2> QED BY <1>0, <1>i, <2>1, <2>2, <2>3, SetterStep DEF Codecs, ThreadOK, WantOK, StatusOK, SettingCmp
<1>6. ASSUME NEW t \in Threads, MakeToken(t)  PROVE OpenInv'
  <2>1. \A u \in Threads \ {t} : Untouched(u)
    BY <1>6, <1>0 DEF TypeOK, MakeToken, Untouched
  <2>2. /\ statusBits' = statusBits
        /\ pc[t] = "token"
        /\ phase' = phase /\ crashed' = crashed
        /\ op'[t] = op[t] /\ want'[t] = want[t] /\ why'[t] = why[t] /\ newcmp'[t] = newcmp[t]
        /\ status'[t] = status[t] /\ xcmp'[t] = xcmp[t] /\ mutexLock'[t] = mutexLock[t] /\ written'[t] = written[t]
        /\ pc'[t] = "lock"
    BY <1>6, <1>0 DEF TypeOK, MakeToken
  <2>3. ThreadOK(t)'
    BY <2>2, <1>i, OpenerAssumption DEF KindOf, Codecs, ThreadOK, WantOK, StatusOK, SettingCmp,
       SyncOK, Fresh, Filling, XcmpOK, Replacing, LockOK, Unlocked
  <2> QED BY <1>0, <1>i, <2>1, <2>2, <2>3, LocalStep
<1>7. ASSUME NEW t \in Threads, LockSink(t)  PROVE OpenInv'
  <2>1. \A u \in Threads \ {t} : Untouched(u)
    BY <1>7, <1>0 DEF TypeOK, LockSink, Untouched
  <2>2. /\ statusBits' = statusBits
        /\ pc[t] = "lock"
        /\ phase' = phase /\ crashed' = crashed
        /\ op'[t] = op[t] /\ want'[t] = want[t] /\ why'[t] = why[t] /\ newcmp'[t] = newcmp[t]
        /\ status'[t] = status[t] /\ xcmp'[t] = xcmp[t] /\ written'[t] = written[t]
        /\ pc'[t] = IF op[t] = "set" THEN "put" ELSE "update"
        /\ mutexLock'[t] = 1
        /\ status[t].cmp = {}
    BY <1>7, <1>0 DEF TypeOK, LockSink, AfterLock
  <2>3. ThreadOK(t)'
    <3>1. WantOK(t)' /\ StatusOK(t)'
      BY <2>2, <1>i DEF ThreadOK, WantOK, StatusOK, SettingCmp
    <3>2. SyncOK(t)'
      BY <2>2, <1>i DEF ThreadOK, SyncOK, Fresh, Filling
    <3>3. XcmpOK(t)'
      BY <2>2, <1>i DEF ThreadOK, XcmpOK, Replacing
    <3>4. LockOK(t)'
      BY <2>2, <1>i DEF ThreadOK, LockOK, Replacing, Unlocked
    <3> QED BY <3>1, <3>2, <3>3, <3>4 DEF ThreadOK
  <2> QED BY <1>0, <1>i, <2>1, <2>2, <2>3, LocalStep
<1>8. ASSUME NEW t \in Threads, LockLend(t)  PROVE OpenInv'
  <2>0. xcmp[t].kind # "none"
    BY <1>8, <1>i DEF LockLend, ThreadOK, XcmpOK, Replacing, Codecs
  <2>1. \A u \in Threads \ {t} : Untouched(u)
    BY <1>8, <1>0 DEF TypeOK, LockLend, Untouched
  <2>2. /\ statusBits' = statusBits
        /\ pc[t] = "lock"
        /\ phase' = phase /\ crashed' = crashed
        /\ op'[t] = op[t] /\ want'[t] = want[t] /\ why'[t] = why[t] /\ newcmp'[t] = newcmp[t]
        /\ status'[t] = status[t] /\ written'[t] = written[t]
        /\ pc'[t] = IF op[t] = "set" THEN "put" ELSE "update"
        /\ mutexLock'[t] \in {2, 3}
        /\ xcmp'[t].kind = xcmp[t].kind /\ xcmp'[t].mtx
        /\ KindOf(status[t].cmp) \in Codecs
    BY <1>8, <1>0, <2>0 DEF TypeOK, LockLend, AfterLock, Xcmp
  <2>3. ThreadOK(t)'
    <3>1. WantOK(t)' /\ StatusOK(t)'
      BY <2>2, <1>i DEF ThreadOK, WantOK, StatusOK, SettingCmp
    <3>2. SyncOK(t)'
      BY <2>2, <1>i DEF ThreadOK, SyncOK, Fresh, Filling
    <3>3. XcmpOK(t)'
      BY <2>2, <1>i DEF ThreadOK, XcmpOK, Replacing
    <3>4. LockOK(t)'
      <4>1. status[t].cmp # {}
        BY <2>2 DEF KindOf, Codecs
      <4>2. op[t] = "write" => status[t] = statusBits
        BY <1>i, <4>1 DEF ThreadOK, SyncOK, DefaultStatus
      <4> QED BY <2>2, <4>1, <4>2, <1>i DEF ThreadOK, LockOK, Replacing, Unlocked
    <3> QED BY <3>1, <3>2, <3>3, <3>4 DEF ThreadOK
  <2> QED BY <1>0, <1>i, <2>1, <2>2, <2>3, LocalStep
<1>9. ASSUME NEW t \in Threads, Update(t)  PROVE OpenInv'
  <2>1. \A u \in Threads \ {t} : Untouched(u)
    BY <1>9, <1>0 DEF TypeOK, Update, Untouched
  <2>2. /\ statusBits' = statusBits
        /\ pc[t] = "update"
        /\ phase' = phase /\ crashed' = crashed
        /\ op'[t] = op[t] /\ want'[t] = want[t] /\ why'[t] = why[t] /\ newcmp'[t] = newcmp[t]
        /\ status'[t] = status[t] /\ xcmp'[t] = xcmp[t] /\ mutexLock'[t] = mutexLock[t] /\ written'[t] = written[t]
        /\ pc'[t] = IF statusBits # status[t] THEN "reconf"
                    ELSE IF op[t] = "set" THEN "unlock" ELSE "put"
    BY <1>9, <1>0 DEF TypeOK, Update, AfterUpdate
  <2>3. ThreadOK(t)'
    <3>1. WantOK(t)' /\ StatusOK(t)'
      BY <2>2, <1>i DEF ThreadOK, WantOK, StatusOK, SettingCmp
    <3>2. SyncOK(t)'
      BY <2>2, <1>i DEF ThreadOK, SyncOK, Fresh, Filling
    <3>3. XcmpOK(t)'
      BY <2>2, <1>i DEF ThreadOK, XcmpOK, Replacing
    <3>4. LockOK(t)'
      BY <2>2, <1>i DEF ThreadOK, LockOK, Replacing, Unlocked
    <3> QED BY <3>1, <3>2, <3>3, <3>4 DEF ThreadOK
  <2> QED BY <1>0, <1>i, <2>1, <2>2, <2>3, LocalStep
<1>10. ASSUME NEW t \in Threads, Reconfigure(t)  PROVE OpenInv'
  <2>1. \A u \in Threads \ {t} : Untouched(u)
    BY <1>10, <1>0 DEF TypeOK, Reconfigure, Untouched
  <2>2. /\ statusBits' = statusBits
        /\ pc[t] = "reconf"
        /\ phase' = phase /\ crashed' = crashed
        /\ op'[t] = op[t] /\ want'[t] = want[t] /\ status'[t] = status[t] /\ xcmp'[t] = xcmp[t]
        /\ mutexLock'[t] = mutexLock[t] /\ written'[t] = written[t]
        /\ newcmp'[t] = statusBits.cmp
        /\ \/ pc'[t] = "adopt" /\ statusBits.cmp = status[t].cmp
           \/ pc'[t] = "block" /\ why'[t] = "drain"
           \/ pc'[t] = "build"
    BY <1>10, <1>0 DEF TypeOK, Reconfigure
  <2>3. ThreadOK(t)'
    BY <2>2, <1>i, OpenerAssumption DEF KindOf, Codecs, ThreadOK, WantOK, StatusOK, SettingCmp,
       SyncOK, Fresh, Filling, XcmpOK, Replacing, LockOK, Unlocked
  <2> QED BY <1>0, <1>i, <2>1, <2>2, <2>3, LocalStep
<1>11. ASSUME NEW t \in Threads, Build(t)  PROVE OpenInv'
  <2>0. newcmp[t] = statusBits.cmp /\ newcmp[t] # Codecs
    BY <1>11, <1>i DEF Build, ThreadOK, XcmpOK
  <2>1. \A u \in Threads \ {t} : Untouched(u)
    BY <1>11, <1>0 DEF TypeOK, Build, Untouched
  <2>2. /\ statusBits' = statusBits
        /\ pc[t] = "build"
        /\ phase' = phase /\ crashed' = crashed
        /\ op'[t] = op[t] /\ want'[t] = want[t] /\ why'[t] = why[t] /\ newcmp'[t] = newcmp[t]
        /\ status'[t] = status[t] /\ mutexLock'[t] = mutexLock[t] /\ written'[t] = written[t]
        /\ pc'[t] = "adopt"
        /\ xcmp'[t].kind = KindOf(statusBits.cmp)
    BY <1>11, <1>0, <2>0 DEF TypeOK, Build, NewXcmp, NoXcmp
  <2>3. ThreadOK(t)'
    BY <2>2, <1>i, OpenerAssumption DEF KindOf, Codecs, ThreadOK, WantOK, StatusOK, SettingCmp,
       SyncOK, Fresh, Filling, XcmpOK, Replacing, LockOK, Unlocked
  <2> QED BY <1>0, <1>i, <2>1, <2>2, <2>3, LocalStep
<1>12. ASSUME NEW t \in Threads, Adopt(t)  PROVE OpenInv'
  <2>1. \A u \in Threads \ {t} : Untouched(u)
    BY <1>12, <1>0 DEF TypeOK, Adopt, Untouched
  <2>2. /\ statusBits' = statusBits
        /\ pc[t] = "adopt"
        /\ phase' = phase /\ crashed' = crashed
        /\ op'[t] = op[t] /\ want'[t] = want[t] /\ why'[t] = why[t] /\ newcmp'[t] = newcmp[t]
        /\ xcmp'[t] = xcmp[t] /\ mutexLock'[t] = mutexLock[t] /\ written'[t] = written[t]
        /\ pc'[t] = IF op[t] = "set" THEN "unlock" ELSE "put"
        /\ status'[t] = statusBits
    BY <1>12, <1>0 DEF TypeOK, Adopt, AfterUpdate
  <2>3. ThreadOK(t)'
    BY <2>2, <1>i, OpenerAssumption DEF KindOf, Codecs, ThreadOK, WantOK, StatusOK, SettingCmp,
       SyncOK, Fresh, Filling, XcmpOK, Replacing, LockOK, Unlocked
  <2> QED BY <1>0, <1>i, <2>1, <2>2, <2>3, LocalStep
<1>13. ASSUME NEW t \in Threads, PutRaw(t)  PROVE OpenInv'
  <2>1. \A u \in Threads \ {t} : Untouched(u)
    BY <1>13, <1>0 DEF TypeOK, PutRaw, Untouched
  <2>2. /\ statusBits' = statusBits
        /\ pc[t] = "put"
        /\ phase' = phase /\ crashed' = crashed
        /\ op'[t] = op[t] /\ want'[t] = want[t] /\ why'[t] = why[t] /\ newcmp'[t] = newcmp[t]
        /\ status'[t] = status[t] /\ xcmp'[t] = xcmp[t] /\ mutexLock'[t] = mutexLock[t] /\ written'[t] = written[t]
        /\ pc'[t] = "raw"
        /\ xcmp[t].kind = "none"
    BY <1>13, <1>0 DEF TypeOK, PutRaw
  <2>3. ThreadOK(t)'
    BY <2>2, <1>i, OpenerAssumption DEF KindOf, Codecs, ThreadOK, WantOK, StatusOK, SettingCmp,
       SyncOK, Fresh, Filling, XcmpOK, Replacing, LockOK, Unlocked
  <2> QED BY <1>0, <1>i, <2>1, <2>2, <2>3, LocalStep
<1>14. ASSUME NEW t \in Threads, RawDone(t)  PROVE OpenInv'
  <2>1. \A u \in Threads \ {t} : Untouched(u)
    BY <1>14, <1>0 DEF TypeOK, RawDone, Untouched
  <2>2. /\ statusBits' = statusBits
        /\ pc[t] = "raw"
        /\ phase' = phase /\ crashed' = crashed
        /\ op'[t] = op[t] /\ want'[t] = want[t] /\ why'[t] = why[t] /\ newcmp'[t] = newcmp[t]
        /\ status'[t] = status[t] /\ xcmp'[t] = xcmp[t] /\ mutexLock'[t] = mutexLock[t] /\ written'[t] = written[t]
        /\ pc'[t] = IF op[t] = "set" THEN "flush" ELSE "unlock"
    BY <1>14, <1>0 DEF TypeOK, RawDone, AfterPut
  <2>3. ThreadOK(t)'
    BY <2>2, <1>i, OpenerAssumption DEF KindOf, Codecs, ThreadOK, WantOK, StatusOK, SettingCmp,
       SyncOK, Fresh, Filling, XcmpOK, Replacing, LockOK, Unlocked
  <2> QED BY <1>0, <1>i, <2>1, <2>2, <2>3, LocalStep
<1>15. ASSUME NEW t \in Threads, PutBlock(t)  PROVE OpenInv'
  <2>1. \A u \in Threads \ {t} : Untouched(u)
    BY <1>15, <1>0 DEF TypeOK, PutBlock, Untouched
  <2>2. /\ statusBits' = statusBits
        /\ pc[t] = "put"
        /\ phase' = phase /\ crashed' = crashed
        /\ op'[t] = op[t] /\ want'[t] = want[t] /\ newcmp'[t] = newcmp[t] /\ status'[t] = status[t]
        /\ mutexLock'[t] = mutexLock[t] /\ written'[t] = written[t]
        /\ xcmp'[t].kind = xcmp[t].kind /\ xcmp'[t].mtx = xcmp[t].mtx
        /\ \/ pc'[t] = "block" /\ why'[t] = "full"
           \/ pc'[t] = (IF op[t] = "set" THEN "flush" ELSE "unlock")
    BY <1>15, <1>0 DEF TypeOK, PutBlock, AfterPut, Xcmp
  <2>3. ThreadOK(t)'
    BY <2>2, <1>i, OpenerAssumption DEF KindOf, Codecs, ThreadOK, WantOK, StatusOK, SettingCmp,
       SyncOK, Fresh, Filling, XcmpOK, Replacing, LockOK, Unlocked
  <2> QED BY <1>0, <1>i, <2>1, <2>2, <2>3, LocalStep
<1>16. ASSUME NEW t \in Threads, BlockLock(t)  PROVE OpenInv'
  <2>1. \A u \in Threads \ {t} : Untouched(u)
    BY <1>16, <1>0 DEF TypeOK, BlockLock, Untouched
  <2>2. /\ statusBits' = statusBits
        /\ pc[t] = "block"
        /\ phase' = phase /\ crashed' = crashed
        /\ op'[t] = op[t] /\ want'[t] = want[t] /\ why'[t] = why[t] /\ newcmp'[t] = newcmp[t]
        /\ status'[t] = status[t] /\ xcmp'[t] = xcmp[t] /\ mutexLock'[t] = mutexLock[t] /\ written'[t] = written[t]
        /\ pc'[t] = "emit"
    BY <1>16, <1>0 DEF TypeOK, BlockLock
  <2>3. ThreadOK(t)'
    BY <2>2, <1>i, OpenerAssumption DEF KindOf, Codecs, ThreadOK, WantOK, StatusOK, SettingCmp,
       SyncOK, Fresh, Filling, XcmpOK, Replacing, LockOK, Unlocked
  <2> QED BY <1>0, <1>i, <2>1, <2>2, <2>3, LocalStep
<1>17. ASSUME NEW t \in Threads, BlockDone(t)  PROVE OpenInv'
  <2>1. \A u \in Threads \ {t} : Untouched(u)
    BY <1>17, <1>0 DEF TypeOK, BlockDone, Untouched
  <2>2. /\ statusBits' = statusBits
        /\ pc[t] = "emit"
        /\ phase' = phase /\ crashed' = crashed
        /\ op'[t] = op[t] /\ want'[t] = want[t] /\ why'[t] = why[t] /\ newcmp'[t] = newcmp[t]
        /\ status'[t] = status[t] /\ mutexLock'[t] = mutexLock[t] /\ written'[t] = written[t]
        /\ xcmp'[t].kind = xcmp[t].kind /\ xcmp'[t].mtx = xcmp[t].mtx
        /\ \/ why[t] = "full" /\ pc'[t] = (IF op[t] = "set" THEN "flush" ELSE "unlock")
           \/ why[t] = "sync" /\ pc'[t] = "update"
           \/ why[t] = "drain" /\ pc'[t] = "build"
    BY <1>17, <1>0 DEF TypeOK, BlockDone, AfterPut, Xcmp
  <2>3. ThreadOK(t)'
    BY <2>2, <1>i, OpenerAssumption DEF KindOf, Codecs, ThreadOK, WantOK, StatusOK, SettingCmp,
       SyncOK, Fresh, Filling, XcmpOK, Replacing, LockOK, Unlocked
  <2> QED BY <1>0, <1>i, <2>1, <2>2, <2>3, LocalStep
<1>18. ASSUME NEW t \in Threads, Flush(t)  PROVE OpenInv'
  <2>1. \A u \in Threads \ {t} : Untouched(u)
    BY <1>18, <1>0 DEF TypeOK, Flush, Untouched
  <2>2. /\ statusBits' = statusBits
        /\ pc[t] = "flush"
        /\ phase' = phase /\ crashed' = crashed
        /\ op'[t] = op[t] /\ want'[t] = want[t] /\ newcmp'[t] = newcmp[t] /\ status'[t] = status[t]
        /\ xcmp'[t] = xcmp[t] /\ mutexLock'[t] = mutexLock[t] /\ written'[t] = written[t]
        /\ \/ pc'[t] = "update"
           \/ pc'[t] = "block" /\ why'[t] = "sync"
    BY <1>18, <1>0 DEF TypeOK, Flush
  <2>3. ThreadOK(t)'
    BY <2>2, <1>i, OpenerAssumption DEF KindOf, Codecs, ThreadOK, WantOK, StatusOK, SettingCmp,
       SyncOK, Fresh, Filling, XcmpOK, Replacing, LockOK, Unlocked
  <2> QED BY <1>0, <1>i, <2>1, <2>2, <2>3, LocalStep
<1>19. ASSUME NEW t \in Threads, Unlock(t)  PROVE OpenInv'
  <2>0. /\ op[t] = "write" /\ status[t].cmp # {} => xcmp[t].kind # "none"
        /\ mutexLock[t] \in {2, 3} => xcmp[t].kind # "none"
        /\ ReleaseStreambufs(t)
    BY <1>19, <1>i DEF Unlock, ThreadOK, StatusOK, XcmpOK, Replacing, LockOK, Unlocked, KindOf, Codecs
  <2>1. \A u \in Threads \ {t} : Untouched(u)
    BY <1>19, <1>0, ReleaseEffect DEF TypeOK, Unlock, Untouched
  <2>2. /\ statusBits' = statusBits
        /\ pc[t] = "unlock"
        /\ phase' = phase /\ crashed' = crashed
        /\ want'[t] = want[t] /\ why'[t] = why[t] /\ newcmp'[t] = newcmp[t] /\ status'[t] = status[t]
        /\ pc'[t] = "idle" /\ op'[t] = "none"
        /\ xcmp'[t].kind = xcmp[t].kind /\ mutexLock'[t] = 0
        /\ op[t] = "write" => written'[t] = written[t] + 1
        /\ op[t] = "write" \/ op[t] = "set"
        /\ written[t] \in Nat
    <3>1. /\ mutexLock' = [mutexLock EXCEPT ![t] = 0]
          /\ xcmp' = IF mutexLock[t] \in {2, 3} THEN [xcmp EXCEPT ![t].mtx = FALSE] ELSE xcmp
          /\ crashed' = crashed
      BY <1>19, <2>0 DEF ReleaseStreambufs
    <3>2. xcmp'[t].kind = xcmp[t].kind /\ mutexLock'[t] = 0
      BY <3>1, <1>0 DEF TypeOK, Xcmp
    <3>3. pc'[t] = "idle" /\ op'[t] = "none" /\ written[t] \in Nat
          /\ (op[t] = "write" => written'[t] = written[t] + 1)
      BY <1>19, <1>0 DEF TypeOK, Unlock
    <3>4. op[t] = "write" \/ op[t] = "set"
      BY <1>19, <1>i DEF Unlock
    <3> QED BY <1>19, <3>1, <3>2, <3>3, <3>4 DEF Unlock
  <2>3. ThreadOK(t)'
    BY <2>2, <1>i, OpenerAssumption DEF KindOf, Codecs, ThreadOK, WantOK, StatusOK, SettingCmp,
       SyncOK, Fresh, Filling, XcmpOK, Replacing, LockOK, Unlocked
  <2> QED BY <1>0, <1>i, <2>1, <2>2, <2>3, LocalStep
<1>20. ASSUME NEW t \in Threads, LockNothing(t)  PROVE FALSE
  BY <1>20, <1>i DEF LockNothing, ThreadOK, StatusOK, LockOK, Unlocked
<1>21. ASSUME NEW t \in Threads, LockFails(t)  PROVE FALSE
  BY <1>21, <1>i DEF LockFails, ThreadOK, StatusOK, LockOK, Unlocked
<1>22. ASSUME NEW t \in Threads, WriteCall(t)  PROVE OpenInv'
  <2>1. \A u \in Threads \ {t} : Untouched(u)
    BY <1>22, <1>0 DEF TypeOK, WriteCall, Untouched
  <2>2. /\ pc[t] = "idle" /\ pc'[t] = "lock" /\ op'[t] = "write"
        /\ status'[t] = status[t] /\ xcmp'[t] = xcmp[t] /\ want'[t] = want[t]
        /\ why'[t] = why[t] /\ newcmp'[t] = newcmp[t] /\ mutexLock'[t] = mutexLock[t]
        /\ statusBits' = statusBits /\ phase' = phase /\ crashed' = crashed
    BY <1>22, <1>0 DEF TypeOK, WriteCall, Enter
  <2>3. ThreadOK(t)'
    BY <2>2, <1>i, OpenerAssumption DEF ThreadOK, WantOK, StatusOK, SettingCmp,
       SyncOK, Fresh, Filling, XcmpOK, Replacing, LockOK, Unlocked
  <2>4. \A u \in Threads : ThreadOK(u)'
    BY <1>i, <2>1, <2>2, <2>3, UntouchedOK
  <2>5. \A u \in Threads \ {t} : op[u] # "set"
    BY <1>22 DEF WriteCall, MayWrite, ConfiguredFirst
  <2>6. SetterAlone'
    BY <2>1, <2>2, <2>5 DEF SetterAlone, Untouched
  <2> QED BY <1>0, <1>i, <2>2, <2>4, <2>6 DEF OpenInv, NoCrash
<1>23. ASSUME NEW t \in Threads, NEW w \in Wants, w.cmp # Codecs,
              w.what = "cmp" => w.cmp # {}, SetCall(t, w)
       PROVE  OpenInv'
  <2>1. \A u \in Threads \ {t} : Untouched(u)
    BY <1>23, <1>0 DEF TypeOK, SetCall, Untouched
  <2>2. /\ pc[t] = "idle"
        /\ status' = status /\ xcmp' = xcmp /\ why' = why /\ newcmp' = newcmp
        /\ mutexLock' = mutexLock /\ written' = written
        /\ statusBits' = statusBits /\ phase' = phase /\ crashed' = crashed
    BY <1>23 DEF SetCall, Enter
  <2>3. CASE UNCHANGED <<op, want, pc>>
    <3>1. \A u \in Threads : Untouched(u)
      BY <2>2, <2>3 DEF Untouched
    <3>2. \A u \in Threads : ThreadOK(u)'
      BY <1>i, <2>2, <3>1, UntouchedOK
    <3>3. SetterAlone'
      BY <2>2, <2>3 DEF OpenInv, SetterAlone, Fresh
    <3> QED BY <1>0, <1>i, <2>2, <3>2, <3>3 DEF OpenInv, NoCrash
  <2>4. CASE /\ op' = [op EXCEPT ![t] = "set"]
             /\ want' = [want EXCEPT ![t] = w]
             /\ pc' = [pc EXCEPT ![t] = "and"]
    <3>1. op'[t] = "set" /\ want'[t] = w /\ pc'[t] = "and"
      BY <1>0, <2>4 DEF TypeOK
    <3>2. t = Opener /\ \A u \in Threads \ {t} : Fresh(u)
      BY <1>23 DEF SetCall, MayConfigure, AloneSoFar, ConfiguredFirst
    <3>3. ThreadOK(t)'
      BY <1>23, <2>2, <3>1, <3>2, <1>i DEF ThreadOK, WantOK, StatusOK, SettingCmp,
         SyncOK, Fresh, Filling, XcmpOK, Replacing, LockOK, Unlocked
    <3>4. \A u \in Threads : ThreadOK(u)'
      BY <1>i, <2>1, <2>2, <3>3, UntouchedOK
    <3>5. SetterAlone'
      BY <2>1, <3>1, <3>2 DEF SetterAlone, Fresh, Untouched
    <3> QED BY <1>0, <1>i, <2>2, <3>4, <3>5 DEF OpenInv, NoCrash
  <2> QED BY <1>23, <2>3, <2>4 DEF SetCall
<1>24. ASSUME CloseCall \/ CloseDone  PROVE OpenInv'
  <2>1. \A u \in Threads : Untouched(u)
    BY <1>24 DEF CloseCall, CloseDone, Untouched
  <2>2. statusBits' = statusBits /\ crashed' = crashed /\ phase' # "open"
    BY <1>24 DEF CloseCall, CloseDone
  <2>3. \A u \in Threads : ThreadOK(u)'
    BY <1>i, <2>1, <2>2 DEF ThreadOK, WantOK, StatusOK, SettingCmp, SyncOK, Fresh,
       Filling, XcmpOK, Replacing, LockOK, Untouched
  <2>4. SetterAlone'
    BY <2>1 DEF OpenInv, SetterAlone, Fresh, Untouched
  <2> QED BY <1>0, <1>i, <2>2, <2>3, <2>4 DEF OpenInv, NoCrash
<1>25. ASSUME NEW t \in Threads, CloseThread(t)  PROVE OpenInv'
  <2>1. /\ pc' = pc /\ op' = op /\ want' = want /\ why' = why /\ newcmp' = newcmp
        /\ status' = status /\ mutexLock' = mutexLock /\ written' = written
        /\ statusBits' = statusBits /\ crashed' = crashed /\ phase' = phase
        /\ phase = "closing"
    BY <1>25 DEF CloseThread
  <2>2. \A u \in Threads : pc[u] = "idle"
    BY <2>1 DEF OpenInv, MutexInv, ClosingAlone
  <2>3. \A u \in Threads : op[u] = "none"
    BY <2>2, <1>i
  <2>4. \A u \in Threads : ThreadOK(u)'
    BY <1>i, <2>1, <2>2, <2>3 DEF ThreadOK, WantOK, StatusOK, SettingCmp, SyncOK, Fresh,
       Filling, XcmpOK, Replacing, LockOK, Unlocked
  <2>5. SetterAlone'
    BY <2>1, <2>3 DEF SetterAlone
  <2> QED BY <1>0, <1>i, <2>1, <2>4, <2>5 DEF OpenInv, NoCrash
<1>26. ASSUME UNCHANGED vars  PROVE OpenInv'
  <2>1. \A u \in Threads : Untouched(u)
    BY <1>26 DEF vars, Untouched
  <2>2. UNCHANGED <<statusBits, phase, crashed, op, written>>
    BY <1>26 DEF vars
  <2>3. \A u \in Threads : ThreadOK(u)'
    BY <1>i, <2>1, <2>2, UntouchedOK
  <2>4. SetterAlone'
    BY <2>2 DEF OpenInv, SetterAlone, Fresh
  <2> QED BY <1>0, <1>i, <2>2, <2>3, <2>4 DEF OpenInv, NoCrash
<1>27. ASSUME NEW t \in Threads, Call(t)  PROVE OpenInv'
  <2>1. ASSUME NEW c \in Compressions
        PROVE  /\ [cmp |-> c, crc |-> FALSE, what |-> "cmp"] \in Wants
               /\ c # Codecs
    BY CompressionsAssumption DEF Wants, Codecs
  <2>2. ASSUME NEW b \in BOOLEAN
        PROVE  /\ [cmp |-> {}, crc |-> b, what |-> "crc"] \in Wants
               /\ {} # Codecs
    BY DEF Wants, Codecs
  <2>3. ASSUME NEW w \in Wants, SetCall(t, w)  PROVE w.what = "cmp" => w.cmp # {}
    BY <2>3 DEF SetCall, ConfiguredFirst
  <2>4. ASSUME SetCompressionCall(t)  PROVE OpenInv'
    BY <1>23, <2>1, <2>3, <2>4 DEF SetCompressionCall
  <2>5. ASSUME SetIntegrityCall(t)  PROVE OpenInv'
    BY <1>23, <2>2, <2>5 DEF SetIntegrityCall
  <2> QED BY <1>22, <1>27, <2>4, <2>5 DEF Call
<1> QED
  BY <1>3, <1>4, <1>5, <1>6, <1>7, <1>8, <1>9, <1>10, <1>11, <1>12, <1>13,
     <1>14, <1>15, <1>16, <1>17, <1>18, <1>19, <1>20, <1>21, <1>24, <1>25,
     <1>26, <1>27 DEF Next, Acquire, Proceed, Close

LEMMA OpenInit ==
  ASSUME Init
  PROVE  OpenInv
<1>1. MutexInv
  BY MutexInit
<1>2. \A u \in Threads : ThreadOK(u)
  BY DEF Init, ThreadOK, WantOK, StatusOK, SettingCmp, SyncOK, Fresh, Filling, XcmpOK,
     Replacing, LockOK, Unlocked, NoWant, NoXcmp, DefaultStatus, KindOf, Codecs
<1> QED BY <1>1, <1>2 DEF Init, OpenInv, SetterAlone, NoCrash, DefaultStatus, Codecs

LEMMA OpenInductive == ConfiguredFirst => (Spec => []OpenInv)
<1> SUFFICES ASSUME ConfiguredFirst  PROVE Spec => []OpenInv
  OBVIOUS
<1>1. Init => OpenInv
  BY OpenInit
<1>2. OpenInv /\ [Next]_vars => OpenInv'
  BY OpenStep
<1> QED BY <1>1, <1>2, PTL DEF Spec

\* When the opener configures the stream before the other threads use it and
\* does not switch compression off again, two threads are never in the sink
\* at once, whatever they compress and however their blocks fill.
THEOREM OpenSinkExclusive == ConfiguredFirst => (Spec => []SinkExclusive)
<1>1. OpenInv => SinkExclusive
  <2> SUFFICES ASSUME OpenInv, NEW t \in InSink, NEW u \in InSink, t # u
               PROVE  FALSE
    BY DEF SinkExclusive
  <2> USE DEF OpenInv
  <2>1. /\ t \in Threads /\ pc[t] \in {"raw", "emit"}
        /\ u \in Threads /\ pc[u] \in {"raw", "emit"}
    BY DEF InSink
  <2>2. op[t] = "write" /\ op[u] = "write"
    BY <2>1, ZenonT(60) DEF MutexInv, TypeOK, PcMatchesOp, SetterAlone, Fresh
  <2>3. ASSUME NEW v \in Threads, pc[v] \in {"raw", "emit"}, op[v] = "write"
        PROVE  mutex = v
    <3>1. LockOK(v)  BY DEF ThreadOK
    <3>2. mutexLock[v] = 1 \/ (pc[v] = "emit" /\ xcmp[v].mtx)
      BY <2>3, <3>1 DEF LockOK, Unlocked
    <3> QED BY <3>2 DEF MutexInv, MutexTruthful
  <2> QED BY <2>1, <2>2, <2>3
<1> QED BY <1>1, OpenInductive, PTL

\* Under the same discipline no thread dereferences a null compressor.
THEOREM OpenNoCrash == ConfiguredFirst => (Spec => []NoCrash)
<1>1. OpenInv => NoCrash
  BY DEF OpenInv
<1> QED BY <1>1, OpenInductive, PTL

\* Under the same discipline every call returns with nothing locked or lent,
\* and with the compressor its private status names.
THEOREM OpenQuiescent == ConfiguredFirst => (Spec => []Quiescent)
<1>1. OpenInv => Quiescent
  <2> SUFFICES ASSUME OpenInv, NEW t \in Threads, pc[t] = "idle"
               PROVE  /\ mutexLock[t] = 0 /\ mutex # t /\ ~xcmp[t].mtx
                      /\ phase = "open" => xcmp[t].kind = KindOf(status[t].cmp)
    BY DEF Quiescent
  <2>1. XcmpOK(t) /\ LockOK(t)
    BY DEF OpenInv, ThreadOK
  <2>2. mutexLock[t] = 0
    BY <2>1 DEF LockOK, Unlocked
  <2>3. mutex # t /\ ~xcmp[t].mtx
    BY <2>2 DEF OpenInv, MutexInv, MutexTruthful
  <2> QED BY <2>1, <2>2, <2>3 DEF XcmpOK, Replacing
<1> QED BY <1>1, OpenInductive, PTL

----------------------------------------------------------------------------
(* The file is readable: what HddmOstream writes is framed by its tokens,   *)
(* for any number of threads, records and settings and for blocks of any    *)
(* size, when the opener configures the stream before others use it.        *)

----------------------------------------------------------------------------
(* The invariant, on top of OpenInv.                                        *)

Syncing(t) == pc[t] \in {"block", "emit"} /\ why[t] = "sync"

\* From the write of its token on, until the token is in the sink for sure.
Announcing(t) == op[t] = "set" /\ (pc[t] = "flush" \/ Filling(t) \/ Syncing(t))

\* The token of the change under way is not in the sink yet.
TokenDue ==
  /\ op[Opener] = "set"
  /\ \/ pc[Opener] \in {"and", "or", "repos", "token", "lock", "put", "raw"}
     \/ Announcing(Opener) /\ xcmp[Opener].pending # << >>

\* What a reader of the sink takes for the configuration in force.
FileBits == IF TokenDue THEN status[Opener] ELSE statusBits

ReplayOK == replay.ok /\ replay.bits = FileBits

\* What a thread is about to write.
ItemOK(t) ==
  /\ op[t] = "set" /\ pc[t] \in {"lock", "put", "raw"}
       => item[t].tok /\ item[t].bits = statusBits
  /\ op[t] = "write" => ~item[t].tok
  /\ op[t] = "write" /\ pc[t] = "raw" => item[t].bits.crc = status[t].crc
  /\ pc[t] = "raw" => xcmp[t].kind = "none"

\* The open block: records encoded the way the thread writes, and the token a
\* setter has put behind them.
BlockOK(t) ==
  /\ \A i \in DOMAIN xcmp[t].pending :
       IF xcmp[t].pending[i].tok
         THEN /\ i = Len(xcmp[t].pending)
              /\ xcmp[t].pending[i].bits = statusBits
              /\ Announcing(t)
         ELSE xcmp[t].pending[i].bits.crc = status[t].crc
  /\ Announcing(t) /\ xcmp[t].pending # << >>
       => xcmp[t].pending[Len(xcmp[t].pending)].tok
  /\ xcmp[t].kind = "none" => xcmp[t].pending = << >>
  /\ pc[t] \in {"reconf", "build", "adopt"} \/ Replacing(t)
       \/ (pc[t] = "update" /\ op[t] = "set")
       => xcmp[t].pending = << >>
  /\ Replacing(t) \/ Syncing(t) => op[t] = "set"
  /\ phase # "open" => xcmp[t].kind \in {"none", KindOf(status[t].cmp)}

FramedOK(t) == ItemOK(t) /\ BlockOK(t)

FramingInv == OpenInv /\ ReplayOK /\ \A t \in Threads : FramedOK(t)

----------------------------------------------------------------------------
(* What one step leaves alone.                                              *)

Same(u) ==
  /\ pc'[u] = pc[u] /\ op'[u] = op[u] /\ why'[u] = why[u]
  /\ status'[u] = status[u] /\ xcmp'[u] = xcmp[u] /\ item'[u] = item[u]

LEMMA SameFramed ==
  ASSUME NEW u \in Threads, FramedOK(u), Same(u), phase' = phase,
         op[u] = "set" => statusBits' = statusBits
  PROVE  FramedOK(u)'
BY DEF FramedOK, ItemOK, BlockOK, Announcing, Filling, Syncing, Replacing, Same

\* A step that writes nothing has to be checked for its own thread, and for
\* what it does to the configuration the reader of the sink is in.
LEMMA SilentStep ==
  ASSUME FramingInv, OpenInv', NEW t \in Threads, \A u \in Threads \ {t} : Same(u),
         UNCHANGED <<statusBits, phase, replay>>,
         FramedOK(t)', t = Opener => FileBits' = FileBits
  PROVE  FramingInv'
<1>1. \A u \in Threads : FramedOK(u)'
  BY SameFramed DEF FramingInv
<1>2. FileBits' = FileBits
  <2>1. CASE t # Opener
    <3>1. Same(Opener)
      BY <2>1, OpenerAssumption
    <3> QED BY <3>1 DEF Same, FileBits, TokenDue, Announcing, Filling, Syncing
  <2> QED BY <2>1
<1> QED BY <1>1, <1>2 DEF FramingInv, ReplayOK

\* A thread that is in a setter is the opener; while a thread writes, no token
\* is on its way.
LEMMA SetterIsOpener ==
  ASSUME OpenInv, NEW t \in Threads
  PROVE  /\ op[t] = "set" => t = Opener
         /\ op[t] = "write" => ~TokenDue
<1>1. op[t] = "set" => t = Opener
  BY DEF OpenInv, SetterAlone
<1>2. ASSUME op[t] = "write", op[Opener] = "set"  PROVE FALSE
  <2>1. t # Opener
    BY <1>2
  <2>2. Fresh(t)
    BY <1>2, <2>1, OpenerAssumption DEF OpenInv, SetterAlone
  <2> QED BY <1>2, <2>2 DEF Fresh
<1> QED BY <1>1, <1>2 DEF TokenDue

\* What Emit does to the reader of the sink.
LEMMA EmitFits ==
  ASSUME replay.ok, NEW kind, NEW items \in Seq(Item), Emit(kind, items),
         items # << >> => kind = KindOf(replay.bits.cmp),
         \A i \in DOMAIN items : IF items[i].tok THEN i = Len(items)
                                                 ELSE items[i].bits.crc = replay.bits.crc
  PROVE  /\ replay'.ok
         /\ replay'.bits = IF items # << >> /\ items[Len(items)].tok
                             THEN items[Len(items)].bits ELSE replay.bits
<1>1. CASE items = << >>
  BY <1>1 DEF Emit, sinkVars
<1>2. CASE items # << >>
  <2> DEFINE entry == [kind |-> kind, items |-> items]
  <2>1. replay' = ReplayStep(replay, entry)
    BY <1>2 DEF Emit
  <2>2. Fits(replay.bits, entry)
    BY <1>2 DEF Fits
  <2>3. Len(items) > 0
    BY <1>2
  <2>4. BitsAfter(replay.bits, entry) =
          IF items[Len(items)].tok THEN items[Len(items)].bits ELSE replay.bits
    BY <2>3 DEF BitsAfter
  <2> QED BY <1>2, <2>1, <2>2, <2>4 DEF ReplayStep
<1> QED BY <1>1, <1>2

----------------------------------------------------------------------------
(* The steps.                                                               *)

LEMMA FramingStep ==
  ASSUME ConfiguredFirst, FramingInv, [Next]_vars
  PROVE  FramingInv'
<1>0. OpenInv /\ OpenInv' /\ TypeOK
  BY OpenStep DEF FramingInv, OpenInv, MutexInv
<1> USE DEF Goto, Labels, sharedVars, sinkVars, callVars, privateVars, lifeVars
<1>i. ASSUME NEW t \in Threads
      PROVE  /\ ThreadOK(t) /\ FramedOK(t) /\ ReplayOK /\ ~crashed
             /\ pc[t] = "idle" <=> op[t] = "none"
             /\ pc[t] # "idle" => phase = "open"
             /\ pc[t] \in {"and", "or", "repos", "token", "flush"} => op[t] = "set"
             /\ op[t] \in {"none", "write", "set"}
             /\ xcmp[t] \in Xcmp /\ item[t] \in Item /\ status[t] \in Status
             /\ op[t] = "set" => t = Opener
             /\ op[t] = "write" => ~TokenDue
  BY <1>0, SetterIsOpener DEF FramingInv, OpenInv, NoCrash, MutexInv, PcMatchesOp, ClosingAlone,
     TypeOK
<1>1. ASSUME NEW t \in Threads, WriteCall(t)  PROVE FramingInv'
  <2>1. \A u \in Threads \ {t} : Same(u)
    BY <1>1, <1>0 DEF TypeOK, WriteCall, Same
  <2>2. /\ pc[t] = "idle" /\ pc'[t] = "lock" /\ op'[t] = "write" /\ ~item'[t].tok
        /\ why'[t] = why[t] /\ status'[t] = status[t] /\ xcmp'[t] = xcmp[t]
        /\ UNCHANGED <<statusBits, phase, replay>>
    BY <1>1, <1>0 DEF TypeOK, WriteCall, Enter
  <2>3. FramedOK(t)'
    BY <2>2, <1>i DEF FramedOK, ItemOK, BlockOK, Announcing, Filling, Syncing, Replacing
  <2>4. t = Opener => FileBits' = FileBits
    BY <2>2, <1>i DEF FileBits, TokenDue
  <2> QED BY <1>0, <2>1, <2>2, <2>3, <2>4, SilentStep
<1>2. ASSUME NEW t \in Threads, NEW w \in Wants, SetCall(t, w)  PROVE FramingInv'
  <2>1. \A u \in Threads \ {t} : Same(u)
    BY <1>2, <1>0 DEF TypeOK, SetCall, Same
  <2>2. /\ pc[t] = "idle" /\ t = Opener /\ phase = "open"
        /\ UNCHANGED <<statusBits, phase, replay, why, status, xcmp, item>>
    BY <1>2 DEF SetCall, Enter, MayConfigure, AloneSoFar, ConfiguredFirst
  <2>3. CASE UNCHANGED <<op, want, pc>>
    <3>1. Same(t)
      BY <2>2, <2>3 DEF Same
    <3>2. FramedOK(t)'
      BY <2>2, <3>1, <1>i, SameFramed
    <3>3. FileBits' = FileBits
      BY <2>2, <2>3 DEF FileBits, TokenDue, Announcing, Filling, Syncing
    <3> QED BY <1>0, <2>1, <2>2, <3>2, <3>3, SilentStep
  <2>4. CASE op' = [op EXCEPT ![t] = "set"] /\ pc' = [pc EXCEPT ![t] = "and"]
    <3>1. op'[t] = "set" /\ pc'[t] = "and"
      BY <1>0, <2>4 DEF TypeOK
    <3>2. FramedOK(t)'
      BY <2>2, <3>1, <1>i DEF FramedOK, ItemOK, BlockOK, Announcing, Filling, Syncing, Replacing
    <3>3. status[t] = statusBits /\ op[t] = "none"
      BY <2>2, <1>i DEF ThreadOK, SyncOK
    <3>4. FileBits = statusBits /\ FileBits' = status[t]
      BY <2>2, <3>1, <3>3 DEF FileBits, TokenDue
    <3> QED BY <1>0, <2>1, <2>2, <3>2, <3>3, <3>4, SilentStep
  <2> QED BY <1>2, <2>3, <2>4 DEF SetCall
<1>3. ASSUME NEW t \in Threads, FetchAnd(t) \/ FetchOr(t) \/ FetchRepos(t)  PROVE FramingInv'
  <2>1. \A u \in Threads \ {t} : Same(u)
    BY <1>3, <1>0 DEF TypeOK, FetchAnd, FetchOr, FetchRepos, Same
  <2>2. /\ pc[t] \in {"and", "or", "repos"} /\ pc'[t] \in {"or", "repos", "token"}
        /\ UNCHANGED <<op, why, status, xcmp, item, phase, replay>>
    BY <1>3, <1>0 DEF TypeOK, FetchAnd, FetchOr, FetchRepos
  <2>3. op[t] = "set" /\ t = Opener
    BY <2>2, <1>i
  <2>4. FramedOK(t)'
    BY <2>2, <2>3, <1>i DEF FramedOK, ItemOK, BlockOK, Announcing, Filling, Syncing, Replacing
  <2>5. ASSUME NEW u \in Threads \ {t}  PROVE FramedOK(u)'
    BY <1>i, <2>1, <2>2, <2>3, SameFramed
  <2>6. FileBits' = FileBits
    BY <2>2, <2>3 DEF FileBits, TokenDue
  <2>7. ReplayOK'
    BY <2>2, <2>6, <1>i DEF ReplayOK
  <2> QED BY <1>0, <2>4, <2>5, <2>7 DEF FramingInv
<1>4. ASSUME NEW t \in Threads, MakeToken(t)  PROVE FramingInv'
  <2>1. \A u \in Threads \ {t} : Same(u)
    BY <1>4, <1>0 DEF TypeOK, MakeToken, Same
  <2>2. /\ pc[t] = "token" /\ pc'[t] = "lock"
        /\ item'[t].tok /\ item'[t].bits = statusBits
        /\ UNCHANGED <<statusBits, op, why, status, xcmp, phase, replay>>
    BY <1>4, <1>0 DEF TypeOK, MakeToken
  <2>3. op[t] = "set" /\ t = Opener
    BY <2>2, <1>i
  <2>4. FramedOK(t)'
    BY <2>2, <2>3, <1>i DEF FramedOK, ItemOK, BlockOK, Announcing, Filling, Syncing, Replacing
  <2>5. FileBits' = FileBits
    BY <2>2, <2>3 DEF FileBits, TokenDue
  <2> QED BY <1>0, <2>1, <2>2, <2>4, <2>5, SilentStep
<1>5. ASSUME NEW t \in Threads, LockSink(t) \/ LockLend(t)  PROVE FramingInv'
  <2>0. pc[t] = "lock" /\ (LockLend(t) => xcmp[t].kind # "none")
    BY <1>5, <1>i DEF LockSink, LockLend, ThreadOK, XcmpOK, Replacing, Codecs
  <2>1. \A u \in Threads \ {t} : Same(u)
    BY <1>5, <1>0, <2>0 DEF TypeOK, LockSink, LockLend, Same
  <2>2. /\ pc'[t] = IF op[t] = "set" THEN "put" ELSE "update"
        /\ xcmp'[t].kind = xcmp[t].kind /\ xcmp'[t].pending = xcmp[t].pending
        /\ UNCHANGED <<statusBits, op, item, why, status, phase, replay>>
    BY <1>5, <1>0, <2>0 DEF TypeOK, LockSink, LockLend, AfterLock, Xcmp
  <2>3. FramedOK(t)'
    BY <2>0, <2>2, <1>i DEF FramedOK, ItemOK, BlockOK, Announcing, Filling, Syncing, Replacing
  <2>4. t = Opener => FileBits' = FileBits
    BY <2>0, <2>2 DEF FileBits, TokenDue
  <2> QED BY <1>0, <2>1, <2>2, <2>3, <2>4, SilentStep
<1>6. ASSUME NEW t \in Threads, Update(t)  PROVE FramingInv'
  <2>1. \A u \in Threads \ {t} : Same(u)
    BY <1>6, <1>0 DEF TypeOK, Update, Same
  <2>2. /\ pc[t] = "update"
        /\ pc'[t] = IF statusBits # status[t] THEN "reconf"
                    ELSE IF op[t] = "set" THEN "unlock" ELSE "put"
        /\ UNCHANGED <<statusBits, op, item, why, status, xcmp, phase, replay>>
    BY <1>6, <1>0 DEF TypeOK, Update, AfterUpdate
  <2>3. ASSUME op[t] = "write", pc'[t] = "reconf"  PROVE xcmp[t].kind = "none"
    <3>1. status[t] = DefaultStatus
      BY <2>2, <2>3, <1>i DEF ThreadOK, SyncOK
    <3>2. KindOf(status[t].cmp) = "none"
      BY <3>1 DEF KindOf, DefaultStatus
    <3> QED BY <2>2, <3>2, <1>i DEF ThreadOK, XcmpOK, Replacing
  <2>4. op[t] # "none"
    BY <2>2, <1>i
  <2>5. FramedOK(t)'
    BY <2>2, <2>3, <2>4, <1>i DEF FramedOK, ItemOK, BlockOK, Announcing, Filling, Syncing, Replacing
  <2>6. t = Opener => FileBits' = FileBits
    BY <2>2 DEF FileBits, TokenDue, Announcing, Filling, Syncing
  <2> QED BY <1>0, <2>1, <2>2, <2>5, <2>6, SilentStep
<1>7. ASSUME NEW t \in Threads, Reconfigure(t)  PROVE FramingInv'
  <2>1. \A u \in Threads \ {t} : Same(u)
    BY <1>7, <1>0 DEF TypeOK, Reconfigure, Same
  <2>2. /\ pc[t] = "reconf"
        /\ UNCHANGED <<statusBits, op, item, status, xcmp, phase, replay>>
        /\ \/ pc'[t] \in {"adopt", "build"}
           \/ pc'[t] = "block" /\ why'[t] = "drain" /\ xcmp[t].kind # "none"
              /\ statusBits # status[t]
    BY <1>7, <1>0 DEF TypeOK, Reconfigure
  <2>3. ASSUME pc'[t] = "block", op[t] # "set"  PROVE FALSE
    <3>1. status[t] = DefaultStatus
      BY <2>2, <2>3, <1>i DEF ThreadOK, SyncOK
    <3>2. KindOf(status[t].cmp) = "none"
      BY <3>1 DEF KindOf, DefaultStatus
    <3> QED BY <2>2, <2>3, <3>2, <1>i DEF ThreadOK, XcmpOK, Replacing
  <2>4. FramedOK(t)'
    BY <2>2, <2>3, <1>i DEF FramedOK, ItemOK, BlockOK, Announcing, Filling, Syncing, Replacing
  <2>5. t = Opener => FileBits' = FileBits
    BY <2>2 DEF FileBits, TokenDue, Announcing, Filling, Syncing
  <2> QED BY <1>0, <2>1, <2>2, <2>4, <2>5, SilentStep
<1>8. ASSUME NEW t \in Threads, Build(t)  PROVE FramingInv'
  <2>0. newcmp[t] # Codecs
    BY <1>8, <1>0 DEF Build, OpenInv, ThreadOK, XcmpOK
  <2>1. \A u \in Threads \ {t} : Same(u)
    BY <1>8, <1>0 DEF TypeOK, Build, Same
  <2>2. /\ pc[t] = "build" /\ pc'[t] = "adopt" /\ xcmp'[t].pending = << >>
        /\ UNCHANGED <<statusBits, op, item, why, status, phase, replay>>
    BY <1>8, <1>0, <2>0 DEF TypeOK, Build, NewXcmp, NoXcmp
  <2>3. phase = "open"
    BY <2>2, <1>0 DEF OpenInv, MutexInv, ClosingAlone
  <2>4. FramedOK(t)'
    BY <2>2, <2>3, <1>i DEF FramedOK, ItemOK, BlockOK, Announcing, Filling, Syncing, Replacing
  <2>5. t = Opener => FileBits' = FileBits
    BY <2>2 DEF FileBits, TokenDue, Announcing, Filling, Syncing
  <2> QED BY <1>0, <2>1, <2>2, <2>4, <2>5, SilentStep
<1>9. ASSUME NEW t \in Threads, Adopt(t)  PROVE FramingInv'
  <2>1. \A u \in Threads \ {t} : Same(u)
    BY <1>9, <1>0 DEF TypeOK, Adopt, Same
  <2>2. /\ pc[t] = "adopt" /\ pc'[t] = IF op[t] = "set" THEN "unlock" ELSE "put"
        /\ UNCHANGED <<statusBits, op, item, why, xcmp, phase, replay>>
    BY <1>9, <1>0 DEF TypeOK, Adopt, AfterUpdate
  <2>3. phase = "open" /\ op[t] # "none"
    BY <2>2, <1>0, <1>i DEF OpenInv, MutexInv, ClosingAlone
  <2>4. FramedOK(t)'
    BY <2>2, <2>3, <1>i DEF FramedOK, ItemOK, BlockOK, Announcing, Filling, Syncing, Replacing
  <2>5. t = Opener => FileBits' = FileBits
    BY <2>2 DEF FileBits, TokenDue, Announcing, Filling, Syncing
  <2> QED BY <1>0, <2>1, <2>2, <2>4, <2>5, SilentStep
<1>10. ASSUME NEW t \in Threads, PutRaw(t)  PROVE FramingInv'
  <2>1. \A u \in Threads \ {t} : Same(u)
    BY <1>10, <1>0 DEF TypeOK, PutRaw, Same
  <2>2. /\ pc[t] = "put" /\ pc'[t] = "raw" /\ xcmp[t].kind = "none"
        /\ item'[t] = Stamped(t)
        /\ UNCHANGED <<statusBits, op, why, status, xcmp, phase, replay>>
    BY <1>10, <1>0 DEF TypeOK, PutRaw
  <2>3. /\ item[t].tok => Stamped(t) = item[t]
        /\ ~item[t].tok => ~Stamped(t).tok /\ Stamped(t).bits = status[t]
    BY <1>i DEF Stamped, Item
  <2>4. FramedOK(t)'
    BY <2>2, <2>3, <1>i DEF FramedOK, ItemOK, BlockOK, Announcing, Filling, Syncing, Replacing
  <2>5. t = Opener => FileBits' = FileBits
    BY <2>2 DEF FileBits, TokenDue
  <2> QED BY <1>0, <2>1, <2>2, <2>4, <2>5, SilentStep
<1>11. ASSUME NEW t \in Threads, RawDone(t)  PROVE FramingInv'
  <2>1. \A u \in Threads \ {t} : Same(u)
    BY <1>11, <1>0 DEF TypeOK, RawDone, Same
  <2>2. /\ pc[t] = "raw" /\ pc'[t] = IF op[t] = "set" THEN "flush" ELSE "unlock"
        /\ Emit("none", <<item[t]>>)
        /\ UNCHANGED <<statusBits, op, item, why, status, xcmp, phase>>
    BY <1>11, <1>0 DEF TypeOK, RawDone, AfterPut
  <2>3. /\ op[t] \in {"write", "set"} /\ xcmp[t].kind = "none" /\ xcmp[t].pending = << >>
        /\ op[t] = "write" => ~item[t].tok /\ item[t].bits.crc = status[t].crc
        /\ op[t] = "set" => item[t].tok /\ item[t].bits = statusBits
    BY <2>2, <1>i DEF FramedOK, ItemOK, BlockOK
  <2>4. replay.ok /\ replay.bits = status[t]
    <3>1. op[t] = "write" => status[t] = statusBits
      BY <2>2, <1>i DEF ThreadOK, SyncOK
    <3> QED BY <2>2, <2>3, <3>1, <1>i DEF ReplayOK, FileBits, TokenDue
  <2>5. KindOf(status[t].cmp) = "none"
    BY <2>2, <2>3, <1>i DEF ThreadOK, XcmpOK, Replacing
  <2>6. /\ replay'.ok
        /\ replay'.bits = IF item[t].tok THEN item[t].bits ELSE replay.bits
    <3> DEFINE items == <<item[t]>>
    <3>1. items \in Seq(Item) /\ items # << >> /\ Len(items) = 1 /\ items[1] = item[t]
      BY <1>i
    <3>2. \A i \in DOMAIN items : IF items[i].tok THEN i = Len(items)
                                                  ELSE items[i].bits.crc = replay.bits.crc
      BY <2>3, <2>4
    <3> HIDE DEF items
    <3>3. Emit("none", items)
      BY <2>2 DEF items
    <3> QED BY <2>4, <2>5, <3>1, <3>2, <3>3, EmitFits
  <2>7. replay'.bits = FileBits'
    <3>1. CASE op[t] = "write"
      <4>1. t # Opener => Same(Opener)
        BY <2>1, OpenerAssumption
      <4>2. ~TokenDue'
        BY <2>2, <3>1, <4>1, <1>i DEF TokenDue, Announcing, Filling, Syncing, Same
      <4>3. replay.bits = statusBits
        BY <3>1, <1>i DEF ReplayOK, FileBits
      <4> QED BY <2>2, <2>3, <2>6, <3>1, <4>2, <4>3 DEF FileBits
    <3>2. CASE op[t] = "set"
      BY <2>2, <2>3, <2>6, <3>2, <1>i DEF FileBits, TokenDue
    <3> QED BY <2>3, <3>1, <3>2
  <2>8. FramedOK(t)'
    BY <2>2, <2>3, <1>i DEF FramedOK, ItemOK, BlockOK, Announcing, Filling, Syncing, Replacing
  <2>9. \A u \in Threads \ {t} : FramedOK(u)'
    BY <1>i, <2>1, <2>2, SameFramed
  <2> QED BY <1>0, <2>6, <2>7, <2>8, <2>9 DEF FramingInv, ReplayOK
<1>12. ASSUME NEW t \in Threads, PutBlock(t)  PROVE FramingInv'
  <2>1. \A u \in Threads \ {t} : Same(u)
    BY <1>12, <1>0 DEF TypeOK, PutBlock, Same
  <2>2. /\ pc[t] = "put" /\ xcmp[t].kind # "none"
        /\ xcmp'[t].kind = xcmp[t].kind
        /\ xcmp'[t].pending = Append(xcmp[t].pending, Stamped(t))
        /\ UNCHANGED <<statusBits, op, item, status, phase, replay>>
        /\ \/ pc'[t] = "block" /\ why'[t] = "full"
           \/ pc'[t] = (IF op[t] = "set" THEN "flush" ELSE "unlock")
    BY <1>12, <1>0 DEF TypeOK, PutBlock, AfterPut, Xcmp
  <2>3. op[t] # "none" /\ phase = "open"
    BY <2>2, <1>0, <1>i DEF OpenInv, MutexInv, ClosingAlone
  <2>4. /\ op[t] = "set" => Stamped(t).tok /\ Stamped(t).bits = statusBits
        /\ op[t] = "write" => ~Stamped(t).tok /\ Stamped(t).bits.crc = status[t].crc
    BY <2>2, <1>i DEF FramedOK, ItemOK, Stamped, Item
  <2> DEFINE old == xcmp[t].pending
             new == Append(old, Stamped(t))
  <2>5. /\ old \in Seq(Item) /\ Len(new) = Len(old) + 1 /\ new # << >>
        /\ new[Len(new)] = Stamped(t)
        /\ \A i \in DOMAIN new : i = Len(new) \/ (i \in DOMAIN old /\ new[i] = old[i])
    BY <1>i DEF Xcmp
  <2>6. \A i \in DOMAIN old : ~old[i].tok /\ old[i].bits.crc = status[t].crc
    BY <2>2, <1>i DEF FramedOK, BlockOK, Announcing, Filling, Syncing
  <2>7. Announcing(t)' <=> op[t] = "set"
    BY <2>2 DEF Announcing, Filling, Syncing
  <2>8. \A i \in DOMAIN new :
          IF new[i].tok THEN i = Len(new) /\ new[i].bits = statusBits /\ op[t] = "set"
                        ELSE new[i].bits.crc = status[t].crc
    BY <2>3, <2>4, <2>5, <2>6, <1>i
  <2>9. BlockOK(t)'
    <3>1. op[t] = "set" => new[Len(new)].tok
      BY <2>4, <2>5
    <3> HIDE DEF new
    <3>2. xcmp'[t].pending = new
      BY <2>2 DEF new
    <3>3. /\ ~Replacing(t)' /\ ~Syncing(t)'
          /\ pc'[t] \notin {"reconf", "build", "adopt", "update"}
      BY <2>2 DEF Replacing, Syncing
    <3> QED BY <2>2, <2>3, <2>7, <2>8, <3>1, <3>2, <3>3 DEF BlockOK
  <2>10. FramedOK(t)'
    BY <2>2, <2>9, <1>i DEF FramedOK, ItemOK
  <2>11. t = Opener => FileBits' = FileBits
    BY <2>2, <2>5, <2>7 DEF FileBits, TokenDue
  <2> QED BY <1>0, <2>1, <2>2, <2>10, <2>11, SilentStep
<1>13. ASSUME NEW t \in Threads, BlockLock(t)  PROVE FramingInv'
  <2>1. \A u \in Threads \ {t} : Same(u)
    BY <1>13, <1>0 DEF TypeOK, BlockLock, Same
  <2>2. /\ pc[t] = "block" /\ pc'[t] = "emit"
        /\ UNCHANGED <<statusBits, op, item, why, status, xcmp, phase, replay>>
    BY <1>13, <1>0 DEF TypeOK, BlockLock
  <2>3. FramedOK(t)'
    BY <2>2, <1>i DEF FramedOK, ItemOK, BlockOK, Announcing, Filling, Syncing, Replacing
  <2>4. t = Opener => FileBits' = FileBits
    BY <2>2 DEF FileBits, TokenDue, Announcing, Filling, Syncing
  <2> QED BY <1>0, <2>1, <2>2, <2>3, <2>4, SilentStep
<1>14. ASSUME NEW t \in Threads, BlockDone(t)  PROVE FramingInv'
  <2> DEFINE items == xcmp[t].pending
  <2>1. \A u \in Threads \ {t} : Same(u)
    BY <1>14, <1>0 DEF TypeOK, BlockDone, Same
  <2>2. /\ pc[t] = "emit" /\ Emit(xcmp[t].kind, items)
        /\ xcmp'[t].kind = xcmp[t].kind /\ xcmp'[t].pending = << >>
        /\ UNCHANGED <<statusBits, op, item, why, status, phase>>
        /\ \/ why[t] = "full" /\ pc'[t] = (IF op[t] = "set" THEN "flush" ELSE "unlock")
           \/ why[t] = "sync" /\ pc'[t] = "update"
           \/ why[t] = "drain" /\ pc'[t] = "build"
    BY <1>14, <1>0 DEF TypeOK, BlockDone, AfterPut, Xcmp
  <2>3. op[t] \in {"write", "set"} /\ phase = "open" /\ items \in Seq(Item)
    BY <2>2, <1>0, <1>i DEF OpenInv, MutexInv, ClosingAlone, Xcmp
  <2>4. FramedOK(t)'
    BY <2>2, <2>3, <1>i DEF FramedOK, ItemOK, BlockOK, Announcing, Filling, Syncing, Replacing
  <2>5. \A u \in Threads \ {t} : FramedOK(u)'
    BY <1>i, <2>1, <2>2, SameFramed
  <2>6. CASE items = << >>
    <3>1. replay' = replay
      BY <2>2, <2>6 DEF Emit
    <3>2. FileBits' = FileBits
      <4>1. t # Opener => Same(Opener)
        BY <2>1, OpenerAssumption
      <4> QED BY <2>2, <2>6, <4>1 DEF FileBits, TokenDue, Announcing, Filling, Syncing, Same
    <3> QED BY <1>0, <1>i, <2>4, <2>5, <3>1, <3>2 DEF FramingInv, ReplayOK
  <2>7. CASE items # << >>
    <3>1. ~Replacing(t) /\ (Filling(t) \/ Syncing(t))
      BY <2>2, <2>7, <1>i DEF FramedOK, BlockOK, Replacing, Filling, Syncing
    <3>2. Announcing(t) <=> op[t] = "set"
      BY <3>1 DEF Announcing
    <3>3. replay.ok /\ replay.bits = status[t]
      <4>1. CASE op[t] = "write"
        <5>1. Filling(t) /\ status[t] = statusBits
          <6>1. Filling(t)
            BY <3>1, <4>1, <1>i DEF FramedOK, BlockOK
          <6> QED BY <4>1, <6>1, <1>i DEF ThreadOK, SyncOK
        <5> QED BY <4>1, <5>1, <1>i DEF ReplayOK, FileBits
      <4>2. CASE op[t] = "set"
        BY <2>7, <3>2, <4>2, <1>i DEF ReplayOK, FileBits, TokenDue
      <4> QED BY <2>3, <4>1, <4>2
    <3>4. xcmp[t].kind = KindOf(status[t].cmp)
      BY <2>2, <2>3, <3>1, <1>i DEF ThreadOK, XcmpOK
    <3>5. /\ \A i \in DOMAIN items :
               IF items[i].tok THEN i = Len(items) /\ items[i].bits = statusBits /\ op[t] = "set"
                               ELSE items[i].bits.crc = replay.bits.crc
          /\ op[t] = "set" => items[Len(items)].tok
      BY <2>7, <3>2, <3>3, <1>i DEF FramedOK, BlockOK
    <3>6. Len(items) \in DOMAIN items
      BY <2>3, <2>7
    <3>7. /\ replay'.ok
          /\ replay'.bits = IF items[Len(items)].tok THEN items[Len(items)].bits ELSE replay.bits
      BY <2>2, <2>3, <2>7, <3>3, <3>4, <3>5, EmitFits
    <3>8. replay'.bits = FileBits'
      <4>1. CASE op[t] = "write"
        <5>1. t # Opener => Same(Opener)
          BY <2>1, OpenerAssumption
        <5>2. ~TokenDue'
          BY <2>2, <4>1, <5>1, <1>i DEF TokenDue, Announcing, Filling, Syncing, Same
        <5>3. replay.bits = statusBits
          BY <4>1, <1>i DEF ReplayOK, FileBits
        <5>4. ~items[Len(items)].tok
          BY <3>5, <3>6, <4>1
        <5> QED BY <2>2, <3>7, <5>2, <5>3, <5>4 DEF FileBits
      <4>2. CASE op[t] = "set"
        <5>1. items[Len(items)].tok /\ items[Len(items)].bits = statusBits
          BY <3>5, <3>6, <4>2
        <5>2. ~TokenDue'
          BY <2>2, <4>2, <1>i DEF TokenDue
        <5> QED BY <2>2, <3>7, <5>1, <5>2 DEF FileBits
      <4> QED BY <2>3, <4>1, <4>2
    <3> QED BY <1>0, <2>4, <2>5, <3>7, <3>8 DEF FramingInv, ReplayOK
  <2> QED BY <2>6, <2>7
<1>15. ASSUME NEW t \in Threads, Flush(t)  PROVE FramingInv'
  <2>1. \A u \in Threads \ {t} : Same(u)
    BY <1>15, <1>0 DEF TypeOK, Flush, Same
  <2>2. /\ pc[t] = "flush"
        /\ UNCHANGED <<statusBits, op, item, status, xcmp, phase, replay>>
        /\ \/ pc'[t] = "update" /\ xcmp[t].kind = "none"
           \/ pc'[t] = "block" /\ why'[t] = "sync"
    BY <1>15, <1>0 DEF TypeOK, Flush
  <2>3. FramedOK(t)'
    BY <2>2, <1>i DEF FramedOK, ItemOK, BlockOK, Announcing, Filling, Syncing, Replacing
  <2>4. t = Opener => FileBits' = FileBits
    BY <2>2, <1>i DEF FramedOK, BlockOK, FileBits, TokenDue, Announcing, Filling, Syncing
  <2> QED BY <1>0, <2>1, <2>2, <2>3, <2>4, SilentStep
<1>16. ASSUME NEW t \in Threads, Unlock(t)  PROVE FramingInv'
  <2>1. /\ pc[t] = "unlock" /\ pc'[t] = "idle" /\ op'[t] = "none"
        /\ UNCHANGED <<statusBits, item, why, status, phase, replay>>
        /\ \A u \in Threads \ {t} : pc'[u] = pc[u] /\ op'[u] = op[u]
        /\ \/ xcmp' = xcmp
           \/ xcmp' = [xcmp EXCEPT ![t].mtx = FALSE]
    BY <1>16, <1>0 DEF TypeOK, Unlock, ReleaseStreambufs
  <2>2. xcmp'[t].kind = xcmp[t].kind /\ xcmp'[t].pending = xcmp[t].pending
    BY <2>1, <1>0 DEF TypeOK, Xcmp
  <2>3. \A u \in Threads \ {t} : Same(u)
    BY <2>1, <1>0 DEF TypeOK, Same
  <2>4. FramedOK(t)'
    BY <2>1, <2>2, <1>i DEF FramedOK, ItemOK, BlockOK, Announcing, Filling, Syncing, Replacing
  <2>5. t = Opener => FileBits' = FileBits
    BY <2>1 DEF FileBits, TokenDue, Announcing, Filling, Syncing
  <2> QED BY <1>0, <2>1, <2>3, <2>4, <2>5, SilentStep
<1>17. ASSUME NEW t \in Threads, LockNothing(t) \/ LockFails(t)  PROVE FALSE
  BY <1>17, <1>i DEF LockNothing, LockFails, ThreadOK, StatusOK, LockOK, Unlocked
<1>18. ASSUME CloseCall  PROVE FramingInv'
  <2>1. /\ \A u \in Threads : pc[u] = "idle" /\ Same(u)
        /\ phase = "open" /\ UNCHANGED <<statusBits, replay, xcmp, status>>
    BY <1>18 DEF CloseCall, Same
  <2>2. ASSUME NEW u \in Threads  PROVE FramedOK(u)'
    <3>1. xcmp[u].kind = KindOf(status[u].cmp)
      BY <2>1, <1>i DEF ThreadOK, XcmpOK, Replacing
    <3> QED BY <2>1, <3>1, <1>i DEF FramedOK, ItemOK, BlockOK, Announcing, Filling, Syncing,
         Replacing, Same
  <2>3. FileBits' = FileBits
    BY <2>1, OpenerAssumption DEF FileBits, TokenDue, Announcing, Filling, Syncing, Same
  <2> QED BY <1>0, <1>i, <2>1, <2>2, <2>3, OpenerAssumption DEF FramingInv, ReplayOK
<1>19. ASSUME CloseDone \/ UNCHANGED vars  PROVE FramingInv'
  <2>1. /\ \A u \in Threads : Same(u)
        /\ UNCHANGED <<statusBits, replay, xcmp, status>>
        /\ phase' = phase \/ (phase # "open" /\ phase' # "open")
    BY <1>19 DEF CloseDone, vars, Same
  <2>2. ASSUME NEW u \in Threads  PROVE FramedOK(u)'
    BY <2>1, <1>i DEF FramedOK, ItemOK, BlockOK, Announcing, Filling, Syncing, Replacing, Same
  <2>3. FileBits' = FileBits
    BY <2>1, OpenerAssumption DEF FileBits, TokenDue, Announcing, Filling, Syncing, Same
  <2> QED BY <1>0, <1>i, <2>1, <2>2, <2>3, OpenerAssumption DEF FramingInv, ReplayOK
<1>20. ASSUME NEW t \in Threads, CloseThread(t)  PROVE FramingInv'
  <2> DEFINE items == xcmp[t].pending
  <2>1. /\ phase = "closing" /\ xcmp[t].kind # "none" /\ Emit(xcmp[t].kind, items)
        /\ xcmp' = [xcmp EXCEPT ![t] = NoXcmp]
        /\ UNCHANGED <<statusBits, pc, op, item, why, status, phase>>
    BY <1>20 DEF CloseThread
  <2>2. /\ \A u \in Threads : pc[u] = "idle" /\ op[u] = "none"
        /\ ~TokenDue /\ ~TokenDue' /\ items \in Seq(Item)
    BY <2>1, <1>0, <1>i, OpenerAssumption DEF OpenInv, MutexInv, ClosingAlone, TokenDue, Xcmp
  <2>3. xcmp[t].kind = KindOf(status[t].cmp) /\ status[t] = statusBits
    <3>1. xcmp[t].kind = KindOf(status[t].cmp)
      BY <2>1, <1>i DEF FramedOK, BlockOK
    <3>2. KindOf(DefaultStatus.cmp) = "none"
      BY DEF KindOf, DefaultStatus
    <3>3. status[t] # DefaultStatus
      BY <2>1, <3>1, <3>2
    <3> QED BY <2>2, <3>1, <3>3, <1>i DEF ThreadOK, SyncOK
  <2>4. replay.ok /\ replay.bits = status[t]
    BY <2>2, <2>3, <1>i DEF ReplayOK, FileBits
  <2>5. \A i \in DOMAIN items : ~items[i].tok /\ items[i].bits.crc = replay.bits.crc
    BY <2>2, <2>4, <1>i DEF FramedOK, BlockOK, Announcing
  <2>6. items # << >> => Len(items) \in DOMAIN items
    BY <2>2
  <2>7. /\ replay'.ok
        /\ replay'.bits = IF items # << >> /\ items[Len(items)].tok
                            THEN items[Len(items)].bits ELSE replay.bits
    BY <2>1, <2>2, <2>3, <2>4, <2>5, EmitFits
  <2>8. replay'.ok /\ replay'.bits = FileBits'
    BY <2>1, <2>2, <2>3, <2>4, <2>5, <2>6, <2>7 DEF FileBits
  <2>9. ASSUME NEW u \in Threads  PROVE FramedOK(u)'
    <3>1. CASE u = t
      <4>1. xcmp'[t].kind = "none" /\ xcmp'[t].pending = << >>
        BY <2>1, <1>0 DEF TypeOK, NoXcmp
      <4>2. pc'[t] = "idle" /\ op'[t] = "none"
        BY <2>1, <2>2
      <4>3. ~Announcing(t)' /\ ~Replacing(t)' /\ ~Syncing(t)'
        BY <4>2 DEF Announcing, Replacing, Syncing
      <4> QED BY <3>1, <4>1, <4>2, <4>3 DEF FramedOK, ItemOK, BlockOK
    <3>2. CASE u # t
      <4>1. Same(u)
        BY <2>1, <3>2, <1>0 DEF TypeOK, Same
      <4> QED BY <2>1, <2>2, <4>1, <1>i, SameFramed
    <3> QED BY <3>1, <3>2
  <2> QED BY <1>0, <2>8, <2>9 DEF FramingInv, ReplayOK
<1>21. ASSUME NEW t \in Threads, Call(t)  PROVE FramingInv'
  <2>1. ASSUME NEW c \in Compressions  PROVE [cmp |-> c, crc |-> FALSE, what |-> "cmp"] \in Wants
    BY CompressionsAssumption DEF Wants, Codecs
  <2>2. ASSUME NEW b \in BOOLEAN  PROVE [cmp |-> {}, crc |-> b, what |-> "crc"] \in Wants
    BY DEF Wants
  <2>3. ASSUME SetCompressionCall(t)  PROVE FramingInv'
    BY <1>2, <2>1, <2>3 DEF SetCompressionCall
  <2>4. ASSUME SetIntegrityCall(t)  PROVE FramingInv'
    BY <1>2, <2>2, <2>4 DEF SetIntegrityCall
  <2> QED BY <1>1, <1>21, <2>3, <2>4 DEF Call
<1> QED
  BY <1>3, <1>4, <1>5, <1>6, <1>7, <1>8, <1>9, <1>10, <1>11, <1>12, <1>13, <1>14,
     <1>15, <1>16, <1>17, <1>18, <1>19, <1>20, <1>21
     DEF Next, Acquire, Proceed, Close

LEMMA FramingInit ==
  ASSUME Init
  PROVE  FramingInv
<1>1. OpenInv
  BY OpenInit
<1>2. ReplayOK
  BY OpenerAssumption DEF Init, ReplayOK, ReplayStart, FileBits, TokenDue
<1>3. \A u \in Threads : FramedOK(u)
  BY DEF Init, FramedOK, ItemOK, BlockOK, Announcing, Filling, Syncing, Replacing, NoXcmp
<1> QED BY <1>1, <1>2, <1>3 DEF FramingInv

\* When the opener configures the stream before the other threads use it and
\* does not switch compression off again, a reader that takes the entries in
\* the order of the file finds each of them encoded as the tokens before it
\* say: the token of every setter is in the sink before the first block of the
\* new configuration, whoever writes that block and whenever it is closed.
THEOREM OpenFramed == ConfiguredFirst => (Spec => []Framed)
<1> SUFFICES ASSUME ConfiguredFirst  PROVE Spec => []Framed
  OBVIOUS
<1>1. Init => FramingInv
  BY FramingInit
<1>2. FramingInv /\ [Next]_vars => FramingInv'
  BY FramingStep
<1>3. FramingInv => Framed
  BY DEF FramingInv, ReplayOK, Framed
<1> QED BY <1>1, <1>2, <1>3, PTL DEF Spec
================================================================================
