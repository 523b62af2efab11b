--------------------------- MODULE HddmIstreamShared ---------------------------
(***************************************************************************)
(* Theorems about HddmIstream for any number of readers of one stream that *)
(* is not repositioned, when its configuration does not change any more    *)
(* once a record was written compressed.                                   *)
(***************************************************************************)
EXTENDS HddmIstreamAlone

\* From an entry on, this configuration is in force.
ModeFrom(f, e, bits) == \A d \in e .. Len(f) + 1 : InForce(f, d) = bits

\* A record at an entry is written compressed: nothing changes behind it.
ConfiguredFirst ==
  \A f \in Files : \A q \in RecordsOf(f) :
    InForce(f, q[1]).cmp # {} => ModeFrom(f, q[1], InForce(f, q[1]))

----------------------------------------------------------------------------
(* The invariant.  As long as the data are uncompressed, one reader at a time *)
(* is past lock_streambufs.  The one that meets the tokens that announce     *)
(* compression keeps the mutex until it has a record, and from then on the   *)
(* configuration word stands still.                                          *)

\* A reader of uncompressed data that is not past lock_streambufs.
Outside(t) ==
  /\ pc[t] \in {"idle", "lock"} /\ (pc[t] = "idle" <=> op[t] = "none")
  /\ ~Compressed(t) /\ mutexLock[t] = 0 /\ xcmp[t].kind = "none" /\ ~xcmp[t].mtx
  /\ xcmp[t].left = << >> /\ xcmp[t].at = 0 /\ ~xcmp[t].end
  /\ \A p \in marks[t] : MarkOK(file, p)

Quiet ==
  /\ fault = "none" /\ mutex = NoReader /\ pos <= Len(file) + 1
  /\ statusBits = InForce(file, pos) /\ statusBits.cmp = {}
  /\ \A t \in Readers : Outside(t) /\ (Alone => due[t] = 1 + Cardinality(Before(file, pos, 0)))

\* The reader that has the mutex, alone with the stream meanwhile.
Lead(h) ==
  /\ Good(h) /\ mutex = h /\ mutexLock[h] = 1 /\ ~xcmp[h].mtx
  /\ pc[h] \notin {"idle", "lock", "seat"} /\ (pc[h] = "unlock" => ~Compressed(h))
  /\ pos <= Len(file) + 1
  /\ \A u \in Readers \ {h} : Outside(u)

\* What a reader has in hand.
BlockOK(t) ==
  /\ IF xcmp[t].at \in DOMAIN file
       THEN /\ xcmp[t].at < pos /\ xcmp[t].off <= Len(file[xcmp[t].at].items)
            /\ xcmp[t].left = From(file[xcmp[t].at].items, xcmp[t].off)
       ELSE xcmp[t].left = << >>
  /\ ~Compressed(t) => xcmp[t].at = 0
  /\ Compressed(t) => statusBits.cmp # {}
  /\ pc[t] = "reconf" /\ statusBits.cmp # status[t].cmp => xcmp[t].left = << >>
  /\ pc[t] \in {"build", "source"} => xcmp[t].left = << >>
  /\ pc[t] = "eof" => pos > Len(file) /\ xcmp[t].left = << >>
  /\ pc[t] = "parse" =>
       LET e == ItemEntry(t)  i == ItemIndex(t)
       IN /\ e \in DOMAIN file /\ i \in DOMAIN file[e].items /\ item[t] = file[e].items[i]
          /\ ~Compressed(t) => i = Len(file[e].items)

Engaged(t) == pc[t] \in {"head", "fetch", "source", "parse", "eof", "unlock"}

\* Once the data are compressed: how a reader is configured, ...
Tuned(t) ==
  /\ pc[t] = "idle" <=> op[t] = "none"
  /\ Compressed(t) \/ Engaged(t) => status[t] = statusBits
  /\ pc[t] \in {"reconf", "build", "adopt"} => ~Compressed(t)
  /\ pc[t] \notin {"build", "adopt"} => xcmp[t].kind = KindOf(status[t].cmp)
  /\ pc[t] = "build" => newcmp[t] = statusBits.cmp
  /\ pc[t] = "adopt" => xcmp[t].kind = KindOf(statusBits.cmp)
  /\ ~Compressed(t) => xcmp[t].left = << >> /\ xcmp[t].at = 0 /\ ~xcmp[t].end /\ ~xcmp[t].mtx
  /\ xcmp[t].end => pos > Len(file) /\ xcmp[t].left = << >>
  /\ pc[t] = "fetch" => xcmp[t].left = << >>
  /\ xcmp[t].left # << >> \/ pc[t] = "parse" => ModeFrom(file, xcmp[t].at, statusBits)

\* ... and what it holds of the mutex.
Locked(t) ==
  /\ mutexLock[t] = 0 <=> pc[t] \in {"idle", "lock"}
  /\ mutexLock[t] = 1 => mutex = t
  /\ mutexLock[t] \in {2, 3} <=> xcmp[t].mtx
  /\ pc[t] = "source" => mutex = t

Settled ==
  /\ fault = "none" /\ pos <= Len(file) + 1
  /\ ModeFrom(file, pos, statusBits) /\ statusBits.cmp # {}
  /\ \A t \in Readers : Tuned(t) /\ Locked(t) /\ BlockOK(t)

NoSeeks ==
  \A t \in Readers :
    /\ op[t] # "seek" /\ pc[t] # "seat"
    /\ xcmp[t].seek.start = 0 /\ nextStart[t] = 0

----------------------------------------------------------------------------
(* What a step of one reader leaves alone.                                  *)

Step(t) == Call(t) \/ (fault = "none" /\ Acquire(t)) \/ Proceed(t)

Kept(u) ==
  /\ pc'[u] = pc[u] /\ op'[u] = op[u] /\ item'[u] = item[u] /\ newcmp'[u] = newcmp[u]
  /\ target'[u] = target[u]
  /\ status'[u] = status[u] /\ xcmp'[u] = xcmp[u] /\ mutexLock'[u] = mutexLock[u]
  /\ nextStart'[u] = nextStart[u] /\ last'[u] = last[u] /\ marks'[u] = marks[u]
  /\ taken'[u] = taken[u] /\ due'[u] = due[u] /\ hitEof'[u] = hitEof[u]

LEMMA OthersKept ==
  ASSUME TypeOK, NEW t \in Readers, Step(t)
  PROVE  file' = file /\ \A u \in Readers \ {t} : Kept(u)
<1> USE DEF TypeOK, Goto, Kept, sourceVars, sharedVars, callVars, privateVars, traceVars,
            boundVars
<1>1. CASE ReadCall(t)  BY <1>1 DEF ReadCall
<1>2. CASE SkipCall(t)  BY <1>2 DEF SkipCall
<1>3. CASE SeekCall(t)  BY <1>3 DEF SeekCall
<1>4. CASE LockSource(t)  BY <1>4 DEF LockSource
<1>5. CASE FetchLock(t)  BY <1>5 DEF FetchLock
<1>6. CASE LockLend(t)  BY <1>6 DEF LockLend
<1>7. CASE Update(t)  BY <1>7 DEF Update
<1>8. CASE Reconfigure(t)  BY <1>8 DEF Reconfigure
<1>9. CASE Build(t)  BY <1>9 DEF Build
<1>10. CASE Adopt(t)  BY <1>10 DEF Adopt
<1>11. CASE HeadRaw(t)  BY <1>11 DEF HeadRaw
<1>12. CASE HeadBlock(t)  BY <1>12 DEF HeadBlock
<1>13. CASE HeadFetch(t)  BY <1>13 DEF HeadFetch
<1>14. CASE HeadEnd(t)  BY <1>14 DEF HeadEnd
<1>15. CASE FetchBlock(t)  BY <1>15 DEF FetchBlock
<1>16. CASE FetchNothing(t)  BY <1>16 DEF FetchNothing
<1>17. CASE ReadRaw(t)  BY <1>17 DEF ReadRaw
<1>18. CASE Misread(t)  BY <1>18 DEF Misread
<1>19. CASE Token(t)  BY <1>19 DEF Token
<1>20. CASE Record(t)  BY <1>20 DEF Record
<1>21. CASE Unlock(t)  BY <1>21, SMTT(40) DEF Unlock, ReleaseStreambufs
<1>22. CASE Eof(t)  BY <1>22 DEF Eof, ReleaseStreambufs
<1>23. CASE SeekUnlock(t)  BY <1>23 DEF SeekUnlock, ReleaseStreambufs
<1>24. CASE Seat(t)  BY <1>24 DEF Seat
<1> QED
  BY <1>1, <1>2, <1>3, <1>4, <1>5, <1>6, <1>7, <1>8, <1>9, <1>10, <1>11, <1>12, <1>13, <1>14,
     <1>15, <1>16, <1>17, <1>18, <1>19, <1>20, <1>21, <1>22, <1>23, <1>24
     DEF Step, Call, Acquire, Proceed

\* Nobody repositions the stream.
LEMMA NoSeeksStep ==
  ASSUME TypeOK, NoSeeks, MaxSeeks = 0, NEW t \in Readers, Step(t)
  PROVE  NoSeeks' /\ ~SeekCall(t) /\ ~SeekUnlock(t) /\ ~Seat(t)
<1>1. ~SeekCall(t) /\ ~SeekUnlock(t) /\ ~Seat(t)
  BY DEF NoSeeks, SeekCall, SeekUnlock, Seat, TypeOK
<1> DEFINE P(u) == /\ op'[u] # "seek" /\ pc'[u] # "seat"
                   /\ xcmp'[u].seek.start = 0 /\ nextStart'[u] = 0
<1>2. ASSUME NEW u \in Readers, u # t  PROVE P(u)
  BY <1>2, OthersKept DEF Kept, NoSeeks
<1>3. P(t)
  <2> USE DEF NoSeeks, Goto, sourceVars, sharedVars, callVars, privateVars, traceVars, boundVars
  <2>0. /\ xcmp \in [Readers -> Inputs] /\ xcmp[t] \in Inputs /\ pc \in [Readers -> Labels]
        /\ op \in [Readers -> {"none", "read", "seek"}] /\ nextStart \in [Readers -> Nat]
        /\ NoPosition.start = 0
    BY DEF TypeOK, NoPosition
  <2>1. CASE ReadCall(t)  BY <2>0, <2>1 DEF ReadCall
  <2>2. CASE SkipCall(t)  BY <2>0, <2>2 DEF SkipCall
  <2>4. CASE LockSource(t)  BY <2>0, <2>4 DEF LockSource
  <2>5. CASE FetchLock(t)  BY <2>0, <2>5 DEF FetchLock
  <2>6. CASE LockLend(t)
    <3>1. xcmp'[t] = xcmp[t] \/ xcmp'[t] = [xcmp[t] EXCEPT !.mtx = TRUE]
      BY <2>0, <2>6 DEF LockLend
    <3>2. xcmp'[t].seek = xcmp[t].seek
      BY <2>0, <3>1, InputMutex
    <3> QED BY <2>0, <2>6, <3>2 DEF LockLend
  <2>7. CASE Update(t)  BY <2>0, <2>7 DEF Update, AfterUpdate
  <2>8. CASE Reconfigure(t)
    <3>1. xcmp'[t] = xcmp[t] \/ xcmp'[t] = NoInput
      BY <2>0, <2>8 DEF Reconfigure
    <3> QED BY <2>0, <2>8, <3>1 DEF Reconfigure, NoInput
  <2>9. CASE Build(t)
    <3>1. xcmp'[t] = NewInput(KindOf(newcmp[t]))
      BY <2>0, <2>9 DEF Build
    <3>2. xcmp'[t].seek = NoPosition
      BY <3>1 DEF NewInput, NoInput
    <3> QED BY <2>0, <2>9, <3>2 DEF Build
  <2>10. CASE Adopt(t)  BY <2>0, <2>10 DEF Adopt, AfterUpdate
  <2>11. CASE HeadRaw(t)  BY <2>0, <2>11 DEF HeadRaw
  <2>12. CASE HeadBlock(t)
    <3>1. xcmp'[t].seek = NoPosition
      BY <2>0, <2>12 DEF HeadBlock, Inputs
    <3> QED BY <2>0, <2>12, <3>1 DEF HeadBlock
  <2>13. CASE HeadFetch(t)  BY <2>0, <2>13 DEF HeadFetch
  <2>14. CASE HeadEnd(t)  BY <2>0, <2>14 DEF HeadEnd
  <2>15. CASE FetchBlock(t)
    <3>1. xcmp'[t].seek = NoPosition
      BY <2>0, <2>15 DEF FetchBlock, Inputs
    <3> QED BY <2>0, <2>15, <3>1 DEF FetchBlock
  <2>16. CASE FetchNothing(t)
    <3>1. xcmp'[t].seek = xcmp[t].seek
      BY <2>0, <2>16 DEF FetchNothing, Inputs
    <3> QED BY <2>0, <2>16, <3>1 DEF FetchNothing
  <2>17. CASE ReadRaw(t)  BY <2>0, <2>17 DEF ReadRaw
  <2>18. CASE Misread(t)  BY <2>0, <2>18 DEF Misread
  <2>19. CASE Token(t)  BY <2>0, <2>19 DEF Token
  <2>20. CASE Record(t)  BY <2>0, <2>20 DEF Record
  <2>21. ASSUME ReleaseStreambufs(t)  PROVE xcmp'[t].seek = xcmp[t].seek
    <3>1. xcmp'[t] = xcmp[t] \/ xcmp'[t] = [xcmp[t] EXCEPT !.mtx = FALSE]
      BY <2>0, <2>21 DEF ReleaseStreambufs
    <3> QED BY <2>0, <3>1, InputMutex
  <2>22. CASE Unlock(t)  BY <2>0, <2>21, <2>22 DEF Unlock
  <2>23. CASE Eof(t)  BY <2>0, <2>21, <2>23 DEF Eof
  <2> QED
    BY <1>1, <2>1, <2>2, <2>4, <2>5, <2>6, <2>7, <2>8, <2>9, <2>10, <2>11, <2>12, <2>13, <2>14,
       <2>15, <2>16, <2>17, <2>18, <2>19, <2>20, <2>22, <2>23 DEF Step, Call, Acquire, Proceed
<1> QED BY <1>1, <1>2, <1>3 DEF NoSeeks

\* What holds of a reader does not depend on the others but for the source.
LEMMA GoodOther ==
  ASSUME NEW u \in Readers, Good(u), Kept(u), fault' = fault, file' = file, pos' = pos,
         statusBits' = statusBits
  PROVE  Good(u)'
<1>1. /\ Compressed(u)' = Compressed(u) /\ Seeking(u)' = Seeking(u)
      /\ InsideBlock(u)' = InsideBlock(u)
  BY DEF Kept, Compressed, Seeking, InsideBlock
<1>2. /\ NextEntry(u)' = NextEntry(u) /\ NextOff(u)' = NextOff(u) /\ Drained(u)' = Drained(u)
      /\ ItemEntry(u)' = ItemEntry(u) /\ ItemIndex(u)' = ItemIndex(u)
  BY <1>1 DEF Kept, NextEntry, NextOff, Drained, ItemEntry, ItemIndex
<1>3. Behindhand(u)' = Behindhand(u)
  BY <1>2 DEF Behindhand
<1>4. fault' = "none" /\ \A p \in marks'[u] : MarkOK(file', p)
  BY DEF Kept, Good
<1>5. InputOK(file, pos, xcmp[u])'
  BY DEF Kept, Good, InputOK
<1>6. StartOK(u)' /\ StatusOK(u)' /\ LockOK(u)'
  BY <1>1 DEF Kept, Good, StartOK, StatusOK, LockOK
<1>7. KindOK(u)'
  BY <1>1 DEF Kept, Good, KindOK
<1>8. PlaceOK(u)'
  BY <1>2, <1>3 DEF Kept, Good, PlaceOK
<1>9. ItemOK(u)' = ItemOK(u)
  BY <1>1, <1>2 DEF Kept, ItemOK
<1>10. StepOK(u)'
  BY <1>1, <1>2, <1>9 DEF Kept, Good, StepOK
<1> QED BY <1>4, <1>5, <1>6, <1>7, <1>8, <1>10 DEF Good

LEMMA OutsideOther ==
  ASSUME NEW u \in Readers, Outside(u), Kept(u), file' = file
  PROVE  Outside(u)'
BY DEF Kept, Outside, Compressed

\* A reader that is outside has lost nothing.
LEMMA OutsideGood ==
  ASSUME TypeOK, NoSeeks, Quiet, NEW t \in Readers
  PROVE  Good(t)
<1>1. /\ pc[t] \in {"idle", "lock"} /\ (pc[t] = "idle" <=> op[t] = "none")
      /\ ~Compressed(t) /\ mutexLock[t] = 0 /\ xcmp[t].kind = "none"
      /\ xcmp[t].left = << >> /\ xcmp[t].at = 0 /\ ~xcmp[t].end
      /\ \A p \in marks[t] : MarkOK(file, p)
      /\ (Alone => due[t] = 1 + Cardinality(Before(file, pos, 0)))
      /\ statusBits = InForce(file, pos) /\ statusBits.cmp = {} /\ fault = "none"
  BY DEF Quiet, Outside
<1>2. op[t] # "seek" /\ xcmp[t].seek.start = 0 /\ nextStart[t] = 0
  BY DEF NoSeeks
<1>3. ~Seeking(t) /\ NextEntry(t) = pos /\ NextOff(t) = 0 /\ Drained(t)
  BY <1>1, <1>2 DEF Seeking, NextEntry, NextOff, Drained
<1>4. InputOK(file, pos, xcmp[t])
  <2>1. 0 \notin DOMAIN file
    <3>1. DOMAIN file = 1 .. Len(file)
      BY FileShape, FieldTypes
    <3> QED BY <3>1
  <2> QED BY <1>1, <1>2, <2>1 DEF InputOK
<1>5. StartOK(t) /\ LockOK(t) /\ StepOK(t)
  BY <1>1, <1>2 DEF StartOK, LockOK, StepOK
<1>6. StatusOK(t) /\ KindOK(t)
  <2>1. status[t].cmp = {} /\ {} # Codecs /\ KindOf({}) = "none"
    BY <1>1 DEF Compressed, Codecs, KindOf
  <2> QED BY <1>1, <1>3, <2>1 DEF StatusOK, KindOK
<1>7. PlaceOK(t)
  BY <1>1, <1>3 DEF PlaceOK, Behindhand
<1> QED BY <1>1, <1>4, <1>5, <1>6, <1>7 DEF Good

----------------------------------------------------------------------------
(* What the phases have in common.                                          *)

LEMMA GoodBlock ==
  ASSUME TypeOK, NoSeeks, NEW t \in Readers, Good(t)
  PROVE  BlockOK(t)
<1>0. /\ DOMAIN file = 1 .. Len(file) /\ Len(file) \in Nat /\ pos \in Nat /\ xcmp[t].at \in Nat
  BY FileShape, FieldTypes
<1>1. op[t] # "seek" /\ nextStart[t] = 0 /\ ~Seeking(t)
  BY DEF NoSeeks, Seeking
<1>2. IF xcmp[t].at \in DOMAIN file
        THEN /\ xcmp[t].at < pos /\ xcmp[t].off <= Len(file[xcmp[t].at].items)
             /\ xcmp[t].left = From(file[xcmp[t].at].items, xcmp[t].off)
        ELSE xcmp[t].left = << >>
  BY <1>0 DEF Good, InputOK
<1>3. ~Compressed(t) => xcmp[t].at = 0
  BY DEF Good, KindOK
<1>4. Compressed(t) => statusBits.cmp # {}
  BY DEF Good, StatusOK
<1>5. ~Compressed(t) => xcmp[t].left = << >>
  <2>1. 0 \notin DOMAIN file
    BY <1>0
  <2> QED BY <1>2, <1>3, <2>1
<1>6. pc[t] = "reconf" /\ statusBits.cmp # status[t].cmp => xcmp[t].left = << >>
  <2>1. pc[t] = "reconf" /\ statusBits.cmp # status[t].cmp => Drained(t)
    BY <1>1 DEF Good, PlaceOK
  <2> QED BY <1>5, <2>1 DEF Drained
<1>7. pc[t] \in {"build", "source"} => xcmp[t].left = << >>
  <2>1. pc[t] = "build" => xcmp[t].left = << >>
    BY DEF Good, KindOK
  <2>2. pc[t] = "source" => Drained(t)
    BY <1>1 DEF Good, StepOK
  <2> QED BY <1>5, <2>1, <2>2 DEF Drained
<1>8. pc[t] = "eof" => pos > Len(file) /\ xcmp[t].left = << >>
  <2>1. SUFFICES ASSUME pc[t] = "eof"  PROVE pos > Len(file) /\ xcmp[t].left = << >>
    OBVIOUS
  <2>2. NextEntry(t) > Len(file)
    BY <2>1 DEF Good, StepOK
  <2>3. xcmp[t].left = << >>
    <3>1. SUFFICES ASSUME Compressed(t), xcmp[t].left # << >>  PROVE FALSE
      BY <1>5
    <3>2. NextEntry(t) = xcmp[t].at /\ xcmp[t].at \in DOMAIN file
      BY <1>1, <1>2, <3>1 DEF NextEntry
    <3> QED BY <1>0, <2>2, <3>2
  <2>4. NextEntry(t) = pos
    BY <1>1, <2>3 DEF NextEntry
  <2> QED BY <2>2, <2>3, <2>4
<1>9. pc[t] = "parse" =>
        LET e == ItemEntry(t)  i == ItemIndex(t)
        IN /\ e \in DOMAIN file /\ i \in DOMAIN file[e].items /\ item[t] = file[e].items[i]
           /\ ~Compressed(t) => i = Len(file[e].items)
  BY ParsePlace
<1> QED BY <1>2, <1>3, <1>4, <1>6, <1>7, <1>8, <1>9 DEF BlockOK

LEMMA OutsideBlock ==
  ASSUME TypeOK, NEW t \in Readers, Outside(t)
  PROVE  BlockOK(t)
<1>1. 0 \notin DOMAIN file
  <2>1. DOMAIN file = 1 .. Len(file)
    BY FileShape, FieldTypes
  <2> QED BY <2>1
<1> QED BY <1>1 DEF Outside, BlockOK

\* A reader that was outside when the data became compressed.
LEMMA OutsideSettled ==
  ASSUME NEW t \in Readers, Outside(t)
  PROVE  Tuned(t) /\ Locked(t)
<1>1. status[t].cmp = {} /\ KindOf({}) = "none"
  BY DEF Outside, Compressed, KindOf
<1> QED BY <1>1 DEF Outside, Tuned, Locked, Engaged, Compressed

LEMMA OutsideAll ==
  /\ \A t \in Readers : TypeOK /\ Outside(t) => BlockOK(t)
  /\ \A t \in Readers : Outside(t) => Tuned(t) /\ Locked(t)
  /\ \A t \in Readers : TypeOK /\ NoSeeks /\ Good(t) => BlockOK(t)
BY OutsideBlock, OutsideSettled, GoodBlock

\* The same of the state after a step.
LEMMA OutsideNext ==
  (/\ \A t \in Readers : TypeOK /\ Outside(t) => BlockOK(t)
   /\ \A t \in Readers : Outside(t) => Tuned(t) /\ Locked(t)
   /\ \A t \in Readers : TypeOK /\ NoSeeks /\ Good(t) => BlockOK(t))'
BY OutsideAll, PTL
----------------------------------------------------------------------------
(* As long as the data are uncompressed.                                    *)

\* Nobody is past lock_streambufs: a reader may call, or take the mutex.
LEMMA QuietStep ==
  ASSUME TypeOK, NoSeeks, MaxSeeks = 0, Quiet, NEW t \in Readers, Step(t)
  PROVE  Quiet' \/ Lead(t)'
<1>1. /\ pc[t] \in {"idle", "lock"} /\ ~Compressed(t) /\ Outside(t)
      /\ xcmp[t].kind = "none" /\ ~xcmp[t].mtx
  BY DEF Quiet, Outside
<1>2. ReadCall(t) \/ SkipCall(t) \/ LockSource(t)
  BY <1>1, NoSeeksStep DEF Step, Call, Acquire, Proceed, FetchLock, LockLend, Update, Reconfigure,
     Build, Adopt, HeadRaw, HeadBlock, HeadFetch, HeadEnd, FetchBlock, FetchNothing, ReadRaw,
     Misread, Token, Record, Unlock, Eof
<1>3. file' = file /\ \A u \in Readers \ {t} : Outside(u)' /\ Kept(u)
  BY OthersKept, OutsideOther DEF Quiet
<1>4. CASE ReadCall(t) \/ SkipCall(t)
  <2>1. UNCHANGED <<file, pos, statusBits, mutex, mutexLock, status, xcmp, marks, due, fault>>
    BY <1>4 DEF ReadCall, SkipCall, sourceVars, sharedVars, privateVars, traceVars
  <2>2. pc'[t] \in {"idle", "lock"} /\ (pc'[t] = "idle" <=> op'[t] = "none")
    BY <1>1, <1>4 DEF ReadCall, SkipCall, Goto, TypeOK, callVars, Outside
  <2>3. Outside(t)'
    BY <1>1, <2>1, <2>2 DEF Outside, Compressed
  <2> QED BY <1>3, <2>1, <2>3 DEF Quiet
<1>5. CASE LockSource(t)
  <2>1. Good(t)'
    BY <1>5, OutsideGood, LockSourceGood
  <2>2. /\ mutex' = t /\ mutexLock'[t] = 1 /\ pc'[t] = "update"
        /\ xcmp' = xcmp /\ pos' = pos
    BY <1>5 DEF LockSource, Goto, TypeOK, sourceVars
  <2> QED BY <1>1, <1>3, <2>1, <2>2 DEF Quiet, Lead
<1> QED BY <1>2, <1>4, <1>5

\* One reader has the mutex: another one can only call, and waits for it.
LEMMA LeadOther ==
  ASSUME TypeOK, NoSeeks, MaxSeeks = 0, NEW h \in Readers, Lead(h),
         NEW t \in Readers, t # h, Step(t)
  PROVE  Lead(h)'
<1>1. Outside(t) /\ pc[t] \in {"idle", "lock"} /\ ~Compressed(t) /\ mutex # NoReader
  BY NoReaderAssumption DEF Lead, Outside
<1>2. ReadCall(t) \/ SkipCall(t)
  BY <1>1, NoSeeksStep DEF Step, Call, Acquire, Proceed, LockSource, FetchLock, LockLend, Update,
     Reconfigure, Build, Adopt, HeadRaw, HeadBlock, HeadFetch, HeadEnd, FetchBlock, FetchNothing,
     ReadRaw, Misread, Token, Record, Unlock, Eof
<1>3. file' = file /\ \A u \in Readers \ {t} : Kept(u)
  BY OthersKept
<1>4. UNCHANGED <<pos, statusBits, mutex, mutexLock, status, xcmp, marks, fault>>
  BY <1>2 DEF ReadCall, SkipCall, sourceVars, sharedVars, privateVars, traceVars
<1>5. Outside(t)'
  <2>1. pc'[t] \in {"idle", "lock"} /\ (pc'[t] = "idle" <=> op'[t] = "none")
    BY <1>1, <1>2 DEF ReadCall, SkipCall, Goto, TypeOK, callVars, Outside
  <2> QED BY <1>1, <1>3, <1>4, <2>1 DEF Outside, Compressed
<1>6. Good(h)' /\ Kept(h)
  BY <1>3, <1>4, GoodOther DEF Lead
<1>7. \A u \in Readers \ {h} : Outside(u)'
  BY <1>3, <1>5, OutsideOther DEF Lead
<1>8. Compressed(h)' = Compressed(h)
  BY <1>6 DEF Kept, Compressed
<1> QED BY <1>3, <1>4, <1>6, <1>7, <1>8 DEF Lead, Kept

\* The steps with which it keeps the mutex.
LEMMA LeadKeep ==
  ASSUME TypeOK, NoSeeks, NEW h \in Readers, Lead(h), Step(h), Good(h)',
         mutex' = mutex, mutexLock' = mutexLock, ~xcmp'[h].mtx, pos' <= Len(file) + 1,
         pc'[h] \notin {"idle", "lock", "seat", "unlock"}
  PROVE  Lead(h)'
<1>1. file' = file /\ \A u \in Readers \ {h} : Kept(u)
  BY OthersKept
<1>2. \A u \in Readers \ {h} : Outside(u)'
  BY <1>1, OutsideOther DEF Lead
<1> QED BY <1>1, <1>2 DEF Lead

\* Tokens, blocks and items of its own are read under that mutex.
LEMMA LeadReads ==
  ASSUME TypeOK, NoSeeks, NEW h \in Readers, Lead(h), Step(h),
         \/ Update(h) \/ Reconfigure(h) \/ Build(h) \/ Adopt(h)
         \/ HeadRaw(h) \/ HeadBlock(h) \/ HeadFetch(h) \/ HeadEnd(h) \/ FetchLock(h)
         \/ FetchBlock(h) \/ FetchNothing(h) \/ ReadRaw(h) \/ Misread(h) \/ Token(h)
  PROVE  Lead(h)'
<1>1. /\ Good(h) /\ ~xcmp[h].mtx /\ pos <= Len(file) + 1 /\ op[h] # "seek"
      /\ nextStart[h] = 0 /\ ~Seeking(h)
  BY DEF Lead, NoSeeks, Seeking
<1>2. /\ DOMAIN file = 1 .. Len(file) /\ Len(file) \in Nat /\ pos \in Nat
      /\ xcmp \in [Readers -> Inputs] /\ xcmp[h] \in Inputs /\ pc \in [Readers -> Labels]
  BY FileShape, FieldTypes DEF TypeOK
<1>3. CASE Update(h)
  <2>1. UNCHANGED <<pos, mutex, mutexLock, xcmp>> /\ pc'[h] \in {"head", "reconf"}
    BY <1>1, <1>2, <1>3 DEF Update, AfterUpdate, Goto, sourceVars, sharedVars, privateVars
  <2> QED BY <1>1, <1>3, <2>1, UpdateGood, LeadKeep
<1>4. CASE Reconfigure(h)
  <2>1. UNCHANGED <<pos, mutex, mutexLock>> /\ pc'[h] \in {"adopt", "build"}
    BY <1>2, <1>4 DEF Reconfigure, Goto, sourceVars, sharedVars
  <2>2. xcmp'[h] = xcmp[h] \/ xcmp'[h] = NoInput
    BY <1>2, <1>4 DEF Reconfigure
  <2>3. ~xcmp'[h].mtx
    BY <1>1, <2>2 DEF NoInput
  <2> QED BY <1>1, <1>4, <2>1, <2>3, ReconfigureGood, LeadKeep
<1>5. CASE Build(h)
  <2>1. UNCHANGED <<pos, mutex, mutexLock>> /\ pc'[h] = "adopt"
        /\ xcmp'[h] = NewInput(KindOf(newcmp[h]))
    BY <1>2, <1>5 DEF Build, Goto, sourceVars, sharedVars
  <2>2. ~xcmp'[h].mtx
    BY <2>1 DEF NewInput, NoInput
  <2> QED BY <1>1, <1>5, <2>1, <2>2, BuildGood, LeadKeep
<1>6. CASE Adopt(h)
  <2>1. UNCHANGED <<pos, mutex, mutexLock, xcmp>> /\ pc'[h] = "head"
    BY <1>1, <1>2, <1>6 DEF Adopt, AfterUpdate, Goto, sourceVars, sharedVars
  <2> QED BY <1>1, <1>6, <2>1, AdoptGood, LeadKeep
<1>7. CASE HeadRaw(h)
  <2>1. UNCHANGED <<pos, mutex, mutexLock, xcmp>> /\ pc'[h] = "source"
    BY <1>1, <1>2, <1>7 DEF HeadRaw, Goto, sharedVars
  <2> QED BY <1>1, <1>7, <2>1, HeadRawGood, LeadKeep
<1>8. CASE HeadBlock(h)
  <2>1. UNCHANGED <<pos, mutex, mutexLock>> /\ pc'[h] = "parse" /\ xcmp'[h].mtx = xcmp[h].mtx
    BY <1>2, <1>8 DEF HeadBlock, Goto, sourceVars, sharedVars, Inputs
  <2> QED BY <1>1, <1>8, <2>1, HeadBlockGood, LeadKeep
<1>9. CASE HeadFetch(h)
  <2>1. UNCHANGED <<pos, mutex, mutexLock, xcmp>> /\ pc'[h] = "fetch"
    BY <1>2, <1>9 DEF HeadFetch, Goto, sourceVars, sharedVars, privateVars
  <2> QED BY <1>1, <1>9, <2>1, HeadFetchGood, LeadKeep
<1>10. CASE HeadEnd(h)
  <2>1. UNCHANGED <<pos, mutex, mutexLock, xcmp>> /\ pc'[h] = "eof"
    BY <1>2, <1>10 DEF HeadEnd, Goto, sourceVars, sharedVars, privateVars
  <2> QED BY <1>1, <1>10, <2>1, HeadEndGood, LeadKeep
<1>11. CASE FetchLock(h)
  <2>1. UNCHANGED <<pos, mutex, mutexLock, xcmp>> /\ pc'[h] = "source"
    BY <1>1, <1>2, <1>11 DEF FetchLock, Goto, sourceVars, privateVars
  <2> QED BY <1>1, <1>11, <2>1, FetchLockGood, LeadKeep
<1>12. CASE FetchBlock(h)
  <2>1. /\ mutex' = mutex /\ mutexLock' = mutexLock /\ pc'[h] = "head"
        /\ pos' = pos + 1 /\ pos <= Len(file)
    BY <1>1, <1>2, <1>12 DEF FetchBlock, Goto
  <2>2. xcmp'[h].mtx = xcmp[h].mtx
    BY <1>2, <1>12 DEF FetchBlock, Inputs
  <2> QED BY <1>1, <1>2, <1>12, <2>1, <2>2, FetchBlockGood, LeadKeep
<1>13. CASE FetchNothing(h)
  <2>1. UNCHANGED <<pos, mutex, mutexLock>> /\ pc'[h] = "head"
    BY <1>1, <1>2, <1>13 DEF FetchNothing, Goto, sourceVars
  <2>2. xcmp'[h].mtx = xcmp[h].mtx
    BY <1>2, <1>13 DEF FetchNothing, Inputs
  <2> QED BY <1>1, <1>13, <2>1, <2>2, FetchNothingGood, LeadKeep
<1>14. CASE ReadRaw(h)
  <2>1. /\ UNCHANGED <<mutex, mutexLock, xcmp>> /\ pc'[h] \in {"eof", "parse"}
        /\ pos' = pos \/ (pos' = pos + 1 /\ ~(pos > Len(file)))
    BY <1>2, <1>14 DEF ReadRaw, Goto, sharedVars, privateVars
  <2> QED BY <1>1, <1>2, <1>14, <2>1, ReadRawGood, LeadKeep
<1>15. CASE Token(h)
  <2>1. UNCHANGED <<pos, mutex, mutexLock, xcmp>> /\ pc'[h] = "update"
    BY <1>2, <1>15 DEF Token, Goto, sourceVars, privateVars
  <2> QED BY <1>1, <1>15, <2>1, TokenGood, LeadKeep
<1> QED
  BY <1>1, <1>3, <1>4, <1>5, <1>6, <1>7, <1>8, <1>9, <1>10, <1>11, <1>12, <1>13, <1>14, <1>15,
     MisreadNever

\* The data are compressed, and the first record of them was read: the others,
\* still outside, will find a configuration that does not change any more.
LEMMA LeadRecord ==
  ASSUME TypeOK, TypeOK', NoSeeks, MaxSeeks = 0, ConfiguredFirst,
         NEW h \in Readers, Lead(h), Record(h)
  PROVE  Lead(h)' \/ Settled'
<1> DEFINE e == ItemEntry(h)
           i == ItemIndex(h)
<1>0. Good(h) /\ Step(h)
  BY DEF Lead, Step, Proceed, Good
<1>1. Good(h)' /\ NoSeeks'
  BY <1>0, RecordGood, NoSeeksStep
<1>2. /\ pc[h] = "parse" /\ pc'[h] = "unlock" /\ ~item[h].tok
      /\ UNCHANGED <<pos, statusBits, mutex, mutexLock, status, xcmp, op>>
  BY DEF Record, Goto, TypeOK, sourceVars, sharedVars, callVars
<1>3. file' = file /\ \A u \in Readers \ {h} : Outside(u)'
  BY <1>0, OthersKept, OutsideOther DEF Lead
<1>4. CASE ~Compressed(h)
  <2>1. ~Compressed(h)'
    BY <1>2, <1>4 DEF Compressed
  <2> QED BY <1>1, <1>2, <1>3, <2>1 DEF Lead
<1>5. CASE Compressed(h)
  <2>1. /\ e \in DOMAIN file /\ i \in DOMAIN file[e].items /\ item[h] = file[e].items[i]
        /\ statusBits = InForce(file, e) /\ status[h] = statusBits
    BY <1>0, <1>2, ParsePlace
  <2>2. e = xcmp[h].at
    BY <1>5 DEF ItemEntry
  <2> HIDE DEF e, i
  <2>3. /\ DOMAIN file = 1 .. Len(file) /\ Len(file) \in Nat /\ file \in Files
    BY FileShape, FieldTypes
  <2>4. ModeFrom(file, e, statusBits)
    <3>1. <<e, i>> \in RecordsOf(file)
      BY <1>2, <2>1, RecordPlaces
    <3>2. <<e, i>>[1] = e
      OBVIOUS
    <3>3. InForce(file, e).cmp # {}
      BY <1>5, <2>1 DEF Compressed
    <3> QED BY <2>1, <2>3, <3>1, <3>2, <3>3 DEF ConfiguredFirst
  <2>5. pos = e + 1
    BY <2>1, <2>2 DEF Lead, Good, InputOK
  <2>6. ModeFrom(file, pos, statusBits) /\ pos <= Len(file) + 1
    BY <2>1, <2>3, <2>4, <2>5 DEF ModeFrom
  <2>7. Tuned(h)'
    <3>1. /\ pc'[h] = "idle" <=> op'[h] = "none"
          /\ xcmp'[h].kind = KindOf(status'[h].cmp) /\ status'[h] = statusBits'
          /\ Compressed(h)'
      BY <1>1, <1>2, <1>5, <2>1 DEF Good, StepOK, KindOK, Compressed
    <3>2. xcmp'[h].end => pos' > Len(file') /\ xcmp'[h].left = << >>
      BY <1>1 DEF Good, InputOK
    <3>3. ModeFrom(file', xcmp'[h].at, statusBits')
      BY <1>2, <1>3, <2>2, <2>4
    <3> QED BY <1>2, <3>1, <3>2, <3>3 DEF Tuned
  <2>8. Locked(h)' /\ BlockOK(h)'
    <3>1. BlockOK(h)'
      BY <1>1, OutsideNext
    <3> QED BY <1>2, <3>1 DEF Lead, Locked
  <2>9. \A u \in Readers \ {h} : Tuned(u)' /\ Locked(u)' /\ BlockOK(u)'
    BY <1>3, OutsideNext
  <2>10. fault' = "none" /\ statusBits'.cmp # {} /\ ModeFrom(file', pos', statusBits')
         /\ pos' <= Len(file') + 1
    BY <1>1, <1>2, <1>3, <1>5, <2>1, <2>6 DEF Good, Compressed
  <2> QED BY <2>7, <2>8, <2>9, <2>10 DEF Settled
<1> QED BY <1>4, <1>5

\* The stream is left as uncompressed as it was.
LEMMA LeadLeaves ==
  ASSUME TypeOK, NoSeeks, MaxSeeks = 0, NEW h \in Readers, Lead(h), ~Compressed(h),
         statusBits = status[h], Step(h), Unlock(h) \/ Eof(h)
  PROVE  Quiet'
<1>0. Good(h) /\ ~xcmp[h].mtx /\ mutexLock[h] = 1 /\ pos <= Len(file) + 1
  BY DEF Lead
<1>1. Good(h)' /\ NoSeeks'
  BY <1>0, UnlockGood, EofGood, NoSeeksStep
<1>2. /\ ReleaseStreambufs(h) /\ UNCHANGED <<pos, statusBits, status>>
      /\ pc'[h] \in {"idle", "lock"}
  BY DEF Unlock, Eof, sourceVars, Goto, TypeOK
<1>3. mutex' = NoReader /\ xcmp' = xcmp /\ mutexLock'[h] = 0 /\ fault' = "none"
  <2>1. mutexLock \in [Readers -> {0, 1, 2, 3}]
    BY DEF TypeOK
  <2> QED BY <1>0, <1>2, <2>1 DEF ReleaseStreambufs, Good
<1>4. file' = file /\ \A u \in Readers \ {h} : Outside(u)'
  BY OthersKept, OutsideOther DEF Lead
<1>5. ~Compressed(h)' /\ statusBits'.cmp = {}
  BY <1>2 DEF Compressed
<1>6. xcmp'[h].left = << >> /\ xcmp'[h].at = 0 /\ ~xcmp'[h].end /\ xcmp'[h].kind = "none"
  <2>1. xcmp[h].at = 0 /\ ~xcmp[h].end
    BY <1>0 DEF Good, KindOK
  <2>2. 0 \notin DOMAIN file
    <3>1. DOMAIN file = 1 .. Len(file)
      BY FileShape, FieldTypes
    <3> QED BY <3>1
  <2>3. xcmp'[h].kind = KindOf(status'[h].cmp)
    BY <1>1, <1>2 DEF Good, KindOK
  <2>4. KindOf({}) = "none" /\ status'[h].cmp = {}
    BY <1>5 DEF KindOf, Compressed
  <2> QED BY <1>0, <1>3, <2>1, <2>2, <2>3, <2>4 DEF Good, InputOK
<1>7. Outside(h)'
  <2>1. /\ pc'[h] = "idle" <=> op'[h] = "none"
        /\ \A p \in marks'[h] : MarkOK(file', p)
    BY <1>1 DEF Good, StepOK
  <2> QED BY <1>0, <1>2, <1>3, <1>5, <1>6, <2>1 DEF Outside
<1>8. NextEntry(h)' = pos' /\ NextOff(h)' = 0
  BY <1>1, <1>5 DEF NextEntry, NextOff, NoSeeks
<1>9. /\ statusBits' = InForce(file', pos')
      /\ (Alone => due'[h] = 1 + Cardinality(Before(file', pos', 0)))
  <2>1. op'[h] # "seek" /\ pc'[h] # "parse"
    BY <1>1, <1>2 DEF NoSeeks
  <2> QED BY <1>1, <1>8, <2>1 DEF Good, PlaceOK, Behindhand
<1>10. \A t \in Readers : Outside(t)' /\ (Alone => due'[t] = 1 + Cardinality(Before(file', pos', 0)))
  BY <1>4, <1>7, <1>9 DEF Alone
<1> QED BY <1>0, <1>2, <1>3, <1>4, <1>5, <1>9, <1>10 DEF Quiet

\* The end was met before any compressed record.
LEMMA LeadEof ==
  ASSUME TypeOK, TypeOK', NoSeeks, MaxSeeks = 0, NEW h \in Readers, Lead(h), Eof(h)
  PROVE  Quiet' \/ Settled'
<1>0. Good(h) /\ Step(h) /\ pc[h] = "eof" /\ ~xcmp[h].mtx /\ mutexLock[h] = 1
      /\ pos <= Len(file) + 1
  BY DEF Lead, Step, Proceed, Good, Eof
<1>1. Good(h)' /\ NoSeeks'
  BY <1>0, EofGood, NoSeeksStep
<1>2. status[h] = statusBits
  BY <1>0 DEF Good, StatusOK
<1>3. CASE ~Compressed(h)
  BY <1>0, <1>2, <1>3, LeadLeaves
<1>4. CASE Compressed(h)
  <2>1. BlockOK(h) /\ pos > Len(file) /\ xcmp[h].left = << >>
    BY <1>0, GoodBlock DEF BlockOK
  <2>2. Len(file) \in Nat /\ pos = Len(file) + 1
    BY <1>0, <2>1, FileShape, FieldTypes
  <2>3. statusBits = InForce(file, pos)
    <3>1. NextEntry(h) = pos
      BY <1>4, <2>1 DEF NextEntry, Seeking, NoSeeks
    <3> QED BY <1>0, <3>1 DEF Good, PlaceOK, NoSeeks
  <2>4. ModeFrom(file, pos, statusBits)
    BY <2>2, <2>3 DEF ModeFrom
  <2>5. /\ UNCHANGED <<pos, statusBits, status>> /\ pc'[h] = "idle" /\ op'[h] = "none"
        /\ xcmp' = xcmp /\ mutexLock'[h] = 0
    BY <1>0 DEF Eof, ReleaseStreambufs, sourceVars, Goto, TypeOK
  <2>6. file' = file /\ \A u \in Readers \ {h} : Outside(u)'
    BY <1>0, OthersKept, OutsideOther DEF Lead
  <2>7. Tuned(h)' /\ Locked(h)' /\ BlockOK(h)'
    <3>1. Compressed(h)' /\ xcmp'[h].kind = KindOf(status'[h].cmp)
      BY <1>1, <1>4, <2>5 DEF Good, KindOK, Compressed
    <3>2. Tuned(h)'
      BY <1>2, <2>1, <2>5, <2>6, <3>1 DEF Tuned
    <3> QED BY <1>0, <1>1, <2>5, <3>2, OutsideNext DEF Locked
  <2>8. \A u \in Readers \ {h} : Tuned(u)' /\ Locked(u)' /\ BlockOK(u)'
    BY <2>6, OutsideNext
  <2>9. statusBits'.cmp # {} /\ fault' = "none"
    BY <1>1, <1>2, <1>4, <2>5 DEF Compressed, Good
  <2> QED BY <1>0, <2>4, <2>5, <2>6, <2>7, <2>8, <2>9 DEF Settled
<1> QED BY <1>3, <1>4

LEMMA LeadStep ==
  ASSUME TypeOK, TypeOK', NoSeeks, MaxSeeks = 0, ConfiguredFirst,
         NEW h \in Readers, Lead(h), Step(h)
  PROVE  Quiet' \/ Lead(h)' \/ Settled'
<1>1. pc[h] \notin {"idle", "lock", "seat"}
  BY DEF Lead
<1>2. ~(ReadCall(h) \/ SkipCall(h) \/ LockSource(h) \/ LockLend(h))
  BY <1>1 DEF ReadCall, SkipCall, LockSource, LockLend, Enter
<1>3. CASE Unlock(h)
  <2>1. ~Compressed(h) /\ status[h] = statusBits
    BY <1>3 DEF Lead, Unlock, Good, StatusOK
  <2> QED BY <1>3, <2>1, LeadLeaves
<1> QED
  BY <1>2, <1>3, NoSeeksStep, LeadReads, LeadRecord, LeadEof DEF Step, Call, Acquire, Proceed

----------------------------------------------------------------------------
(* Once the data are compressed.                                            *)

Mine(t) == Tuned(t) /\ Locked(t) /\ BlockOK(t)

\* What a reader does to the others.
Passes(t) ==
  /\ fault' = fault /\ statusBits' = statusBits
  /\ pos' \in {pos, pos + 1} /\ pos' <= Len(file) + 1
  /\ mutex' = mutex \/ mutex = NoReader \/ mutex = t

\* A reader that would use the configuration has it.
LEMMA SettledReader ==
  ASSUME TypeOK, NoSeeks, Settled, NEW t \in Readers
  PROVE  /\ Compressed(t) <=> status[t] = statusBits
         /\ Engaged(t) => Compressed(t)
         /\ ~Seeking(t) /\ op[t] # "seek" /\ nextStart[t] = 0 /\ pc[t] # "seat"
         /\ status[t].cmp # Codecs /\ statusBits.cmp # Codecs /\ statusBits.cmp # {}
         /\ Compressed(t) /\ pc[t] \notin {"build", "adopt"} => xcmp[t].kind # "none"
         /\ mutexLock[t] \in {2, 3} => xcmp[t].kind # "none"
         /\ pos \in DOMAIN file => file[pos].kind = KindOf(statusBits.cmp)
         /\ statusBits = InForce(file, pos)
<1>1. Tuned(t) /\ Locked(t) /\ statusBits.cmp # {} /\ ModeFrom(file, pos, statusBits)
  BY DEF Settled
<1>2. /\ Compressed(t) <=> status[t] = statusBits
      /\ Engaged(t) => Compressed(t)
  BY <1>1 DEF Tuned, Compressed
<1>3. ~Seeking(t) /\ op[t] # "seek" /\ nextStart[t] = 0 /\ pc[t] # "seat"
  BY DEF NoSeeks, Seeking
<1>4. /\ file \in Files /\ DOMAIN file = 1 .. Len(file) /\ Len(file) \in Nat /\ pos \in Nat
      /\ pos > 0 /\ pos <= Len(file) + 1
  BY FileShape, FieldTypes DEF Settled
<1>5. statusBits = InForce(file, pos)
  BY <1>1, <1>4 DEF ModeFrom
<1>6. statusBits.cmp # Codecs
  BY <1>4, <1>5, FileForce
<1>7. status[t].cmp # Codecs
  BY <1>2, <1>6 DEF Compressed, Codecs
<1>8. Compressed(t) /\ pc[t] \notin {"build", "adopt"} => xcmp[t].kind # "none"
  BY <1>1, <1>7, FieldTypes, KindTypes DEF Tuned, Compressed
<1>9. mutexLock[t] \in {2, 3} => xcmp[t].kind # "none"
  BY <1>1, <1>8 DEF Tuned, Locked
<1>10. pos \in DOMAIN file => file[pos].kind = KindOf(statusBits.cmp)
  BY <1>4, <1>5, FileForce
<1> QED BY <1>1, <1>2, <1>3, <1>5, <1>6, <1>7, <1>8, <1>9, <1>10

LEMMA Bystander ==
  ASSUME TypeOK, NoSeeks, Settled, NEW t \in Readers, Step(t), Passes(t),
         NEW u \in Readers \ {t}
  PROVE  Mine(u)'
<1>1. Kept(u) /\ file' = file /\ Mine(u)
  BY OthersKept DEF Settled, Mine
<1>2. /\ Compressed(u)' = Compressed(u) /\ Engaged(u)' = Engaged(u)
  BY <1>1 DEF Kept, Compressed, Engaged
<1>3. /\ pos \in Nat /\ pos' \in Nat /\ pos <= pos' /\ statusBits' = statusBits
      /\ mutex = u => mutex' = u
  BY FieldTypes, NoReaderAssumption DEF Passes
<1>4. Tuned(u)'
  <2>1. pos > Len(file) => pos' > Len(file)
    BY <1>3, FileShape, FieldTypes
  <2> QED BY <1>1, <1>2, <1>3, <2>1 DEF Kept, Mine, Tuned
<1>5. Locked(u)'
  BY <1>1, <1>3 DEF Kept, Mine, Locked
<1>6. BlockOK(u)'
  <2>1. /\ pos > Len(file) => pos' > Len(file)
        /\ xcmp[u].at < pos => xcmp[u].at < pos'
    BY <1>3, FileShape, FieldTypes
  <2>2. pc[u] = "parse" => Compressed(u)
    BY SettledReader DEF Engaged
  <2>3. pc[u] = "parse" => ItemEntry(u)' = ItemEntry(u) /\ ItemIndex(u)' = ItemIndex(u)
    BY <1>1, <1>2, <2>2 DEF Kept, ItemEntry, ItemIndex
  <2> QED BY <1>1, <1>2, <1>3, <2>1, <2>3 DEF Kept, Mine, BlockOK
<1> QED BY <1>4, <1>5, <1>6 DEF Mine

LEMMA SettledKeep ==
  ASSUME TypeOK, NoSeeks, Settled, NEW t \in Readers, Step(t), Passes(t), Mine(t)'
  PROVE  Settled'
<1>1. file' = file /\ \A u \in Readers : Mine(u)'
  BY OthersKept, Bystander
<1>2. ModeFrom(file', pos', statusBits')
  <2>1. pos \in Nat /\ Len(file) \in Nat
    BY FileShape, FieldTypes
  <2> QED BY <1>1, <2>1 DEF Passes, Settled, ModeFrom
<1> QED BY <1>1, <1>2 DEF Settled, Passes, Mine

LEMMA SettledCalls ==
  ASSUME TypeOK, NoSeeks, Settled, NEW t \in Readers, Step(t),
         ReadCall(t) \/ SkipCall(t) \/ LockSource(t) \/ LockLend(t) \/ Update(t)
  PROVE  Settled'
<1>1. /\ Tuned(t) /\ Locked(t) /\ BlockOK(t) /\ file' = file
  BY OthersKept DEF Settled
<1>2. /\ pos \in Nat /\ pos <= Len(file) + 1 /\ pc \in [Readers -> Labels]
      /\ op \in [Readers -> {"none", "read", "seek"}] /\ xcmp \in [Readers -> Inputs]
      /\ xcmp[t] \in Inputs /\ mutexLock \in [Readers -> {0, 1, 2, 3}]
      /\ mutex \in Readers \cup {NoReader} /\ NoReader \notin Readers
  BY FieldTypes, NoReaderAssumption DEF Settled, TypeOK
<1>3. CASE ReadCall(t) \/ SkipCall(t)
  <2>1. UNCHANGED <<pos, statusBits, mutex, mutexLock, status, xcmp, newcmp, item, fault>>
    BY <1>3 DEF ReadCall, SkipCall, sourceVars, sharedVars, privateVars, callVars
  <2>2. /\ pc[t] = "idle" /\ pc'[t] \in {"idle", "lock"}
        /\ pc'[t] = "idle" <=> op'[t] = "none"
    BY <1>1, <1>2, <1>3 DEF ReadCall, SkipCall, Enter, Goto, callVars, Tuned
  <2>3. Passes(t)
    BY <1>2, <2>1 DEF Passes
  <2>4. Mine(t)'
    BY <1>1, <2>1, <2>2 DEF Mine, Tuned, Locked, BlockOK, Engaged, Compressed
  <2> QED BY <2>3, <2>4, SettledKeep
<1>4. CASE LockSource(t)
  <2>1. UNCHANGED <<pos, statusBits, op, status, xcmp, newcmp, item, fault>>
    BY <1>4 DEF LockSource, sourceVars, callVars
  <2>2. /\ pc[t] = "lock" /\ pc'[t] = "update" /\ mutex = NoReader /\ mutex' = t
        /\ mutexLock'[t] = 1 /\ ~Compressed(t)
    BY <1>2, <1>4 DEF LockSource, Goto
  <2>3. Passes(t)
    BY <1>2, <2>1, <2>2 DEF Passes
  <2>4. Mine(t)'
    BY <1>1, <2>1, <2>2 DEF Mine, Tuned, Locked, BlockOK, Engaged, Compressed
  <2> QED BY <2>3, <2>4, SettledKeep
<1>5. CASE LockLend(t)
  <2>1. pc[t] = "lock" /\ Compressed(t) /\ xcmp[t].kind # "none"
    BY <1>5, SettledReader DEF LockLend
  <2>2. /\ UNCHANGED <<pos, statusBits, mutex, op, status, newcmp, item, fault>>
        /\ pc'[t] = "update" /\ mutexLock'[t] \in {2, 3}
        /\ xcmp'[t] = [xcmp[t] EXCEPT !.mtx = TRUE]
    BY <1>2, <1>5, <2>1 DEF LockLend, Goto, sourceVars, sharedVars, callVars
  <2>3. /\ xcmp'[t].mtx = TRUE /\ xcmp'[t].kind = xcmp[t].kind /\ xcmp'[t].left = xcmp[t].left
        /\ xcmp'[t].at = xcmp[t].at /\ xcmp'[t].off = xcmp[t].off /\ xcmp'[t].end = xcmp[t].end
    BY <1>2, <2>2, InputMutex
  <2>4. Passes(t)
    BY <1>2, <2>2 DEF Passes
  <2>5. Compressed(t)'
    BY <2>1, <2>2 DEF Compressed
  <2>6. Tuned(t)'
    BY <1>1, <2>1, <2>2, <2>3, <2>5 DEF Tuned
  <2>7. Locked(t)' /\ BlockOK(t)'
    BY <1>1, <2>1, <2>2, <2>3, <2>5 DEF Locked, BlockOK
  <2> QED BY <2>4, <2>6, <2>7, SettledKeep DEF Mine
<1>6. CASE Update(t)
  <2>1. UNCHANGED <<pos, statusBits, mutex, mutexLock, op, status, xcmp, newcmp, item, fault>>
    BY <1>6 DEF Update, sourceVars, sharedVars, callVars, privateVars
  <2>2. /\ pc[t] = "update" /\ op[t] # "seek"
        /\ \/ pc'[t] = "head" /\ statusBits = status[t] /\ Compressed(t)
           \/ pc'[t] = "reconf" /\ ~Compressed(t)
    BY <1>2, <1>6, SettledReader DEF Update, AfterUpdate, Goto
  <2>3. Passes(t)
    BY <1>2, <2>1 DEF Passes
  <2>4. Tuned(t)'
    BY <1>1, <2>1, <2>2 DEF Tuned, Engaged, Compressed
  <2>5. Locked(t)' /\ BlockOK(t)'
    BY <1>1, <2>1, <2>2 DEF Tuned, Locked, BlockOK, Compressed
  <2> QED BY <2>3, <2>4, <2>5, SettledKeep DEF Mine
<1> QED BY <1>3, <1>4, <1>5, <1>6

\* It catches up with the configuration, once.
LEMMA SettledTunes ==
  ASSUME TypeOK, NoSeeks, Settled, NEW t \in Readers, Step(t),
         Reconfigure(t) \/ Build(t) \/ Adopt(t)
  PROVE  Settled'
<1>1. /\ Tuned(t) /\ Locked(t) /\ BlockOK(t) /\ file' = file
  BY OthersKept DEF Settled
<1>2. /\ pos \in Nat /\ pos <= Len(file) + 1 /\ pc \in [Readers -> Labels]
      /\ newcmp \in [Readers -> SUBSET Codecs] /\ xcmp \in [Readers -> Inputs]
      /\ status \in [Readers -> Status] /\ op[t] # "seek"
  BY FieldTypes DEF Settled, TypeOK, NoSeeks
<1>3. /\ ~Compressed(t) /\ statusBits.cmp # {} /\ statusBits.cmp # status[t].cmp
      /\ xcmp[t].left = << >> /\ xcmp[t].at = 0 /\ ~xcmp[t].end /\ ~xcmp[t].mtx
      /\ op[t] # "none"
  BY <1>1, SettledReader DEF Tuned, Reconfigure, Build, Adopt, Compressed
<1>4. 0 \notin DOMAIN file
  <2>1. DOMAIN file = 1 .. Len(file)
    BY FileShape, FieldTypes
  <2> QED BY <2>1
<1>5. CASE Reconfigure(t)
  <2>1. /\ UNCHANGED <<pos, statusBits, mutex, mutexLock, op, status, xcmp, item, fault>>
        /\ pc[t] = "reconf" /\ pc'[t] = "build" /\ newcmp'[t] = statusBits.cmp
    BY <1>2, <1>3, <1>5 DEF Reconfigure, Goto, sourceVars, sharedVars
  <2>2. Passes(t)
    BY <1>2, <2>1 DEF Passes
  <2>3. ~Compressed(t)'
    BY <1>3, <2>1 DEF Compressed
  <2>4. Mine(t)'
    BY <1>1, <1>3, <2>1, <2>3 DEF Mine, Tuned, Locked, BlockOK, Engaged
  <2> QED BY <2>2, <2>4, SettledKeep
<1>6. CASE Build(t)
  <2>1. /\ UNCHANGED <<pos, statusBits, mutex, mutexLock, op, status, newcmp, item, fault>>
        /\ pc[t] = "build" /\ pc'[t] = "adopt"
        /\ xcmp'[t] = NewInput(KindOf(newcmp[t])) /\ newcmp[t] = statusBits.cmp
    BY <1>1, <1>2, <1>6 DEF Build, Goto, sourceVars, sharedVars, callVars, Tuned
  <2>2. /\ xcmp'[t].left = << >> /\ xcmp'[t].at = 0 /\ ~xcmp'[t].end
        /\ ~xcmp'[t].mtx /\ xcmp'[t].kind = KindOf(statusBits.cmp)
    <3>1. NewInput(KindOf(newcmp[t])) = [NoInput EXCEPT !.kind = KindOf(newcmp[t])]
      BY DefaultTypes, KindType
    <3> QED BY <2>1, <3>1 DEF NoInput
  <2>3. Passes(t)
    BY <1>2, <2>1 DEF Passes
  <2>4. ~Compressed(t)'
    BY <1>3, <2>1 DEF Compressed
  <2>5. Mine(t)'
    BY <1>1, <1>3, <1>4, <2>1, <2>2, <2>4 DEF Mine, Tuned, Locked, BlockOK, Engaged
  <2> QED BY <2>3, <2>5, SettledKeep
<1>7. CASE Adopt(t)
  <2>1. /\ UNCHANGED <<pos, statusBits, mutex, mutexLock, op, xcmp, newcmp, item, fault>>
        /\ pc[t] = "adopt" /\ pc'[t] = "head" /\ status'[t] = statusBits
    BY <1>2, <1>7 DEF Adopt, AfterUpdate, Goto, sourceVars, sharedVars, callVars
  <2>2. Passes(t)
    BY <1>2, <2>1 DEF Passes
  <2>3. Compressed(t)'
    BY <1>3, <2>1 DEF Compressed
  <2>4. Mine(t)'
    BY <1>1, <1>3, <1>4, <2>1, <2>3 DEF Mine, Tuned, Locked, BlockOK, Engaged
  <2> QED BY <2>2, <2>4, SettledKeep
<1> QED BY <1>5, <1>6, <1>7

LEMMA SettledHead ==
  ASSUME TypeOK, NoSeeks, Settled, NEW t \in Readers, Step(t),
         HeadRaw(t) \/ HeadFetch(t) \/ HeadEnd(t) \/ FetchLock(t)
  PROVE  Settled'
<1>1. /\ Tuned(t) /\ Locked(t) /\ BlockOK(t) /\ file' = file
  BY OthersKept DEF Settled
<1>2. /\ pos \in Nat /\ pos <= Len(file) + 1 /\ pc \in [Readers -> Labels]
      /\ mutexLock \in [Readers -> {0, 1, 2, 3}]
  BY FieldTypes DEF Settled, TypeOK
<1>3. pc[t] \in {"head", "fetch"} /\ Compressed(t) /\ status[t] = statusBits /\ ~Seeking(t)
  BY SettledReader DEF HeadRaw, HeadFetch, HeadEnd, FetchLock, Engaged
<1>4. CASE HeadRaw(t)
  BY <1>3, <1>4 DEF HeadRaw
<1>5. CASE HeadFetch(t) \/ HeadEnd(t)
  <2>1. /\ UNCHANGED <<pos, statusBits, mutex, mutexLock, op, status, xcmp, newcmp, item, fault>>
        /\ pc[t] = "head" /\ xcmp[t].left = << >>
        /\ \/ pc'[t] = "fetch"
           \/ pc'[t] = "eof" /\ xcmp[t].end
    BY <1>2, <1>3, <1>5 DEF HeadFetch, HeadEnd, Goto, sourceVars, sharedVars, callVars, privateVars
  <2>2. Passes(t)
    BY <1>2, <2>1 DEF Passes
  <2>3. Compressed(t)'
    BY <1>3, <2>1 DEF Compressed
  <2>4. Tuned(t)'
    BY <1>1, <1>3, <2>1, <2>3 DEF Tuned, Engaged
  <2>5. Locked(t)' /\ BlockOK(t)'
    BY <1>1, <1>3, <2>1, <2>3 DEF Tuned, Locked, BlockOK
  <2> QED BY <2>2, <2>4, <2>5, SettledKeep DEF Mine
<1>6. CASE FetchLock(t)
  <2>1. /\ UNCHANGED <<pos, statusBits, mutexLock, op, status, xcmp, newcmp, item, fault>>
        /\ pc[t] = "fetch" /\ pc'[t] = "source"
        /\ IF xcmp[t].mtx THEN mutex = NoReader /\ mutex' = t ELSE mutex' = mutex
    BY <1>2, <1>6 DEF FetchLock, Goto, sourceVars, callVars, privateVars
  <2>2. mutex' = t /\ xcmp[t].left = << >>
    <3>1. ~xcmp[t].mtx => mutexLock[t] = 1
      BY <1>1, <1>2, <2>1 DEF Locked
    <3> QED BY <1>1, <2>1, <3>1 DEF Locked, Tuned
  <2>3. Passes(t)
    BY <1>2, <2>1 DEF Passes
  <2>4. Compressed(t)'
    BY <1>3, <2>1 DEF Compressed
  <2>5. Tuned(t)'
    BY <1>1, <1>3, <2>1, <2>2, <2>4 DEF Tuned, Engaged
  <2>6. Locked(t)' /\ BlockOK(t)'
    BY <1>1, <1>3, <2>1, <2>2, <2>4 DEF Locked, BlockOK
  <2> QED BY <2>3, <2>5, <2>6, SettledKeep DEF Mine
<1> QED BY <1>4, <1>5, <1>6

\* The item that is taken out of the block.
LEMMA BlockHead ==
  ASSUME TypeOK, NoSeeks, NEW t \in Readers, BlockOK(t), HeadBlock(t)
  PROVE  LET e == xcmp[t].at  o == xcmp[t].off
         IN /\ e \in DOMAIN file /\ o < Len(file[e].items) /\ o + 1 \in DOMAIN file[e].items
            /\ xcmp[t].left # << >>
            /\ item'[t] = file[e].items[o + 1]
            /\ xcmp'[t].left = From(file[e].items, o + 1) /\ xcmp'[t].off = o + 1
            /\ xcmp'[t].at = e /\ xcmp'[t].end = xcmp[t].end
            /\ xcmp'[t].kind = xcmp[t].kind /\ xcmp'[t].mtx = xcmp[t].mtx
<1> DEFINE e == xcmp[t].at
           o == xcmp[t].off
<1>1. ~Seeking(t) /\ xcmp[t].left # << >>
  BY DEF NoSeeks, Seeking, HeadBlock
<1>2. /\ e \in DOMAIN file /\ o <= Len(file[e].items) /\ xcmp[t].left = From(file[e].items, o)
  BY <1>1 DEF BlockOK
<1>3. /\ file[e].items \in Seq(Items) /\ Len(file[e].items) \in Nat /\ o \in Nat
      /\ DOMAIN file[e].items = 1 .. Len(file[e].items) /\ xcmp[t] \in Inputs
      /\ item \in [Readers -> Items] /\ xcmp \in [Readers -> Inputs]
  BY <1>2, FieldTypes, FileShape DEF TypeOK
<1>4. o < Len(file[e].items)
  <2>1. o \in 0 .. Len(file[e].items)
    BY <1>2, <1>3
  <2> QED BY <1>1, <1>2, <1>3, <2>1, FromEmpty
<1>5. /\ From(file[e].items, o)[1] = file[e].items[o + 1]
      /\ Tail(From(file[e].items, o)) = From(file[e].items, o + 1)
  BY <1>3, <1>4, FromHeadTail
<1>6. From(xcmp[t].left, 0) = xcmp[t].left
  <2>1. 0 \in 0 .. Len(file[e].items) - o /\ o \in 0 .. Len(file[e].items) /\ o + 0 = o
    BY <1>3, <1>4
  <2>2. From(From(file[e].items, o), 0) = From(file[e].items, o + 0)
    BY <1>3, <2>1, FromFrom
  <2> QED BY <1>2, <2>1, <2>2
<1>7. /\ item' = [item EXCEPT ![t] = xcmp[t].left[1]]
      /\ xcmp' = [xcmp EXCEPT ![t].left = Tail(xcmp[t].left), ![t].off = @ + 0 + 1,
                              ![t].seek = NoPosition]
  BY <1>1, <1>6 DEF HeadBlock
<1>8. o + 0 + 1 = o + 1 /\ o + 1 \in Nat /\ o + 1 \in DOMAIN file[e].items
  BY <1>3, <1>4
<1>9. /\ xcmp'[t].left = From(file[e].items, o + 1) /\ xcmp'[t].off = o + 1
      /\ xcmp'[t].at = e /\ xcmp'[t].end = xcmp[t].end
      /\ xcmp'[t].kind = xcmp[t].kind /\ xcmp'[t].mtx = xcmp[t].mtx
  <2> DEFINE l == Tail(xcmp[t].left)  v == o + 1
             y == [xcmp[t] EXCEPT !.left = l, !.off = v, !.seek = NoPosition]
  <2>1. xcmp'[t] = y
    BY <1>3, <1>7, <1>8
  <2>2. l = From(file[e].items, v) /\ v \in Nat
    BY <1>2, <1>5, <1>8
  <2> HIDE DEF l, v
  <2>3. /\ y.left = l /\ y.off = v /\ y.at = xcmp[t].at /\ y.end = xcmp[t].end
        /\ y.kind = xcmp[t].kind /\ y.mtx = xcmp[t].mtx
    BY <1>3 DEF Inputs
  <2> HIDE DEF y
  <2> QED BY <2>1, <2>2, <2>3 DEF v
<1> QED BY <1>1, <1>2, <1>3, <1>4, <1>5, <1>7, <1>8, <1>9

LEMMA SettledBlock ==
  ASSUME TypeOK, NoSeeks, Settled, NEW t \in Readers, Step(t), HeadBlock(t)
  PROVE  Settled'
<1> DEFINE e == xcmp[t].at
           o == xcmp[t].off
<1>1. /\ Tuned(t) /\ Locked(t) /\ BlockOK(t) /\ file' = file
  BY OthersKept DEF Settled
<1>2. /\ e \in DOMAIN file /\ o < Len(file[e].items) /\ o + 1 \in DOMAIN file[e].items
      /\ xcmp[t].left # << >> /\ item'[t] = file[e].items[o + 1]
      /\ xcmp'[t].left = From(file[e].items, o + 1) /\ xcmp'[t].off = o + 1
      /\ xcmp'[t].at = e /\ xcmp'[t].end = xcmp[t].end
      /\ xcmp'[t].kind = xcmp[t].kind /\ xcmp'[t].mtx = xcmp[t].mtx
  BY <1>1, BlockHead
<1> HIDE DEF e, o
<1>3. /\ UNCHANGED <<pos, statusBits, mutex, mutexLock, op, status, newcmp, fault>>
      /\ pc[t] = "head" /\ pc'[t] = "parse" /\ Compressed(t)
  BY DEF HeadBlock, Goto, sourceVars, sharedVars, TypeOK
<1>4. Passes(t)
  BY <1>3, FieldTypes DEF Passes, Settled
<1>5. Compressed(t)' /\ statusBits.cmp # {} /\ status[t] = statusBits
  BY <1>3, SettledReader DEF Compressed
<1>6. e < pos /\ ModeFrom(file, e, statusBits) /\ ~xcmp[t].end
  BY <1>1, <1>2 DEF Tuned, BlockOK, e
<1>7. Tuned(t)'
  BY <1>1, <1>2, <1>3, <1>5, <1>6 DEF Tuned
<1>8. Locked(t)'
  BY <1>1, <1>2, <1>3 DEF Locked
<1>9. BlockOK(t)'
  <2>1. o + 1 <= Len(file[e].items)
    BY <1>2, FieldTypes, FileShape DEF o
  <2>2. ItemEntry(t)' = e /\ ItemIndex(t)' = o + 1
    BY <1>2, <1>5 DEF ItemEntry, ItemIndex
  <2> QED BY <1>1, <1>2, <1>3, <1>5, <1>6, <2>1, <2>2 DEF BlockOK
<1> QED BY <1>4, <1>7, <1>8, <1>9, SettledKeep DEF Mine

\* It has the mutex when it reads its block, the next of the file.
LEMMA SettledFetch ==
  ASSUME TypeOK, NoSeeks, Settled, NEW t \in Readers, Step(t),
         FetchBlock(t) \/ FetchNothing(t) \/ ReadRaw(t) \/ Misread(t)
  PROVE  Settled'
<1>1. /\ Tuned(t) /\ Locked(t) /\ BlockOK(t) /\ file' = file
  BY OthersKept DEF Settled
<1>2. /\ pos \in Nat /\ pos > 0 /\ pos <= Len(file) + 1 /\ pc \in [Readers -> Labels]
      /\ mutexLock \in [Readers -> {0, 1, 2, 3}] /\ xcmp \in [Readers -> Inputs]
      /\ xcmp[t] \in Inputs /\ DOMAIN file = 1 .. Len(file) /\ Len(file) \in Nat
  BY FieldTypes, FileShape DEF Settled, TypeOK
<1>3. /\ pc[t] = "source" /\ Compressed(t) /\ status[t] = statusBits /\ ~Seeking(t)
      /\ mutex = t /\ xcmp[t].left = << >> /\ xcmp[t].kind = KindOf(statusBits.cmp)
      /\ op[t] # "none"
  BY <1>1, SettledReader DEF FetchBlock, FetchNothing, ReadRaw, Misread, Engaged, Locked, Tuned,
     BlockOK
<1>4. ModeFrom(file, pos, statusBits) /\ statusBits.cmp # {}
  BY DEF Settled
<1>5. ~ReadRaw(t) /\ ~Misread(t)
  <2>1. pos <= Len(file) => file[pos].kind = xcmp[t].kind
    BY <1>2, <1>3, SettledReader
  <2> QED BY <1>3, <2>1 DEF ReadRaw, Misread
<1>6. CASE FetchBlock(t)
  <2>1. /\ UNCHANGED <<statusBits, mutexLock, op, status, newcmp, item, fault>>
        /\ pos <= Len(file) /\ pos' = pos + 1 /\ pc'[t] = "head"
        /\ mutex' = IF xcmp[t].mtx THEN NoReader ELSE mutex
        /\ xcmp'[t] = [xcmp[t] EXCEPT !.left = From(file[pos].items, 0), !.at = pos,
                                      !.off = 0, !.end = FALSE, !.seek = NoPosition]
    BY <1>2, <1>3, <1>6 DEF FetchBlock, Goto, callVars
  <2>2. /\ file[pos].items \in Seq(Items) /\ Len(file[pos].items) \in Nat /\ pos \in DOMAIN file
        /\ Len(file[pos].items) > 0
    BY <1>2, <2>1, FileShape, FieldTypes
  <2>3. /\ xcmp'[t].left = From(file[pos].items, 0) /\ xcmp'[t].at = pos /\ xcmp'[t].off = 0
        /\ ~xcmp'[t].end /\ xcmp'[t].mtx = xcmp[t].mtx /\ xcmp'[t].kind = xcmp[t].kind
    <3> DEFINE l == From(file[pos].items, 0)
               y == [xcmp[t] EXCEPT !.left = l, !.at = pos, !.off = 0, !.end = FALSE,
                                    !.seek = NoPosition]
    <3>1. xcmp'[t] = y /\ l \in Seq(Items)
      BY <2>1, <2>2, FromType
    <3> HIDE DEF l
    <3>2. /\ y.left = l /\ y.at = pos /\ y.off = 0 /\ y.end = FALSE /\ y.mtx = xcmp[t].mtx
          /\ y.kind = xcmp[t].kind
      BY <1>2, <3>1 DEF Inputs
    <3> HIDE DEF y
    <3> QED BY <3>1, <3>2 DEF l
  <2>4. Passes(t)
    BY <1>2, <1>3, <2>1 DEF Passes
  <2>5. Compressed(t)'
    BY <1>3, <2>1 DEF Compressed
  <2>6. Tuned(t)'
    BY <1>1, <1>3, <1>4, <2>1, <2>3, <2>5 DEF Tuned
  <2>7. Locked(t)'
    BY <1>1, <1>3, <2>1, <2>3 DEF Locked
  <2>8. BlockOK(t)'
    BY <1>1, <1>2, <1>4, <2>1, <2>2, <2>3, <2>5 DEF BlockOK
  <2> QED BY <2>4, <2>6, <2>7, <2>8, SettledKeep DEF Mine
<1>7. CASE FetchNothing(t)
  <2>1. /\ UNCHANGED <<pos, statusBits, mutexLock, op, status, newcmp, item, fault>>
        /\ pos > Len(file) /\ pc'[t] = "head"
        /\ mutex' = IF xcmp[t].mtx THEN NoReader ELSE mutex
        /\ xcmp'[t] = [xcmp[t] EXCEPT !.at = pos, !.end = TRUE]
    BY <1>2, <1>3, <1>7 DEF FetchNothing, Goto, sourceVars, callVars
  <2>2. /\ xcmp'[t].left = << >> /\ xcmp'[t].at = pos
        /\ xcmp'[t].end /\ xcmp'[t].mtx = xcmp[t].mtx /\ xcmp'[t].kind = xcmp[t].kind
    <3> DEFINE y == [xcmp[t] EXCEPT !.at = pos, !.end = TRUE]
    <3>1. xcmp'[t] = y
      BY <2>1
    <3>2. /\ y.left = xcmp[t].left /\ y.at = pos /\ y.end = TRUE /\ y.mtx = xcmp[t].mtx
          /\ y.kind = xcmp[t].kind
      BY <1>2 DEF Inputs
    <3> HIDE DEF y
    <3> QED BY <1>3, <3>1, <3>2
  <2>3. pos \notin DOMAIN file
    BY <1>2, <2>1
  <2>4. Passes(t)
    BY <1>2, <1>3, <2>1 DEF Passes
  <2>5. Compressed(t)'
    BY <1>3, <2>1 DEF Compressed
  <2>6. Tuned(t)'
    BY <1>1, <1>3, <1>4, <2>1, <2>2, <2>5 DEF Tuned
  <2>7. Locked(t)'
    BY <1>1, <1>3, <2>1, <2>2 DEF Locked
  <2>8. BlockOK(t)'
    BY <1>1, <1>4, <2>1, <2>2, <2>3, <2>5 DEF BlockOK
  <2> QED BY <2>4, <2>6, <2>7, <2>8, SettledKeep DEF Mine
<1> QED BY <1>5, <1>6, <1>7

\* What it has read: a token only says what is known already, and a record was
\* written as the reader is configured.
LEMMA SettledItem ==
  ASSUME TypeOK, NoSeeks, Settled, NEW t \in Readers, pc[t] = "parse"
  PROVE  LET e == ItemEntry(t)  i == ItemIndex(t)
         IN /\ Compressed(t) /\ status[t] = statusBits /\ e = xcmp[t].at /\ i = xcmp[t].off
            /\ e \in DOMAIN file /\ i \in DOMAIN file[e].items /\ item[t] = file[e].items[i]
            /\ e < pos /\ e \in Nat /\ i \in Nat
            /\ xcmp[t].left = From(file[e].items, i)
            /\ item[t].tok => i = Len(file[e].items)
            /\ item[t].bits = statusBits
<1> DEFINE e == ItemEntry(t)
           i == ItemIndex(t)
<1>1. Compressed(t) /\ status[t] = statusBits /\ e = xcmp[t].at /\ i = xcmp[t].off
  BY SettledReader DEF Engaged, ItemEntry, ItemIndex
<1>2. /\ e \in DOMAIN file /\ i \in DOMAIN file[e].items /\ item[t] = file[e].items[i]
      /\ ModeFrom(file, e, statusBits) /\ e < pos
      /\ xcmp[t].left = From(file[e].items, i)
  BY <1>1 DEF Settled, Tuned, BlockOK
<1> HIDE DEF e, i
<1>3. /\ file \in Files /\ DOMAIN file = 1 .. Len(file) /\ Len(file) \in Nat
      /\ DOMAIN file[e].items = 1 .. Len(file[e].items) /\ Len(file[e].items) \in Nat
  BY <1>2, FieldTypes, FileShape
<1>4. e \in e .. Len(file) + 1 /\ e + 1 \in e .. Len(file) + 1
  BY <1>2, <1>3
<1>5. InForce(file, e) = statusBits /\ InForce(file, e + 1) = statusBits
  BY <1>2, <1>4 DEF ModeFrom
<1>6. /\ item[t].tok => i = Len(file[e].items)
      /\ item[t].bits = statusBits
  BY <1>2, <1>3, <1>5, FileForce
<1> QED BY <1>1, <1>2, <1>3, <1>6 DEF e, i

LEMMA SettledParse ==
  ASSUME TypeOK, NoSeeks, Settled, NEW t \in Readers, Step(t), Token(t) \/ Record(t)
  PROVE  Settled'
<1>1. /\ Tuned(t) /\ Locked(t) /\ BlockOK(t) /\ file' = file
  BY OthersKept DEF Settled
<1>2. pc[t] = "parse"
  BY DEF Token, Record
<1>3. /\ Compressed(t) /\ status[t] = statusBits /\ item[t].bits = statusBits
  BY <1>2, SettledItem
<1>4. /\ UNCHANGED <<pos, statusBits, mutex, mutexLock, op, status, xcmp, newcmp, item, fault>>
      /\ pc'[t] \in {"update", "unlock"}
  BY <1>3 DEF Token, Record, Goto, sourceVars, sharedVars, callVars, privateVars, TypeOK
<1>5. Passes(t)
  BY <1>4, FieldTypes DEF Passes, Settled
<1>6. Compressed(t)'
  BY <1>3, <1>4 DEF Compressed
<1>7. Tuned(t)'
  BY <1>1, <1>2, <1>3, <1>4, <1>6 DEF Tuned
<1>8. Locked(t)'
  BY <1>1, <1>2, <1>4 DEF Locked
<1>9. BlockOK(t)'
  BY <1>1, <1>2, <1>3, <1>4, <1>6 DEF BlockOK
<1> QED BY <1>5, <1>7, <1>8, <1>9, SettledKeep DEF Mine

LEMMA SettledLeaves ==
  ASSUME TypeOK, NoSeeks, Settled, NEW t \in Readers, Step(t), Unlock(t) \/ Eof(t)
  PROVE  Settled'
<1>1. /\ Tuned(t) /\ Locked(t) /\ BlockOK(t) /\ file' = file
  BY OthersKept DEF Settled
<1>2. pc[t] \in {"unlock", "eof"} /\ ReleaseStreambufs(t)
  BY DEF Unlock, Eof
<1>3. Compressed(t) /\ status[t] = statusBits
  BY <1>2, SettledReader DEF Engaged
<1>4. /\ UNCHANGED <<pos, statusBits, status, newcmp, item>>
      /\ \/ pc'[t] = "lock" /\ op'[t] = op[t] /\ op[t] # "none"
         \/ pc'[t] = "idle" /\ op'[t] = "none"
  BY DEF Unlock, Eof, Goto, sourceVars, TypeOK
<1>5. /\ mutexLock'[t] = 0 /\ fault' = fault
      /\ mutex' = IF mutexLock[t] = 1 THEN NoReader ELSE mutex
      /\ xcmp'[t] = IF mutexLock[t] \in {2, 3} THEN [xcmp[t] EXCEPT !.mtx = FALSE] ELSE xcmp[t]
  <2>1. /\ mutexLock \in [Readers -> {0, 1, 2, 3}] /\ xcmp \in [Readers -> Inputs]
        /\ mutexLock[t] \in {2, 3} => xcmp[t].kind # "none"
    BY SettledReader DEF TypeOK
  <2> QED BY <1>2, <2>1 DEF ReleaseStreambufs
<1>6. /\ xcmp'[t].kind = xcmp[t].kind /\ xcmp'[t].left = xcmp[t].left
      /\ xcmp'[t].at = xcmp[t].at /\ xcmp'[t].off = xcmp[t].off /\ xcmp'[t].end = xcmp[t].end
      /\ ~xcmp'[t].mtx
  BY <1>1, <1>5, FieldTypes, InputMutex DEF Locked
<1>7. Passes(t)
  BY <1>1, <1>4, <1>5, FieldTypes DEF Passes, Settled, Locked
<1>8. Compressed(t)'
  BY <1>3, <1>4 DEF Compressed
<1>9. Tuned(t)'
  BY <1>1, <1>2, <1>3, <1>4, <1>6, <1>8 DEF Tuned
<1>10. Locked(t)'
  BY <1>4, <1>5, <1>6 DEF Locked
<1>11. BlockOK(t)'
  BY <1>1, <1>3, <1>4, <1>6, <1>8 DEF BlockOK
<1> QED BY <1>7, <1>9, <1>10, <1>11, SettledKeep DEF Mine

LEMMA SettledStep ==
  ASSUME TypeOK, NoSeeks, MaxSeeks = 0, Settled, NEW t \in Readers, Step(t)
  PROVE  Settled'
BY NoSeeksStep, SettledCalls, SettledTunes, SettledHead, SettledBlock, SettledFetch,
   SettledParse, SettledLeaves DEF Step, Call, Acquire, Proceed

----------------------------------------------------------------------------
(* The invariant is inductive.                                              *)

SharedInv ==
  TypeOK /\ NoSeeks /\ (Quiet \/ (\E h \in Readers : Lead(h)) \/ Settled)

LEMMA SharedInit ==
  ASSUME Init
  PROVE  SharedInv
<1>1. AloneInv
  BY AloneInit
<1>2. NoSeeks
  BY DEF Init, NoSeeks, NoInput, NoPosition
<1>3. Quiet
  <2>1. /\ DefaultStatus.cmp = {} /\ statusBits = DefaultStatus /\ pos = 1 /\ fault = "none"
        /\ mutex = NoReader /\ InForce(file, pos) = DefaultStatus
    BY DEF Init, DefaultStatus, InForce
  <2>2. pos <= Len(file) + 1
    BY <1>1, <2>1, FileShape DEF AloneInv, TypeOK
  <2>3. ASSUME NEW t \in Readers
        PROVE  Outside(t) /\ due[t] = 1 + Cardinality(Before(file, pos, 0))
    <3>1. Cardinality(Before(file, pos, 0)) = 0
      BY <1>1, <2>1, BeforeStart DEF AloneInv, TypeOK
    <3>2. /\ pc[t] = "idle" /\ op[t] = "none" /\ status[t] = DefaultStatus /\ mutexLock[t] = 0
          /\ xcmp[t] = NoInput /\ marks[t] = {} /\ due[t] = 1
      BY DEF Init
    <3>3. /\ xcmp[t].kind = "none" /\ ~xcmp[t].mtx /\ xcmp[t].left = << >> /\ xcmp[t].at = 0
          /\ ~xcmp[t].end
      BY <3>2 DEF NoInput
    <3> QED BY <2>1, <3>1, <3>2, <3>3 DEF Outside, Compressed
  <2> QED BY <2>1, <2>2, <2>3 DEF Quiet
<1> QED BY <1>1, <1>2, <1>3 DEF SharedInv, AloneInv

LEMMA SharedSame ==
  ASSUME SharedInv, UNCHANGED vars
  PROVE  SharedInv'
<1>1. UNCHANGED <<file, pos, statusBits, mutex, pc, op, item, target, newcmp, status, xcmp,
                  mutexLock, nextStart, last, skipping, hitEof, marks, taken, due, skips, seeks,
                  fault>>
  BY DEF vars, sourceVars, sharedVars, callVars, privateVars, traceVars, boundVars
<1>2. TypeOK' /\ NoSeeks' /\ \A t \in Readers : Kept(t)
  BY <1>1 DEF SharedInv, TypeOK, NoSeeks, Kept
<1>3. ASSUME NEW t \in Readers
      PROVE  /\ Outside(t) => Outside(t)'
             /\ Good(t) => Good(t)'
             /\ Compressed(t)' = Compressed(t)
  BY <1>1, <1>2, OutsideOther, GoodOther DEF Compressed
<1>4. Quiet => Quiet'
  BY <1>1, <1>3 DEF Quiet
<1>5. ASSUME NEW h \in Readers, Lead(h)  PROVE Lead(h)'
  BY <1>1, <1>3, <1>5 DEF Lead
<1>6. Settled => Settled'
  <2>1. ASSUME NEW t \in Readers
        PROVE  Tuned(t)' = Tuned(t) /\ Locked(t)' = Locked(t) /\ BlockOK(t)' = BlockOK(t)
    BY <1>1 DEF Tuned, Locked, BlockOK, Engaged, Compressed, ItemEntry, ItemIndex
  <2> QED BY <1>1, <2>1 DEF Settled
<1> QED BY <1>2, <1>4, <1>5, <1>6 DEF SharedInv

LEMMA SharedStep ==
  ASSUME SharedInv, MaxSeeks = 0, ConfiguredFirst, [Next]_vars
  PROVE  SharedInv'
<1>1. TypeOK'
  <2>1. \A t \in Readers : HeadSafe(t)
    BY DEF SharedInv, NoSeeks, HeadSafe, Seeking
  <2> QED BY <2>1, TypeStep DEF SharedInv
<1>2. CASE Next
  <2>1. PICK t \in Readers : Step(t)
    BY <1>2 DEF Next, Step
  <2>2. TypeOK /\ NoSeeks /\ NoSeeks'
    BY <2>1, NoSeeksStep DEF SharedInv
  <2>3. CASE Quiet
    BY <1>1, <2>1, <2>2, <2>3, QuietStep DEF SharedInv
  <2>4. ASSUME NEW h \in Readers, Lead(h)  PROVE SharedInv'
    BY <1>1, <2>1, <2>2, <2>4, LeadStep, LeadOther DEF SharedInv
  <2>5. CASE Settled
    BY <1>1, <2>1, <2>2, <2>5, SettledStep DEF SharedInv
  <2> QED BY <2>3, <2>4, <2>5 DEF SharedInv
<1> QED BY <1>2, SharedSame

LEMMA SharedAlways ==
  MaxSeeks = 0 /\ ConfiguredFirst => (Spec => []SharedInv)
<1> SUFFICES ASSUME MaxSeeks = 0, ConfiguredFirst  PROVE Spec => []SharedInv
  OBVIOUS
<1>1. Init => SharedInv
  BY SharedInit
<1>2. SharedInv /\ [Next]_vars => SharedInv'
  BY SharedStep
<1> QED BY <1>1, <1>2, PTL DEF Spec

----------------------------------------------------------------------------
(* The theorems.                                                            *)

\* The variables of a stream that many threads read keep their types.
THEOREM SharedTypes ==
  MaxSeeks = 0 /\ ConfiguredFirst => (Spec => []TypeOK)
<1>1. SharedInv => TypeOK
  BY DEF SharedInv
<1> QED BY <1>1, SharedAlways, PTL

\* Two readers never use the source at the same time, though the mutex is held
\* by a reader itself at first and lent to its decompressor later.
THEOREM SharedExclusive ==
  MaxSeeks = 0 /\ ConfiguredFirst => (Spec => []SourceExclusive)
<1>1. ASSUME SharedInv, NEW t \in Readers, NEW u \in Readers, pc[t] = "source", pc[u] = "source"
      PROVE  t = u
  <2>1. CASE Quiet
    BY <1>1, <2>1 DEF Quiet, Outside
  <2>2. ASSUME NEW h \in Readers, Lead(h)  PROVE t = u
    BY <1>1, <2>2 DEF Lead, Outside
  <2>3. CASE Settled
    BY <1>1, <2>3 DEF Settled, Locked
  <2> QED BY <1>1, <2>1, <2>2, <2>3 DEF SharedInv
<1>2. SharedInv => SourceExclusive
  BY <1>1 DEF SourceExclusive
<1> QED BY <1>2, SharedAlways, PTL

LEMMA SharedFault ==
  ASSUME SharedInv
  PROVE  fault = "none"
BY DEF SharedInv, Quiet, Lead, Good, Settled

\* No reader loses the record boundaries: those that were outside when the
\* first compressed record was read catch up before they use the source.
THEOREM SharedNotGarbled ==
  MaxSeeks = 0 /\ ConfiguredFirst => (Spec => []NotGarbled)
<1>1. SharedInv => NotGarbled
  BY SharedFault DEF NotGarbled
<1> QED BY <1>1, SharedAlways, PTL

\* No reader goes through a decompressor pointer that is null.
THEOREM SharedNoCrash ==
  MaxSeeks = 0 /\ ConfiguredFirst => (Spec => []NoCrash)
<1>1. SharedInv => NoCrash
  BY SharedFault DEF NoCrash
<1> QED BY <1>1, SharedAlways, PTL
================================================================================
