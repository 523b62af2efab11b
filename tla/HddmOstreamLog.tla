----------------------------- MODULE HddmOstreamLog -----------------------------
(***************************************************************************)
(* The output stream of HddmOstream implements the abstract RecordLog:     *)
(* whatever the threads interleave, the file is a log of their records.    *)
(***************************************************************************)
EXTENDS HddmOstream, SequencesExt

\* The records in a sequence of items, as entries of the log.
AsLog(items) ==
  LET log[i \in 0 .. Len(items)] ==
        IF i = 0 THEN << >>
        ELSE IF items[i].tok THEN log[i - 1]
        ELSE Append(log[i - 1], <<items[i].by, items[i].n>>)
  IN log[Len(items)]

\* The records that have reached the sink.
SinkLog == FlattenSeq([i \in DOMAIN sink |-> AsLog(sink[i].items)])

\* The call of operator<< is bound to succeed: its record is being written to the
\* sink, or has gone into the open block of its thread.  The exceptions for a
\* stale lock and for two compressions at once come before that; a sink that
\* refuses data is not modelled.
Committed(t) ==
  /\ op[t] = "write"
  /\ \/ pc[t] \in {"raw", "unlock"}
     \/ pc[t] \in {"block", "emit"} /\ why[t] = "full"

\* Records handed over: a record counts as soon as its call is bound to succeed.
HandedOver(t) == IF Committed(t) THEN written[t] + 1 ELSE written[t]
Accepted == [t \in Threads |-> HandedOver(t)]

Log == INSTANCE RecordLog WITH Writers <- Threads, accepted <- Accepted,
                               log <- SinkLog, open <- phase # "closed"

\* Each writer's records reach the file exactly once and in its order, and the
\* destructor returns only when none is left in a compressor.
ImplementsLog == Log!LogSpec

\* No record of a returned operator<< is lost on its way: it is in the sink or
\* in the open block of its own thread, behind all earlier ones of that thread.
Conserved ==
  \A t \in Threads :
    LET all == SinkLog \o AsLog(xcmp[t].pending)
        own == {i \in DOMAIN all : all[i][1] = t}
    IN /\ \A i \in own : all[i][2] = Cardinality({j \in own : j <= i})
       /\ Cardinality(own) >= written[t]
================================================================================
