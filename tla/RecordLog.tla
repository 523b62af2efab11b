------------------------------- MODULE RecordLog -------------------------------
(***************************************************************************)
(* What an HDDM output stream promises its callers.  The records handed to *)
(* it are a log: the records of one writer appear in the log in the order  *)
(* in which the writer handed them over, each exactly once, possibly some  *)
(* time later and several at a time; records of different writers may be   *)
(* interleaved.  Closing the stream waits until nothing is missing.        *)
(***************************************************************************)
EXTENDS Integers, Sequences, FiniteSets

CONSTANT Writers

VARIABLES
  accepted,  \* number of records each writer has handed over
  log,       \* the log: pairs of a writer and the number of its record
  open       \* may records still be handed over?

logVars == <<accepted, log, open>>

Delivered(w) == Cardinality({i \in DOMAIN log : log[i][1] = w})

LogInit ==
  /\ accepted = [w \in Writers |-> 0]
  /\ log = << >>
  /\ open = TRUE

\* A writer hands over its next record.
Accept(w) ==
  /\ open
  /\ accepted' = [accepted EXCEPT ![w] = @ + 1]
  /\ UNCHANGED <<log, open>>

\* The next records of one writer reach the log together.
Deliver(w) ==
  /\ \E n \in 1 .. accepted[w] - Delivered(w) :
       log' = log \o [i \in 1 .. n |-> <<w, Delivered(w) + i>>]
  /\ UNCHANGED <<accepted, open>>

\* No record is handed over after Close, and none is missing then.
CloseLog ==
  /\ open
  /\ \A w \in Writers : Delivered(w) = accepted[w]
  /\ open' = FALSE
  /\ UNCHANGED <<accepted, log>>

LogNext == CloseLog \/ \E w \in Writers : Accept(w) \/ Deliver(w)

LogSpec == LogInit /\ [][LogNext]_logVars
================================================================================
