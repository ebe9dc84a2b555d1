------------------------------ MODULE DueCall -------------------------------
(***************************************************************************)
(* A call of RunDue over the consumers of a worker, and what it promises.  *)
(* WorkerSetup has the steps.                                              *)
(***************************************************************************)
EXTENDS Naturals, Sequences, FiniteSets

CONSTANTS
  Typ,         \* the message types
  Number,      \* the messages that a producer sends to each queue
  MaxConsumers \* bound: the registrations

\* The slot of a schedule is a message of its own.
ASSUME DueAssumption == MaxConsumers \in Nat /\ Number \cap Typ = {}

VARIABLES
  phase,     \* where the process is
  consumers, \* the registered consumers, in order
  at,        \* the consumer whose batches RunDue runs
  handled,   \* the count that RunDue returns
  owed, ran  \* history of the call: the work at its start, the deliveries that it ran

Ids == 1..Len(consumers)

-----------------------------------------------------------------------------
(* Properties.                                                             *)

\* RunDue handles everything that was due when it was called: the slots, the
\* messages that no tick had closed, the open batches and the due retries.
\* It returns the number of deliveries that it took: those that a handler ran
\* and, after maxBatchRuns, those that giveUp sent to the retry queue.
DueIsHandled ==
  phase = "batches" /\ at \notin Ids =>
    owed \subseteq ran /\ handled = Cardinality(ran)
=============================================================================
