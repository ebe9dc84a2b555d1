------------------------------ MODULE Delivery ------------------------------
(***************************************************************************)
(* What the queue promises its users, without workers, batches or tables:  *)
(* at-least-once delivery with a bounded number of retries.  A message     *)
(* that was accepted stays deliverable until, in one step, it is settled:  *)
(* removed because its handler returned nil, delivered again with one more *)
(* retry, or buried in the dead letter queue.                              *)
(*                                                                         *)
(* The abstract specification of QueueWorker; see Promise there.           *)
(***************************************************************************)
EXTENDS Integers

CONSTANTS
  Msg,        \* the message ids
  MaxRetries  \* the retry limit of the queue

VARIABLES
  accepted,   \* the messages that were sent
  live,       \* the deliverable messages, with their retry counts
  dead,       \* the dead letters
  succeeded,  \* the messages whose handler returned nil at least once
  refused     \* the messages whose handler returned a permanent error

vars == <<accepted, live, dead, succeeded, refused>>

Init ==
  /\ accepted = {}
  /\ live = {}
  /\ dead = {}
  /\ succeeded = {}
  /\ refused = {}

Accept(m) ==
  /\ m \notin accepted
  /\ accepted' = accepted \cup {m}
  /\ live' = live \cup {[id |-> m, retry |-> 0]}
  /\ UNCHANGED <<dead, succeeded, refused>>

(* A handler of an accepted message reports; it may be a late one.         *)
Report(m) ==
  /\ m \in accepted
  /\ \/ succeeded' = succeeded \cup {m} /\ UNCHANGED refused
     \/ refused' = refused \cup {m} /\ UNCHANGED succeeded
  /\ UNCHANGED <<accepted, live, dead>>

(* The messages of one batch are settled together.                         *)
Settle(batch, again, buried) ==
  /\ again \cap buried = {}
  /\ \A e \in batch \ (again \cup buried) : e.id \in succeeded
  /\ \A e \in again : e.retry < MaxRetries
  /\ \A e \in buried : e.retry >= MaxRetries \/ e.id \in refused
  /\ live' = (live \ batch)
             \cup {[id |-> e.id, retry |-> e.retry + 1] : e \in again}
  /\ dead' = dead \cup buried
  /\ UNCHANGED <<accepted, succeeded, refused>>

Next ==
  \/ \E m \in Msg : Accept(m) \/ Report(m)
  \/ \E batch \in SUBSET live :
       \E again, buried \in SUBSET batch : Settle(batch, again, buried)

Spec == Init /\ [][Next]_vars
=============================================================================
