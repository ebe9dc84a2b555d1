------------------------------- MODULE PgQue -------------------------------
(***************************************************************************)
(* The part of PgQue, the PostgreSQL queue of the install migration, that  *)
(* the worker depends on: one queue and the one subscription that reads it.*)
(*                                                                         *)
(* A tick closes a window of events, and a subscription reads the windows  *)
(* one after another.  A batch is the window after the last finished one;  *)
(* each window is opened under exactly one batch id, so batch ids and      *)
(* window numbers are the same thing here: batch b is win[b], and the only *)
(* batch that can be open is last + 1.                                     *)
(*                                                                         *)
(* An event becomes visible when its transaction commits, so Send and      *)
(* MaintRetryEvents are commits: what commits after a tick's snapshot      *)
(* belongs to a later window.  Table rotation is left out: it reclaims     *)
(* windows at or below last, which nothing can read any more.              *)
(***************************************************************************)
EXTENDS Integers, FiniteSets

CONSTANTS
  Msg,         \* the event ids that producers may use
  MaxRetries,  \* queue_max_retries: the last retry count that is delivered
  MaxTick,     \* bound: the number of ticks of a behaviour
  IdleTicks    \* whether the ticker also closes an empty window

ASSUME PgQueAssumption ==
  /\ Msg \subseteq Nat \ {0}
  /\ MaxRetries \in Nat
  /\ MaxTick \in Nat
  /\ IdleTicks \in BOOLEAN

VARIABLES
  sent,    \* the event ids that a send used
  fresh,   \* the events after the last tick
  win,     \* win[b]: the events of the window that tick b closed
  tick,    \* the number of ticks
  last,    \* sub_last_tick: the last finished window
  open,    \* sub_batch is not null: the batch last + 1 is open
  retryQ,  \* retry_queue, with the retry count of the next delivery
  dead     \* dead_letter

queueVars == <<sent, fresh, win, tick, last, open, retryQ, dead>>

Batch == 1..MaxTick
Event == [id : Msg, retry : 0..MaxRetries]

QueueTypeOK ==
  /\ sent \subseteq Msg
  /\ fresh \subseteq Event
  /\ win \in [Batch -> SUBSET Event]
  /\ tick \in 0..MaxTick
  /\ last \in 0..tick
  /\ open \in BOOLEAN
  /\ open => last < tick
  /\ retryQ \subseteq Event
  /\ dead \subseteq Event

QueueInit ==
  /\ sent = {}
  /\ fresh = {}
  /\ win = [b \in Batch |-> {}]
  /\ tick = 0
  /\ last = 0
  /\ open = FALSE
  /\ retryQ = {}
  /\ dead = {}

-----------------------------------------------------------------------------
(* The state functions that the SQL functions and the properties share.    *)

\* The ids of a set of events.
Ids(S) == {e.id : e \in S}

\* batch b is the open batch of the subscription.
IsOpen(b) == open /\ b = last + 1

\* next_batch has a batch to return: the open one, or a closed window.
BatchReady == open \/ last < tick

-----------------------------------------------------------------------------
(* A producer commits one message.                                         *)
Send(m) ==
  /\ m \notin sent
  /\ sent' = sent \cup {m}
  /\ fresh' = fresh \cup {[id |-> m, retry |-> 0]}
  /\ UNCHANGED <<win, tick, last, open, retryQ, dead>>

(* The ticker closes a window.                                             *)
Ticker ==
  /\ tick < MaxTick
  /\ fresh # {} \/ IdleTicks
  /\ tick' = tick + 1
  /\ win' = [win EXCEPT ![tick + 1] = fresh]
  /\ fresh' = {}
  /\ UNCHANGED <<sent, last, open, retryQ, dead>>

\* Mutant of KeepUnmoved: the retry rows stay after the insert.
KeepAll(due) == retryQ

\* What is left of the retry queue when the rows due moved.
KeepUnmoved(due) == retryQ \ due

(* One call of maint_retry_events: up to 10 due rows return to the event   *)
(* tables under their old id.  Which rows are due is up to the clock.      *)
MaintRetryEvents ==
  \E due \in SUBSET retryQ :
    /\ due # {}
    /\ Cardinality(due) <= 10
    /\ fresh' = fresh \cup due
    /\ retryQ' = KeepUnmoved(due)
    /\ UNCHANGED <<sent, win, tick, last, open, dead>>

(* next_batch opens the next window, or returns the batch that is open.    *)
OpenNext ==
  /\ BatchReady
  /\ open' = TRUE
  /\ UNCHANGED <<sent, fresh, win, tick, last, retryQ, dead>>

(* The transaction that stores the failures of the open batch and          *)
(* acknowledges it: the events of again retry, those of buried go to the   *)
(* dead letter queue, the subscription moves past the batch.               *)
Acknowledge(again, buried) ==
  /\ retryQ' = retryQ \cup {[id |-> e.id, retry |-> e.retry + 1] : e \in again}
  /\ dead' = dead \cup buried
  /\ last' = last + 1
  /\ open' = FALSE
  /\ UNCHANGED <<sent, fresh, win, tick>>
=============================================================================
