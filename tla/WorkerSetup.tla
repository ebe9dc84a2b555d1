---------------------------- MODULE WorkerSetup ----------------------------
(***************************************************************************)
(* A queue worker around its batches: the registration of the consumers,   *)
(* handlers and schedules, the check of the subscriptions that Run waits   *)
(* for, and RunDue, which does the work of one step without a wait.  The   *)
(* batches of the active worker are in QueueWorker, the slots of a         *)
(* schedule over time in Schedules.                                        *)
(***************************************************************************)
EXTENDS DueCall

CONSTANTS
  Queue,    \* the valid queue names
  Name,     \* the consumer names; "Bad" is not valid
  Subs,     \* the subscriptions that the migrations made
  Entry,    \* "Run", "RunDue" or both
  MaxMoved, \* maxRetryCalls times the messages of one call
  MaxCalls  \* bound: the calls of RunDue

VARIABLES
  handlers,  \* the types that each of them handles
  schedules, \* the registered schedules
  up,        \* the database answers
  ended,     \* ctx of Run has ended
  unsent,    \* the schedules whose current slot no worker sent
  sent,      \* the messages of the producers that were sent
  fresh, due, later, \* deliveries: after the last tick, due for a retry, not due yet
  batches,   \* the closed batches of each consumer
  forced,    \* the queues that the next tick closes
  callsLeft  \* bound

setup == <<consumers, handlers, schedules>>
work == <<unsent, sent, fresh, due, later, batches, forced>>
call == <<at, handled, owed, ran, callsLeft>>
vars == <<phase, setup, up, ended, work, call>>

Consumer == [queue : Queue, name : Name]
Schedule == [queue : Queue, typ : Typ]
Msg == [queue : Queue, n : Number] \cup {[queue |-> s.queue, n |-> s.typ] : s \in Schedule}
Delivery == (1..MaxConsumers) \X Msg

DuePhases == {"idle", "check", "schedules", "maintain", "force", "tick", "batches"}

TypeOK ==
  /\ phase \in {"register", "panic", "waitForCheck", "lead", "stopped", "error"} \cup DuePhases
  /\ Len(consumers) <= MaxConsumers /\ \A i \in Ids : consumers[i] \in Consumer
  /\ \A i, j \in Ids : consumers[i] = consumers[j] => i = j
  /\ handlers \subseteq (1..MaxConsumers) \X Typ
  /\ schedules \subseteq Schedule /\ unsent \subseteq schedules
  /\ \A s \in schedules : \E i \in Ids : consumers[i].queue = s.queue /\ <<i, s.typ>> \in handlers
  /\ sent \subseteq Msg /\ forced \subseteq Queue /\ handled \in Nat
  /\ fresh \cup due \cup later \cup owed \cup ran \subseteq Delivery
  /\ \A i \in DOMAIN batches : \A b \in DOMAIN batches[i] : batches[i][b] \subseteq Msg

Init ==
  /\ phase = "register" /\ consumers = <<>> /\ handlers = {} /\ schedules = {}
  /\ up \in BOOLEAN /\ ended = FALSE
  /\ unsent = {} /\ sent = {} /\ fresh = {} /\ due = {} /\ later = {} /\ forced = {}
  /\ batches = [i \in 1..MaxConsumers |-> <<>>]
  /\ at = 1 /\ handled = 0 /\ owed = {} /\ ran = {} /\ callsLeft = MaxCalls

-----------------------------------------------------------------------------
(* The registration.                                                       *)

validName(name) == name # "Bad"

Register ==
  /\ phase = "register" /\ Len(consumers) < MaxConsumers
  /\ \E c \in Consumer :
       IF validName(c.name) /\ \A i \in Ids : consumers[i] # c
         THEN consumers' = Append(consumers, c) /\ UNCHANGED phase
         ELSE phase' = "panic" /\ UNCHANGED consumers
  /\ UNCHANGED <<handlers, schedules, up, ended, work, call>>

Handle ==
  /\ phase = "register"
  /\ \E i \in Ids, t \in Typ :
       IF <<i, t>> \notin handlers
         THEN handlers' = handlers \cup {<<i, t>>} /\ UNCHANGED phase
         ELSE phase' = "panic" /\ UNCHANGED handlers
  /\ UNCHANGED <<consumers, schedules, up, ended, work, call>>

HandledBy(s) == \E i \in Ids : consumers[i].queue = s.queue /\ <<i, s.typ>> \in handlers

MaySchedule(s) ==
  /\ HandledBy(s)
  /\ \A other \in schedules : other.typ # s.typ

AddSchedule ==
  /\ phase = "register"
  /\ \E s \in Schedule :
       IF MaySchedule(s)
         THEN /\ schedules' = schedules \cup {s} /\ unsent' = unsent \cup {s}
              /\ UNCHANGED phase
         ELSE phase' = "panic" /\ UNCHANGED <<schedules, unsent>>
  /\ UNCHANGED <<consumers, handlers, up, ended, sent, fresh, due, later, batches, forced, call>>

Start ==
  /\ phase = "register"
  /\ \/ "Run" \in Entry /\ phase' = "waitForCheck"
     \/ "RunDue" \in Entry /\ phase' = "idle"
  /\ UNCHANGED <<setup, up, ended, work, call>>

-----------------------------------------------------------------------------
(* Run up to its first lock.                                               *)

Subscribed(i) == consumers[i] \in Subs

\* check goes through the consumers; a query of a database that is down fails.
\* With no consumer it makes no query.
Missing == consumers = <<>> \/ \E i \in Ids : ~Subscribed(i)
FoundMissing == consumers = <<>> \/ (up /\ Missing)

\* An outage is logged, and the check runs again after errorDelay.
CheckFails ==
  /\ phase = "waitForCheck" /\ ~up /\ consumers # <<>>
  /\ phase' = (IF ended THEN "stopped" ELSE phase)
  /\ UNCHANGED <<setup, up, ended, work, call>>

\* Mutant of CheckFinds: a missing subscription is tried again.
CheckFindsAgain ==
  /\ phase = "waitForCheck" /\ up /\ ~Missing
  /\ phase' = "lead"
  /\ UNCHANGED <<setup, up, ended, work, call>>

CheckFinds ==
  /\ phase = "waitForCheck"
  /\ ended \/ up \/ FoundMissing
  /\ phase' = (IF ended THEN "stopped" ELSE IF FoundMissing THEN "error" ELSE "lead")
  /\ UNCHANGED <<setup, up, ended, work, call>>

RunStops ==
  /\ phase = "lead" /\ ended
  /\ phase' = "stopped"
  /\ UNCHANGED <<setup, up, ended, work, call>>

Cancel ==
  /\ phase \in {"waitForCheck", "lead"} /\ ~ended
  /\ ended' = TRUE
  /\ UNCHANGED <<phase, setup, up, work, call>>

Outage ==
  /\ phase \notin {"register", "panic", "error", "stopped"}
  /\ up' = ~up
  /\ UNCHANGED <<phase, setup, ended, work, call>>

-----------------------------------------------------------------------------
(* RunDue.                                                                 *)

\* The deliveries of a message: one for each subscribed consumer of its queue.
DeliveriesOf(m) == {<<i, m>> : i \in {j \in Ids : consumers[j].queue = m.queue}}
SlotOf(s) == [queue |-> s.queue, n |-> s.typ]
Slots(S) == UNION {DeliveriesOf(SlotOf(s)) : s \in S}
InBatches == UNION {{<<i, m>> : m \in UNION {batches[i][b] : b \in DOMAIN batches[i]}} : i \in Ids}

Begin ==
  /\ phase = "idle" /\ callsLeft > 0
  /\ phase' = "check" /\ callsLeft' = callsLeft - 1
  /\ owed' = fresh \cup InBatches \cup Slots(unsent) \cup (IF Cardinality(due) <= MaxMoved THEN due ELSE {})
  /\ ran' = {} /\ handled' = 0 /\ at' = 1
  /\ UNCHANGED <<setup, up, ended, work>>

\* A step of the call. It returns its error, and may have done its effect.
Step(from, to) == phase = from /\ phase' = to /\ UNCHANGED <<setup, up, ended, at, handled, owed, ran, callsLeft>>
Fails(from) ==
  /\ phase = from /\ phase' = "idle"
  /\ owed' = {} /\ ran' = {}
  /\ UNCHANGED <<setup, up, ended, at, handled, callsLeft>>

CheckDue ==
  \/ up /\ ~Missing /\ Step("check", "schedules") /\ UNCHANGED work
  \/ (~up \/ Missing) /\ Fails("check") /\ UNCHANGED work

SendSchedules ==
  /\ \/ Step("schedules", "maintain") /\ unsent' = {}
     \/ Fails("schedules") /\ unsent' \in SUBSET unsent
  /\ fresh' = fresh \cup Slots(unsent \ unsent')
  /\ UNCHANGED <<sent, due, later, batches, forced>>

\* moveRetries, then the rotation and the purges, which leave the live
\* messages alone.
MoveRetries ==
  /\ Step("maintain", "force") \/ Fails("maintain")
  /\ \E moved \in SUBSET due :
       /\ phase' = "force" => Cardinality(moved) = Cardinality(due) \/ Cardinality(moved) = MaxMoved
       /\ Cardinality(moved) <= MaxMoved
       /\ due' = due \ moved /\ fresh' = fresh \cup moved
  /\ UNCHANGED <<unsent, sent, later, batches, forced>>

queues == {consumers[i].queue : i \in Ids}

forceTick ==
  /\ \/ Step("force", "tick") /\ forced' = forced \cup queues
     \/ Fails("force") /\ forced' \in {forced \cup q : q \in SUBSET queues}
  /\ UNCHANGED <<unsent, sent, fresh, due, later, batches>>

\* A tick closes a batch of every forced queue for each of its consumers.
Close(Q) ==
  /\ batches' = [i \in 1..MaxConsumers |->
       IF i \in Ids /\ consumers[i].queue \in Q
         THEN Append(batches[i], {m \in Msg : <<i, m>> \in fresh}) ELSE batches[i]]
  /\ fresh' = {d \in fresh : consumers[d[1]].queue \notin Q}
  /\ forced' = forced \ Q

tick ==
  /\ \/ Step("tick", "batches") /\ Close(forced)
     \/ Fails("tick") /\ UNCHANGED <<fresh, batches, forced>>
  /\ UNCHANGED <<unsent, sent, due, later>>

\* Mutant of HandleBatch: RunDue runs one batch of each consumer.
HandleOneBatch ==
  /\ phase = "batches" /\ at \in Ids /\ batches[at] # <<>>
  /\ LET msgs == Head(batches[at])
     IN /\ handled' = handled + Cardinality(msgs)
        /\ ran' = ran \cup {<<at, m>> : m \in msgs}
        /\ \E failed \in SUBSET msgs : later' = later \cup {<<at, m>> : m \in failed}
  /\ batches' = [batches EXCEPT ![at] = Tail(@)]
  /\ at' = at + 1
  /\ UNCHANGED <<phase, setup, up, ended, unsent, sent, fresh, due, forced, owed, callsLeft>>

\* handleBatch of the next batch. A failed message gets a backoff of at least
\* 15 seconds, so it is not due in the same call.
HandleBatch ==
  /\ phase = "batches" /\ at \in Ids /\ batches[at] # <<>>
  /\ LET msgs == Head(batches[at])
     IN /\ handled' = handled + Cardinality(msgs)
        /\ ran' = ran \cup {<<at, m>> : m \in msgs}
        /\ \E failed \in SUBSET msgs : later' = later \cup {<<at, m>> : m \in failed}
  /\ batches' = [batches EXCEPT ![at] = Tail(@)]
  /\ UNCHANGED <<phase, setup, up, ended, unsent, sent, fresh, due, forced, at, owed, callsLeft>>

\* The batch stays open and comes back first.
HandleBatchFails ==
  /\ at \in Ids /\ batches[at] # <<>> /\ Fails("batches")
  /\ UNCHANGED work

NoBatch ==
  /\ phase = "batches" /\ at \in Ids /\ batches[at] = <<>>
  /\ at' = at + 1
  /\ UNCHANGED <<phase, setup, up, ended, work, handled, owed, ran, callsLeft>>

ReturnHandled ==
  /\ phase = "batches" /\ at \notin Ids
  /\ phase' = "idle" /\ owed' = {} /\ ran' = {}
  /\ UNCHANGED <<setup, up, ended, work, at, handled, callsLeft>>

-----------------------------------------------------------------------------
(* The producers and the time.                                             *)

Send ==
  /\ phase \in DuePhases
  /\ \E q \in Queue, n \in Number :
       LET m == [queue |-> q, n |-> n]
       IN /\ m \notin sent
          /\ sent' = sent \cup {m} /\ fresh' = fresh \cup DeliveriesOf(m)
  /\ UNCHANGED <<phase, setup, up, ended, unsent, due, later, batches, forced, call>>

BackoffOver ==
  /\ later # {} /\ phase = "idle"
  /\ \E ready \in SUBSET later : ready # {} /\ due' = due \cup ready /\ later' = later \ ready
  /\ UNCHANGED <<phase, setup, up, ended, unsent, sent, fresh, batches, forced, call>>

Next ==
  \/ Register \/ Handle \/ AddSchedule \/ Start
  \/ CheckFails \/ CheckFinds \/ RunStops \/ Cancel \/ Outage
  \/ Begin \/ CheckDue \/ SendSchedules \/ MoveRetries \/ forceTick \/ tick
  \/ HandleBatch \/ HandleBatchFails \/ NoBatch \/ ReturnHandled
  \/ Send \/ BackoffOver

Spec == Init /\ [][Next]_vars

\* The loop of waitForCheck goes on, and Run looks at its context.
FairSpec == Spec /\ WF_vars(CheckFinds) /\ WF_vars(RunStops)

-----------------------------------------------------------------------------
(* Properties.                                                             *)

\* Only a setup that no retry can fix ends Run with an error, and no worker
\* competes for the lock before each of its consumers has a subscription.
OnlyBadSetupEndsRun ==
  /\ phase = "error" => Missing
  /\ phase = "lead" => ~Missing

\* When the database comes back for good, Run goes on or reports its setup.
StartIsDecided == (phase = "waitForCheck" /\ <>[]up) ~> (phase # "waitForCheck")
=============================================================================
