---------------------------- MODULE QueueWorker ----------------------------
(***************************************************************************)
(* The worker of internal/platform/queue on top of PgQue: Run, lead, the   *)
(* tick loop, the maintenance, the drain, and the consume goroutine of one *)
(* consumer, for a set of worker slots that share one database.            *)
(*                                                                         *)
(* A slot is one call of lead: the goroutine of Run that waits for the     *)
(* lock and then leads (lead[w], conn[w], hctx[w]) and the consume         *)
(* goroutine it starts (pc[w], run[w]).  A slot whose consume goroutine    *)
(* outlives lead is busy until that goroutine ends; the process may        *)
(* meanwhile lead again in another slot.                                   *)
(*                                                                         *)
(* Each query of the consume goroutine is a step of its own.  A query can  *)
(* fail before or after its effect reached the database.                   *)
(***************************************************************************)
EXTENDS PgQue

CONSTANTS
  Workers,       \* the worker slots
  MaxBatchRuns,  \* maxBatchRuns: 3 in the code
  Outcomes,      \* what a handler may return: "ok", "err", "perm"
  Poison,        \* the messages whose handler kills the process
  FaultKinds,    \* the faults a behaviour may have
  MaxFaults      \* bound: the number of faults of a behaviour

ASSUME WorkerAssumption ==
  /\ IsFiniteSet(Workers)
  /\ MaxBatchRuns \in Nat
  /\ Outcomes \subseteq {"ok", "err", "perm"}
  /\ Poison \subseteq Msg
  /\ FaultKinds \subseteq {"crash", "lost", "stop", "dberr", "week"}
  /\ MaxFaults \in Nat

VARIABLES
  runs,    \* queue_batch_runs; 0 stands for no row
  lead,    \* the goroutine of Run
  conn,    \* the lock connection: "locked" holds the advisory lock
  hctx,    \* handlerCtx is live
  pc,      \* the consume goroutine: the query it waits for, or "run"
  run,     \* its variables: open and id of openBatch, b.runs, the results
  faults,  \* history: the number of faults
  done,    \* history: the messages whose handler returned nil
  permed,  \* history: the messages whose handler returned queue.Permanent
  opens,   \* history: opens[b] counts the times that b was opened, without
           \* those that leaveOpen took back
  ran      \* history: ran[b] counts those of them that reached the handlers

workerVars == <<runs, lead, conn, hctx, pc, run>>
history == <<done, permed, opens, ran>>
vars == <<queueVars, workerVars, faults, history>>

Result == {"none", "ok", "err", "perm", "stopped"}

Run == [seen : 0..MaxTick, id : 0..MaxTick, runs : Int,
        cur : Msg \cup {0}, res : [Msg -> Result]]

\* No batch: what handleBatch returns to.
NoRun == [seen |-> 0, id |-> 0, runs |-> 0, cur |-> 0,
          res |-> [m \in Msg |-> "none"]]

TypeOK ==
  /\ QueueTypeOK
  /\ runs \in [Batch -> Int]
  /\ lead \in [Workers -> {"standby", "active", "draining", "stopping"}]
  /\ conn \in [Workers -> {"none", "locked", "cut"}]
  /\ hctx \in [Workers -> BOOLEAN]
  /\ pc \in [Workers -> {"off", "idle", "next", "count", "read", "run"}]
  /\ run \in [Workers -> Run]
  /\ faults \in 0..MaxFaults
  /\ done \subseteq Msg
  /\ permed \subseteq Msg
  /\ opens \in [Batch -> Int]
  /\ ran \in [Batch -> Int]

Init ==
  /\ QueueInit
  /\ runs = [b \in Batch |-> 0]
  /\ lead = [w \in Workers |-> "standby"]
  /\ conn = [w \in Workers |-> "none"]
  /\ hctx = [w \in Workers |-> FALSE]
  /\ pc = [w \in Workers |-> "off"]
  /\ run = [w \in Workers |-> NoRun]
  /\ faults = 0
  /\ done = {}
  /\ permed = {}
  /\ opens = [b \in Batch |-> 0]
  /\ ran = [b \in Batch |-> 0]

\* Bound: where the histories opens and ran stop to count.  A history that
\* reached it stays there and stands for any number.  A batch has at most
\* maxBatchRuns runs that nothing but its own handlers ended, so no behaviour
\* of the instances that TLC checks reaches it.
HistoryCap == MaxBatchRuns + MaxFaults + 2

\* The history h with one more for batch b.
Tally(h, b) == IF h[b] < HistoryCap THEN [h EXCEPT ![b] = @ + 1] ELSE h

\* The history h with one less for batch b.
Untally(h, b) == IF h[b] < HistoryCap THEN [h EXCEPT ![b] = @ - 1] ELSE h

-----------------------------------------------------------------------------
(* Faults and the end of a context.                                        *)

Fault(kind) ==
  /\ kind \in FaultKinds
  /\ faults < MaxFaults
  /\ faults' = faults + 1

\* runCtx ends with the tick loop, so it is live exactly in "active".
RunCtxLive(w) == lead[w] = "active"

\* A query with runCtx fails freely once the context ended, and otherwise
\* only by a fault of the database.
QueryFails(w) ==
  IF RunCtxLive(w) THEN Fault("dberr") ELSE UNCHANGED faults

\* handleBatch returns, and consume goes back to the top of its loop.
Return(w) ==
  /\ pc' = [pc EXCEPT ![w] = "idle"]
  /\ run' = [run EXCEPT ![w] = NoRun]

-----------------------------------------------------------------------------
(* Run and lead.                                                           *)

\* The lock is free when no session holds it.
TryLock(w) ==
  /\ lead[w] = "standby"
  /\ pc[w] = "off"
  /\ \A v \in Workers : conn[v] # "locked"
  /\ conn' = [conn EXCEPT ![w] = "locked"]
  /\ lead' = [lead EXCEPT ![w] = "active"]
  /\ hctx' = [hctx EXCEPT ![w] = TRUE]
  /\ pc' = [pc EXCEPT ![w] = "idle"]
  /\ UNCHANGED <<queueVars, runs, run, faults, history>>

\* tickOn: the ticker runs on the lock connection.
TickOn(w) ==
  /\ lead[w] = "active"
  /\ conn[w] = "locked"
  /\ Ticker
  /\ UNCHANGED <<workerVars, faults, history>>

\* maintain runs on the pool, and a pass that began before the end of
\* runCtx can still commit during the drain.
Maintain(w) ==
  /\ lead[w] # "standby"
  /\ MaintRetryEvents
  /\ UNCHANGED <<workerVars, faults, history>>

\* purgeRuns deletes a count that did not change for a week: a closed
\* batch's, or, when no worker ran for a week, that of the open batch.
PurgeRuns(w) ==
  /\ lead[w] # "standby"
  /\ \E b \in Batch :
       /\ runs[b] # 0
       /\ IF b <= last THEN UNCHANGED faults ELSE Fault("week")
       /\ runs' = [runs EXCEPT ![b] = 0]
  /\ UNCHANGED <<queueVars, lead, conn, hctx, pc, run, history>>

\* The server ends the session of the lock connection.
LoseSession(w) ==
  /\ conn[w] = "locked"
  /\ Fault("lost")
  /\ conn' = [conn EXCEPT ![w] = "cut"]
  /\ UNCHANGED <<queueVars, runs, lead, hctx, pc, run, history>>

\* The next tick fails on the closed connection: the tick loop ends, and
\* lead stops the handlers at once.
LostLock(w) ==
  /\ lead[w] = "active"
  /\ conn[w] = "cut"
  /\ lead' = [lead EXCEPT ![w] = "draining"]
  /\ hctx' = [hctx EXCEPT ![w] = FALSE]
  /\ UNCHANGED <<queueVars, runs, conn, pc, run, faults, history>>

\* SIGTERM ends ctx, and the tick loop returns.  The handlers go on.
Stop(w) ==
  /\ lead[w] = "active"
  /\ Fault("stop")
  /\ lead' = [lead EXCEPT ![w] = "draining"]
  /\ UNCHANGED <<queueVars, runs, conn, hctx, pc, run, history>>

\* drain: the grace period ends before the consumer does.
GraceOver(w) ==
  /\ lead[w] = "draining"
  /\ pc[w] # "off"
  /\ lead' = [lead EXCEPT ![w] = "stopping"]
  /\ hctx' = [hctx EXCEPT ![w] = FALSE]
  /\ UNCHANGED <<queueVars, runs, conn, pc, run, faults, history>>

\* lead returns: its defers end the handler context and give up the lock.
Unlock(w) ==
  /\ lead' = [lead EXCEPT ![w] = "standby"]
  /\ hctx' = [hctx EXCEPT ![w] = FALSE]
  /\ conn' = [conn EXCEPT ![w] = "none"]
  /\ UNCHANGED <<queueVars, runs, pc, run, faults, history>>

\* Mutant of Drained: lead returns without its deferred unlock.
DrainedLocked(w) ==
  /\ lead[w] \in {"draining", "stopping"}
  /\ pc[w] = "off"
  /\ lead' = [lead EXCEPT ![w] = "standby"]
  /\ hctx' = [hctx EXCEPT ![w] = FALSE]
  /\ UNCHANGED <<queueVars, runs, conn, pc, run, faults, history>>

\* Mutant of Drained: drain does not wait for the consumer.
DrainedEarly(w) ==
  /\ lead[w] \in {"draining", "stopping"}
  /\ lead' = [lead EXCEPT ![w] = "standby"]
  /\ conn' = [conn EXCEPT ![w] = "none"]
  /\ UNCHANGED <<queueVars, runs, hctx, pc, run, faults, history>>

\* drain: the consumer ended.
Drained(w) ==
  /\ lead[w] \in {"draining", "stopping"}
  /\ pc[w] = "off"
  /\ Unlock(w)

\* drain: the consumer still runs a handler, or stores a result, at the
\* hard limit.  The queries of openBatch ended with runCtx long ago.
HardLimit(w) ==
  /\ lead[w] = "stopping"
  /\ pc[w] = "run"
  /\ Unlock(w)

\* The process ends, and with it the lock session.
Die(w) ==
  /\ lead' = [lead EXCEPT ![w] = "standby"]
  /\ conn' = [conn EXCEPT ![w] = "none"]
  /\ hctx' = [hctx EXCEPT ![w] = FALSE]
  /\ pc' = [pc EXCEPT ![w] = "off"]
  /\ run' = [run EXCEPT ![w] = NoRun]
  /\ UNCHANGED <<queueVars, runs, history>>

Crash(w) ==
  /\ lead[w] # "standby" \/ pc[w] # "off"
  /\ Fault("crash")
  /\ Die(w)

\* A poison message kills its process, for example out of memory.
HandlerKills(w) ==
  /\ run[w].cur \in Poison
  /\ Die(w)
  /\ UNCHANGED faults

-----------------------------------------------------------------------------
(* The consume goroutine: openBatch.                                       *)

\* The loop of consume sees the end of runCtx.
ConsumeEnds(w) ==
  /\ pc[w] = "idle"
  /\ ~RunCtxLive(w)
  /\ pc' = [pc EXCEPT ![w] = "off"]
  /\ UNCHANGED <<queueVars, runs, lead, conn, hctx, run, faults, history>>

\* currentBatch.  A failed query has the same answer as no open batch: the
\* code tests for a nil id before it tests the error.
CurrentBatch(w) ==
  /\ pc[w] = "idle"
  /\ RunCtxLive(w)
  /\ \/ /\ run' = [run EXCEPT ![w].seen = IF open THEN last + 1 ELSE 0]
        /\ UNCHANGED faults
     \/ /\ Fault("dberr")
        /\ UNCHANGED run
  /\ pc' = [pc EXCEPT ![w] = "next"]
  /\ UNCHANGED <<queueVars, runs, lead, conn, hctx, history>>

\* Mutant of CameBack: a batch that came back is taken for a new one.
NeverCameBack(w) == FALSE

\* The batch that next_batch returned was open before the call.
CameBack(w) == run[w].seen = last + 1

NextBatch(w) ==
  /\ pc[w] = "next"
  /\ RunCtxLive(w)
  /\ OpenNext
  /\ pc' = [pc EXCEPT ![w] = IF CameBack(w) THEN "count" ELSE "read"]
  /\ run' = [run EXCEPT ![w] = [NoRun EXCEPT !.id = last + 1]]
  /\ opens' = Tally(opens, last + 1)
  /\ UNCHANGED <<runs, lead, conn, hctx, faults, done, permed, ran>>

\* No batch is ready; consume sleeps until the next tick.
NoBatch(w) ==
  /\ pc[w] = "next"
  /\ RunCtxLive(w)
  /\ ~BatchReady
  /\ Return(w)
  /\ UNCHANGED <<queueVars, runs, lead, conn, hctx, faults, history>>

\* The query fails, or its answer comes after the end of runCtx, which
\* fails the query that follows it.
NextBatchFails(w) ==
  /\ pc[w] = "next"
  /\ QueryFails(w)
  /\ \/ OpenNext /\ opens' = Tally(opens, last + 1)
     \/ UNCHANGED <<queueVars, opens>>
  /\ Return(w)
  /\ UNCHANGED <<runs, lead, conn, hctx, done, permed, ran>>

CountRun(w) ==
  /\ pc[w] = "count"
  /\ RunCtxLive(w)
  /\ runs' = [runs EXCEPT ![run[w].id] = @ + 1]
  /\ run' = [run EXCEPT ![w].runs = runs[run[w].id] + 1]
  /\ pc' = [pc EXCEPT ![w] = "read"]
  /\ UNCHANGED <<queueVars, lead, conn, hctx, faults, history>>

CountRunFails(w) ==
  /\ pc[w] = "count"
  /\ QueryFails(w)
  /\ \/ runs' = [runs EXCEPT ![run[w].id] = @ + 1]
     \/ UNCHANGED runs
  /\ Return(w)
  /\ UNCHANGED <<queueVars, lead, conn, hctx, history>>

\* batchMessages, then giveUp or the start of runAll.
BatchMessages(w) ==
  LET b == run[w].id IN
  /\ pc[w] = "read"
  /\ IsOpen(b)
  /\ IF run[w].runs >= MaxBatchRuns
     THEN /\ run' = [run EXCEPT ![w].res =
                       [m \in Msg |-> IF m \in Ids(win[b]) THEN "err" ELSE "none"]]
          /\ UNCHANGED ran
     ELSE /\ ran' = Tally(ran, b)
          /\ UNCHANGED run
  /\ pc' = [pc EXCEPT ![w] = "run"]
  /\ UNCHANGED <<queueVars, runs, lead, conn, hctx, faults, done, permed, opens>>

\* get_batch_events raises for a batch that is not open.
BatchMessagesFails(w) ==
  /\ pc[w] = "read"
  /\ IF IsOpen(run[w].id) THEN QueryFails(w) ELSE UNCHANGED faults
  /\ Return(w)
  /\ UNCHANGED <<queueVars, runs, lead, conn, hctx, history>>

-----------------------------------------------------------------------------
(* The consume goroutine: runAll.                                          *)

\* The messages of the batch without a result.
Left(w) == {m \in Ids(win[run[w].id]) : run[w].res[m] = "none"}

\* The messages of the batch with one of the results R.
With(w, R) == {e \in win[run[w].id] : run[w].res[e.id] \in R}

\* The handlers run in the order of the event ids.
StartHandler(w) ==
  /\ pc[w] = "run"
  /\ run[w].cur = 0
  /\ hctx[w]
  /\ \E m \in Left(w) :
       /\ \A n \in Left(w) : m <= n
       /\ run' = [run EXCEPT ![w].cur = m]
  /\ UNCHANGED <<queueVars, runs, lead, conn, hctx, pc, faults, history>>

\* An error after the end of handlerCtx comes from the stop.
ResultOf(w, out) == IF out # "ok" /\ ~hctx[w] THEN "stopped" ELSE out

\* The handler returns, in time or after the end of its context.  A panic,
\* a timeout and a type without a handler are errors too.
EndHandler(w) ==
  LET m == run[w].cur IN
  /\ m # 0
  /\ m \notin Poison
  /\ \E out \in Outcomes :
       /\ run' = [run EXCEPT ![w].cur = 0, ![w].res[m] = ResultOf(w, out)]
       /\ done' = IF out = "ok" THEN done \cup {m} ELSE done
       /\ permed' = IF out = "perm" THEN permed \cup {m} ELSE permed
  /\ UNCHANGED <<queueVars, runs, lead, conn, hctx, pc, faults, opens, ran>>

\* After the end of handlerCtx, runAll skips the rest of the batch.
SkipRest(w) ==
  /\ pc[w] = "run"
  /\ run[w].cur = 0
  /\ ~hctx[w]
  /\ Left(w) # {}
  /\ run' = [run EXCEPT ![w].res =
               [m \in Msg |-> IF m \in Left(w) THEN "stopped" ELSE @[m]]]
  /\ UNCHANGED <<queueVars, runs, lead, conn, hctx, pc, faults, history>>

-----------------------------------------------------------------------------
(* The consume goroutine: finishBatch and leaveOpen.                       *)

\* Mutant of Stopped: a batch with a stopped handler finishes too.
StoppedNever(w) == FALSE

Stopped(w) == With(w, {"stopped"}) # {}

RunDone(w) ==
  /\ pc[w] = "run"
  /\ run[w].cur = 0
  /\ Left(w) = {}

\* Mutant of CanAck: the result of pgque.ack is not checked.
CanAckAny(w) == TRUE

\* pgque.ack finds the batch; without it the transaction rolls back.
CanAck(w) == IsOpen(run[w].id)

\* Mutant of Buried: the last retry is not given.
BuriedEarly(w) ==
  {e \in With(w, {"err", "perm"}) :
     run[w].res[e.id] = "perm" \/ e.retry + 1 >= MaxRetries}

\* collectFailures: the failed messages for the dead letter queue.
Buried(w) ==
  {e \in With(w, {"err", "perm"}) :
     run[w].res[e.id] = "perm" \/ e.retry >= MaxRetries}

\* The failed messages for the retry queue.
Again(w) == With(w, {"err", "perm"}) \ Buried(w)

FinishBatch(w) ==
  /\ RunDone(w)
  /\ ~Stopped(w)
  /\ CanAck(w)
  /\ Acknowledge(Again(w), Buried(w))
  /\ runs' = [runs EXCEPT ![run[w].id] = 0]
  /\ Return(w)
  /\ UNCHANGED <<lead, conn, hctx, faults, history>>

\* A rollback.  A lost answer to a commit is a FinishBatch.
FinishBatchFails(w) ==
  /\ RunDone(w)
  /\ ~Stopped(w)
  /\ IF CanAck(w) THEN Fault("dberr") ELSE UNCHANGED faults
  /\ Return(w)
  /\ UNCHANGED <<queueVars, runs, lead, conn, hctx, history>>

\* Mutant of Uncounted: leaveOpen does not take back the count.
UncountedNot(b) == runs

Uncounted(b) == [runs EXCEPT ![b] = @ - 1]

\* leaveOpen takes back the count that the next open of the batch adds.
LeaveOpen(w) ==
  /\ RunDone(w)
  /\ Stopped(w)
  /\ runs' = Uncounted(run[w].id)
  /\ opens' = Untally(opens, run[w].id)
  /\ ran' = Untally(ran, run[w].id)
  /\ Return(w)
  /\ UNCHANGED <<queueVars, lead, conn, hctx, faults, done, permed>>

\* The error of uncountRun is only logged.
LeaveOpenFails(w) ==
  /\ RunDone(w)
  /\ Stopped(w)
  /\ Fault("dberr")
  /\ Return(w)
  /\ UNCHANGED <<queueVars, runs, lead, conn, hctx, history>>

-----------------------------------------------------------------------------

Produce == \E m \in Msg : Send(m) /\ UNCHANGED <<workerVars, faults, history>>

Lead(w) ==
  \/ TryLock(w) \/ LostLock(w) \/ GraceOver(w) \/ Drained(w) \/ HardLimit(w)

Open(w) ==
  \/ ConsumeEnds(w) \/ CurrentBatch(w) \/ NextBatch(w) \/ NoBatch(w)
  \/ NextBatchFails(w) \/ CountRun(w) \/ CountRunFails(w)
  \/ BatchMessages(w) \/ BatchMessagesFails(w)

Handle(w) ==
  \/ StartHandler(w) \/ EndHandler(w) \/ HandlerKills(w) \/ SkipRest(w)

Finish(w) ==
  \/ FinishBatch(w) \/ FinishBatchFails(w) \/ LeaveOpen(w) \/ LeaveOpenFails(w)

Environment(w) == LoseSession(w) \/ Stop(w) \/ Crash(w)

Next ==
  \/ Produce
  \/ \E w \in Workers :
       \/ TickOn(w) \/ Maintain(w) \/ PurgeRuns(w)
       \/ Lead(w) \/ Open(w) \/ Handle(w) \/ Finish(w) \/ Environment(w)

Spec == Init /\ [][Next]_vars

\* The goroutines of a process go on, a handler returns within its timeout
\* or kills its process, and a worker process that ended starts again.
Fairness ==
  /\ WF_vars(\E w \in Workers : TickOn(w))
  /\ WF_vars(\E w \in Workers : Maintain(w))
  /\ WF_vars(\E w \in Workers : TryLock(w))
  /\ \A w \in Workers :
       /\ WF_vars(LostLock(w) \/ GraceOver(w) \/ Drained(w))
       /\ WF_vars(Open(w) \/ Handle(w) \/ Finish(w))

FairSpec == Spec /\ Fairness

-----------------------------------------------------------------------------
(* Properties.                                                             *)

\* The events that a consumer can still receive.
Waiting == UNION {win[b] : b \in last + 1..tick}

\* No message is lost: a message that was sent is in an event table or the
\* retry queue, or it is a dead letter, or its handler returned nil.  It is
\* about finishBatch, which moves the cursor past a whole batch at once.
NoLoss ==
  sent \subseteq Ids(fresh) \cup Ids(Waiting) \cup Ids(retryQ) \cup Ids(dead) \cup done

\* A message never exists twice: there is at most one event under an id,
\* whatever two workers do with the same batch.  Otherwise the key of
\* retry_queue (subscription, event id) would refuse the second failure and
\* roll back every finishBatch of its batch from then on.
SingleCopy ==
  LET place == <<fresh, Waiting, retryQ, dead>> IN
  /\ \A i, j \in DOMAIN place :
       i # j => Ids(place[i]) \cap Ids(place[j]) = {}
  /\ \A i \in DOMAIN place : \A e, f \in place[i] : e.id = f.id => e = f
  /\ \A b, c \in last + 1..tick : b # c => win[b] \cap win[c] = {}

\* A dead letter has used up its retries, or its handler asked for it.
DeadOnlyWhenSpent ==
  \A e \in dead : e.retry = MaxRetries \/ e.id \in permed

\* Handlers of two workers run at the same time under live contexts only
\* when the lock session of one of them was cut and it has not seen it yet.
Exclusive ==
  \A v, w \in Workers :
    v # w /\ run[v].cur # 0 /\ run[w].cur # 0 /\ hctx[v] /\ hctx[w]
      => "cut" \in {conn[v], conn[w]}

\* Handlers see a batch in at most maxBatchRuns runs that did not finish,
\* whatever kills them: then the batch gives up and the queue moves on.
RunBound == \A b \in Batch : ran[b] <= MaxBatchRuns

\* A count is earned: an open batch has at most one counted run for each
\* time that it was opened before and neither finished nor taken back.  So a
\* run that the worker stopped in its handlers does not bring the batch any
\* closer to giving up, also when the next worker opens it meanwhile.
CountEarned ==
  \A b \in last + 1..tick :
    runs[b] > 0 /\ opens[b] < HistoryCap => runs[b] < opens[b]

\* The worker on PgQue implements at-least-once delivery: whatever crashes,
\* stops, overlaps or fails, each step settles a batch as a whole, reports a
\* handler's result, accepts a message, or changes nothing that users see.
Promise == INSTANCE Delivery WITH
  accepted <- sent, live <- fresh \cup Waiting \cup retryQ,
  succeeded <- done, refused <- permed

Implements == Promise!Spec

\* Every message ends: its handler returned nil, or it is a dead letter.
Settles == \A m \in Msg : m \in sent ~> m \in done \cup Ids(dead)

\* "A message that crashes each batch therefore reaches the dead letter
\* queue in the end, and the queue does not stop."
PoisonBuried == \A m \in Poison : m \in sent ~> m \in Ids(dead)

-----------------------------------------------------------------------------
(* What the documentation says and the code does not keep.                 *)

\* "A finished batch deletes its own count, so only the counts of batches
\* that a person closed by hand stay behind" (purgeRuns).
NoCountBehind == \A b \in 1..last : runs[b] = 0

\* "The stopped run does not count [...], so a deploy cannot send a message
\* to the dead letter queue" (README, Shutdown): where no handler fails and
\* workers are only stopped, no message uses a retry.
DeployCostsNothing == retryQ = {} /\ dead = {}

\* lead "holds the lock until its handlers stopped, so another worker cannot
\* start the same batch during the drain".
NoSecondStart ==
  \A v, w \in Workers :
    v # w /\ run[v].cur # 0 /\ run[w].cur # 0 => run[v].id # run[w].id
=============================================================================
