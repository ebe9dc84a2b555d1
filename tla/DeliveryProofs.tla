--------------------------- MODULE DeliveryProofs ---------------------------
(***************************************************************************)
(* Proofs about what the worker promises its users: no message is lost, a  *)
(* dead letter is spent, and QueueWorker implements Delivery.  They rest   *)
(* on the types and the Copies invariant of QueueWorkerProofs, and on Told:*)
(* the results that a batch is finished by are results of its handlers.    *)
(***************************************************************************)
EXTENDS QueueWorkerProofs

Told ==
  \A w \in Workers : \A m \in Msg :
    /\ run[w].res[m] = "ok" => m \in done
    /\ run[w].res[m] = "perm" => m \in permed

\* A running handler has a message that was sent, and so has each event of
\* a window, finished or not.
Sent ==
  /\ \A b \in Batch : \A e \in win[b] : e.id \in sent
  /\ \A w \in Workers : run[w].cur \in sent \cup {0}

-----------------------------------------------------------------------------
(* What a step does to the variables of the consumers.                     *)

\* A step that starts no handler and reports no result.
Quiet ==
  /\ \A v \in Workers : \A m \in Msg :
       run'[v].res[m] \in {run[v].res[m], "none", "err", "stopped"}
  /\ \A v \in Workers : run'[v].cur \in {run[v].cur, 0}

LEMMA QuietReturn ==
  ASSUME run \in [Workers -> Run], NEW w \in Workers,
         run' = [run EXCEPT ![w] = NoRun]
  PROVE  Quiet
<1>1. NoRun.cur = 0 /\ \A m \in Msg : NoRun.res[m] = "none"
  BY DEF NoRun
<1>2. \A v \in Workers : run'[v] = IF v = w THEN NoRun ELSE run[v]
  OBVIOUS
<1>3. QED
  BY <1>1, <1>2 DEF Quiet

LEMMA QuietUnchanged == UNCHANGED run => Quiet
BY DEF Quiet

LEMMA QuietSeen ==
  ASSUME run \in [Workers -> Run], NEW w \in Workers, NEW b,
         \/ run' = [run EXCEPT ![w].seen = b]
         \/ run' = [run EXCEPT ![w].runs = b]
  PROVE  Quiet
BY DEF Quiet, Run

LEMMA QuietOpen ==
  ASSUME run \in [Workers -> Run], NEW w \in Workers, NEW b \in 0..MaxTick,
         run' = [run EXCEPT ![w] = [NoRun EXCEPT !.id = b]]
  PROVE  Quiet
<1> DEFINE r == [NoRun EXCEPT !.id = b]
<1>1. r.cur = 0 /\ \A m \in Msg : r.res[m] = "none"
  BY DEF NoRun
<1>2. \A v \in Workers : run'[v] = IF v = w THEN r ELSE run[v]
  OBVIOUS
<1>3. QED
  BY <1>1, <1>2 DEF Quiet

LEMMA QuietRes ==
  ASSUME run \in [Workers -> Run], NEW w \in Workers, NEW f \in [Msg -> Result],
         run' = [run EXCEPT ![w].res = f],
         \A m \in Msg : f[m] \in {run[w].res[m], "none", "err", "stopped"}
  PROVE  Quiet
<1>1. \A v \in Workers : /\ run'[v].res = IF v = w THEN f ELSE run[v].res
                         /\ run'[v].cur = run[v].cur
  BY DEF Run
<1>2. QED
  BY <1>1 DEF Quiet

LEMMA QuietStep ==
  ASSUME TypeOK, HasBatch, [Next]_vars
  PROVE  \/ Quiet
         \/ \E w \in Workers : StartHandler(w) \/ EndHandler(w)
<1>0. run \in [Workers -> Run]
  BY DEF TypeOK
<1>1. CASE Produce \/ UNCHANGED vars
  BY <1>1, QuietUnchanged DEF Produce, vars, workerVars
<1>2. ASSUME NEW w \in Workers,
             \/ TickOn(w) \/ Maintain(w) \/ PurgeRuns(w) \/ Lead(w)
             \/ LoseSession(w) \/ Stop(w) \/ ConsumeEnds(w)
      PROVE  Quiet
  BY <1>2, QuietUnchanged
     DEF TickOn, Maintain, PurgeRuns, Lead, TryLock, LostLock, GraceOver,
         Drained, HardLimit, Unlock, LoseSession, Stop, ConsumeEnds, workerVars
<1>3. ASSUME NEW w \in Workers,
             \/ NoBatch(w) \/ NextBatchFails(w) \/ CountRunFails(w)
             \/ BatchMessagesFails(w) \/ Finish(w) \/ Crash(w) \/ HandlerKills(w)
      PROVE  Quiet
  <2>1. run' = [run EXCEPT ![w] = NoRun]
    BY <1>3 DEF NoBatch, NextBatchFails, CountRunFails, BatchMessagesFails,
                Finish, FinishBatch, FinishBatchFails, LeaveOpen,
                LeaveOpenFails, Crash, HandlerKills, Die, Return
  <2>2. QED
    BY <1>0, <2>1, QuietReturn
<1>4. ASSUME NEW w \in Workers, CurrentBatch(w) \/ CountRun(w)
      PROVE  Quiet
  BY <1>0, <1>4, QuietSeen, QuietUnchanged DEF CurrentBatch, CountRun
<1>5. ASSUME NEW w \in Workers, NextBatch(w)
      PROVE  Quiet
  <2>1. last + 1 \in 0..MaxTick
    BY <1>5, OpenNextType, PgQueAssumption DEF NextBatch, TypeOK, QueueTypeOK
  <2>2. QED
    BY <1>0, <1>5, <2>1, QuietOpen DEF NextBatch
<1>6. ASSUME NEW w \in Workers, BatchMessages(w)
      PROVE  Quiet
  <2> DEFINE f == [m \in Msg |-> IF m \in Ids(win[run[w].id]) THEN "err" ELSE "none"]
  <2>1. CASE run' = [run EXCEPT ![w].res = f]
    <3>1. f \in [Msg -> Result]
      BY DEF Result
    <3>2. QED
      BY <1>0, <2>1, <3>1, QuietRes
  <2>2. QED
    BY <1>6, <2>1, QuietUnchanged DEF BatchMessages
<1>7. ASSUME NEW w \in Workers, SkipRest(w)
      PROVE  Quiet
  <2> DEFINE f == [m \in Msg |-> IF m \in Left(w) THEN "stopped" ELSE run[w].res[m]]
  <2>1. run' = [run EXCEPT ![w].res = f]
    BY <1>0, <1>7 DEF SkipRest
  <2>2. f \in [Msg -> Result]
    BY <1>0 DEF Result, Run
  <2>3. QED
    BY <1>0, <2>1, <2>2, QuietRes
<1>8. QED
  BY <1>1, <1>2, <1>3, <1>4, <1>5, <1>6, <1>7 DEF Next, Open, Handle, Environment

\* A handler ends: it reports what it returned, or that it was stopped.
LEMMA EndHandlerRes ==
  ASSUME TypeOK, NEW w \in Workers, EndHandler(w)
  PROVE  \E out \in Outcomes :
           /\ run[w].cur \in Msg
           /\ \A v \in Workers : \A m \in Msg :
                run'[v].res[m] \in
                  IF v = w /\ m = run[w].cur THEN {out, "stopped"} ELSE {run[v].res[m]}
           /\ \A v \in Workers : run'[v].cur \in {run[v].cur, 0}
           /\ done' = IF out = "ok" THEN done \cup {run[w].cur} ELSE done
           /\ permed' = IF out = "perm" THEN permed \cup {run[w].cur} ELSE permed
<1> DEFINE m == run[w].cur
<1>1. m \in Msg /\ run \in [Workers -> Run]
  BY DEF EndHandler, TypeOK, Run
<1>2. PICK out \in Outcomes :
        /\ run' = [run EXCEPT ![w].cur = 0, ![w].res[m] = ResultOf(w, out)]
        /\ done' = IF out = "ok" THEN done \cup {m} ELSE done
        /\ permed' = IF out = "perm" THEN permed \cup {m} ELSE permed
  BY DEF EndHandler
<1>3. ResultOf(w, out) \in {out, "stopped"}
  BY DEF ResultOf
<1> DEFINE res == ResultOf(w, out)
<1> HIDE DEF res
<1>4. \A v \in Workers :
        /\ run'[v].res = IF v = w THEN [run[v].res EXCEPT ![m] = res] ELSE run[v].res
        /\ run'[v].cur = IF v = w THEN 0 ELSE run[v].cur
  BY <1>1, <1>2 DEF Run, res
<1>5. \A v \in Workers : run[v].res \in [Msg -> Result]
  BY <1>1 DEF Run
<1>6. \A v \in Workers : \A n \in Msg :
        run'[v].res[n] = IF v = w /\ n = m THEN res ELSE run[v].res[n]
  BY <1>1, <1>4, <1>5
<1>7. res \in {out, "stopped"}
  BY <1>3 DEF res
<1>8. \A v \in Workers : run'[v].cur \in {run[v].cur, 0}
  BY <1>4
<1>9. \A v \in Workers : \A n \in Msg :
        run'[v].res[n] \in
          IF v = w /\ n = run[w].cur THEN {out, "stopped"} ELSE {run[v].res[n]}
  BY <1>6, <1>7
<1>10. QED
  BY <1>1, <1>2, <1>8, <1>9

\* A handler starts with a message of its batch.
LEMMA StartHandlerCur ==
  ASSUME TypeOK, HasBatch, NEW w \in Workers, StartHandler(w)
  PROVE  \E m \in Msg :
           /\ run[w].id \in Batch
           /\ m \in Ids(win[run[w].id])
           /\ \A v \in Workers : run'[v].cur = IF v = w THEN m ELSE run[v].cur
           /\ \A v \in Workers : run'[v].res = run[v].res
           /\ UNCHANGED <<queueVars, done, permed>>
<1>1. PICK m \in Left(w) : run' = [run EXCEPT ![w].cur = m]
  BY DEF StartHandler
<1>2. /\ run \in [Workers -> Run]
      /\ run[w].id \in Batch
  BY PgQueAssumption DEF StartHandler, HasBatch, TypeOK, QueueTypeOK, Batch
<1>3. win[run[w].id] \subseteq Event
  BY <1>2 DEF TypeOK, QueueTypeOK
<1>4. m \in Ids(win[run[w].id])
  BY <1>1 DEF Left
<1>5. m \in Msg
  BY <1>3, <1>4 DEF Ids, Event
<1>6. \A v \in Workers : /\ run'[v].cur = IF v = w THEN m ELSE run[v].cur
                         /\ run'[v].res = run[v].res
  BY <1>1, <1>2 DEF Run
<1>7. QED
  BY <1>2, <1>4, <1>5, <1>6 DEF StartHandler, history

LEMMA ToldStep == TypeOK /\ HasBatch /\ Told /\ [Next]_vars => Told'
<1> SUFFICES ASSUME TypeOK, HasBatch, Told, [Next]_vars PROVE Told'
  OBVIOUS
<1>1. done \subseteq done' /\ permed \subseteq permed'
  BY StepKinds DEF Reports
<1>2. CASE Quiet
  BY <1>1, <1>2 DEF Quiet, Told
<1>3. ASSUME NEW w \in Workers, StartHandler(w)
      PROVE  Told'
  BY <1>1, <1>3, StartHandlerCur DEF Told
<1>4. ASSUME NEW w \in Workers, EndHandler(w)
      PROVE  Told'
  <2>1. PICK out \in Outcomes :
          /\ run[w].cur \in Msg
          /\ \A v \in Workers : \A m \in Msg :
               run'[v].res[m] \in
                 IF v = w /\ m = run[w].cur THEN {out, "stopped"} ELSE {run[v].res[m]}
          /\ done' = IF out = "ok" THEN done \cup {run[w].cur} ELSE done
          /\ permed' = IF out = "perm" THEN permed \cup {run[w].cur} ELSE permed
    BY <1>4, EndHandlerRes
  <2>2. ASSUME NEW v \in Workers, NEW m \in Msg, v = w, m = run[w].cur
        PROVE  /\ run'[v].res[m] = "ok" => m \in done'
               /\ run'[v].res[m] = "perm" => m \in permed'
    BY <2>1, <2>2
  <2>3. ASSUME NEW v \in Workers, NEW m \in Msg, ~(v = w /\ m = run[w].cur)
        PROVE  run'[v].res[m] = run[v].res[m]
    BY <2>1, <2>3
  <2>4. QED
    BY <1>1, <2>2, <2>3 DEF Told
<1>5. QED
  BY <1>2, <1>3, <1>4, QuietStep

-----------------------------------------------------------------------------
(* A batch that is finished: each of its messages has a result.            *)

LEMMA FinishedBatch ==
  ASSUME TypeOK, HasBatch, Told, NEW w \in Workers, FinishBatch(w)
  PROVE  /\ open
         /\ Again(w) \subseteq win[last + 1]
         /\ Buried(w) \subseteq win[last + 1]
         /\ Again(w) \cap Buried(w) = {}
         /\ \A e \in win[last + 1] \ (Again(w) \cup Buried(w)) : e.id \in done
         /\ \A e \in Again(w) : e.retry < MaxRetries
         /\ \A e \in Buried(w) : e.retry = MaxRetries \/ e.id \in permed
<1> DEFINE batch == win[last + 1]
<1>1. open /\ run[w].id = last + 1 /\ last + 1 \in Batch
  BY PgQueAssumption DEF FinishBatch, CanAck, IsOpen, TypeOK, QueueTypeOK, Batch
<1>2. batch \subseteq Event
  BY <1>1 DEF TypeOK, QueueTypeOK
<1>3. run[w].res \in [Msg -> Result]
  BY DEF TypeOK, Run
<1>4. \A e \in batch : e.id \in Msg /\ e.retry \in 0..MaxRetries
  BY <1>2 DEF Event
<1>5. \A e \in batch : run[w].res[e.id] \in {"ok", "err", "perm"}
  <2>1. \A e \in batch : run[w].res[e.id] # "none"
    BY <1>1 DEF FinishBatch, RunDone, Left, Ids
  <2>2. \A e \in batch : run[w].res[e.id] # "stopped"
    BY <1>1 DEF FinishBatch, Stopped, With
  <2>3. QED
    BY <1>3, <1>4, <2>1, <2>2 DEF Result
<1>6. \A e : e \in Buried(w) <=>
        /\ e \in batch
        /\ run[w].res[e.id] \in {"err", "perm"}
        /\ run[w].res[e.id] = "perm" \/ e.retry >= MaxRetries
  BY <1>1 DEF Buried, With
<1>7. \A e : e \in Again(w) <=>
        /\ e \in batch
        /\ run[w].res[e.id] \in {"err", "perm"}
        /\ e \notin Buried(w)
  BY <1>1 DEF Again, With
<1>8. \A e \in batch \ (Again(w) \cup Buried(w)) : e.id \in done
  BY <1>4, <1>5, <1>6, <1>7 DEF Told
<1>9. \A e \in Again(w) : e.retry < MaxRetries
  BY <1>4, <1>6, <1>7, PgQueAssumption
<1>10. \A e \in Buried(w) : e.retry = MaxRetries \/ e.id \in permed
  <2>1. \A e \in Buried(w) : e.retry >= MaxRetries => e.retry = MaxRetries
    BY <1>4, <1>6, PgQueAssumption
  <2>2. \A e \in Buried(w) : run[w].res[e.id] = "perm" => e.id \in permed
    BY <1>4, <1>6 DEF Told
  <2>3. QED
    BY <1>6, <2>1, <2>2
<1>11. QED
  BY <1>1, <1>6, <1>7, <1>8, <1>9, <1>10

-----------------------------------------------------------------------------
(* No message is lost.                                                     *)

DeliveryInv == TypeOK /\ HasBatch /\ Copies /\ Told

LEMMA DeliveryInvariant == Spec => []DeliveryInv
<1>1. Init => Told
  BY DEF Init, Told, NoRun
<1>2. Init => Copies
  BY DEF Init, QueueInit, Copies, Events, Waiting
<1>3. QED
  BY <1>1, <1>2, ToldStep, CopiesStep, TypeCorrect, PTL DEF Spec, DeliveryInv

LEMMA NoLossFinish ==
  ASSUME DeliveryInv, NoLoss, NEW w \in Workers, FinishBatch(w), UNCHANGED done
  PROVE  NoLoss'
<1> DEFINE batch == win[last + 1]
           retried == {[id |-> e.id, retry |-> e.retry + 1] : e \in Again(w)}
<1>1. /\ sent' = sent /\ fresh' = fresh
      /\ retryQ' = retryQ \cup retried
      /\ dead' = dead \cup Buried(w)
  BY DEF FinishBatch, Acknowledge
<1>2. Waiting = batch \cup Waiting'
  BY WaitingFinish, FinishedBatch DEF FinishBatch, DeliveryInv, TypeOK
<1>3. Ids(retried) = Ids(Again(w))
  <2>1. \A e \in Again(w) : [id |-> e.id, retry |-> e.retry + 1].id = e.id
    OBVIOUS
  <2>2. QED
    BY <2>1 DEF Ids
<1>4. Ids(batch) \subseteq Ids(Again(w)) \cup Ids(Buried(w)) \cup done
  BY FinishedBatch DEF DeliveryInv, Ids
<1>5. /\ Ids(Waiting) = Ids(batch) \cup Ids(Waiting')
      /\ Ids(retryQ') = Ids(retryQ) \cup Ids(retried)
      /\ Ids(dead') = Ids(dead) \cup Ids(Buried(w))
  BY <1>1, <1>2 DEF Ids
<1>6. Ids(fresh') = Ids(fresh)
  BY <1>1
<1>7. QED
  BY <1>1, <1>3, <1>4, <1>5, <1>6 DEF NoLoss

LEMMA NoLossStep == DeliveryInv /\ NoLoss /\ [Next]_vars => NoLoss'
<1> SUFFICES ASSUME DeliveryInv, NoLoss, [Next]_vars PROVE NoLoss'
  OBVIOUS
<1>1. CASE Reports
  BY <1>1 DEF Reports, queueVars, NoLoss, Waiting, Ids
<1>2. ASSUME NEW m \in Msg, Send(m), UNCHANGED done
      PROVE  NoLoss'
  <2>1. /\ sent' = sent \cup {m} /\ Waiting' = Waiting
        /\ fresh' = fresh \cup {[id |-> m, retry |-> 0]}
        /\ retryQ' = retryQ /\ dead' = dead
    BY <1>2 DEF Send, Waiting
  <2>2. Ids(fresh') = Ids(fresh) \cup {m}
    <3>1. [id |-> m, retry |-> 0].id = m
      OBVIOUS
    <3>2. QED
      BY <2>1, <3>1 DEF Ids
  <2>3. QED
    BY <1>2, <2>1, <2>2 DEF NoLoss, Ids
<1>3. CASE Ticker /\ UNCHANGED done
  <2>1. Waiting' = Waiting \cup fresh
    BY <1>3, WaitingTick DEF DeliveryInv, TypeOK
  <2>2. QED
    BY <1>3, <2>1 DEF Ticker, NoLoss, Ids
<1>4. CASE MaintRetryEvents /\ UNCHANGED done
  <2>1. PICK due \in SUBSET retryQ : fresh' = fresh \cup due /\ retryQ' = retryQ \ due
    BY <1>4 DEF MaintRetryEvents, KeepUnmoved
  <2>2. Waiting' = Waiting /\ sent' = sent /\ dead' = dead
    BY <1>4 DEF MaintRetryEvents, Waiting
  <2>3. Ids(fresh') \cup Ids(retryQ') = Ids(fresh) \cup Ids(retryQ)
    BY <2>1 DEF Ids
  <2>4. QED
    BY <1>4, <2>2, <2>3 DEF NoLoss, Ids
<1>5. CASE OpenNext /\ UNCHANGED done
  BY <1>5 DEF OpenNext, NoLoss, Waiting, Ids
<1>6. QED
  BY <1>1, <1>2, <1>3, <1>4, <1>5, NoLossFinish, StepKinds

\* A sent message is in an event table, in the retry queue, in the dead
\* letter queue, or its handler returned nil.
THEOREM NothingLost == Spec => []NoLoss
<1>1. Init => NoLoss
  BY DEF Init, QueueInit, NoLoss
<1>2. QED
  BY <1>1, NoLossStep, DeliveryInvariant, PTL DEF Spec

\* A dead letter used up its retries, or its handler returned Permanent.
THEOREM DeadLettersSpent == Spec => []DeadOnlyWhenSpent
<1>1. Init => DeadOnlyWhenSpent
  BY DEF Init, QueueInit, DeadOnlyWhenSpent
<1>2. DeliveryInv /\ DeadOnlyWhenSpent /\ [Next]_vars => DeadOnlyWhenSpent'
  <2> SUFFICES ASSUME DeliveryInv, DeadOnlyWhenSpent, [Next]_vars
               PROVE  DeadOnlyWhenSpent'
    OBVIOUS
  <2>1. ASSUME NEW w \in Workers, FinishBatch(w), UNCHANGED permed
        PROVE  DeadOnlyWhenSpent'
    <3>1. dead' = dead \cup Buried(w)
      BY <2>1 DEF FinishBatch, Acknowledge
    <3>2. QED
      BY <2>1, <3>1, FinishedBatch DEF DeliveryInv, DeadOnlyWhenSpent
  <2>2. CASE dead' = dead /\ permed \subseteq permed'
    BY <2>2 DEF DeadOnlyWhenSpent
  <2>3. QED
    BY <2>1, <2>2, StepKinds
       DEF Reports, queueVars, Send, Ticker, MaintRetryEvents, OpenNext
<1>3. QED
  BY <1>1, <1>2, DeliveryInvariant, PTL DEF Spec

-----------------------------------------------------------------------------
(* The worker implements Delivery.                                         *)

LEMMA SentStep == TypeOK /\ HasBatch /\ Copies /\ Sent /\ [Next]_vars => Sent'
<1> SUFFICES ASSUME TypeOK, HasBatch, Copies, Sent, [Next]_vars PROVE Sent'
  OBVIOUS
<1>1. sent \subseteq sent' /\ win \in [Batch -> SUBSET Event]
  BY StepKinds DEF Reports, queueVars, Send, Ticker, MaintRetryEvents,
                   OpenNext, FinishBatch, Acknowledge, TypeOK, QueueTypeOK
<1>2. \A b \in Batch : \A e \in win'[b] : e.id \in sent'
  <2>1. CASE Ticker
    <3>1. \A b \in Batch : win'[b] \in {win[b], fresh}
      BY <1>1, <2>1 DEF Ticker
    <3>2. \A e \in fresh : e.id \in sent
      BY DEF Copies, Events
    <3>3. QED
      BY <1>1, <3>1, <3>2 DEF Sent
  <2>2. CASE UNCHANGED win
    BY <1>1, <2>2 DEF Sent
  <2>3. QED
    BY <2>1, <2>2, StepKinds
       DEF Reports, queueVars, Send, MaintRetryEvents, OpenNext, FinishBatch,
           Acknowledge
<1>3. \A w \in Workers : run'[w].cur \in sent' \cup {0}
  <2>1. CASE Quiet
    BY <1>1, <2>1 DEF Quiet, Sent
  <2>2. ASSUME NEW w \in Workers, StartHandler(w)
        PROVE  \A v \in Workers : run'[v].cur \in sent' \cup {0}
    <3>1. PICK m \in Msg :
            /\ run[w].id \in Batch
            /\ m \in Ids(win[run[w].id])
            /\ \A v \in Workers : run'[v].cur = IF v = w THEN m ELSE run[v].cur
      BY <2>2, StartHandlerCur
    <3>2. m \in sent
      BY <3>1 DEF Sent, Ids
    <3>3. QED
      BY <1>1, <3>1, <3>2 DEF Sent
  <2>3. ASSUME NEW w \in Workers, EndHandler(w)
        PROVE  \A v \in Workers : run'[v].cur \in sent' \cup {0}
    <3>1. \A v \in Workers : run'[v].cur \in {run[v].cur, 0}
      BY <2>3, EndHandlerRes
    <3>2. QED
      BY <1>1, <3>1 DEF Sent
  <2>4. QED
    BY <2>1, <2>2, <2>3, QuietStep
<1>4. QED
  BY <1>2, <1>3 DEF Sent

\* The handlers are all that reports: any other step keeps done and permed.
LEMMA ReportKinds ==
  ASSUME [Next]_vars
  PROVE  \/ UNCHANGED <<done, permed>>
         \/ \E w \in Workers : EndHandler(w)
<1>1. CASE Produce \/ UNCHANGED vars
  BY <1>1 DEF Produce, vars, history
<1>2. ASSUME NEW w \in Workers,
             TickOn(w) \/ Maintain(w) \/ PurgeRuns(w) \/ Lead(w) \/ Environment(w)
      PROVE  UNCHANGED <<done, permed>>
  BY <1>2 DEF TickOn, Maintain, PurgeRuns, Lead, TryLock, LostLock, GraceOver,
              Drained, HardLimit, Unlock, Environment, LoseSession, Stop,
              Crash, Die, history
<1>3. ASSUME NEW w \in Workers, Open(w)
      PROVE  UNCHANGED <<done, permed>>
  BY <1>3 DEF Open, ConsumeEnds, CurrentBatch, NextBatch, NoBatch,
              NextBatchFails, CountRun, CountRunFails, BatchMessages,
              BatchMessagesFails, history
<1>4. ASSUME NEW w \in Workers,
             StartHandler(w) \/ HandlerKills(w) \/ SkipRest(w) \/ Finish(w)
      PROVE  UNCHANGED <<done, permed>>
  BY <1>4 DEF StartHandler, HandlerKills, Die, SkipRest, Finish, FinishBatch,
              FinishBatchFails, LeaveOpen, LeaveOpenFails, history
<1>5. QED
  BY <1>1, <1>2, <1>3, <1>4 DEF Next, Handle

Live == fresh \cup Waiting \cup retryQ

LEMMA ReportRefines ==
  ASSUME DeliveryInv, Sent, [Next]_vars, UNCHANGED queueVars
  PROVE  [Promise!Next]_(Promise!vars)
<1>1. Waiting' = Waiting /\ Live' = Live /\ UNCHANGED <<sent, dead>>
  BY DEF queueVars, Waiting, Live
<1>2. CASE UNCHANGED <<done, permed>>
  BY <1>1, <1>2 DEF Promise!vars, Live
<1>3. ASSUME NEW w \in Workers, EndHandler(w)
      PROVE  [Promise!Next]_(Promise!vars)
  <2>1. PICK out \in Outcomes :
          /\ run[w].cur \in Msg
          /\ done' = IF out = "ok" THEN done \cup {run[w].cur} ELSE done
          /\ permed' = IF out = "perm" THEN permed \cup {run[w].cur} ELSE permed
    BY <1>3, EndHandlerRes DEF DeliveryInv
  <2>2. run[w].cur \in sent
    BY <2>1, PgQueAssumption DEF Sent
  <2>3. CASE out = "ok" \/ out = "perm"
    <3>1. Promise!Report(run[w].cur)
      BY <1>1, <2>1, <2>2, <2>3 DEF Promise!Report, Live
    <3>2. QED
      BY <2>1, <3>1 DEF Promise!Next
  <2>4. QED
    BY <1>2, <2>1, <2>3
<1>4. QED
  BY <1>2, <1>3, ReportKinds

LEMMA FinishRefines ==
  ASSUME DeliveryInv, NEW w \in Workers, FinishBatch(w), UNCHANGED <<done, permed>>
  PROVE  Promise!Next
<1> DEFINE batch == win[last + 1]
           retried == {[id |-> e.id, retry |-> e.retry + 1] : e \in Again(w)}
<1>1. /\ sent' = sent /\ fresh' = fresh
      /\ retryQ' = retryQ \cup retried
      /\ dead' = dead \cup Buried(w)
  BY DEF FinishBatch, Acknowledge
<1>2. Waiting = batch \cup Waiting' /\ batch \cap Waiting' = {}
  BY WaitingFinish, FinishedBatch DEF FinishBatch, DeliveryInv, TypeOK
<1>3. batch \cap fresh = {} /\ batch \cap retryQ = {}
  BY <1>2 DEF DeliveryInv, Copies
<1>4. Live' = (Live \ batch) \cup retried
  BY <1>1, <1>2, <1>3 DEF Live
<1>5. /\ batch \in SUBSET Live
      /\ Again(w) \in SUBSET batch
      /\ Buried(w) \in SUBSET batch
  BY <1>2, FinishedBatch DEF DeliveryInv, Live
<1>6. \A e \in Buried(w) : e.retry >= MaxRetries \/ e.id \in permed
  BY FinishedBatch, PgQueAssumption DEF DeliveryInv
<1>7. Promise!Settle(batch, Again(w), Buried(w))
  BY <1>1, <1>4, <1>6, FinishedBatch DEF Promise!Settle, DeliveryInv, Live
<1>8. QED
  BY <1>5, <1>7 DEF Promise!Next, Live

LEMMA StepRefines ==
  DeliveryInv /\ Sent /\ [Next]_vars => [Promise!Next]_(Promise!vars)
<1> SUFFICES ASSUME DeliveryInv, Sent, [Next]_vars
             PROVE  [Promise!Next]_(Promise!vars)
  OBVIOUS
<1>1. CASE Reports
  BY <1>1, ReportRefines DEF Reports
<1>2. ASSUME NEW m \in Msg, Send(m), UNCHANGED <<done, permed>>
      PROVE  Promise!Next
  <2>1. Waiting' = Waiting
    BY <1>2 DEF Send, Waiting
  <2>2. Promise!Accept(m)
    BY <1>2, <2>1 DEF Send, Promise!Accept
  <2>3. QED
    BY <2>2 DEF Promise!Next
<1>3. CASE Ticker /\ UNCHANGED <<done, permed>>
  <2>1. Waiting' = Waiting \cup fresh /\ fresh' = {} /\ UNCHANGED <<sent, retryQ, dead>>
    BY <1>3, WaitingTick DEF DeliveryInv, TypeOK, Ticker
  <2>2. QED
    BY <1>3, <2>1 DEF Promise!vars
<1>4. CASE MaintRetryEvents /\ UNCHANGED <<done, permed>>
  <2>1. PICK due \in SUBSET retryQ : fresh' = fresh \cup due /\ retryQ' = retryQ \ due
    BY <1>4 DEF MaintRetryEvents, KeepUnmoved
  <2>2. Waiting' = Waiting /\ sent' = sent /\ dead' = dead
    BY <1>4 DEF MaintRetryEvents, Waiting
  <2>3. QED
    BY <1>4, <2>1, <2>2 DEF Promise!vars
<1>5. CASE OpenNext /\ UNCHANGED <<done, permed>>
  BY <1>5 DEF OpenNext, Waiting, Promise!vars
<1>6. QED
  BY <1>1, <1>2, <1>3, <1>4, <1>5, FinishRefines, StepKinds

\* The worker on PgQue implements at-least-once delivery with a bounded
\* number of retries, whatever fails and however many workers there are.
THEOREM Refinement == Spec => Implements
<1>1. Init => Promise!Init
  BY DEF Init, QueueInit, Promise!Init, Waiting
<1>2. Init => Sent
  BY DEF Init, QueueInit, Sent, NoRun
<1>3. DeliveryInv /\ Sent /\ [Next]_vars => Sent'
  BY SentStep DEF DeliveryInv
<1>4. QED
  BY <1>1, <1>2, <1>3, StepRefines, DeliveryInvariant, PTL
     DEF Spec, Implements, Promise!Spec
=============================================================================
