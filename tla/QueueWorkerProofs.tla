------------------------- MODULE QueueWorkerProofs -------------------------
(***************************************************************************)
(* Proofs about QueueWorker for every number of workers and messages, every*)
(* retry and run limit, and every kind and number of faults.               *)
(***************************************************************************)
EXTENDS QueueWorker, TLAPS

-----------------------------------------------------------------------------
(* Type correctness.  It needs to know that a consumer that waits for the  *)
(* count, the messages or the handlers of a batch has a batch.             *)

HasBatch ==
  \A w \in Workers : pc[w] \in {"count", "read", "run"} => run[w].id \in 1..tick

TypeInv == TypeOK /\ HasBatch

\* The SQL functions keep the types of the queue.
LEMMA SendType ==
  ASSUME QueueTypeOK, NEW m \in Msg, Send(m)
  PROVE  QueueTypeOK'
BY PgQueAssumption DEF QueueTypeOK, Send, Event

LEMMA TickerType ==
  ASSUME QueueTypeOK, Ticker
  PROVE  QueueTypeOK'
BY PgQueAssumption DEF QueueTypeOK, Ticker, Batch

LEMMA MaintType ==
  ASSUME QueueTypeOK, MaintRetryEvents
  PROVE  QueueTypeOK'
BY DEF QueueTypeOK, MaintRetryEvents, KeepUnmoved

LEMMA OpenNextType ==
  ASSUME QueueTypeOK, OpenNext
  PROVE  QueueTypeOK' /\ last + 1 \in 1..tick /\ tick' = tick
BY PgQueAssumption DEF QueueTypeOK, OpenNext, BatchReady

LEMMA AcknowledgeType ==
  ASSUME QueueTypeOK, open,
         NEW again \in SUBSET Event, NEW buried \in SUBSET Event,
         \A e \in again : e.retry < MaxRetries,
         Acknowledge(again, buried)
  PROVE  QueueTypeOK' /\ tick' = tick
<1>1. ASSUME NEW e \in again
      PROVE  [id |-> e.id, retry |-> e.retry + 1] \in Event
  BY <1>1, PgQueAssumption DEF Event
<1>2. retryQ' \subseteq Event
  BY <1>1 DEF QueueTypeOK, Acknowledge
<1>3. /\ sent' = sent /\ fresh' = fresh /\ win' = win /\ tick' = tick
      /\ last' = last + 1 /\ open' = FALSE /\ dead' = dead \cup buried
  BY DEF Acknowledge
<1>4. tick \in Nat /\ last' \in 0..tick
  BY <1>3, PgQueAssumption DEF QueueTypeOK
<1>5. QED
  BY <1>2, <1>3, <1>4 DEF QueueTypeOK

LEMMA QueueUnchangedType ==
  ASSUME QueueTypeOK, UNCHANGED queueVars
  PROVE  QueueTypeOK' /\ tick' = tick
BY DEF QueueTypeOK, queueVars

LEMMA NoRunType == NoRun \in Run
BY PgQueAssumption DEF NoRun, Run, Result

\* Each assignment of a consumer keeps the types and the batch.
RunKept ==
  /\ run' \in [Workers -> Run]
  /\ \A v \in Workers : run'[v].id = run[v].id

LEMMA RunUnchanged ==
  ASSUME run \in [Workers -> Run], UNCHANGED run
  PROVE  RunKept
BY DEF RunKept

LEMMA SeenUpdate ==
  ASSUME run \in [Workers -> Run], NEW w \in Workers, NEW b \in 0..MaxTick,
         run' = [run EXCEPT ![w].seen = b]
  PROVE  RunKept
BY DEF RunKept, Run

LEMMA RunsUpdate ==
  ASSUME run \in [Workers -> Run], NEW w \in Workers, NEW n \in Int,
         run' = [run EXCEPT ![w].runs = n]
  PROVE  RunKept
BY DEF RunKept, Run

LEMMA CurUpdate ==
  ASSUME run \in [Workers -> Run], NEW w \in Workers, NEW m \in Msg,
         run' = [run EXCEPT ![w].cur = m]
  PROVE  RunKept
BY DEF RunKept, Run

LEMMA ResUpdate ==
  ASSUME run \in [Workers -> Run], NEW w \in Workers, NEW f \in [Msg -> Result],
         run' = [run EXCEPT ![w].res = f]
  PROVE  RunKept
BY DEF RunKept, Run

LEMMA EndUpdate ==
  ASSUME run \in [Workers -> Run], NEW w \in Workers, NEW m \in Msg, NEW out \in Result,
         run' = [run EXCEPT ![w].cur = 0, ![w].res[m] = out]
  PROVE  RunKept
BY DEF RunKept, Run

\* A consumer with a new batch.
LEMMA RunReplace ==
  ASSUME run \in [Workers -> Run], NEW w \in Workers, NEW b \in 0..MaxTick,
         run' = [run EXCEPT ![w] = [NoRun EXCEPT !.id = b]]
  PROVE  /\ run' \in [Workers -> Run]
         /\ run'[w].id = b
         /\ \A v \in Workers : v # w => run'[v] = run[v]
<1>1. [NoRun EXCEPT !.id = b] \in Run /\ [NoRun EXCEPT !.id = b].id = b
  BY NoRunType DEF Run
<1>2. QED
  BY <1>1

LEMMA TallyType ==
  ASSUME NEW h \in [Batch -> Int], NEW b \in Batch
  PROVE  Tally(h, b) \in [Batch -> Int] /\ Untally(h, b) \in [Batch -> Int]
BY DEF Tally, Untally

LEMMA FaultType ==
  ASSUME faults \in 0..MaxFaults, NEW kind, Fault(kind)
  PROVE  faults' \in 0..MaxFaults
BY WorkerAssumption DEF Fault

THEOREM TypeInit == Init => TypeInv
<1> SUFFICES ASSUME Init PROVE TypeInv
  OBVIOUS
<1>1. QueueTypeOK
  <2>1. win \in [Batch -> SUBSET Event]
    BY DEF Init, QueueInit
  <2>2. tick \in 0..MaxTick /\ last \in 0..tick
    BY PgQueAssumption DEF Init, QueueInit
  <2>3. QED
    BY <2>1, <2>2 DEF Init, QueueInit, QueueTypeOK
<1>2. run \in [Workers -> Run]
  BY NoRunType DEF Init
<1>3. HasBatch
  BY DEF Init, HasBatch
<1>4. QED
  BY <1>1, <1>2, <1>3, WorkerAssumption DEF Init, TypeInv, TypeOK

\* The steps that leave the consumers alone.
LEMMA LeadTypeStep ==
  ASSUME TypeInv, NEW w \in Workers,
         \/ TickOn(w) \/ Maintain(w) \/ PurgeRuns(w) \/ LostLock(w)
         \/ GraceOver(w) \/ Drained(w) \/ HardLimit(w)
         \/ LoseSession(w) \/ Stop(w)
  PROVE  TypeInv'
<1> USE DEF TypeInv, TypeOK, HasBatch, workerVars, history
<1>1. CASE TickOn(w)
  <2>1. QueueTypeOK'
    BY <1>1, TickerType DEF TickOn
  <2>2. tick \in Nat /\ tick' = tick + 1
    BY <1>1 DEF TickOn, Ticker, QueueTypeOK
  <2>3. QED
    BY <1>1, <2>1, <2>2 DEF TickOn
<1>2. CASE Maintain(w)
  BY <1>2, MaintType DEF Maintain, MaintRetryEvents
<1>3. CASE PurgeRuns(w)
  <2>1. faults' \in 0..MaxFaults
    BY <1>3, FaultType DEF PurgeRuns
  <2>2. QED
    BY <1>3, <2>1, QueueUnchangedType DEF PurgeRuns
<1>4. CASE LostLock(w)
  BY <1>4, QueueUnchangedType DEF LostLock
<1>5. CASE GraceOver(w)
  BY <1>5, QueueUnchangedType DEF GraceOver
<1>6. CASE Drained(w)
  BY <1>6, QueueUnchangedType DEF Drained, Unlock
<1>7. CASE HardLimit(w)
  BY <1>7, QueueUnchangedType DEF HardLimit, Unlock
<1>8. CASE LoseSession(w)
  BY <1>8, QueueUnchangedType, FaultType DEF LoseSession
<1>9. CASE Stop(w)
  BY <1>9, QueueUnchangedType, FaultType DEF Stop
<1>10. QED
  BY <1>1, <1>2, <1>3, <1>4, <1>5, <1>6, <1>7, <1>8, <1>9

\* The steps that start or end a consume goroutine, and those of openBatch.
LEMMA OpenTypeStep ==
  ASSUME TypeInv, NEW w \in Workers,
         \/ TryLock(w) \/ Crash(w) \/ HandlerKills(w) \/ Open(w)
  PROVE  TypeInv'
<1> USE NoRunType DEF TypeInv, TypeOK, HasBatch, history
<1>1. CASE TryLock(w)
  BY <1>1, QueueUnchangedType DEF TryLock
<1>2. CASE Crash(w)
  BY <1>2, QueueUnchangedType, FaultType DEF Crash, Die
<1>3. CASE HandlerKills(w)
  BY <1>3, QueueUnchangedType DEF HandlerKills, Die
<1>4. CASE ConsumeEnds(w)
  BY <1>4, QueueUnchangedType DEF ConsumeEnds
<1>5. CASE CurrentBatch(w)
  <2>1. (IF open THEN last + 1 ELSE 0) \in 0..MaxTick
    BY PgQueAssumption DEF QueueTypeOK
  <2>2. RunKept
    BY <1>5, <2>1, SeenUpdate, RunUnchanged DEF CurrentBatch
  <2>3. faults' \in 0..MaxFaults
    BY <1>5, FaultType DEF CurrentBatch
  <2>4. QED
    BY <1>5, <2>2, <2>3, QueueUnchangedType DEF CurrentBatch, RunKept
<1>6. CASE NextBatch(w)
  <2>1. QueueTypeOK' /\ last + 1 \in 1..tick /\ tick' = tick
    BY <1>6, OpenNextType DEF NextBatch
  <2>2. last + 1 \in Batch /\ last + 1 \in 0..MaxTick
    BY <2>1, PgQueAssumption DEF QueueTypeOK, Batch
  <2>3. /\ run' \in [Workers -> Run]
        /\ run'[w].id \in 1..tick'
        /\ \A v \in Workers : v # w => run'[v] = run[v]
    <3>1. run' = [run EXCEPT ![w] = [NoRun EXCEPT !.id = last + 1]]
      BY <1>6 DEF NextBatch
    <3>2. run \in [Workers -> Run]
      OBVIOUS
    <3>3. /\ run' \in [Workers -> Run]
          /\ run'[w].id = last + 1
          /\ \A v \in Workers : v # w => run'[v] = run[v]
      BY ONLY <2>2, <3>1, <3>2, RunReplace, w \in Workers
    <3>4. QED
      BY <2>1, <3>3
  <2>4. opens' \in [Batch -> Int]
    BY <1>6, <2>2, TallyType DEF NextBatch
  <2>5. pc' \in [Workers -> {"off", "idle", "next", "count", "read", "run"}]
    BY <1>6 DEF NextBatch
  <2>6. QED
    BY <1>6, <2>1, <2>3, <2>4, <2>5 DEF NextBatch
<1>7. CASE NoBatch(w)
  BY <1>7, QueueUnchangedType DEF NoBatch, Return
<1>8. CASE NextBatchFails(w)
  <2>1. QueueTypeOK' /\ tick' = tick
    BY <1>8, OpenNextType, QueueUnchangedType DEF NextBatchFails
  <2>2. OpenNext => last + 1 \in Batch
    BY OpenNextType, PgQueAssumption DEF QueueTypeOK, Batch
  <2>3. opens' \in [Batch -> Int] /\ faults' \in 0..MaxFaults
    BY <1>8, <2>2, TallyType, FaultType DEF NextBatchFails, QueryFails
  <2>4. QED
    BY <1>8, <2>1, <2>3 DEF NextBatchFails, Return
<1>9. CASE CountRun(w)
  <2>1. run[w].id \in Batch
    BY <1>9, PgQueAssumption DEF CountRun, QueueTypeOK, Batch
  <2>2. runs' \in [Batch -> Int] /\ runs[run[w].id] + 1 \in Int
    BY <1>9, <2>1 DEF CountRun
  <2>3. RunKept
    BY <1>9, <2>2, RunsUpdate DEF CountRun
  <2>4. QED
    BY <1>9, <2>2, <2>3, QueueUnchangedType DEF CountRun, RunKept
<1>10. CASE CountRunFails(w)
  <2>1. runs' \in [Batch -> Int] /\ faults' \in 0..MaxFaults
    BY <1>10, FaultType DEF CountRunFails, QueryFails
  <2>2. QED
    BY <1>10, <2>1, QueueUnchangedType DEF CountRunFails, Return
<1>11. CASE BatchMessages(w)
  <2>1. [m \in Msg |-> IF m \in Ids(win[run[w].id]) THEN "err" ELSE "none"]
          \in [Msg -> Result]
    BY DEF Result
  <2>2. RunKept
    BY <1>11, <2>1, ResUpdate, RunUnchanged DEF BatchMessages
  <2>3. run[w].id \in Batch
    BY <1>11, PgQueAssumption DEF BatchMessages, QueueTypeOK, Batch
  <2>4. ran' \in [Batch -> Int]
    BY <1>11, <2>3, TallyType DEF BatchMessages
  <2>5. QED
    BY <1>11, <2>2, <2>4, QueueUnchangedType DEF BatchMessages, RunKept
<1>12. CASE BatchMessagesFails(w)
  <2>1. faults' \in 0..MaxFaults
    BY <1>12, FaultType DEF BatchMessagesFails, QueryFails
  <2>2. QED
    BY <1>12, <2>1, QueueUnchangedType DEF BatchMessagesFails, Return
<1>13. QED
  BY <1>1, <1>2, <1>3, <1>4, <1>5, <1>6, <1>7, <1>8, <1>9, <1>10, <1>11, <1>12
     DEF Open

\* The steps of runAll.
LEMMA HandleTypeStep ==
  ASSUME TypeInv, NEW w \in Workers,
         StartHandler(w) \/ EndHandler(w) \/ SkipRest(w)
  PROVE  TypeInv'
<1> USE DEF TypeInv, TypeOK, HasBatch, history
<1>1. CASE StartHandler(w)
  <2>1. run[w].id \in Batch
    BY <1>1, PgQueAssumption DEF StartHandler, QueueTypeOK, Batch
  <2>2. Left(w) \subseteq Msg
    BY <2>1 DEF Left, Ids, QueueTypeOK, Event
  <2>3. RunKept
    BY <1>1, <2>2, CurUpdate DEF StartHandler
  <2>4. QED
    BY <1>1, <2>3, QueueUnchangedType DEF StartHandler, RunKept
<1>2. CASE EndHandler(w)
  <2>1. run[w].cur \in Msg
    BY <1>2 DEF EndHandler, Run
  <2>2. \A out \in Outcomes : ResultOf(w, out) \in Result
    BY WorkerAssumption DEF ResultOf, Result
  <2>3. RunKept
    BY <1>2, <2>1, <2>2, EndUpdate DEF EndHandler
  <2>4. done' \subseteq Msg /\ permed' \subseteq Msg
    BY <1>2, <2>1 DEF EndHandler
  <2>5. QED
    BY <1>2, <2>3, <2>4, QueueUnchangedType DEF EndHandler, RunKept
<1>3. CASE SkipRest(w)
  <2>1. [m \in Msg |-> IF m \in Left(w) THEN "stopped" ELSE run[w].res[m]]
          \in [Msg -> Result]
    BY DEF Run, Result
  <2>2. RunKept
    BY <1>3, <2>1, ResUpdate DEF SkipRest
  <2>3. QED
    BY <1>3, <2>2, QueueUnchangedType DEF SkipRest, RunKept
<1>4. QED
  BY <1>1, <1>2, <1>3

\* The messages of an open batch are split into events of the right type.
LEMMA SplitType ==
  ASSUME QueueTypeOK, NEW w \in Workers, CanAck(w)
  PROVE  /\ open
         /\ Again(w) \in SUBSET Event
         /\ Buried(w) \in SUBSET Event
         /\ \A e \in Again(w) : e.retry < MaxRetries
<1>1. open /\ run[w].id = last + 1 /\ last + 1 \in Batch
  BY PgQueAssumption DEF CanAck, IsOpen, QueueTypeOK, Batch
<1>2. win[run[w].id] \subseteq Event
  BY <1>1 DEF QueueTypeOK
<1>3. Buried(w) \subseteq Event /\ Again(w) \subseteq Event
  BY <1>2 DEF Buried, Again, With
<1>4. \A e \in Again(w) : e.retry \in 0..MaxRetries /\ ~(e.retry >= MaxRetries)
  BY <1>3 DEF Again, Buried, Event
<1>5. QED
  BY <1>1, <1>3, <1>4, PgQueAssumption

\* The steps of finishBatch and leaveOpen.
LEMMA FinishTypeStep ==
  ASSUME TypeInv, NEW w \in Workers, Finish(w)
  PROVE  TypeInv'
<1> USE NoRunType DEF TypeInv, TypeOK, HasBatch, history
<1>1. CASE FinishBatch(w)
  <2>1. QueueTypeOK' /\ tick' = tick
    BY <1>1, SplitType, AcknowledgeType DEF FinishBatch
  <2>2. runs' \in [Batch -> Int]
    <3>1. runs' = [runs EXCEPT ![run[w].id] = 0]
      BY <1>1 DEF FinishBatch
    <3>2. run[w].id \in Batch
      BY <1>1, PgQueAssumption DEF FinishBatch, RunDone, QueueTypeOK, Batch
    <3>3. runs \in [Batch -> Int]
      OBVIOUS
    <3>4. QED
      BY ONLY <3>1, <3>2, <3>3
  <2>3. QED
    BY <1>1, <2>1, <2>2 DEF FinishBatch, Return
<1>2. CASE FinishBatchFails(w)
  BY <1>2, FaultType, QueueUnchangedType DEF FinishBatchFails, Return
<1>3. CASE LeaveOpen(w)
  <2>1. run[w].id \in Batch
    BY <1>3, PgQueAssumption DEF LeaveOpen, RunDone, QueueTypeOK, Batch
  <2>2. /\ runs' \in [Batch -> Int]
        /\ opens' \in [Batch -> Int]
        /\ ran' \in [Batch -> Int]
    BY <1>3, <2>1, TallyType DEF LeaveOpen, Uncounted
  <2>3. QED
    BY <1>3, <2>2, QueueUnchangedType DEF LeaveOpen, Return
<1>4. CASE LeaveOpenFails(w)
  BY <1>4, FaultType, QueueUnchangedType DEF LeaveOpenFails, Return
<1>5. QED
  BY <1>1, <1>2, <1>3, <1>4 DEF Finish

LEMMA TypeStep == TypeInv /\ [Next]_vars => TypeInv'
<1> SUFFICES ASSUME TypeInv, [Next]_vars PROVE TypeInv'
  OBVIOUS
<1>1. ASSUME NEW m \in Msg, Send(m), UNCHANGED <<workerVars, faults, history>>
      PROVE  TypeInv'
  <2>1. QueueTypeOK' /\ tick' = tick
    BY <1>1, SendType DEF Send, TypeInv, TypeOK
  <2>2. QED
    BY <1>1, <2>1 DEF TypeInv, TypeOK, HasBatch, workerVars, history
<1>2. CASE UNCHANGED vars
  BY <1>2, QueueUnchangedType
     DEF vars, TypeInv, TypeOK, HasBatch, workerVars, history
<1>3. QED
  BY <1>1, <1>2, LeadTypeStep, OpenTypeStep, HandleTypeStep, FinishTypeStep
     DEF Next, Produce, Lead, Handle, Environment

\* The types of all variables, and that a busy consumer has a batch.
THEOREM TypeCorrect == Spec => [](TypeOK /\ HasBatch)
<1>1. Init => TypeInv
  BY TypeInit
<1>2. TypeInv /\ [Next]_vars => TypeInv'
  BY TypeStep
<1>3. QED
  BY <1>1, <1>2, PTL DEF Spec, TypeInv

-----------------------------------------------------------------------------
(* Mutual exclusion of handlers.  The server grants the lock to one session *)
(* at a time, and a live handler context belongs to a slot that still has a *)
(* lock session, unlocked by nobody: it holds the lock, or it was cut.      *)

LockInv ==
  /\ \A v, w \in Workers :
       conn[v] = "locked" /\ conn[w] = "locked" => v = w
  /\ \A w \in Workers : hctx[w] => conn[w] \in {"locked", "cut"}

LEMMA LockStep ==
  ASSUME conn \in [Workers -> {"none", "locked", "cut"}],
         hctx \in [Workers -> BOOLEAN],
         LockInv, [Next]_vars
  PROVE  LockInv'
<1>1. ASSUME UNCHANGED <<conn, hctx>>
      PROVE  LockInv'
  BY <1>1 DEF LockInv
<1>2. ASSUME NEW w \in Workers, TryLock(w)
      PROVE  LockInv'
  BY <1>2 DEF TryLock, LockInv
<1>3. ASSUME NEW w \in Workers, LoseSession(w)
      PROVE  LockInv'
  BY <1>3 DEF LoseSession, LockInv
<1>4. ASSUME NEW w \in Workers, LostLock(w) \/ GraceOver(w)
      PROVE  LockInv'
  BY <1>4 DEF LostLock, GraceOver, LockInv
<1>5. ASSUME NEW w \in Workers, Unlock(w)
      PROVE  LockInv'
  BY <1>5 DEF Unlock, LockInv
<1>6. ASSUME NEW w \in Workers, Die(w)
      PROVE  LockInv'
  BY <1>6 DEF Die, LockInv
<1>7. ASSUME NEW w \in Workers,
             \/ TickOn(w) \/ Maintain(w) \/ PurgeRuns(w) \/ Stop(w)
             \/ Open(w) \/ Finish(w)
             \/ StartHandler(w) \/ EndHandler(w) \/ SkipRest(w)
      PROVE  UNCHANGED <<conn, hctx>>
  <2>1. CASE TickOn(w) \/ Maintain(w) \/ PurgeRuns(w) \/ Stop(w)
    BY <2>1 DEF TickOn, Maintain, PurgeRuns, Stop, workerVars
  <2>2. CASE Open(w)
    BY <2>2 DEF Open, ConsumeEnds, CurrentBatch, NextBatch, NoBatch,
                NextBatchFails, CountRun, CountRunFails, BatchMessages,
                BatchMessagesFails
  <2>3. CASE Finish(w)
    BY <2>3 DEF Finish, FinishBatch, FinishBatchFails, LeaveOpen, LeaveOpenFails
  <2>4. CASE StartHandler(w) \/ EndHandler(w) \/ SkipRest(w)
    BY <2>4 DEF StartHandler, EndHandler, SkipRest
  <2>5. QED
    BY <1>7, <2>1, <2>2, <2>3, <2>4
<1>8. CASE Produce \/ UNCHANGED vars
  BY <1>8, <1>1 DEF Produce, vars, workerVars
<1>9. QED
  BY <1>1, <1>2, <1>3, <1>4, <1>5, <1>6, <1>7, <1>8
     DEF Next, Lead, Handle, Environment, Drained, HardLimit, Crash,
         HandlerKills

\* Handlers of two workers run under live contexts at the same time only
\* when the session of one of them was cut, for any number of workers.
THEOREM MutualExclusion == Spec => []Exclusive
<1>1. Init => LockInv
  BY DEF Init, LockInv
<1>2. TypeOK /\ LockInv /\ [Next]_vars => LockInv'
  BY LockStep DEF TypeOK
<1>3. TypeOK /\ LockInv => Exclusive
  BY DEF TypeOK, LockInv, Exclusive
<1>4. QED
  BY <1>1, <1>2, <1>3, TypeCorrect, PTL DEF Spec

-----------------------------------------------------------------------------
(* Every step does one thing to the queue, or only reports.                *)

Reports ==
  /\ UNCHANGED queueVars
  /\ done \subseteq done'
  /\ permed \subseteq permed'

LEMMA StepKinds ==
  ASSUME [Next]_vars
  PROVE  \/ Reports
         \/ /\ UNCHANGED <<done, permed>>
            /\ \/ \E m \in Msg : Send(m)
               \/ Ticker
               \/ MaintRetryEvents
               \/ OpenNext
               \/ \E w \in Workers : FinishBatch(w)
<1>1. CASE Produce \/ UNCHANGED vars
  BY <1>1 DEF Produce, vars, history, Reports
<1>2. ASSUME NEW w \in Workers, TickOn(w) \/ Maintain(w) \/ PurgeRuns(w)
      PROVE  \/ (Ticker /\ UNCHANGED <<done, permed>>)
             \/ (MaintRetryEvents /\ UNCHANGED <<done, permed>>)
             \/ Reports
  BY <1>2 DEF TickOn, Maintain, PurgeRuns, history, Reports
<1>3. ASSUME NEW w \in Workers, Lead(w) \/ Environment(w) \/ HandlerKills(w)
      PROVE  Reports
  BY <1>3 DEF Lead, Environment, TryLock, LostLock, GraceOver, Drained,
              HardLimit, Unlock, LoseSession, Stop, Crash, HandlerKills, Die,
              history, Reports
<1>4. ASSUME NEW w \in Workers, NextBatch(w) \/ NextBatchFails(w)
      PROVE  Reports \/ (OpenNext /\ UNCHANGED <<done, permed>>)
  BY <1>4 DEF NextBatch, NextBatchFails, Reports
<1>5. ASSUME NEW w \in Workers,
             \/ ConsumeEnds(w) \/ CurrentBatch(w) \/ NoBatch(w) \/ CountRun(w)
             \/ CountRunFails(w) \/ BatchMessages(w) \/ BatchMessagesFails(w)
      PROVE  Reports
  BY <1>5 DEF ConsumeEnds, CurrentBatch, NoBatch, CountRun, CountRunFails,
              BatchMessages, BatchMessagesFails, history, Reports
<1>6. ASSUME NEW w \in Workers, StartHandler(w) \/ EndHandler(w) \/ SkipRest(w)
      PROVE  Reports
  BY <1>6 DEF StartHandler, EndHandler, SkipRest, history, Reports
<1>7. ASSUME NEW w \in Workers, Finish(w)
      PROVE  Reports \/ (FinishBatch(w) /\ UNCHANGED <<done, permed>>)
  BY <1>7 DEF Finish, FinishBatch, FinishBatchFails, LeaveOpen, LeaveOpenFails,
              history, Reports
<1>8. QED
  BY <1>1, <1>2, <1>3, <1>4, <1>5, <1>6, <1>7 DEF Next, Open, Handle

-----------------------------------------------------------------------------
(* One copy of each message.  The invariant is SingleCopy with the events  *)
(* themselves in place of their ids, and two more facts that Send and      *)
(* FinishBatch need: an event belongs to a message that was sent, and the  *)
(* windows that wait are apart.                                            *)

Events == fresh \cup Waiting \cup retryQ \cup dead

Copies ==
  /\ \A e \in Events : e.id \in sent
  /\ \A e, f \in Events : e.id = f.id => e = f
  /\ fresh \cap Waiting = {}
  /\ fresh \cap retryQ = {}
  /\ fresh \cap dead = {}
  /\ Waiting \cap retryQ = {}
  /\ Waiting \cap dead = {}
  /\ retryQ \cap dead = {}
  /\ \A b, c \in last + 1..tick : b # c => win[b] \cap win[c] = {}

LEMMA WaitingTick ==
  ASSUME QueueTypeOK, Ticker
  PROVE  Waiting' = Waiting \cup fresh
<1>1. /\ tick \in Nat /\ last \in 0..tick /\ tick + 1 \in Batch
      /\ last' = last /\ tick' = tick + 1
      /\ win' = [win EXCEPT ![tick + 1] = fresh]
  BY PgQueAssumption DEF QueueTypeOK, Ticker, Batch
<1>2. \A b \in last + 1..tick : win'[b] = win[b]
  BY <1>1 DEF QueueTypeOK
<1>3. win'[tick + 1] = fresh
  BY <1>1 DEF QueueTypeOK
<1>4. last' + 1..tick' = (last + 1..tick) \cup {tick + 1}
  BY <1>1
<1>5. QED
  BY <1>2, <1>3, <1>4 DEF Waiting

LEMMA WaitingFinish ==
  ASSUME QueueTypeOK, open, Copies, NEW again, NEW buried,
         Acknowledge(again, buried)
  PROVE  /\ Waiting = win[last + 1] \cup Waiting'
         /\ win[last + 1] \cap Waiting' = {}
<1>1. /\ tick \in Nat /\ last \in 0..tick /\ last < tick
      /\ last' = last + 1 /\ tick' = tick /\ win' = win
  BY PgQueAssumption DEF QueueTypeOK, Acknowledge
<1>2. last + 1..tick = (last' + 1..tick') \cup {last + 1}
  BY <1>1
<1>3. \A b \in last' + 1..tick' : b \in last + 1..tick /\ b # last + 1
  BY <1>1
<1>4. last + 1 \in last + 1..tick
  BY <1>1
<1>5. win[last + 1] \cap Waiting' = {}
  BY <1>1, <1>3, <1>4 DEF Waiting, Copies
<1>6. Waiting = win[last + 1] \cup Waiting'
  BY <1>1, <1>2 DEF Waiting
<1>7. QED
  BY <1>5, <1>6

LEMMA CopiesSend ==
  ASSUME Copies, NEW m \in Msg, Send(m)
  PROVE  Copies'
BY DEF Copies, Send, Events, Waiting

LEMMA CopiesTick ==
  ASSUME QueueTypeOK, Copies, Ticker
  PROVE  Copies'
<1>1. /\ sent' = sent /\ fresh' = {} /\ retryQ' = retryQ /\ dead' = dead
      /\ Waiting' = Waiting \cup fresh
  BY WaitingTick DEF Ticker
<1>2. Events' = Events
  BY <1>1 DEF Events
<1>3. \A b, c \in last' + 1..tick' : b # c => win'[b] \cap win'[c] = {}
  <2>1. /\ tick \in Nat /\ last \in 0..tick /\ tick + 1 \in Batch
        /\ last' = last /\ tick' = tick + 1
        /\ win' = [win EXCEPT ![tick + 1] = fresh]
    BY PgQueAssumption DEF QueueTypeOK, Ticker, Batch
  <2>2. \A b \in last + 1..tick : win'[b] = win[b] /\ win[b] \cap fresh = {}
    BY <2>1 DEF QueueTypeOK, Copies, Waiting
  <2>3. win'[tick + 1] = fresh
    BY <2>1 DEF QueueTypeOK
  <2>4. \A b \in last' + 1..tick' : b \in last + 1..tick \/ b = tick + 1
    BY <2>1
  <2>5. QED
    BY <2>2, <2>3, <2>4 DEF Copies
<1>4. QED
  BY <1>1, <1>2, <1>3 DEF Copies

LEMMA CopiesMaint ==
  ASSUME Copies, MaintRetryEvents
  PROVE  Copies'
<1>1. PICK due \in SUBSET retryQ :
        /\ fresh' = fresh \cup due
        /\ retryQ' = retryQ \ due
        /\ UNCHANGED <<sent, win, tick, last, open, dead>>
  BY DEF MaintRetryEvents, KeepUnmoved
<1>2. Waiting' = Waiting /\ Events' = Events
  BY <1>1 DEF Waiting, Events
<1>3. QED
  BY <1>1, <1>2 DEF Copies

LEMMA CopiesFinish ==
  ASSUME QueueTypeOK, Copies, NEW w \in Workers, FinishBatch(w)
  PROVE  Copies'
<1> DEFINE batch == win[last + 1]
           retried == {[id |-> e.id, retry |-> e.retry + 1] : e \in Again(w)}
<1>1. /\ Again(w) \subseteq batch
      /\ Buried(w) \subseteq batch
      /\ Again(w) \cap Buried(w) = {}
  BY DEF FinishBatch, CanAck, IsOpen, Again, Buried, With
<1>2. /\ retryQ' = retryQ \cup retried
      /\ dead' = dead \cup Buried(w)
      /\ fresh' = fresh /\ sent' = sent
      /\ last' = last + 1 /\ tick' = tick /\ win' = win
  BY DEF FinishBatch, Acknowledge
<1>3. Waiting = batch \cup Waiting' /\ batch \cap Waiting' = {}
  BY WaitingFinish DEF FinishBatch, CanAck, IsOpen
<1>4. \A r \in retried : \E e \in Again(w) : r.id = e.id
  OBVIOUS
<1>5. \A r, q \in retried : r.id = q.id => r = q
  BY <1>1, <1>3 DEF Copies, Events
<1>6. \A r \in retried : \A f \in fresh \cup Waiting' \cup retryQ \cup dead' :
        r.id # f.id
  <2>1. SUFFICES ASSUME NEW e \in Again(w),
                        NEW f \in fresh \cup Waiting' \cup retryQ \cup dead \cup Buried(w)
                 PROVE  e.id # f.id
    BY <1>2, <1>4
  <2>2. e \in batch /\ e \in Events /\ f \in Events
    BY <1>1, <1>3 DEF Events
  <2>3. e # f
    BY <1>1, <1>3, <2>2 DEF Copies
  <2>4. QED
    BY <2>2, <2>3 DEF Copies
<1>7. Events' \subseteq Events \cup retried
  BY <1>1, <1>2, <1>3 DEF Events
<1>8. \A e \in Events' : e.id \in sent'
  BY <1>1, <1>2, <1>3, <1>4, <1>7 DEF Copies, Events
<1>9. \A e, f \in Events' : e.id = f.id => e = f
  <2>1. Events' = (fresh \cup Waiting' \cup retryQ \cup dead') \cup retried
    BY <1>2 DEF Events
  <2>2. (fresh \cup Waiting' \cup retryQ \cup dead') \subseteq Events
    BY <1>1, <1>2, <1>3 DEF Events
  <2>3. QED
    BY <1>5, <1>6, <2>1, <2>2 DEF Copies
<1>10. \A b, c \in last' + 1..tick' : b # c => win'[b] \cap win'[c] = {}
  <2>1. \A b \in last' + 1..tick' : b \in last + 1..tick
    BY <1>2, PgQueAssumption DEF QueueTypeOK
  <2>2. QED
    BY <1>2, <2>1 DEF Copies
<1>11. /\ fresh' \cap Waiting' = {} /\ fresh' \cap dead' = {}
       /\ Waiting' \cap dead' = {}
  BY <1>1, <1>2, <1>3 DEF Copies
<1>12. retried \cap (fresh' \cup Waiting' \cup dead') = {}
  <2>1. \A r \in retried : r \notin fresh \cup Waiting' \cup dead'
    BY <1>2, <1>6
  <2>2. QED
    BY <1>2, <2>1
<1>13. /\ retryQ' \cap fresh' = {} /\ retryQ' \cap Waiting' = {}
       /\ retryQ' \cap dead' = {}
  BY <1>1, <1>2, <1>3, <1>12 DEF Copies
<1>14. QED
  BY <1>8, <1>9, <1>10, <1>11, <1>13 DEF Copies

LEMMA CopiesStep == TypeOK /\ Copies /\ [Next]_vars => Copies'
<1> SUFFICES ASSUME QueueTypeOK, Copies, [Next]_vars PROVE Copies'
  BY DEF TypeOK
<1>1. CASE Reports
  BY <1>1 DEF Reports, queueVars, Copies, Events, Waiting
<1>2. CASE OpenNext
  BY <1>2 DEF OpenNext, Copies, Events, Waiting
<1>3. QED
  BY <1>1, <1>2, StepKinds, CopiesSend, CopiesTick, CopiesMaint, CopiesFinish

LEMMA CopiesSingle == Copies => SingleCopy
<1> SUFFICES ASSUME Copies PROVE SingleCopy
  OBVIOUS
<1> DEFINE place == <<fresh, Waiting, retryQ, dead>>
<1>1. /\ DOMAIN place = 1..4
      /\ place[1] = fresh /\ place[2] = Waiting
      /\ place[3] = retryQ /\ place[4] = dead
  OBVIOUS
<1>2. \A i \in 1..4 : place[i] \subseteq Events
  BY <1>1 DEF Events
<1>3. \A i, j \in 1..4 : i # j => place[i] \cap place[j] = {}
  BY <1>1 DEF Copies
<1> HIDE DEF place
<1>4. \A i, j \in 1..4 : i # j => Ids(place[i]) \cap Ids(place[j]) = {}
  BY <1>2, <1>3 DEF Copies, Ids
<1>5. \A i \in 1..4 : \A e, f \in place[i] : e.id = f.id => e = f
  BY <1>2 DEF Copies
<1>6. QED
  BY <1>1, <1>4, <1>5 DEF SingleCopy, Copies, place

\* No message ever exists twice, however many workers share a batch.
THEOREM OneCopy == Spec => []SingleCopy
<1>1. Init => Copies
  BY DEF Init, QueueInit, Copies, Events, Waiting
<1>2. QED
  BY <1>1, CopiesStep, CopiesSingle, TypeCorrect, PTL DEF Spec

=============================================================================
