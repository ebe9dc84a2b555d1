--------------------------- MODULE RunCountProofs ---------------------------
(***************************************************************************)
(* The run counts of QueueWorker for every number of workers, messages and *)
(* faults.  CountEarned says that a count never exceeds the earlier opens  *)
(* of its batch, RunBound that the handlers see a batch a bounded number   *)
(* of times.  Both rest on BatchInv: a batch has no history before it is   *)
(* opened, and no worker holds a batch that was not opened.                *)
(***************************************************************************)
EXTENDS QueueWorkerProofs, FiniteSetTheorems

\* The only batch that can be open now.
Current == last + 1

\* Worker w opened a batch and still has it.
Holds(w) == pc[w] \in {"count", "read", "run"}

BatchInv ==
  /\ \A w \in Workers :
       run[w].seen <= last \/ (open /\ run[w].seen = Current)
  /\ \A w \in Workers : Holds(w) =>
       run[w].id <= last \/ (open /\ run[w].id = Current)
  /\ \A b \in Batch : b > last /\ ~(open /\ b = Current) =>
       runs[b] = 0 /\ opens[b] = 0 /\ ran[b] = 0

\* The workers that opened batch b again and did not count it yet.
Counting(b) == {w \in Workers : pc[w] = "count" /\ run[w].id = b}

\* The count of the open batch and the counts on their way are below its opens.
EarnedInv ==
  open /\ opens[Current] < HistoryCap =>
    runs[Current] + Cardinality(Counting(Current)) < opens[Current]

\* Without a lost session, the lock is with the only worker that opens batches.
Opens(w) == pc[w] \in {"next", "count", "read"}

SeatInv ==
  /\ LockInv
  /\ \A w \in Workers : lead[w] # "standby" => conn[w] = "locked"
  /\ \A w \in Workers : Opens(w) => lead[w] # "standby"

\* The worker that opens a batch knows whether it was open, and each run of
\* the open batch but the first is counted.
SeenInv == \A w \in Workers : pc[w] = "next" /\ open => run[w].seen = Current

RanInv ==
  /\ RunBound
  /\ open => ran[Current] <= runs[Current] + 1
  /\ \A w \in Workers : pc[w] = "read" /\ open /\ run[w].id = Current =>
       ran[Current] <= runs[Current] /\ runs[Current] <= run[w].runs

-----------------------------------------------------------------------------
(* Most steps leave the counts alone, and each worker keeps its batch or   *)
(* lets it go.                                                             *)

Keeps(w) ==
  /\ pc'[w] = pc[w]
  /\ run'[w].id = run[w].id
  /\ run'[w].seen = run[w].seen
  /\ run'[w].runs = run[w].runs

LetsGo(w) ==
  /\ pc'[w] \in {"off", "idle"}
  /\ run'[w].seen \in {0, run[w].seen}

Workless == \A w \in Workers : Keeps(w) \/ LetsGo(w)

Still == Workless /\ UNCHANGED <<last, open, runs, opens, ran>>

LEMMA ReturnWorkless ==
  ASSUME TypeInv, NEW w \in Workers, Return(w)
  PROVE  Workless
BY NoRunType DEF TypeInv, TypeOK, Return, NoRun, Run, Workless, Keeps, LetsGo

LEMMA RunUpdateWorkless ==
  ASSUME TypeInv, NEW w \in Workers, UNCHANGED pc,
         \/ \E m : run' = [run EXCEPT ![w].cur = m]
         \/ \E f : run' = [run EXCEPT ![w].res = f]
         \/ \E m, r : run' = [run EXCEPT ![w].cur = 0, ![w].res[m] = r]
  PROVE  Workless
<1>1. run \in [Workers -> Run]
  BY DEF TypeInv, TypeOK
<1>2. ASSUME NEW m, run' = [run EXCEPT ![w].cur = m]
      PROVE  Workless
  BY ONLY <1>1, <1>2, UNCHANGED pc DEF Run, Workless, Keeps
<1>3. ASSUME NEW f, run' = [run EXCEPT ![w].res = f]
      PROVE  Workless
  BY ONLY <1>1, <1>3, UNCHANGED pc DEF Run, Workless, Keeps
<1>4. ASSUME NEW m, NEW r, run' = [run EXCEPT ![w].cur = 0, ![w].res[m] = r]
      PROVE  Workless
  BY ONLY <1>1, <1>4, UNCHANGED pc DEF Run, Workless, Keeps
<1>5. QED
  BY <1>2, <1>3, <1>4

LEMMA LeadStill ==
  ASSUME TypeInv, NEW w \in Workers,
         \/ TickOn(w) \/ Maintain(w) \/ Lead(w) \/ Environment(w) \/ HandlerKills(w)
  PROVE  Still
<1> USE DEF Still, Workless, Keeps, LetsGo, queueVars, workerVars, history,
            TypeInv, TypeOK
<1>1. CASE TickOn(w) \/ Maintain(w)
  BY <1>1 DEF TickOn, Maintain, Ticker, MaintRetryEvents
<1>2. CASE Lead(w)
  BY <1>2 DEF Lead, TryLock, LostLock, GraceOver, Drained, HardLimit, Unlock
<1>3. CASE LoseSession(w) \/ Stop(w)
  BY <1>3 DEF LoseSession, Stop
<1>4. CASE Crash(w) \/ HandlerKills(w)
  BY <1>4, NoRunType DEF Crash, HandlerKills, Die, NoRun, Run
<1>5. QED
  BY <1>1, <1>2, <1>3, <1>4 DEF Environment

LEMMA ConsumerStill ==
  ASSUME TypeInv, NEW w \in Workers,
         \/ ConsumeEnds(w) \/ NoBatch(w) \/ BatchMessagesFails(w)
         \/ FinishBatchFails(w) \/ LeaveOpenFails(w)
         \/ StartHandler(w) \/ EndHandler(w) \/ SkipRest(w)
  PROVE  Still
<1> USE DEF Still, queueVars, history
<1>1. CASE ConsumeEnds(w)
  BY <1>1 DEF ConsumeEnds, Workless, Keeps, LetsGo, TypeInv, TypeOK
<1>2. CASE NoBatch(w) \/ BatchMessagesFails(w) \/ FinishBatchFails(w) \/ LeaveOpenFails(w)
  BY <1>2, ReturnWorkless
     DEF NoBatch, BatchMessagesFails, FinishBatchFails, LeaveOpenFails
<1>3. CASE StartHandler(w) \/ SkipRest(w)
  BY <1>3, RunUpdateWorkless DEF StartHandler, SkipRest
<1>4. CASE EndHandler(w)
  BY <1>4, RunUpdateWorkless DEF EndHandler
<1>5. QED
  BY <1>1, <1>2, <1>3, <1>4

\* The steps that are not still.
Counts(w) ==
  \/ PurgeRuns(w) \/ CurrentBatch(w) \/ NextBatch(w) \/ NextBatchFails(w)
  \/ CountRun(w) \/ CountRunFails(w) \/ BatchMessages(w)
  \/ FinishBatch(w) \/ LeaveOpen(w)

LEMMA StillOrCounts ==
  ASSUME TypeInv, [Next]_vars
  PROVE  Still \/ \E w \in Workers : Counts(w)
<1>1. CASE Produce \/ UNCHANGED vars
  BY <1>1 DEF Produce, Send, vars, queueVars, workerVars, history, Still,
              Workless, Keeps
<1>2. QED
  BY <1>1, LeadStill, ConsumerStill DEF Next, Open, Handle, Finish, Counts

-----------------------------------------------------------------------------
(* What the other steps do to the counts and to the batches that are held. *)

LEMMA CurrentType ==
  ASSUME TypeInv
  PROVE  /\ last \in Nat /\ tick \in Nat /\ MaxTick \in Nat
         /\ tick <= MaxTick /\ last <= tick
         /\ open => Current \in Batch
BY PgQueAssumption DEF TypeInv, TypeOK, QueueTypeOK, Batch, Current

LEMMA OpenCurrent ==
  ASSUME TypeInv, OpenNext
  PROVE  open' = TRUE /\ last' = last /\ Current \in Batch
BY OpenNextType, PgQueAssumption
   DEF TypeInv, TypeOK, QueueTypeOK, OpenNext, Batch, Current

\* A worker that counts, reads or runs a batch.
LEMMA HeldType ==
  ASSUME TypeInv, NEW w \in Workers, Holds(w)
  PROVE  run[w].id \in Batch
BY PgQueAssumption DEF TypeInv, TypeOK, QueueTypeOK, HasBatch, Holds, Batch

LEMMA NextBatchEffect ==
  ASSUME TypeInv, NEW w \in Workers, NextBatch(w)
  PROVE  /\ pc[w] = "next" /\ RunCtxLive(w)
         /\ pc'[w] = IF run[w].seen = Current THEN "count" ELSE "read"
         /\ run'[w].id = Current /\ run'[w].runs = 0 /\ run'[w].seen = 0
         /\ \A v \in Workers : v # w => Keeps(v)
         /\ open' = TRUE /\ last' = last /\ Current \in Batch
         /\ opens' = Tally(opens, Current) /\ runs' = runs /\ ran' = ran
<1>1. run' = [run EXCEPT ![w] = [NoRun EXCEPT !.id = Current]]
  BY DEF NextBatch, Current
<1>2. /\ run \in [Workers -> Run]
      /\ pc \in [Workers -> {"off", "idle", "next", "count", "read", "run"}]
  BY DEF TypeInv, TypeOK
<1>3. run'[w].id = Current /\ run'[w].runs = 0 /\ run'[w].seen = 0
  BY <1>1, <1>2 DEF NoRun
<1>4. \A v \in Workers : v # w => Keeps(v)
  BY <1>1, <1>2 DEF NextBatch, Keeps
<1>5. QED
  BY <1>2, <1>3, <1>4, OpenCurrent DEF NextBatch, CameBack, Current

LEMMA NextBatchFailsEffect ==
  ASSUME TypeInv, NEW w \in Workers, NextBatchFails(w)
  PROVE  /\ Workless /\ pc[w] = "next" /\ LetsGo(w)
         /\ last' = last /\ runs' = runs /\ ran' = ran
         /\ \/ UNCHANGED <<open, opens>>
            \/ open' = TRUE /\ Current \in Batch /\ opens' = Tally(opens, Current)
<1>1. Workless /\ LetsGo(w)
  BY ReturnWorkless, NoRunType
     DEF NextBatchFails, Return, LetsGo, NoRun, Run, TypeInv, TypeOK
<1>2. QED
  BY <1>1, OpenCurrent DEF NextBatchFails, queueVars, Current

LEMMA CountRunEffect ==
  ASSUME TypeInv, NEW w \in Workers, CountRun(w)
  PROVE  /\ pc[w] = "count" /\ RunCtxLive(w) /\ pc'[w] = "read"
         /\ run'[w].id = run[w].id /\ run'[w].seen = run[w].seen
         /\ run'[w].runs = runs'[run[w].id]
         /\ \A v \in Workers : v # w => Keeps(v)
         /\ runs' = [runs EXCEPT ![run[w].id] = @ + 1]
         /\ UNCHANGED <<last, open, opens, ran>>
<1>1. run[w].id \in Batch /\ pc[w] = "count"
  BY HeldType DEF CountRun, Holds
<1>2. run' = [run EXCEPT ![w].runs = runs[run[w].id] + 1]
  BY DEF CountRun
<1>3. \A v \in Workers : v # w => Keeps(v)
  BY <1>2 DEF CountRun, Keeps, TypeInv, TypeOK
<1>4. /\ run'[w].id = run[w].id /\ run'[w].seen = run[w].seen
      /\ run'[w].runs = runs[run[w].id] + 1
  BY <1>2 DEF TypeInv, TypeOK, Run
<1>5. runs'[run[w].id] = runs[run[w].id] + 1
  BY <1>1 DEF CountRun, TypeInv, TypeOK
<1>6. QED
  BY <1>3, <1>4, <1>5 DEF CountRun, queueVars, history, TypeInv, TypeOK

LEMMA CountRunFailsEffect ==
  ASSUME TypeInv, NEW w \in Workers, CountRunFails(w)
  PROVE  /\ pc[w] = "count" /\ LetsGo(w) /\ Workless
         /\ runs' = runs \/ runs' = [runs EXCEPT ![run[w].id] = @ + 1]
         /\ UNCHANGED <<last, open, opens, ran>>
BY ReturnWorkless, NoRunType
   DEF CountRunFails, Return, LetsGo, NoRun, Run, queueVars, history, TypeInv, TypeOK

LEMMA BatchMessagesEffect ==
  ASSUME TypeInv, NEW w \in Workers, BatchMessages(w)
  PROVE  /\ pc[w] = "read" /\ pc'[w] = "run" /\ open /\ run[w].id = Current
         /\ run'[w].id = run[w].id /\ run'[w].seen = run[w].seen
         /\ \A v \in Workers : v # w => Keeps(v)
         /\ UNCHANGED <<last, open, opens, runs>>
         /\ ran' = ran \/ (ran' = Tally(ran, Current) /\ run[w].runs < MaxBatchRuns)
<1>1. \/ run' = run
      \/ \E f : run' = [run EXCEPT ![w].res = f]
  BY DEF BatchMessages
<1>2. /\ run'[w].id = run[w].id /\ run'[w].seen = run[w].seen
      /\ \A v \in Workers : v # w => run'[v] = run[v]
  BY <1>1 DEF TypeInv, TypeOK, Run
<1>3. run[w].runs \in Int /\ MaxBatchRuns \in Nat
  BY WorkerAssumption DEF TypeInv, TypeOK, Run
<1>4. QED
  BY <1>2, <1>3
     DEF BatchMessages, IsOpen, Current, Keeps, queueVars, TypeInv, TypeOK

LEMMA FinishBatchEffect ==
  ASSUME TypeInv, NEW w \in Workers, FinishBatch(w)
  PROVE  /\ Workless /\ pc[w] = "run" /\ open /\ Current \in Batch
         /\ last' = Current /\ open' = FALSE
         /\ runs' = [runs EXCEPT ![Current] = 0]
         /\ UNCHANGED <<opens, ran>>
BY ReturnWorkless, CurrentType
   DEF FinishBatch, RunDone, CanAck, IsOpen, Acknowledge, Current, history

LEMMA LeaveOpenEffect ==
  ASSUME TypeInv, NEW w \in Workers, LeaveOpen(w)
  PROVE  /\ Workless /\ pc[w] = "run" /\ run[w].id \in Batch
         /\ UNCHANGED <<last, open>>
         /\ runs' = [runs EXCEPT ![run[w].id] = @ - 1]
         /\ opens' = Untally(opens, run[w].id)
         /\ ran' = Untally(ran, run[w].id)
BY ReturnWorkless, HeldType
   DEF LeaveOpen, RunDone, Holds, Uncounted, queueVars

LEMMA CurrentBatchEffect ==
  ASSUME TypeInv, NEW w \in Workers, CurrentBatch(w)
  PROVE  /\ pc[w] = "idle" /\ pc'[w] = "next"
         /\ \/ run'[w].seen = IF open THEN Current ELSE 0
            \/ Fault("dberr") /\ run' = run
         /\ \A v \in Workers : v # w => Keeps(v)
         /\ UNCHANGED <<last, open, runs, opens, ran>>
BY DEF CurrentBatch, Current, Keeps, queueVars, history, TypeInv, TypeOK, Run

LEMMA PurgeRunsEffect ==
  ASSUME TypeInv, NEW w \in Workers, PurgeRuns(w)
  PROVE  /\ Workless
         /\ \E b \in Batch : /\ runs' = [runs EXCEPT ![b] = 0]
                             /\ b <= last \/ Fault("week")
         /\ UNCHANGED <<last, open, opens, ran>>
BY DEF PurgeRuns, Workless, Keeps, queueVars, history

-----------------------------------------------------------------------------
(* A batch has no history before it is opened.                             *)

LEMMA Numbers ==
  ASSUME TypeInv
  PROVE  /\ runs \in [Batch -> Int] /\ opens \in [Batch -> Int]
         /\ ran \in [Batch -> Int]
         /\ last \in Nat /\ (open => Current \in Batch)
         /\ \A b \in Batch : b \in Nat
         /\ \A w \in Workers : run[w].seen \in Nat /\ run[w].id \in Nat
<1>1. \A w \in Workers : run[w].seen \in 0..MaxTick /\ run[w].id \in 0..MaxTick
  BY DEF TypeInv, TypeOK, Run
<1>2. QED
  BY <1>1, CurrentType DEF TypeInv, TypeOK, Batch

\* A step that leaves the counts alone starts no work.
LEMMA BatchStill ==
  ASSUME TypeInv, BatchInv, Still
  PROVE  BatchInv'
BY Numbers DEF Still, Workless, Keeps, LetsGo, BatchInv, Holds, Current

\* A batch that some worker holds is open or finished.
LEMMA HeldPast ==
  ASSUME TypeInv, BatchInv, NEW w \in Workers, Holds(w), NEW b \in Batch,
         b > last, ~(open /\ b = Current)
  PROVE  b # run[w].id
BY Numbers DEF BatchInv, Current

\* What keeps BatchInv: no worker takes work that was not opened, the
\* cursor moves past an open batch only, and a new batch gets no history.
LEMMA BatchKept ==
  ASSUME TypeInv, BatchInv,
         \A v \in Workers :
           \/ Keeps(v) \/ LetsGo(v)
           \/ /\ run'[v].seen \in {0, run[v].seen} \/ (open /\ run'[v].seen = Current)
              /\ \/ pc'[v] = "next"
                 \/ open' /\ run'[v].id = Current
                 \/ Holds(v) /\ run'[v].id = run[v].id,
         \/ last' = last /\ (open => open')
         \/ open /\ last' = Current,
         \A b \in Batch : b > last /\ ~(open /\ b = Current) =>
           \/ open' /\ last' = last /\ b = Current
           \/ runs'[b] = runs[b] /\ opens'[b] = opens[b] /\ ran'[b] = ran[b]
  PROVE  BatchInv'
<1>1. ASSUME NEW v \in Workers
      PROVE  run'[v].seen <= last' \/ (open' /\ run'[v].seen = Current')
  BY <1>1, Numbers DEF BatchInv, Keeps, LetsGo, Current
<1>2. ASSUME NEW v \in Workers, Holds(v)'
      PROVE  run'[v].id <= last' \/ (open' /\ run'[v].id = Current')
  BY <1>2, Numbers DEF BatchInv, Keeps, LetsGo, Holds, Current
<1>3. ASSUME NEW b \in Batch, b > last', ~(open' /\ b = Current')
      PROVE  runs'[b] = 0 /\ opens'[b] = 0 /\ ran'[b] = 0
  BY <1>3, Numbers DEF BatchInv, Current
<1>4. QED
  BY <1>1, <1>2, <1>3 DEF BatchInv

LEMMA BatchCount ==
  ASSUME TypeInv, BatchInv, NEW w \in Workers, Counts(w)
  PROVE  BatchInv'
<1> DEFINE Fresh(b) == b > last /\ ~(open /\ b = Current)
<1>1. /\ runs \in [Batch -> Int] /\ opens \in [Batch -> Int] /\ ran \in [Batch -> Int]
      /\ last \in Nat /\ (open => Current \in Batch)
  BY Numbers
<1>2. CASE PurgeRuns(w)
  <2>1. \A b \in Batch : Fresh(b) => runs'[b] = 0
    BY <1>1, <1>2, PurgeRunsEffect DEF BatchInv
  <2>2. QED
    BY <1>1, <1>2, <2>1, PurgeRunsEffect, BatchKept DEF BatchInv, Workless
<1>3. CASE CurrentBatch(w)
  BY <1>1, <1>3, CurrentBatchEffect, BatchKept
<1>4. CASE NextBatch(w)
  <2>1. \A b \in Batch : b # Current => opens'[b] = opens[b]
    BY <1>1, <1>4, NextBatchEffect DEF Tally
  <2>2. QED
    BY <1>1, <1>4, <2>1, NextBatchEffect, BatchKept
<1>5. CASE NextBatchFails(w)
  <2>1. /\ open => open'
        /\ \A b \in Batch : opens'[b] = opens[b] \/ (open' /\ b = Current)
    BY <1>1, <1>5, NextBatchFailsEffect DEF Tally
  <2>2. QED
    BY <1>1, <1>5, <2>1, NextBatchFailsEffect, BatchKept DEF Workless
<1>6. CASE CountRun(w) \/ CountRunFails(w)
  <2>1. Holds(w)
    BY <1>6, CountRunEffect, CountRunFailsEffect DEF Holds
  <2>2. \A b \in Batch : Fresh(b) => runs'[b] = runs[b]
    BY <1>1, <1>6, <2>1, HeldPast, HeldType, CountRunEffect, CountRunFailsEffect
  <2>3. QED
    BY <1>1, <1>6, <2>1, <2>2, CountRunEffect, CountRunFailsEffect, BatchKept
       DEF Workless
<1>7. CASE BatchMessages(w)
  <2>1. Holds(w)
    BY <1>7, BatchMessagesEffect DEF Holds
  <2>2. \A b \in Batch : Fresh(b) => ran'[b] = ran[b]
    BY <1>1, <1>7, BatchMessagesEffect DEF Tally
  <2>3. QED
    BY <1>1, <1>7, <2>1, <2>2, BatchMessagesEffect, BatchKept
<1>8. CASE FinishBatch(w)
  <2>1. \A b \in Batch : Fresh(b) => runs'[b] = runs[b]
    BY <1>1, <1>8, FinishBatchEffect
  <2>2. QED
    BY <1>1, <1>8, <2>1, FinishBatchEffect, BatchKept DEF Workless
<1>9. CASE LeaveOpen(w)
  <2>1. Holds(w)
    BY <1>9, LeaveOpenEffect DEF Holds
  <2>2. \A b \in Batch : Fresh(b) =>
          runs'[b] = runs[b] /\ opens'[b] = opens[b] /\ ran'[b] = ran[b]
    BY <1>1, <1>9, <2>1, HeldPast, HeldType, LeaveOpenEffect DEF Untally
  <2>3. QED
    BY <1>1, <1>9, <2>2, LeaveOpenEffect, BatchKept DEF Workless
<1>10. QED
  BY <1>2, <1>3, <1>4, <1>5, <1>6, <1>7, <1>8, <1>9 DEF Counts

LEMMA BatchStep == TypeInv /\ BatchInv /\ [Next]_vars => BatchInv'
BY StillOrCounts, BatchStill, BatchCount

-----------------------------------------------------------------------------
(* A count is earned by an earlier open.                                   *)

LEMMA CountingFinite ==
  ASSUME NEW b
  PROVE  IsFiniteSet(Counting(b)) /\ Cardinality(Counting(b)) \in Nat
<1>1. Counting(b) \subseteq Workers
  BY DEF Counting
<1>2. QED
  BY <1>1, WorkerAssumption, FS_Subset, FS_CardinalityType

\* The workers that count the open batch, after a step of worker w.
LEMMA CountingStep ==
  ASSUME NEW w \in Workers, last' = last,
         \A v \in Workers : v # w => Keeps(v) \/ LetsGo(v)
  PROVE  LET old == Counting(Current)
             new == Counting(Current)'
         IN /\ Cardinality(new) \in Nat /\ Cardinality(old) \in Nat
            /\ Cardinality(new) <= Cardinality(old) + 1
            /\ (Keeps(w) \/ pc'[w] # "count") => Cardinality(new) <= Cardinality(old)
            /\ (w \in old /\ pc'[w] # "count") => Cardinality(new) <= Cardinality(old) - 1
<1> DEFINE old == Counting(Current)
           new == Counting(Current)'
<1>1. new \subseteq old \cup {w}
  BY DEF Counting, Current, Keeps, LetsGo
<1>2. (Keeps(w) \/ pc'[w] # "count") => new \subseteq old
  BY DEF Counting, Current, Keeps, LetsGo
<1>3. (w \in old /\ pc'[w] # "count") => new \subseteq old \ {w}
  BY DEF Counting, Current, Keeps, LetsGo
<1>4. IsFiniteSet(old) /\ Cardinality(old) \in Nat
  BY CountingFinite
<1> HIDE DEF old, new
<1>5. Cardinality(new) \in Nat /\ Cardinality(new) <= Cardinality(old) + 1
  <2>1. /\ IsFiniteSet(old \cup {w})
        /\ Cardinality(old \cup {w}) \in {Cardinality(old), Cardinality(old) + 1}
    BY <1>4, FS_AddElement
  <2>2. IsFiniteSet(new) /\ Cardinality(new) <= Cardinality(old \cup {w})
    BY <1>1, <2>1, FS_Subset
  <2>3. Cardinality(new) \in Nat /\ Cardinality(old \cup {w}) \in Nat
    BY <2>1, <2>2, FS_CardinalityType
  <2>4. QED
    BY <1>4, <2>1, <2>2, <2>3
<1>6. new \subseteq old => Cardinality(new) <= Cardinality(old)
  BY <1>4, FS_Subset
<1>7. w \in old /\ new \subseteq old \ {w} => Cardinality(new) <= Cardinality(old) - 1
  <2>1. IsFiniteSet(old \ {w})
    BY <1>4, FS_RemoveElement
  <2>2. w \in old => Cardinality(old \ {w}) = Cardinality(old) - 1
    BY <1>4, FS_RemoveElement
  <2>3. new \subseteq old \ {w} => Cardinality(new) <= Cardinality(old \ {w})
    BY <2>1, FS_Subset
  <2>4. QED
    BY <2>2, <2>3
<1>8. QED
  BY <1>2, <1>3, <1>4, <1>5, <1>6, <1>7 DEF old, new

\* The same when no worker starts to count.
LEMMA CountingShrinks ==
  ASSUME last' = last,
         \A v \in Workers : Keeps(v) \/ LetsGo(v) \/ pc'[v] # "count"
  PROVE  LET old == Counting(Current)
             new == Counting(Current)'
         IN /\ Cardinality(new) \in Nat /\ Cardinality(old) \in Nat
            /\ Cardinality(new) <= Cardinality(old)
<1>1. Counting(Current)' \subseteq Counting(Current)
  BY DEF Counting, Current, Keeps, LetsGo
<1>2. IsFiniteSet(Counting(Current)) /\ Cardinality(Counting(Current)) \in Nat
  BY CountingFinite
<1>3. /\ IsFiniteSet(Counting(Current)')
      /\ Cardinality(Counting(Current)') <= Cardinality(Counting(Current))
  BY <1>1, <1>2, FS_Subset
<1>4. QED
  BY <1>2, <1>3, FS_CardinalityType

\* A step that only loses workers that count.
LEMMA EarnedKept ==
  ASSUME TypeInv, EarnedInv, last' = last, open' => open, opens' = opens,
         open => runs'[Current] = runs[Current],
         \A v \in Workers : Keeps(v) \/ LetsGo(v) \/ pc'[v] # "count"
  PROVE  EarnedInv'
<1>1. Current' = Current
  BY DEF Current
<1>2. /\ Cardinality(Counting(Current)') <= Cardinality(Counting(Current))
      /\ Cardinality(Counting(Current)') \in Nat
      /\ Cardinality(Counting(Current)) \in Nat
  BY CountingShrinks
<1>3. QED
  BY <1>1, <1>2, Numbers DEF EarnedInv

\* next_batch opens the batch, for a worker that counts it or not.
LEMMA EarnedOpen ==
  ASSUME TypeInv, BatchInv, EarnedInv, NEW w \in Workers,
         NextBatch(w) \/ NextBatchFails(w),
         open', opens' = Tally(opens, Current), Current \in Batch
  PROVE  EarnedInv'
<1> DEFINE old == Cardinality(Counting(Current))
           new == Cardinality(Counting(Current)')
<1>1. /\ last' = last /\ Current' = Current /\ runs' = runs
      /\ \A v \in Workers : v # w => Keeps(v) \/ LetsGo(v)
      /\ pc'[w] = "count" => open
  <2>1. CASE NextBatch(w)
    BY <2>1, NextBatchEffect, Numbers DEF BatchInv, Current
  <2>2. CASE NextBatchFails(w)
    BY <2>2, NextBatchFailsEffect DEF Workless, Keeps, LetsGo, Current
  <2>3. QED
    BY <2>1, <2>2
<1>2. new \in Nat /\ old \in Nat /\ new <= old + 1 /\ (pc'[w] # "count" => new <= old)
  BY <1>1, CountingStep
<1>3. /\ runs[Current] \in Int /\ opens[Current] \in Int /\ HistoryCap \in Nat
      /\ HistoryCap > 0
  BY Numbers, WorkerAssumption DEF HistoryCap
<1>4. opens[Current] < HistoryCap => opens'[Current] = opens[Current] + 1
  BY Numbers DEF Tally
<1>5. opens[Current] >= HistoryCap => opens'[Current] = opens[Current]
  BY <1>3 DEF Tally
<1>6. CASE open
  <2>1. CASE opens[Current] < HistoryCap
    BY <1>1, <1>2, <1>3, <1>4, <1>6, <2>1 DEF EarnedInv
  <2>2. CASE opens[Current] >= HistoryCap
    BY <1>1, <1>3, <1>5, <2>2 DEF EarnedInv
  <2>3. QED
    BY <1>3, <2>1, <2>2
<1>7. CASE ~open
  <2>1. runs[Current] = 0 /\ opens[Current] = 0
    BY <1>7, Numbers DEF BatchInv, Current
  <2>2. Counting(Current) = {}
    BY <1>7, Numbers DEF BatchInv, Counting, Holds, Current
  <2>3. old = 0
    BY <2>2, FS_EmptySet
  <2>4. QED
    BY <1>1, <1>2, <1>3, <1>4, <1>7, <2>1, <2>3 DEF EarnedInv
<1>8. QED
  BY <1>6, <1>7

LEMMA EarnedCount ==
  ASSUME TypeInv, BatchInv, EarnedInv, "week" \notin FaultKinds,
         NEW w \in Workers, Counts(w)
  PROVE  EarnedInv'
<1>1. CASE PurgeRuns(w)
  <2>1. ~Fault("week")
    BY DEF Fault
  <2>2. open => runs'[Current] = runs[Current]
    <3>1. PICK b \in Batch : runs' = [runs EXCEPT ![b] = 0] /\ b <= last
      BY <1>1, <2>1, PurgeRunsEffect
    <3>2. QED
      BY <3>1, Numbers DEF Current
  <2>3. QED
    BY <1>1, <2>2, PurgeRunsEffect, EarnedKept DEF Workless
<1>2. CASE CurrentBatch(w)
  BY <1>2, CurrentBatchEffect, EarnedKept
<1>3. CASE NextBatch(w)
  BY <1>3, NextBatchEffect, EarnedOpen
<1>4. CASE NextBatchFails(w)
  BY <1>4, NextBatchFailsEffect, EarnedOpen, EarnedKept DEF Workless
<1>5. CASE CountRun(w) \/ CountRunFails(w)
  <2>1. /\ pc[w] = "count" /\ pc'[w] # "count"
        /\ \A v \in Workers : v # w => Keeps(v) \/ LetsGo(v)
        /\ runs' = runs \/ runs' = [runs EXCEPT ![run[w].id] = @ + 1]
        /\ UNCHANGED <<last, open, opens>>
    BY <1>5, CountRunEffect, CountRunFailsEffect DEF Workless, LetsGo
  <2>2. CASE open /\ run[w].id = Current
    <3>1. w \in Counting(Current)
      BY <2>1, <2>2 DEF Counting
    <3>2. /\ Cardinality(Counting(Current)') <= Cardinality(Counting(Current)) - 1
          /\ Cardinality(Counting(Current)') \in Nat
          /\ Cardinality(Counting(Current)) \in Nat
      BY <2>1, <3>1, CountingStep
    <3>3. /\ runs'[Current] \in {runs[Current], runs[Current] + 1}
          /\ Current' = Current
      BY <2>1, <2>2, Numbers DEF Current
    <3>4. QED
      BY <2>1, <2>2, <3>2, <3>3, Numbers DEF EarnedInv
  <2>3. CASE ~(open /\ run[w].id = Current)
    <3>1. open => runs'[Current] = runs[Current]
      BY <2>1, <2>3, Numbers
    <3>2. QED
      BY <2>1, <3>1, EarnedKept
  <2>4. QED
    BY <2>2, <2>3
<1>6. CASE BatchMessages(w)
  BY <1>6, BatchMessagesEffect, EarnedKept
<1>7. CASE FinishBatch(w)
  BY <1>7, FinishBatchEffect DEF EarnedInv
<1>8. CASE LeaveOpen(w)
  <2>1. /\ run[w].id \in Batch /\ UNCHANGED <<last, open>> /\ Current' = Current
        /\ runs' = [runs EXCEPT ![run[w].id] = @ - 1]
        /\ opens' = Untally(opens, run[w].id)
    BY <1>8, LeaveOpenEffect DEF Current
  <2>2. /\ Cardinality(Counting(Current)') <= Cardinality(Counting(Current))
        /\ Cardinality(Counting(Current)') \in Nat
        /\ Cardinality(Counting(Current)) \in Nat
    BY <1>8, LeaveOpenEffect, CountingShrinks DEF Workless
  <2>3. CASE open /\ run[w].id = Current
    <3>1. runs'[Current] = runs[Current] - 1
      BY <2>1, <2>3, Numbers
    <3>2. HistoryCap \in Nat /\ runs[Current] \in Int /\ opens[Current] \in Int
      BY <2>3, Numbers, WorkerAssumption DEF HistoryCap
    <3>3. opens[Current] >= HistoryCap => opens'[Current] = opens[Current]
      BY <2>1, <2>3, <3>2, Numbers DEF Untally
    <3>4. opens[Current] < HistoryCap => opens'[Current] = opens[Current] - 1
      BY <2>1, <2>3, Numbers DEF Untally
    <3>5. QED
      BY <2>1, <2>2, <2>3, <3>1, <3>2, <3>3, <3>4 DEF EarnedInv
  <2>4. CASE ~(open /\ run[w].id = Current)
    <3>1. open => runs'[Current] = runs[Current] /\ opens'[Current] = opens[Current]
      BY <2>1, <2>4, Numbers DEF Untally
    <3>2. QED
      BY <2>1, <2>2, <3>1, Numbers DEF EarnedInv
  <2>5. QED
    BY <2>3, <2>4
<1>9. QED
  BY <1>1, <1>2, <1>3, <1>4, <1>5, <1>6, <1>7, <1>8 DEF Counts

LEMMA EarnedStep ==
  "week" \notin FaultKinds =>
    (TypeInv /\ BatchInv /\ EarnedInv /\ [Next]_vars => EarnedInv')
<1> SUFFICES ASSUME "week" \notin FaultKinds, TypeInv, BatchInv, EarnedInv, [Next]_vars
             PROVE  EarnedInv'
  OBVIOUS
<1>1. CASE Still
  BY <1>1, EarnedKept DEF Still, Workless
<1>2. QED
  BY <1>1, StillOrCounts, EarnedCount

LEMMA EarnedEnough == TypeInv /\ BatchInv /\ EarnedInv => CountEarned
<1> SUFFICES ASSUME TypeInv, BatchInv, EarnedInv,
                    NEW b \in last + 1..tick, runs[b] > 0, opens[b] < HistoryCap
             PROVE  runs[b] < opens[b]
  BY DEF CountEarned
<1>1. b \in Batch /\ b > last
  BY CurrentType DEF Batch
<1>2. open /\ b = Current
  BY <1>1, Numbers DEF BatchInv
<1>3. QED
  BY <1>1, <1>2, Numbers, CountingFinite DEF EarnedInv

\* A count never exceeds the earlier opens of its batch, for every number of
\* workers, messages and faults: crashes, lost sessions, stops and failed
\* queries whose effect may have reached the database.  The week in which no
\* worker runs is left out: purgeRuns then also deletes the -1 that leaveOpen
\* gave a batch whose first run was stopped, and the next open counts that run.
THEOREM CountsEarned == "week" \notin FaultKinds => (Spec => []CountEarned)
<1> SUFFICES ASSUME "week" \notin FaultKinds PROVE Spec => []CountEarned
  OBVIOUS
<1>1. Init => BatchInv /\ EarnedInv
  BY DEF Init, QueueInit, BatchInv, EarnedInv, Holds, NoRun, Current, Batch
<1>2. TypeInv /\ BatchInv /\ EarnedInv /\ [Next]_vars => EarnedInv'
  BY EarnedStep
<1>3. Spec => []TypeInv
  BY TypeCorrect, PTL DEF TypeInv
<1>4. QED
  BY <1>1, <1>2, <1>3, BatchStep, EarnedEnough, PTL DEF Spec

-----------------------------------------------------------------------------
(* One worker opens batches at a time, when no lock session is lost.       *)

LEMMA SeatStep ==
  ASSUME TypeInv, SeatInv, "lost" \notin FaultKinds, [Next]_vars
  PROVE  SeatInv'
<1> USE DEF TypeInv, TypeOK
<1>1. LockInv'
  BY LockStep DEF SeatInv
<1>2. ASSUME NEW w \in Workers, Lead(w) \/ Environment(w) \/ HandlerKills(w)
      PROVE  SeatInv'
  <2>1. CASE TryLock(w)
    BY <1>1, <2>1 DEF TryLock, SeatInv, Opens
  <2>2. CASE LostLock(w) \/ GraceOver(w) \/ Stop(w)
    BY <1>1, <2>2 DEF LostLock, GraceOver, Stop, SeatInv, Opens
  <2>3. CASE Drained(w) \/ HardLimit(w)
    BY <1>1, <2>3 DEF Drained, HardLimit, Unlock, SeatInv, Opens
  <2>4. CASE Crash(w) \/ HandlerKills(w)
    BY <1>1, <2>4 DEF Crash, HandlerKills, Die, SeatInv, Opens
  <2>5. ~LoseSession(w)
    BY DEF LoseSession, Fault
  <2>6. QED
    BY <1>2, <2>1, <2>2, <2>3, <2>4, <2>5 DEF Lead, Environment
<1>3. ASSUME NEW w \in Workers, CurrentBatch(w)
      PROVE  SeatInv'
  BY <1>1, <1>3 DEF CurrentBatch, RunCtxLive, SeatInv, Opens
<1>4. ASSUME NEW w \in Workers,
             \/ ConsumeEnds(w) \/ NextBatch(w) \/ CountRun(w) \/ BatchMessages(w)
      PROVE  SeatInv'
  BY <1>1, <1>4 DEF ConsumeEnds, NextBatch, CountRun, BatchMessages, SeatInv, Opens
<1>5. ASSUME NEW w \in Workers, Return(w), UNCHANGED <<lead, conn>>
      PROVE  SeatInv'
  BY <1>1, <1>5 DEF Return, SeatInv, Opens
<1>6. ASSUME NEW w \in Workers,
             \/ NoBatch(w) \/ NextBatchFails(w) \/ CountRunFails(w)
             \/ BatchMessagesFails(w) \/ Finish(w)
      PROVE  SeatInv'
  BY <1>5, <1>6 DEF NoBatch, NextBatchFails, CountRunFails, BatchMessagesFails,
                    Finish, FinishBatch, FinishBatchFails, LeaveOpen, LeaveOpenFails
<1>7. ASSUME UNCHANGED <<lead, conn, pc>>
      PROVE  SeatInv'
  BY <1>1, <1>7 DEF SeatInv, Opens
<1>8. ASSUME NEW w \in Workers,
             \/ TickOn(w) \/ Maintain(w) \/ PurgeRuns(w)
             \/ StartHandler(w) \/ EndHandler(w) \/ SkipRest(w)
      PROVE  SeatInv'
  BY <1>7, <1>8 DEF TickOn, Maintain, PurgeRuns, StartHandler, EndHandler,
                    SkipRest, workerVars
<1>9. CASE Produce \/ UNCHANGED vars
  BY <1>7, <1>9 DEF Produce, vars, workerVars
<1>10. QED
  BY <1>2, <1>3, <1>4, <1>6, <1>8, <1>9 DEF Next, Open, Handle

LEMMA OneSeat ==
  ASSUME SeatInv, NEW v \in Workers, NEW w \in Workers, Opens(v), Opens(w)
  PROVE  v = w
BY DEF SeatInv, LockInv

LEMMA SeenStep ==
  ASSUME TypeInv, SeatInv, SeenInv, "dberr" \notin FaultKinds, [Next]_vars
  PROVE  SeenInv'
<1>1. CASE Still
  BY <1>1 DEF Still, Workless, Keeps, LetsGo, SeenInv, Current
<1>2. ASSUME NEW w \in Workers, Counts(w)
      PROVE  SeenInv'
  <2>1. CASE PurgeRuns(w)
    BY <2>1, PurgeRunsEffect DEF Workless, Keeps, LetsGo, SeenInv, Current
  <2>2. CASE CurrentBatch(w)
    BY <2>2, CurrentBatchEffect DEF Fault, Keeps, SeenInv, Current
  <2>3. CASE NextBatch(w) \/ NextBatchFails(w)
    <3>1. /\ Opens(w) /\ pc'[w] # "next"
          /\ \A v \in Workers : v # w => Keeps(v) \/ LetsGo(v)
      <4>1. CASE NextBatch(w)
        BY <4>1, NextBatchEffect DEF Opens
      <4>2. CASE NextBatchFails(w)
        BY <4>2, NextBatchFailsEffect DEF Opens, Workless, LetsGo
      <4>3. QED
        BY <2>3, <4>1, <4>2
    <3>2. \A v \in Workers : pc'[v] # "next"
      BY <3>1, OneSeat DEF Opens, Keeps, LetsGo
    <3>3. QED
      BY <3>2 DEF SeenInv
  <2>4. CASE CountRun(w) \/ CountRunFails(w)
    BY <2>4, CountRunEffect, CountRunFailsEffect
       DEF Workless, Keeps, LetsGo, SeenInv, Current
  <2>5. CASE BatchMessages(w)
    BY <2>5, BatchMessagesEffect DEF Keeps, SeenInv, Current
  <2>6. CASE FinishBatch(w)
    BY <2>6, FinishBatchEffect DEF SeenInv
  <2>7. CASE LeaveOpen(w)
    BY <2>7, LeaveOpenEffect DEF Workless, Keeps, LetsGo, SeenInv, Current
  <2>8. QED
    BY <1>2, <2>1, <2>2, <2>3, <2>4, <2>5, <2>6, <2>7 DEF Counts
<1>3. QED
  BY <1>1, <1>2, StillOrCounts

-----------------------------------------------------------------------------
(* The runs of a batch.                                                    *)

\* A step that adds no run, takes away no count and starts no reader.
LEMMA RanKept ==
  ASSUME TypeInv, RanInv, last' = last, open' => open, ran' = ran,
         open => runs'[Current] = runs[Current],
         \A v \in Workers : Keeps(v) \/ LetsGo(v) \/ pc'[v] # "read"
  PROVE  RanInv'
<1>1. Current' = Current
  BY DEF Current
<1>2. QED
  BY <1>1, Numbers DEF RanInv, RunBound, Keeps, LetsGo

LEMMA RanCount ==
  ASSUME TypeInv, BatchInv, SeatInv, SeenInv, RanInv,
         "week" \notin FaultKinds, "dberr" \notin FaultKinds,
         NEW w \in Workers, Counts(w)
  PROVE  RanInv'
<1> USE DEF Workless
<1>1. CASE PurgeRuns(w)
  <2>1. PICK b \in Batch : runs' = [runs EXCEPT ![b] = 0] /\ b <= last
    BY <1>1, PurgeRunsEffect DEF Fault
  <2>2. open => runs'[Current] = runs[Current]
    BY <2>1, Numbers DEF Current
  <2>3. QED
    BY <1>1, <2>2, PurgeRunsEffect, RanKept
<1>2. CASE CurrentBatch(w)
  BY <1>2, CurrentBatchEffect, RanKept
<1>3. CASE NextBatch(w)
  <2>1. /\ UNCHANGED <<last, runs, ran>> /\ Current' = Current /\ Current \in Batch
        /\ run'[w].runs = 0
        /\ pc'[w] = "read" => ~open
        /\ \A v \in Workers : v # w => pc'[v] # "read"
    <3>1. Opens(w) /\ \A v \in Workers : v # w => ~Opens(v)
      BY <1>3, NextBatchEffect, OneSeat DEF Opens
    <3>2. QED
      BY <1>3, <3>1, NextBatchEffect DEF SeenInv, Opens, Keeps, Current
  <2>2. CASE open
    BY <2>1, <2>2 DEF RanInv, RunBound
  <2>3. CASE ~open
    <3>1. runs[Current] = 0 /\ ran[Current] = 0
      BY <2>1, <2>3, Numbers DEF BatchInv, Current
    <3>2. QED
      BY <2>1, <3>1 DEF RanInv, RunBound
  <2>4. QED
    BY <2>2, <2>3
<1>4. CASE NextBatchFails(w)
  <2>1. /\ UNCHANGED <<last, runs, ran>> /\ Current' = Current
        /\ \A v \in Workers : pc'[v] # "read"
        /\ open' => Current \in Batch
    <3>1. Opens(w) /\ \A v \in Workers : v # w => ~Opens(v)
      BY <1>4, NextBatchFailsEffect, OneSeat DEF Opens
    <3>2. QED
      BY <1>4, <3>1, NextBatchFailsEffect, Numbers DEF Opens, Keeps, LetsGo, Current
  <2>2. CASE open
    BY <2>1, <2>2 DEF RanInv, RunBound
  <2>3. CASE ~open
    <3>1. open' => runs[Current] = 0 /\ ran[Current] = 0
      BY <2>1, <2>3, Numbers DEF BatchInv, Current
    <3>2. QED
      BY <2>1, <3>1 DEF RanInv, RunBound
  <2>4. QED
    BY <2>2, <2>3
<1>5. CASE CountRun(w) \/ CountRunFails(w)
  <2>1. /\ UNCHANGED <<last, open, ran>> /\ Current' = Current
        /\ runs' = runs \/ runs' = [runs EXCEPT ![run[w].id] = @ + 1]
        /\ pc'[w] = "read" =>
             /\ run'[w].runs = runs'[run[w].id] /\ run'[w].id = run[w].id
             /\ runs' = [runs EXCEPT ![run[w].id] = @ + 1]
    <3>1. CASE CountRun(w)
      BY <3>1, CountRunEffect DEF Current
    <3>2. CASE CountRunFails(w)
      BY <3>2, CountRunFailsEffect DEF LetsGo, Current
    <3>3. QED
      BY <1>5, <3>1, <3>2
  <2>2. \A v \in Workers : v # w => pc'[v] # "read"
    <3>1. Opens(w) /\ \A v \in Workers : v # w => ~Opens(v)
      BY <1>5, CountRunEffect, CountRunFailsEffect, OneSeat DEF Opens
    <3>2. QED
      BY <1>5, <3>1, CountRunEffect, CountRunFailsEffect DEF Opens, Keeps, LetsGo
  <2>3. open => /\ runs[Current] \in Int /\ ran[Current] \in Int
                /\ runs'[Current] \in {runs[Current], runs[Current] + 1}
                /\ runs' = [runs EXCEPT ![run[w].id] = @ + 1] /\ run[w].id = Current
                     => runs'[Current] = runs[Current] + 1
    BY <2>1, Numbers
  <2>4. QED
    BY <2>1, <2>2, <2>3 DEF RanInv, RunBound
<1>6. CASE BatchMessages(w)
  <2>1. Opens(w) /\ \A v \in Workers : v # w => ~Opens(v)
    BY <1>6, BatchMessagesEffect, OneSeat DEF Opens
  <2>2. \A v \in Workers : pc'[v] # "read"
    BY <1>6, <2>1, BatchMessagesEffect DEF Opens, Keeps
  <2>3. /\ open /\ Current \in Batch /\ UNCHANGED <<last, open, runs>>
        /\ Current' = Current /\ pc[w] = "read" /\ run[w].id = Current
    BY <1>6, BatchMessagesEffect, Numbers DEF Current
  <2>4. /\ ran[Current] <= runs[Current] /\ runs[Current] <= run[w].runs
        /\ ran[Current] \in Int /\ runs[Current] \in Int /\ run[w].runs \in Int
    BY <2>3, Numbers DEF RanInv, TypeInv, TypeOK, Run
  <2>5. CASE ran' = ran
    BY <2>2, <2>3, <2>4, <2>5 DEF RanInv, RunBound
  <2>6. CASE ran' = Tally(ran, Current) /\ run[w].runs < MaxBatchRuns
    <3>1. /\ ran'[Current] \in {ran[Current], ran[Current] + 1}
          /\ \A b \in Batch : b # Current => ran'[b] = ran[b]
      BY <2>3, <2>6, Numbers DEF Tally
    <3>2. ran[Current] + 1 <= MaxBatchRuns /\ ran[Current] + 1 <= runs[Current] + 1
      BY <2>4, <2>6, WorkerAssumption
    <3>3. \A b \in Batch : ran'[b] <= MaxBatchRuns
      BY <2>3, <3>1, <3>2 DEF RanInv, RunBound
    <3>4. ran'[Current] <= runs[Current] + 1
      BY <2>4, <3>1, <3>2
    <3>5. QED
      BY <2>2, <2>3, <3>3, <3>4 DEF RanInv, RunBound
  <2>7. QED
    BY <1>6, <2>5, <2>6, BatchMessagesEffect
<1>7. CASE FinishBatch(w)
  BY <1>7, FinishBatchEffect DEF RanInv, RunBound
<1>8. CASE LeaveOpen(w)
  <2>1. /\ run[w].id \in Batch /\ UNCHANGED <<last, open>> /\ Current' = Current
        /\ runs' = [runs EXCEPT ![run[w].id] = @ - 1]
        /\ \A v \in Workers : Keeps(v) \/ LetsGo(v)
    BY <1>8, LeaveOpenEffect DEF Current
  <2>2. ran' = [ran EXCEPT ![run[w].id] = @ - 1]
    BY <1>8, LeaveOpenEffect, Numbers, WorkerAssumption
       DEF RanInv, RunBound, Untally, HistoryCap
  <2>3. RunBound'
    BY <2>1, <2>2, Numbers, WorkerAssumption DEF RanInv, RunBound
  <2>4. open => /\ runs[Current] \in Int /\ ran[Current] \in Int
                /\ \/ /\ runs'[Current] = runs[Current]
                      /\ ran'[Current] = ran[Current]
                   \/ /\ runs'[Current] = runs[Current] - 1
                      /\ ran'[Current] = ran[Current] - 1
    BY <2>1, <2>2, Numbers
  <2>5. open => ran'[Current] <= runs'[Current] + 1
    BY <2>4 DEF RanInv
  <2>6. ASSUME NEW v \in Workers, pc'[v] = "read", open, run'[v].id = Current
        PROVE  ran'[Current] <= runs'[Current] /\ runs'[Current] <= run'[v].runs
    <3>1. pc[v] = "read" /\ run[v].id = Current /\ run'[v].runs = run[v].runs
          /\ run[v].runs \in Int
      BY <2>1, <2>6 DEF Keeps, LetsGo, TypeInv, TypeOK, Run
    <3>2. ran[Current] <= runs[Current] /\ runs[Current] <= run[v].runs
      BY <2>6, <3>1 DEF RanInv
    <3>3. QED
      BY <2>4, <2>6, <3>1, <3>2
  <2>7. QED
    BY <2>1, <2>3, <2>5, <2>6 DEF RanInv
<1>9. QED
  BY <1>1, <1>2, <1>3, <1>4, <1>5, <1>6, <1>7, <1>8 DEF Counts

\* Handlers see a batch in at most maxBatchRuns runs that did not finish, for
\* every number of workers, messages, crashes, poison messages and stops.  The
\* other faults break it: a failed query of the count leaves a run uncounted,
\* a lost lock lets two workers take the same batch for a new one,
\* and a week without a worker takes the count away.
THEOREM RunsBounded == FaultKinds \subseteq {"crash", "stop"} => (Spec => []RunBound)
<1> SUFFICES ASSUME FaultKinds \subseteq {"crash", "stop"} PROVE Spec => []RunBound
  OBVIOUS
<1> DEFINE Inv == BatchInv /\ SeatInv /\ SeenInv /\ RanInv
<1>1. Init => Inv
  <2> SUFFICES ASSUME Init PROVE Inv
    OBVIOUS
  <2>1. BatchInv /\ SeenInv
    BY DEF Init, QueueInit, BatchInv, SeenInv, Holds, NoRun, Current, Batch
  <2>2. SeatInv
    BY DEF Init, SeatInv, LockInv, Opens
  <2>3. RanInv
    BY WorkerAssumption DEF Init, QueueInit, RanInv, RunBound
  <2>4. QED
    BY <2>1, <2>2, <2>3
<1>2. TypeInv /\ Inv /\ [Next]_vars => Inv'
  <2> SUFFICES ASSUME TypeInv, Inv, [Next]_vars PROVE Inv'
    OBVIOUS
  <2>1. "lost" \notin FaultKinds /\ "dberr" \notin FaultKinds /\ "week" \notin FaultKinds
    OBVIOUS
  <2>2. BatchInv' /\ SeatInv' /\ SeenInv'
    BY <2>1, BatchStep, SeatStep, SeenStep
  <2>3. RanInv'
    <3>1. CASE Still
      BY <3>1, RanKept DEF Still, Workless
    <3>2. QED
      BY <2>1, <3>1, StillOrCounts, RanCount
  <2>4. QED
    BY <2>2, <2>3
<1>3. Inv => RunBound
  BY DEF RanInv
<1>4. Spec => []TypeInv
  BY TypeCorrect, PTL DEF TypeInv
<1>5. QED
  BY <1>1, <1>2, <1>3, <1>4, PTL DEF Spec
=============================================================================
