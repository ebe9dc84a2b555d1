----------------------------- MODULE Schedules -----------------------------
(***************************************************************************)
(* The schedules of the queue worker: sendSchedules of worker_lead.go and  *)
(* sendSlot of postgres.go, run by several workers.  The worker lock lets  *)
(* one worker lead, but a statement of the former leader can still be in   *)
(* flight on the pool when the next one starts, so nothing here is         *)
(* exclusive.                                                              *)
(*                                                                         *)
(* Each worker has a clock of its own, up to Skew away from the true time, *)
(* and it can go back between two passes.  A statement can fail before or  *)
(* after its commit, and a worker can crash and restart with an empty      *)
(* cache.  A slot is its time; 0 is the zero time.Time and "no row".       *)
(***************************************************************************)
EXTENDS Integers, Sequences

CONSTANTS
  Worker,    \* the worker processes
  Every,     \* Every[i]: the period of schedule i
  Offset,    \* Offset[i]: the offset of schedule i in its period
  Skew,      \* how far a worker's clock can be from the true time
  MaxTime,   \* bound: the last true time
  MaxFaults  \* bound: the number of failed statements and crashes

Schedule == DOMAIN Every

ASSUME ScheduleAssumption ==
  /\ Every \in Seq(Nat \ {0})
  /\ Offset \in [Schedule -> Nat]
  /\ Skew \in Nat
  /\ MaxTime \in Nat
  /\ MaxFaults \in Nat

VARIABLES
  time,    \* the true time
  row,     \* row[i]: last_slot of job_schedules, 0 without a row
  cache,   \* cache[w][i]: s.last of worker w
  pass,    \* pass[w]: the pass of w over the schedules, None between passes
  sent,    \* sent[i]: the slots that sends of schedule i committed, in order
  faults   \* the number of faults so far

vars == <<time, row, cache, pass, sent, faults>>

None == [now |-> 0, i |-> 0]
Pass == [now : Nat, i : Schedule]

TypeOK ==
  /\ time \in Nat
  /\ row \in [Schedule -> Int]
  /\ cache \in [Worker -> [Schedule -> Int]]
  /\ pass \in [Worker -> Pass \cup {None}]
  /\ sent \in [Schedule -> Seq(Int)]
  /\ faults \in 0..MaxFaults

Init ==
  /\ time = 0
  /\ row = [i \in Schedule |-> 0]
  /\ cache = [w \in Worker |-> [i \in Schedule |-> 0]]
  /\ pass = [w \in Worker |-> None]
  /\ sent = [i \in Schedule |-> <<>>]
  /\ faults = 0

-----------------------------------------------------------------------------
\* The slot of schedule i at time now: now.Add(-offset).Truncate(every).Add(offset).
Slot(i, now) == ((now - Offset[i]) \div Every[i]) * Every[i] + Offset[i]

\* A pass reads the clock once, for all schedules.
BeginPass(w) ==
  /\ pass[w] = None
  /\ Schedule # {}
  /\ \E now \in (time - Skew)..(time + Skew) :
       /\ now >= 0
       /\ pass' = [pass EXCEPT ![w] = [now |-> now, i |-> 1]]
  /\ UNCHANGED <<time, row, cache, sent, faults>>

\* Mutant of NextSchedule: the loop runs one schedule too far.
NextScheduleLate(w) ==
  pass' = [pass EXCEPT ![w] = IF pass[w].i > Len(Every) THEN None
                              ELSE [pass[w] EXCEPT !.i = @ + 1]]

\* The pass of w goes on after its current schedule.
NextSchedule(w) ==
  pass' = [pass EXCEPT ![w] = IF pass[w].i = Len(Every) THEN None
                              ELSE [pass[w] EXCEPT !.i = @ + 1]]

\* Mutant of CommitSlot: the upsert loses its WHERE clause.
CommitAnySlot(i, slot) ==
  /\ row' = [row EXCEPT ![i] = slot]
  /\ sent' = [sent EXCEPT ![i] = Append(@, slot)]

\* The statement of sendSlot committed: the upsert takes only a later slot,
\* and what it takes is sent.
CommitSlot(i, slot) ==
  IF row[i] < slot
  THEN /\ row' = [row EXCEPT ![i] = slot]
       /\ sent' = [sent EXCEPT ![i] = Append(@, slot)]
  ELSE UNCHANGED <<row, sent>>

\* The slot was handled by this worker before: no statement runs.
Skip(w) ==
  /\ pass[w] # None
  /\ LET i == pass[w].i IN Slot(i, pass[w].now) <= cache[w][i]
  /\ NextSchedule(w)
  /\ UNCHANGED <<time, row, cache, sent, faults>>

\* sendSlot returns: the cache moves also when another worker sent the slot.
SendSlot(w) ==
  /\ pass[w] # None
  /\ LET i == pass[w].i
         slot == Slot(i, pass[w].now)
     IN /\ slot > cache[w][i]
        /\ CommitSlot(i, slot)
        /\ cache' = [cache EXCEPT ![w][i] = slot]
  /\ NextSchedule(w)
  /\ UNCHANGED <<time, faults>>

\* Mutant of SendFails: s.last moves before the error of sendSlot is seen.
CacheBeforeError(w) ==
  /\ pass[w] # None
  /\ faults < MaxFaults
  /\ faults' = faults + 1
  /\ LET i == pass[w].i
         slot == Slot(i, pass[w].now)
     IN /\ slot > cache[w][i]
        /\ CommitSlot(i, slot) \/ UNCHANGED <<row, sent>>
        /\ cache' = [cache EXCEPT ![w][i] = slot]
  /\ pass' = [pass EXCEPT ![w] = None]
  /\ UNCHANGED time

\* sendSlot fails, before or after the commit: the pass ends, so the
\* schedules after this one wait for the next pass.
SendFails(w) ==
  /\ pass[w] # None
  /\ faults < MaxFaults
  /\ faults' = faults + 1
  /\ LET i == pass[w].i
         slot == Slot(i, pass[w].now)
     IN /\ slot > cache[w][i]
        /\ CommitSlot(i, slot) \/ UNCHANGED <<row, sent>>
  /\ pass' = [pass EXCEPT ![w] = None]
  /\ UNCHANGED <<time, cache>>

\* The process dies and starts again: NewWorker has no slot in its cache.
Crash(w) ==
  /\ faults < MaxFaults
  /\ faults' = faults + 1
  /\ pass' = [pass EXCEPT ![w] = None]
  /\ cache' = [cache EXCEPT ![w] = [i \in Schedule |-> 0]]
  /\ UNCHANGED <<time, row, sent>>

Tick ==
  /\ time < MaxTime
  /\ time' = time + 1
  /\ UNCHANGED <<row, cache, pass, sent, faults>>

SendSchedules(w) == BeginPass(w) \/ Skip(w) \/ SendSlot(w) \/ SendFails(w)

Next == Tick \/ \E w \in Worker : SendSchedules(w) \/ Crash(w)

Spec == Init /\ [][Next]_vars

\* Some worker leads and its slot timer fires every second.
FairSpec == Spec /\ WF_vars(\E w \in Worker : SendSchedules(w)) /\ WF_vars(Tick)

-----------------------------------------------------------------------------
(* Properties.                                                             *)

\* The slots of a schedule are sent in order and each at most once, whatever
\* the clocks of the workers say and whichever worker leads (postgres.go:275).
SlotsIncrease ==
  \A i \in Schedule : \A j, k \in 1..Len(sent[i]) :
    j < k => sent[i][j] < sent[i][k]

\* A worker's cache never runs ahead of the table, so it never suppresses a
\* slot that the table would still accept (worker.go:100).
CacheBehindRow ==
  \A w \in Worker, i \in Schedule : cache[w][i] <= row[i]

\* The slot s of schedule i is current on every clock.
Current(i, s) == LET now == time - Skew IN now >= s /\ Slot(i, now) = s

\* A slot whose time has come on every clock is sent, or a later one is,
\* although statements fail and workers restart.
SlotsAreSent ==
  \A i \in Schedule : \A s \in 1..MaxTime :
    Current(i, s) ~> (row[i] >= s)

=============================================================================
