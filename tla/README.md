# Formal models of yet-another-go-boilerplate

The repository is a Go web application: server-rendered pages with sessions,
notes, a chat over a language model, a triage form, and background jobs on
PgQue, a queue inside PostgreSQL. These modules model the program: the queue
worker, which is its hardest part (several processes, one advisory lock, a
queue that delivers at least once, handlers that fail, hang or kill their
process, a drain at shutdown), and the components that answer requests, start
the process and end it.

Paths in this document are relative to the repository.

## Inventory

| Component | State | Operations | Hard because | Correct when |
|---|---|---|---|---|
| Queue worker (`internal/platform/queue`) | the lock session, `runCtx`, `handlerCtx`, one consume goroutine per consumer, `queue_batch_runs`, `job_schedules` | `Run`, `lead`, `tickLoop`, `maintain`, `drain`, `openBatch`, `runAll`, `giveUp`, `finishBatch`, `leaveOpen`, `sendSchedules`, `RunDue` | two workers around a lost lock or a handler that ignores its context; queries that fail after their effect; crashes; stops at any point; clocks that disagree | no message is lost or doubled, retries are bounded and earned, a crashing message cannot block the queue, a slot is sent once |
| PgQue (`migrations/20261026215434_install_pgque.sql`, vendored) | event tables, ticks, one subscription, retry queue, dead letters | `send`, `ticker`, `next_batch`, `get_batch_events`, `event_retry_raw`, `event_dead`, `ack`, `maint_retry_events`, rotation, purge, replay | commits that a tick does not see; retries under old ids; table rotation | each event is in exactly one place |
| Sessions (`internal/auth`) | `sessions`, the cookie of the browser | `Insert` with a cap, `Get`, `Delete`, `DeleteExpired` in batches (a job), `LoadIdentity` | two logins of one user at once; answers in another order than their requests | the cap holds up to the logins in flight; a logout revokes; expired rows go; redirects end |
| Users (`internal/user`) | `users` | `Register`, `Authenticate`, `UpdateProfile` | two requests for one address; a row that changes while its hash is computed | one account per address; what was typed opens it; only its password does |
| Notes (`internal/note`) | `notes`, a cursor in a URL | list by keyset, add, delete | pages while rows come and go; equal times | no note that stays is skipped or shown twice |
| Chat, event stream, browser client (`internal/chat`, `platform/web/sse.go`, `static/app.js`) | one response, one page | stream text, end, error, panic | an error after the first byte; chunks cut anywhere; a second post | the client never takes a broken answer for a full one, and never pays twice |
| Triage (`internal/triage`) | the clock of one request | the form, the questions, `decide` | numbers from outside (NaN, limits); three timeouts in a row | a decision rests on a good answer; the page arrives |
| Rate limiter (`platform/web/ratelimit.go`) | a map of arrival times | `Limit`, `Allow`, `sweep`, `clientKey` | the clock is read before the mutex; the map is full; a header of the client | no client gets more than its rate; keys are the clients' and go when idle |
| Language models (`platform/llm`, `platform/systemone`) | the text so far | the two stream readers, the fakes, the routers | events that are missing or come early | a cut stream is an error, a whole one is not |
| Migrations (`platform/database/migrate.go`) | `schema_migrations`, a session lock | `Migrate` | processes of two versions start together; one dies; a cancelled statement still commits | each file is applied once and in order; no start waits for ever |
| Configuration and wiring (`platform/config`, `internal/app`) | the environment | `Load`, `Validate`, `NewModels` | values that are used long after they were read | nothing fails open; keys stay with their vendor |
| Process (`cmd/api`) | the servers, the pool | commands, `serve`, drain, deferred closes | the shutdown order; a stream longer than the drain | requests end before the pool closes; a signal ends the process |
| Test database (`internal/testdb`) | templates of test databases | used by tests only | | |

**How they interact.** A feature calls `queue.Send` in its own transaction; the
message becomes visible when that commits. The active worker ticks on its lock
connection; a tick closes a window of events, and each consumer reads the
windows one after another as batches. A failed message goes to the retry queue
and the maintenance moves it back to the event tables when it is due, or it
becomes a dead letter. The worker holds a session-level advisory lock for as
long as it is active, and sends the slots of the schedules; the one schedule of
the program starts the cleanup of the sessions. The web process and the worker
share only the database. Within the web process a request passes
`RecoverPanics`, `LoadIdentity`, the rate limiter and its handler, and the
handler of the chat or the triage calls a provider through a router that was
built from the configuration. `serve` owns the listeners, and the deferred
closes of `run` own the pool.

## Modules

| Module | Contents |
|---|---|
| `PgQue` | one queue with one subscription: the state of the tables and one operator per SQL function |
| `QueueWorker` | extends `PgQue`: a set of worker slots, each the goroutine of `Run`/`lead` and the consume goroutine that it starts; faults; the properties |
| `Delivery` | the abstract specification of the queue: at-least-once delivery with a bounded number of retries, with no workers, batches or tables |
| `Schedules` | `sendSchedules` and `sendSlot` of several workers with clocks of their own |
| `WorkerSetup` | the registration of a worker, `waitForCheck`, and `RunDue` with several consumers |
| `Sessions` | the session table under concurrent logins, logouts and the cleanup, statement by statement |
| `SignIn` | one browser with several tabs against the session middleware and its handlers |
| `Accounts` | the accounts with their unique address, logins and profile updates |
| `NotePages` | the notes and a tab that walks through their pages |
| `Provider` | the abstract specification of one model call: what `llm.Provider` promises |
| `StreamReaders` | the adapters `anthropic` and `chatcompletions` and the fake, line by line; implements `Provider` |
| `AnswerStream` | one question of the chat from the submit to the end: page, network, handler, and a call of `Provider` |
| `EventFormat` | the bytes of the event stream, from `Send` to `parseEvent` |
| `Triage` | one triage with its time, its providers and its decision |
| `RateLimiter` | `Limit`, `Allow` and `sweep` with the time between them |
| `Migrations` | `Migrate` in several starts of several versions |
| `Startup` | the environment, `Load`, `Validate`, `NewModels`, and the calls of the started server |
| `Process` | the main goroutine, the listeners, the requests and the pool of one process |
| `TabView`, `AccountLookup`, `StreamEnd`, `ChatPage`, `TriageDecision`, `ServedConfig`, `ProcessEnd`, `SessionTable`, `NoteWalk`, `DueCall` | the part of `SignIn`, `Accounts`, `StreamReaders`, `AnswerStream`, `Triage`, `Startup`, `Process`, `Sessions`, `NotePages` and `WorkerSetup` that their users see: its variables and what they promise |
| `MCQueueWorker`, `MCRequests`, `MCStarts`, `MCServing` | the instances for TLC |
| `QueueWorkerProofs`, `RunCountProofs`, `DeliveryProofs` | the theorems of the queue |
| `TableProofs` | of the schedules, the sessions and the notes |
| `RequestProofs` | of the limiter, the accounts and the triage |
| `AnswerProofs` | of the stream readers |
| `ServingProofs` | of the chat, the sign-in and the process |
| `StartProofs` | of the migrations, the configuration and `RunDue` |

`Schedules` and `Sessions` meet in the cleanup job, `SignIn` takes a session as
an element of a set whose rows `Sessions` explains, `AnswerStream` instantiates
`Provider` and `StreamReaders` implements it, so what the page shows rests on
what the adapters do. A component extends the module of what its users see, and
so do the instance for TLC and the proofs, which therefore speak of the same
property. `Process` has `Migrate` as one step, whose inside is
`Migrations`.

Three instances hold several components side by side. They share no state in
the program either, so their product says nothing that the parts do not: a
variable `part`, chosen at the start, says which component runs, and the others
stay in their initial state. The states of such an instance are the sum of
those of its components. Its properties are named after what they say; where a
component has several small claims about one subject they are one property of
the instance, and the claims keep their own names and comments in the module of
the component.

### PgQue

| Variable | Code |
|---|---|
| `sent` | the ids that `nextval(queue_event_seq)` gave to a send |
| `fresh` | the rows of the event tables after the last tick |
| `win`, `tick` | `pgque.tick`, with the events between two ticks |
| `last`, `open` | `sub_last_tick`, `sub_batch is not null` |
| `retryQ`, `dead` | `pgque.retry_queue`, `pgque.dead_letter` |

`next_batch_custom` takes a batch id from a sequence only when it opens a new
window, so there is one batch id per window and the model uses the number of the
window for both. `Acknowledge` is the transaction of `finishBatch`: the
failures, and then `pgque.ack`. It is one step because it is one transaction:
of two workers that finish the same batch, the second finds no open batch in
`ack` (or a row with the same key in `retry_queue`) and rolls back.
`MaintRetryEvents` is one call of `maint_retry_events`, with its limit of 10;
`moveRetries` calls it again and again, each call in a transaction of its own.
Which rows are due is nondeterministic, since the delays have a random part.

An inserted event belongs to the window in which it commits. The snapshots that
make this true (`batch_event_sql`) are not modelled yet. Table rotation is left
out: it truncates a table that every subscription is past, so the only effect
would be that windows at or below `last` vanish, and those are never read.
`Ticker` may close an empty window when `IdleTicks` is TRUE. The code does this
after an idle period; it adds states and no new order of events, so the runs
for single questions leave it out.

### QueueWorker

A **slot** is one call of `lead`. `lead[w]` is where the goroutine of `Run` is
(`standby`: waiting for the lock; `active`: in `tickLoop`; `draining` and
`stopping`: in `drain`, before and after the grace period). `conn[w]` is the
lock connection, `hctx[w]` is whether `handlerCtx` is live. `pc[w]` is where
the consume goroutine is: `idle` (top of the loop, before `currentBatch`),
`next` (`nextBatch`), `count` (`countRun`), `read` (`batchMessages`), `run`
(`runAll`, `finishBatch` or `leaveOpen`). `run[w]` has its local variables.
When a handler outlives the drain, its goroutine goes on in its slot and the
process can lead again in another one, as `Run` does after a lost lock.

| Action | Code |
|---|---|
| `TryLock`, `Unlock` | `tryLock`, `unlock` |
| `TickOn` | `tickOn` on the lock connection |
| `Maintain`, `PurgeRuns` | `moveRetries` and `purgeRuns` of `maintain` |
| `LoseSession`, `LostLock` | the session ends; the next tick sees it, and `lead` stops the handlers |
| `Stop`, `GraceOver`, `Drained`, `HardLimit` | SIGTERM and `drain` |
| `CurrentBatch`, `NextBatch`, `NoBatch`, `CountRun`, `BatchMessages` and their `...Fails` | `openBatch`, one action per query |
| `StartHandler`, `EndHandler`, `SkipRest` | `runAll` and `runHandler` |
| `FinishBatch`, `FinishBatchFails` | `finishBatch` and its rollback |
| `LeaveOpen`, `LeaveOpenFails` | `leaveOpen` |
| `Crash`, `HandlerKills` | the process dies; the server ends its session |

Choices that a reader should know:

- Each query of the consume goroutine is a step of its own. A query can fail
  before or after its effect; after the end of `runCtx` each query that is
  still to come fails, and one that is in flight goes either way. A commit whose answer is
  lost is a `FinishBatch`, since the error is only logged.
- `currentBatch` fails as the code does: without an error (see *Findings*).
- The end of `ctx` and the return of `tickLoop` are one step. So are the death
  of a process and the end of its lock session on the server.
- The drain waits for the consumer only. The maintenance goroutine ends by its
  own timeout; what it may still commit is possible in every state but
  `standby`.
- The handlers run in the order of the event ids. A panic, a handler timeout
  and a type without a handler are errors to the worker and are the outcome
  `err`. A message of `Poison` kills its process whenever it runs.
- `runs[b] = 0` stands for no row and for a row with 0: the next update gives
  the same result for both.
- `done`, `permed`, `opens`, `ran` and `faults` are history variables. The first
  four exist for the properties, the last one bounds the faults; no guard of a
  program step reads any of the first four.
- `sendSchedules` is in `Schedules`; the registration, `waitForCheck` and
  `RunDue`, which tests use without the lock, are in `WorkerSetup`. Not in the
  model: `purgeDead`, `dlq_replay`, the wake channel and the lengths of the
  sleeps.

### Schedules

`row` is `last_slot` of `job_schedules`, `cache` is `s.last`, `pass` is where a
worker is in the loop of `sendSchedules`. `CommitSlot` is the statement of
`sendSlot`, in which the upsert and the send commit together. Each worker reads
a clock that is up to `Skew` from the true time, once per pass (`BeginPass`);
`SendFails` is an error before or after the commit, and `Crash` empties the
cache. Workers are not exclusive here: a statement of the former leader can be
in flight when the next one starts.

### WorkerSetup

The actions `Register`, `Handle` and `AddSchedule` are the three methods with
their panics. `CheckFails` and `CheckFinds` are a turn of `waitForCheck`; a
check without a consumer needs no query, and the end of the context stops it.
`RunDue` is a series of steps, since each of its parts has a transaction of its
own and producers run in between: `CheckDue`, `SendSchedules`, `MoveRetries`,
`forceTick`, `tick`, then `HandleBatch` for each batch of each consumer. Each
step can fail, before or after its effect. `owed` is the work at the start of
the call, `ran` what was taken; both exist for the property only.

### Sessions and SignIn

A login is one READ COMMITTED transaction: `Insert`, the snapshot of the DELETE
(`FindVictims`), its end (`DeleteVictims`, after the transactions that hold its
rows) and `Commit`. `FindExpired` and `DeleteExpired` are one statement of the
cleanup in the same way. A token is a number in the order in which the logins
begin, which is only a name for it.

In `SignIn` a tab has sent a request, has passed `LoadIdentity`, or has an
answer on the way. The request carries the cookie of the moment it was sent,
and the jar takes the cookie of an answer when it arrives. `LoseSession` is
whatever ends a session behind the back of the browser.

### Accounts

A text is a record of what the validation tells apart. `Register` and `Update`
are one statement each, with the unique index as a guard; a login reads
(`ReadLogin`), computes and finishes (`FinishLogin`), and the account can change
in between. The hash is an injective record; its cost is not modelled, its
limits on the length are.

### NotePages

`InsertNote` and `Commit` are the start and the end of an insert, since a note
gets its time at the start. The tab opens any cursor, follows the link, deletes
a note and gets the same page again. `listed` is the page that the tab shows,
`before` what the earlier pages of the walk showed. A cursor is text with the digits of its
time, so a format that loses some is visible. `stable` is the history of the
notes that were there all the time of the walk.

### Provider, StreamReaders and AnswerStream

`StreamReaders` reads one line at a time; the server, which is external, sends
the lines of either protocol in the order that its API documents, ends the body
after any of them, cuts one in half, or sends an error. `KeepsPromise` is the
specification of `Provider` with the same variables.

`AnswerStream` has the handler (`Pass` ... `Finish`, `E`, `Panic`), the network
(`Cut`), and `streamForm` with `readEvents` (`StreamStarts` ... `BodyEnds`). An
event is on the wire in two halves, so a cut inside one is possible. A page that
has the answer is the piece "answer", any other page is "page". `Fallback` posts
the form again when the first response was no stream.

### EventFormat

Texts are sequences of characters here, since the property is about them:
carriage returns, line feeds, colons and spaces. A chunk is any prefix of what
is on the wire, up to `MaxChunk` or all of it.

### Triage

`Tick` is the time, in units of five seconds; a phase that is at its limit has
to end. The answer of a real provider is any record that the JSON can hold,
with NaN as a number that compares false with all others. `AcquireMax` is how
long a request waits for a connection of the pool; see *Where the documents
promise more* for a pool that is busy.

### RateLimiter

`Limit` computes the key and reads the clock; `Admit`, `RefuseEarly` and
`RefuseFull` are the three ends of `Allow`, each with its `sweep`. The request
waits between the two for at most `Delay`. `adm` and `promise` are histories:
the admissions of a key, and when its last refusal told it to come back.

### Migrations

A start has a session. `Fail` is any error; a cancelled statement breaks the
session, and `Drop`, the server's end of it, decides whether a COMMIT that was
on its way took effect and only then frees the lock. `Release` is
`releaseMigrationLock`: the unlock works, or the connection is closed.

### Startup

The names in references and regions are sequences of parts, so the checks of
their form are the checks of the code. `Route` is a call through a router by
the running server; a call has the host and the key it was sent to.

### Process

`stage` is the step of the main goroutine: `run`, then a command or `serve`,
then the deferred calls. The two listeners and the requests run beside it. A
request holds a connection of the pool while it is in a query; `Exit` waits for
those (`pool.Close`), and ends every other handler.

## Properties

The queue (`MCQueueWorker`):

- `TypeOK`: types, and that the subscription is never ahead of the ticks.
- `NoLoss`: a sent message is deliverable, in the retry queue, a dead letter, or
  its handler returned nil.
- `SingleCopy`: at most one event under an id, in exactly one place. Two copies
  would collide in the key of `retry_queue` and block their batches.
- `DeadOnlyWhenSpent`: a dead letter used all its retries or its handler
  returned `queue.Permanent`.
- `Implements`: each step is a step of `Delivery` or invisible to users. Here
  `live` is every event that can still be delivered, `succeeded` and `refused`
  are the reports of the handlers.
- `Exclusive`: handlers run in two workers with live contexts only when a lock
  session was cut.
- `CountEarned`: the count of an open batch is below the number of times that
  it was opened without being taken back. A stopped run thus costs nothing,
  also when the next worker opened the batch before `leaveOpen` ran.
- `RunBound`: at most `maxBatchRuns` runs of a batch reach its handlers without
  a finish or a stop.
- `Settles`, `PoisonBuried`: every message ends; a message that kills its
  process ends as a dead letter.

`MCRequests` and `MCServing` have one type invariant each, `Types`, which covers
the components of `MCStarts` except `Startup`, whose types are a theorem.
Beside it:

| Property | Says |
|---|---|
| `SlotsIncrease`, `CacheBehindRow` | no slot of a schedule is sent twice or after a later one; the cache of a worker never hides a slot that the table would take |
| `SlotsAreSent` | a slot whose time has come on every clock is sent, or a later one |
| `CapKept` | n logins at once leave at most n - 1 sessions above the cap, a lone login restores it, and a session is gone only because it was ended, expired, or pushed out by enough others |
| `ExpiredRemoved` | every expired session leaves the table, also when rows vanish under the cleanup |
| `LogoutRevokes` | a request that leaves after a logout with the cookie of it is anonymous, also when an old answer brought the cookie back |
| `EveryRequestEnds` | no tab is redirected for ever |
| `OneOwner` | one account per address in any spelling; what a user typed opens the account; only its password does, while addresses move between accounts |
| `FaithfulWalk` | a walk through pages shows the owner's notes in order and once, and misses none that was there all the time |
| `KeepsPromise`, `WholeIsAccepted` | an adapter implements `Provider`: what ended early is no answer; and a stream that came whole is never refused at its end |
| `OneWholeAnswer` | what the page takes for complete is complete; a question makes at most one model call although the page can post twice; a response is a stream or a page, not both |
| `EarlyEndIsTold`, `QuestionEnds` | an answer that fails after the stream began shows the notice; page and handler end |
| `RoundTrip` | the page gets the events that were sent, however the bytes are cut |
| `SafeDecision` | a decision rests on a good answer to the question that was asked, a person reviews the fake's, and the page leaves before the write deadline |
| `Spacing` | n + 1 admissions of a key span n intervals less the burst |
| `FairKeys`, `LateKeysAreFair` | without and with a delay before the mutex: no key is made up by a client, a client that comes back when it was told is not refused again, and no key stays longer than a sweep after its use |
| `RunsOnce`, `InOrder`, `MigratedIsComplete` | no file takes effect twice, each runs after the earlier ones of its version, and success means all of them |
| `EveryStartEnds` | no start waits for ever for the lock, whatever happened to the session that had it (that the pool never gets a connection with the lock is proved, not run) |
| `SafeStart` | a started server routes every call, sends a key only to its vendor, and does not fail open on a variable that is missing or misspelt |
| `OrderlyEnd`, `SignalEnds` | exit 0 means that every accepted request was answered, no request finds the pool closed while its client waits, and a signal ends the process |
| `DueIsHandled` | `RunDue` handles all that was due at its call, and returns the count |
| `StartIsDecided` | when the database is back, `Run` leads or reports a setup that no retry can fix, and only such a setup ends it |

## Runs

| Run | Bounds | Shows |
|---|---|---|
| `delivery` | 2 messages, 1 retry, 2 ticks with empty windows, 1 fault of any kind | `TypeOK`, `NoLoss`, `SingleCopy`, `DeadOnlyWhenSpent`, `Implements` |
| `overlap` | 1 message, 1 retry, 2 ticks, `MaxBatchRuns` 2, 3 faults but not `week` | `Exclusive`, `CountEarned` |
| `bound` | 1 message, 1 tick, `MaxBatchRuns` 3, 5 crashes or stops | `RunBound` |
| `settle` | 2 messages, one kills its process, 1 fault | `Settles` |
| `poison` | 1 message that kills its process, 1 retry, 2 faults | `PoisonBuried` |
| `uncounted`, `leftover`, `deploy`, `drain` | the smallest instance of each | a disagreement; see *Findings* |
| `requests` | the components that answer requests, below | `Spacing`, `OneOwner`, `FaithfulWalk`, `SafeDecision`, `RoundTrip`, `FairKeys`, `LateKeysAreFair`, `CapKept`, `KeepsPromise`, `WholeIsAccepted` |
| `starts` | migrations, configuration, `RunDue` | `RunsOnce`, `InOrder`, `MigratedIsComplete`, `SafeStart`, `DueIsHandled` |
| `serving` | the components with liveness | the rest |

The queue runs use `MCQueueWorker` with two workers.

**Why the bounds are enough to see the interesting cases.** Two messages make a
batch in which one message succeeds, the other fails and a stop comes between
them. Two ticks make a retry arrive in a later window, and let one worker
finish a batch while the other still runs it and the next window is waiting.
One fault is a crash, a lost lock, a stop or a failed query at any point; `lost`
alone gives two workers in one batch. Three faults let the two workers change
roles. Five crashes or stops are more than `MaxBatchRuns`, so the batch gives
up. `HistoryCap` is above what the histories reach in any of these instances
(checked with TLC). A history that reaches it stays there, stands for any
number, and `CountEarned` claims nothing of such a batch.
`MaxTick` ends the queue: behaviours then only stutter or run maintenance. With
`MaxRetries` 1 a message needs two windows, so two ticks do not cut it short.

The fault `week` is a week without a worker, after which `purgeRuns` deletes
the count of a batch that is still open. `RunBound` and `CountEarned` do not
hold with it, and `delivery` shows that it loses nothing.

**Symmetry** is over the workers, in the runs of the queue without liveness
only.

**The bounds of the other runs.** They are in the comments of `MCRequests`,
`MCStarts` and `MCServing`; each is the smallest in which the hazard happens.

- *requests*: one request at a time for the rate itself, on three keys and a
  table of two, so that the table is full and a sweep frees it; two requests
  with readings of the clock that enter the mutex in the wrong order; four
  logins, two at a time, against a cap of two, so that two overlap and a lone
  one follows; two accounts that swap two addresses while two requests run;
  three notes, pages of one note and two times, so that notes share a time and
  come and go during the walk; answers of three parts; data of two characters
  in two events, cut everywhere; a triage with values on both sides of each
  limit, NaN and a value out of range.
- *starts*: one start of an old version that knows files 1 and 3 and two of a
  new one with 2 and 4, so that a file appears below one that was applied;
  every environment over the classes of text that the checks tell apart; two
  consumers of one queue, two messages and two calls of `RunDue`.
- *serving*: two workers, two schedules with different periods and offsets,
  clocks that differ by two and one fault; two logins and two tabs; an answer
  of two parts; two starts; three requests of a process; two consumers of a
  worker, of which one can have a bad name or no subscription.

The clocks end at `MaxTime` or `MaxNow`. The properties that must happen in the
end speak of slots and sessions whose time is before it.

**Views.** `requests` leaves the admissions of its second limiter out of the
state (`NoLateHistory`); no property of that limiter reads them.

**Deadlock** is not checked in the runs of several components, where a process
that exited, a request that was answered and a clock at its bound are ends.

**Fairness** of the queue (`Fairness` in `QueueWorker`, used by `settle` and
`poison`):

- Some active worker goes on ticking (`tickLoop` has a timer), the maintenance
  runs every 10 s, and a worker that waits tries the lock again each
  `standbyInterval`; a process that died is restarted by the container.
- `lead` goes on: the next tick sees a dead connection, and `drain` has two
  timers.
- The consume goroutine goes on. This assumes that a handler ends in the end or
  kills its process. A handler that ignores its context for ever blocks its
  batch: nothing in the code ends it but the process, which the run count then
  treats as a crash.
- Producers, stops, crashes and failures have no fairness.

Of the other components (`FairSpec` in each module, and the formulas of the
same shape in `MCServing`):

- `Schedules`: some worker leads and its slot timer fires every second; the time
  goes on. No single worker has to run.
- `Sessions`: a transaction ends, by a commit or a rollback (the statement
  timeout), and the hourly cleanup is scheduled.
- `SignIn`: the server answers and the answer arrives, for each tab. Users have
  none.
- `AnswerStream`: the handler goes on, since the call has a deadline and a write
  on a broken connection returns; the page reads what is there. The model and
  the network have none, so a model that stops sending is covered.
- `Migrations`: a start that can go on does, and the server notices a session
  without a client (TCP keepalive).
- `Process`: the main goroutine runs, which includes the ten seconds of
  `Shutdown`, and a query ends (statement timeout). Handlers have none: a stream
  can be longer than the drain.
- `WorkerSetup`: the loop of `waitForCheck` goes on, and `Run` looks at its
  context.

All of it is weak fairness; no step relies on a choice that the code does not
make.

## Proofs

For every value of the constants that the assumptions of the modules allow: any
number of messages, workers, ticks, faults, retries and runs; any schedules,
offsets and clocks; any interval, burst, table and sweep; any starts and files;
answers of any length; any number of tabs, accounts and requests; any cap and
any number of logins, of which any number overlap; any notes, writers and page
size; any consumers, batches and calls of `RunDue`.

| Theorem | Module | States |
|---|---|---|
| `TypeCorrect` | `QueueWorkerProofs` | `Spec => [](TypeOK /\ HasBatch)` |
| `MutualExclusion` | `QueueWorkerProofs` | `Spec => []Exclusive` |
| `OneCopy` | `QueueWorkerProofs` | `Spec => []SingleCopy` |
| `CountsEarned` | `RunCountProofs` | `"week" \notin FaultKinds => (Spec => []CountEarned)` |
| `RunsBounded` | `RunCountProofs` | `FaultKinds \subseteq {"crash", "stop"} => (Spec => []RunBound)` |
| `NothingLost` | `DeliveryProofs` | `Spec => []NoLoss` |
| `DeadLettersSpent` | `DeliveryProofs` | `Spec => []DeadOnlyWhenSpent` |
| `Refinement` | `DeliveryProofs` | `Spec => Implements` |
| `SlotsSentOnce` | `TableProofs` | `Spec => []SlotsIncrease` |
| `CacheIsBehind` | `TableProofs` | `Spec => []CacheBehindRow` |
| `CapHolds` | `TableProofs` | `Sessions!Spec => CapKept` |
| `WalkHolds` | `TableProofs` | `Notes!Spec => []FaithfulWalk` |
| `RateHolds` | `RequestProofs` | `Delay = 0 => (Spec => []Spacing)` |
| `KeysAreFair` | `RequestProofs` | `Spec => FairKeys` |
| `OneOwnerHolds` | `RequestProofs` | `Accounts!Spec => []OneOwner` |
| `TriageIsSafe` | `RequestProofs` | `InTime`, `Value \subseteq Int`: `Triage!Spec => []SafeDecision` |
| `PromiseKept` | `AnswerProofs` | `Spec => KeepsPromise` |
| `WholeAccepted` | `AnswerProofs` | `Spec => WholeIsAccepted` |
| `WholeAnswer` | `ServingProofs` | `Spec => []OneWholeAnswer` |
| `EndIsTold` | `ServingProofs` | `Spec => EarlyEndIsTold` |
| `LogoutHolds` | `ServingProofs` | `SignIn!Spec => []LogoutRevokes` |
| `EndInOrder` | `ServingProofs` | `Process!Spec => []OrderlyEnd` |
| `FilesRunOnce` | `StartProofs` | `Spec => []RunsOnce` |
| `FilesInOrder` | `StartProofs` | `Spec => []InOrder` |
| `ReturnsComplete` | `StartProofs` | `Spec => [](MigratedIsComplete /\ PoolHasNoLock)` |
| `StartIsSafe` | `StartProofs` | `Environment \subseteq Startup!Variables`: `Startup!Spec => []SafeStart` |
| `StartTypes` | `StartProofs` | `Environment \subseteq Startup!Variables`: `Startup!Spec => []Startup!TypeOK` |
| `DueHandled` | `StartProofs` | `Due!Spec => []DueIsHandled` |
| `ProcessTypes` | `ServingProofs` | `Process!Spec => []Process!TypeOK` |
| `SignInTypes` | `ServingProofs` | `MaxToken \in Nat`: `SignIn!Spec => []SignIn!TypeOK` |
| `AccountTypesHold` | `RequestProofs` | `Accounts!Spec => []Accounts!TypeOK` |
| `TriageTypes` | `RequestProofs` | `Value \subseteq Int`, `{0, 5} \subseteq Value`: `Triage!Spec => []Triage!TypeOK` |

The types of the schedules, the limiter, the migrations and the sessions are
theorems too (`ScheduleTypes`, `LimiterTypes`, `MigrationTypes`,
`SessionTypesHold`); they follow from the invariants of the rows above or from
the steps one by one.

**Hypotheses.** Four theorems restrict the constants beyond the assumptions of the
modules.

- `"week" \notin FaultKinds`: leaving a stopped first run takes its count to -1,
  `purgeRuns` can delete that row after a week, and the next open then counts
  the run that was taken back.
- `FaultKinds \subseteq {"crash", "stop"}`: each other fault breaks `RunBound`.
  A failed query leaves a run uncounted (finding 1), after a lost session two
  workers take one batch for a new one, and `week` takes the count away.
- `Delay = 0`, for `Spacing` only: with a delay it fails, see *Where the
  documents promise more*.
- `InTime`: the wait for a connection, the statement and the triage together
  end before the write deadline, and so do the form and the triage. In the code
  these are 5 s (`statement_timeout`), 10 s (`triageTimeout`), 10 s
  (`ReadTimeout`) and 30 s (`WriteTimeout`), so it holds while the wait for a
  connection is below 15 s; nothing in the code bounds that wait.

The assumptions of the three modules that the newest theorems rest on are what
the code has: a cap of at least one session (`maxSessionsPerUser` is 10) and a
lifetime (`SessionAssumption`), pages of at least one note and ids above zero,
since the zero cursor is the start of the list (`NoteAssumption`), and that the
message of a slot is none of the messages of a producer (`DueAssumption`).

The sets and the bounds restrict nothing of the program: the numbers of an answer
are whole tenths in the model, and `Startup!Variables` are all environments over
the classes of text that the checks of the code tell apart. `MaxToken`, and
`MaxNow` in `SessionTypesHold`, are numbers, and the fake answers with 0 and one
half, so `TriageTypes` takes these as numbers that an answer can have.

**The queue.**

- `TypeOK` is not inductive: the id of a batch is an index only while the
  consumer has a batch. `HasBatch` adds this.
- `Exclusive` follows from `LockInv`: a live handler context belongs to a
  worker whose connection holds the lock or was cut, and one connection holds
  the lock.
- `SingleCopy` speaks of ids. The inductive `Copies` speaks of the events
  themselves and adds that an event belongs to a sent message, so that a new
  one is new, and that the waiting windows are disjoint, so that a batch leaves
  `Waiting` alone when it is finished.
- `CountEarned` says nothing of the workers that opened a batch again and are
  about to count it. `EarnedInv` adds them: the count and those on their way
  are together below the opens. It is a statement on the cardinality of a set
  of workers, so `Workers` is finite. Both run-count proofs use `BatchInv`: a
  batch that was not opened has no history, and a worker that holds one holds
  the open one or one that is finished.
- `RunBound` follows from `RanInv`: the handlers saw the open batch at most once
  more often than it is counted, and a worker that read the count read at least
  that. `SeatInv` says that without a lost session only the worker with the lock
  opens batches, and `SeenInv` that it knows whether the batch was open.
- `StepKinds` reduces the steps of `QueueWorker` to five changes of the queue
  and steps that change none of it. Every property of the messages goes
  through it.
- `NoLoss`, `DeadOnlyWhenSpent` and `Implements` rest on `Copies` and on `Told`:
  a result `ok` or `perm` of a run is what the handler of that message
  reported. `FinishedBatch` draws from it what is known of a batch when it is
  acknowledged.
- `Refinement` also needs `Sent`, that a running handler has a message that was
  sent; then a handler's return is a `Report`, `FinishBatch` is a `Settle` of
  the whole batch, and ticks and moved retries are stutters.
- `SlotsIncrease` is not inductive: it says nothing of the row. `IInv` adds that
  no slot above the row was sent (`SentBelowRow`), so a slot that passes the
  WHERE of the upsert is a new last one.

**The tables with many writers.**

- `CapKept` counts sessions, but no step knows how many logins overlap: a login
  deletes what its snapshot saw, and the rows of others appear before and after.
  `OverlapInv` gives each login with a snapshot a witness, the set of the logins
  that were open at its snapshot. Of the rows that it will leave, all but
  `Keep - 1` are of that set, which has at most `Logins` members. The rows have
  the witness of the last snapshot among those that committed; which of two is
  the last is `Nested`: one set contains all of the other that still run.
  `LoneInv` is the case of one login without any other, and `PushInv` says that
  a row that is about to be deleted already has `Keep - 1` newer ones beside it,
  the deleting login being one more. The count in each step is a lemma on
  finite sets (`FewerCovered`, `UnionAtMost`).
- `FaithfulWalk` needs first that `Sorted` is a list at all: the number of newer
  notes is a rank without gaps, so a finite set of notes with different ids has
  exactly one descending enumeration (`SortedLists`). `PageShows` says of a page,
  whatever the table is, that each note behind the cursor is on it or behind the
  next cursor. The walk joins such pages while the table changes: `PlaceInv`
  puts all that was shown before the cursor of the page and the page behind it,
  `LeftInv` and `ShownInv` say where a note is that was there all the time.
  `CursorText` says that the text of a cursor loses nothing of it.
- `DueIsHandled` follows a delivery through a call. `OnePlace` says that it is
  among the fresh events, the retries or the batches, and in one of them only;
  `OwedWaits` says, for each step of the call, in which of them the work of its
  start can still be; `CountRan` that what a handler took is in no batch any
  more, so that it counts once, and that the consumers that were passed have no
  batch left. Failed steps end the call and owe nothing.

**The requests.**

- `Spacing` follows from `Behind`: every admission of a key is behind its
  arrival time by one interval for each admission since. A swept key counts
  with the current time instead (`Later`), which is where the sweep could go
  wrong, and `OnTime` says that no request enters with an older time.
- `FairKeys` is a conjunction of an invariant and two action properties, which
  `KeysInv` gives for every delay: a request in flight is late by the delay at
  most; a key in the table was in use after the last sweep, less the delay; and
  the arrival time of a key is never above its promise by more than the
  tolerance, so nobody moves a refused client's turn away.
- `OneOwner` needs, beside itself, that stored addresses are normalised
  (`RowsInv`), that the row has the hash of what its user typed (`TypedInv`),
  and that a hash which a login took out of the table is still that of its row
  (`LoginInv`), since nothing changes a hash.
- `SafeDecision` needs the time that was spent when a phase begins (`ClockInv`),
  and that the answers on which a decision was made are still there.
- `LogoutRevokes` holds since a login gets a new token: `Fits` relates every
  request, wherever it is, to the tokens that were given and to those that a
  logout ended.

**The answer of a model.**

- `KeepsPromise` and `WholeIsAccepted` are about one stream of lines that is read
  at one end while it is written at the other. `TextInv` says that there is a
  numbering of the text parts along the lines that goes from what `onText` took
  to what the model said; a step of the reader or of the server moves or extends
  it. `ReasonInv` and `EndInv` place the reason and the last line behind it.
- `OneWholeAnswer` uses the same idea for the pieces between the handler and the
  page (`PartsInv`, `Carries`), where the two halves of an event count once.
  `BodyInv` allows an end of the answer on the wire only after a good end of the
  model call, `HandlerInv` says when a header and a call have begun.

**Start and end.**

- `RunsOnce` needs to know who may write: `UnderLock` ties the program counter
  of a start to its session and the lock, and says that a transaction without
  its client is in a broken session that still has the lock. With it the list
  that a start read is exact (`ExactList`), and the next file of the list is new
  and first (`NextFile`).
- `SafeStart` goes stage by stage: `Loaded`, `Validated` and `Routed` say what
  is known of the environment behind each, and `Home` and `GoodCall` that a
  router has the key and the host of one vendor.
- `OrderlyEnd` needs which stages have a pool (`PoolInv`), which have a listener
  (`ListenInv`), and that a request is cut only by `srv.Close`, which leaves
  none running (`RequestInv`).
- `ProcessTypes` is more than types in one place: `errCh` has a capacity of two
  (`main.go:131`) and serve reads it at most once. `ErrorInv` charges every
  error to a server that is closed, so that two errors are the most that there
  ever are and no goroutine of a listener is left behind waiting. `DebugInv`
  says that there is no debug server before `startDebugServer`, or starting it
  could forget an error that was already charged.
- `SignIn!TypeOK` is not inductive: an answer that redirects nowhere must have a
  page (`Answers`). The types of the accounts rest on `TypedInv`, since a
  profile update changes the email of credentials that must be there.

**Only model-checked.** Every safety property of the passing runs is a theorem
but three. `RoundTrip` says what folds over a text compute; that needs induction
over data, whose theorems take an operator as a parameter, which none of the
installed provers can use. `Types` is the product of the type invariants of an
instance: those of eight components are theorems (ten with `StartTypes` and
`TypeCorrect`), and the proofs about notes, chat, readers and due calls contain
the types that they need instead. `LateKeysAreFair` is `FairKeys` of the limiter with a delay, and
`KeysAreFair` holds for every delay, so only its name is not in a theorem. All
that must happen in the end stays with TLC as well: liveness, fairness and
`ENABLED` are out of reach of the prover.

## Findings

Each is a run that TLC ends with a counterexample.

1. `uncounted`: `currentBatch` (`postgres.go:59`) answers "no open batch" for any
   failed query. The batch that then comes back is not counted, and its handlers
   run once more than `maxBatchRuns`. README.md:507-508 promises three.
2. `leftover`: after a lost lock, `leaveOpen` of the old worker can insert a
   count for a batch that the new worker finished. The comment at
   `postgres.go:91-93` says that only batches closed by hand leave one.
3. `deploy`: a stop between `next_batch` and the handlers is counted as a run
   that did not finish. Three such stops make the batch give up.
   README.md:526-527 says that a deploy cannot do that.
4. `drain`: a handler that ignores its context outlives the hard limit, and the
   next worker starts the same batch. The comment at `worker_lead.go:13-15`
   excludes it.

## Where the documents promise more

While modelling, seven more places came up where a comment or a document says
more than the code keeps. The component modules state each as a definition, and
no run lists it; TLC finds the counterexample when the instance names it.

| Definition | The text | The code |
|---|---|---|
| `Sessions!SessionCap` | "maxSessionsPerUser caps the sessions of one user" (`internal/auth/service.go:22`) | two logins at the same time do not see each other's uncommitted session (`postgres.go:46`); `CapKept` is what remains |
| `SignIn!ClearsOnlyStale` | "Clear a stale cookie, so the browser does not send it again" (`internal/auth/middleware.go:25`) | the answer that clears it can arrive after that of a login in another tab, and removes the good cookie |
| `RateLimiter!Spacing` with `Delay = 1` and two requests | a swept key "has its full burst again, so it is the same as a missing key" (`ratelimit.go:91-92`) | a request whose clock reading is older than the last sweep finds the key missing before its bucket was full |
| `AnswerStream!EarlyEndStaysVisible` | "the client shows that the answer stopped early" (`.agents/rules/http.md:160-161`) | another htmx request of the page that succeeds hides the one notice (`static/app.js:22`) |
| `Triage!PageArrives` with `AcquireMax = 4` | "shorter than http.Server.WriteTimeout, so the page always reaches the client" (`internal/triage/service.go:25-26`) | `LoadIdentity` waits for a connection of the pool without a deadline before the triage begins |
| `Startup!StartedServesItsModels` | "returns an error when no registered provider serves cfg.LLMModel" (`internal/app/models.go:43-45`) | `fake/m` has a registered provider, which knows one model and fails every call |
| `Process!CutAfterDrain` | "until ctx ends or a listener fails. Then it drains the open requests" (`cmd/api/main.go:113-114`) | when a listener fails, `serve` returns at once and its deferred `Close` cuts them |

## Not modelled

- PgQue: the snapshots behind a window, the rotation of the event tables, the
  purge and the replay of dead letters; cooperative consumers, roles and the
  uninstall, which the program does not call.
- The security headers, the request log and the log handler, the templates:
  they keep no state and no property here is about them.
- The JSON of the request bodies to the model servers, and the field names of
  their answers: encoding of fixed structures.
- The prompt of `adduser`, the route table, and the test database.
- The cost of a password hash. That it is injective is assumed.

## Plan

Done: `QueueWorker` with `PgQue`, `Delivery` and their proofs, the run counts
among them; `Schedules`; `WorkerSetup`; `Sessions` and `SignIn`; `Accounts`;
`NotePages`; `Provider`, `StreamReaders`, `AnswerStream` and `EventFormat`;
`Triage`; `RateLimiter`; `Migrations`; `Startup`; `Process`; and a theorem for
every safety property of the table except `RoundTrip`, `LateKeysAreFair` (a case
of `KeysAreFair`) and the type invariants of the instances, which are theorems
for most of their components.

Next, in this order:

1. The types of `NotePages`, `AnswerStream`, `StreamReaders`, `EventFormat` and
   `WorkerSetup` as theorems; that of `AnswerStream` needs that the page never
   has more parts than the model said, also on a cut connection.
2. `Snapshots`: ticks, concurrent transactions, `batch_event_sql` and rotation,
   shown to implement the windows of `PgQue`; dead letters with purge and
   replay.
3. `RoundTrip` for texts of any length, when the prover can use induction.
