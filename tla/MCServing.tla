----------------------------- MODULE MCServing -----------------------------
(***************************************************************************)
(* What has to end or to happen in the end, in components that share no    *)
(* state, side by side on small instances: the slots of the schedules, the *)
(* cleanup of the sessions, the tabs of a browser, a question of the chat, *)
(* the migrations, the life of a process, and the start of a queue worker. *)
(* In a behaviour one of them runs, which part says, and the others stay   *)
(* in their initial state.  The fairness of each component is the one of   *)
(* its FairSpec.                                                           *)
(***************************************************************************)
EXTENDS Schedules, TabView, ChatPage, ProcessEnd

VARIABLES
  part,  \* the component of this behaviour
  dbTime, pc, at, victims, alone, rows, ended, cleanup, picked,
  live, issued, loggedOut, cookie,
  path, handler, conn, half,
  applied, holder, starting, seen, cur, session,
  signal, late, debug, errCh,
  phase, consumers, handlers, schedules, up, cancelled, unsent, messages, fresh, due, later,
  batches, forced, next, handled, owed, ran, callsLeft

sessions == <<dbTime, pc, at, victims, alone, rows, ended, cleanup, picked>>
browser == <<live, issued, loggedOut, cookie, tab>>
question ==
  <<said, stopped, shown, result, calls, path, handler, status, wire, conn,
    page, half, output, answer, notice>>
migrations == <<applied, holder, starting, seen, cur, session>>
process == <<command, stage, returned, signal, late, pool, main, debug, errCh, req, cut>>
worker ==
  <<phase, consumers, handlers, schedules, up, cancelled, unsent, messages, fresh, due, later,
    batches, forced, next, handled, owed, ran, callsLeft>>
allVars == <<part, vars, sessions, browser, question, migrations, process, worker>>

-----------------------------------------------------------------------------
(* The instances.                                                          *)

\* Two schedules with different periods and offsets.
MCEvery == <<2, 3>>
MCOffset == <<0, 1>>

\* Two logins that replace each other, and a cleanup with batches of one row.
Sessions == INSTANCE Sessions WITH
  Token <- 1..2, Keep <- 1, TTL <- 1, Batch <- 1, Logins <- 2, MaxNow <- 2

\* Two tabs (Tab) and two logins.
SignIn == INSTANCE SignIn WITH MaxToken <- 2

\* An answer of two parts on a page with other htmx requests.
Chat == INSTANCE AnswerStream WITH MaxSay <- 2, Htmx <- TRUE

\* A start of an old version and one of a new version with an earlier file.
Migrations == INSTANCE Migrations WITH
  Proc <- {11, 12}, Files <- [p \in {11, 12} |-> IF p = 11 THEN {1, 3} ELSE {1, 2, 3}],
  pc <- starting

\* Three requests (Req).
Process == INSTANCE Process

\* Two consumers, of which one name is bad and one has no subscription.
Setup == INSTANCE WorkerSetup WITH
  Queue <- {"q", "p"}, Name <- {"a", "b", "Bad"}, Typ <- {"t", "u"},
  Subs <- {[queue |-> "q", name |-> "a"], [queue |-> "p", name |-> "a"]},
  Number <- {}, Entry <- {"Run"}, MaxMoved <- 1, MaxConsumers <- 2, MaxCalls <- 0,
  ended <- cancelled, sent <- messages, at <- next

-----------------------------------------------------------------------------
Part == {"schedules", "sessions", "tabs", "chat", "migrations", "process", "setup"}

ServingInit ==
  /\ part \in Part
  /\ Init /\ Sessions!Init /\ SignIn!Init /\ Chat!Init /\ Migrations!Init /\ Process!Init
  /\ Setup!Init /\ (part = "setup" \/ up)

\* All but component p stay.
Only(p) ==
  /\ part = p /\ UNCHANGED part
  /\ IF p = "schedules" THEN TRUE ELSE UNCHANGED vars
  /\ IF p = "sessions" THEN TRUE ELSE UNCHANGED sessions
  /\ IF p = "tabs" THEN TRUE ELSE UNCHANGED browser
  /\ IF p = "chat" THEN TRUE ELSE UNCHANGED question
  /\ IF p = "migrations" THEN TRUE ELSE UNCHANGED migrations
  /\ IF p = "process" THEN TRUE ELSE UNCHANGED process
  /\ IF p = "setup" THEN TRUE ELSE UNCHANGED worker

ServingNext ==
  \/ Only("schedules") /\ Next
  \/ Only("sessions") /\ Sessions!Next
  \/ Only("tabs") /\ SignIn!Next
  \/ Only("chat") /\ Chat!Next
  \/ Only("migrations") /\ Migrations!Next
  \/ Only("process") /\ Process!Next
  \/ Only("setup") /\ Setup!Next

\* Some worker leads and its slot timer fires; the time goes on.
SchedulesFair ==
  /\ WF_vars(part = "schedules" /\ \E w \in Worker : SendSchedules(w))
  /\ WF_vars(part = "schedules" /\ Tick)

\* A transaction ends, and the cleanup is scheduled.
SessionsFair ==
  /\ \A t \in 1..2 : WF_sessions(part = "sessions" /\ (Sessions!Commit(t) \/ Sessions!Abort(t)))
  /\ WF_sessions(part = "sessions" /\ Sessions!FindExpired)
  /\ WF_sessions(part = "sessions" /\ Sessions!DeleteExpired)

\* The server answers, and the answers arrive.
SignInFair ==
  \A b \in Tab :
    WF_browser(part = "tabs" /\ (SignIn!LoadIdentity(b) \/ SignIn!Handle(b) \/ SignIn!Deliver(b)))

\* The handler goes on, and the browser reads what is there.
ChatFair ==
  /\ WF_question(part = "chat" /\ (Chat!Refuse \/ Chat!Pass))
  /\ WF_question(part = "chat" /\ (Chat!OpenFails \/ Chat!Open \/ Chat!Invalid))
  /\ WF_question(part = "chat" /\ Chat!Return)
  /\ WF_question(part = "chat" /\ Chat!Finish)
  /\ WF_question(part = "chat" /\ Chat!E)
  /\ WF_question(part = "chat" /\ Chat!Browse)

\* A start goes on, and the server notices a session without a client.
MigrationsFair ==
  \A p \in {11, 12} :
    /\ WF_migrations(part = "migrations" /\ Migrations!Migrate(p))
    /\ WF_migrations(part = "migrations" /\ Migrations!Drop(p))

\* The main goroutine runs, and a query ends.
ProcessFair ==
  /\ WF_process(part = "process" /\ Process!Main)
  /\ \A r \in Req : WF_process(part = "process" /\ Process!QueryEnds(r))

\* The loop of waitForCheck goes on, and Run looks at its context.
SetupFair ==
  /\ WF_worker(part = "setup" /\ Setup!CheckFinds)
  /\ WF_worker(part = "setup" /\ Setup!RunStops)

ServingSpec ==
  /\ ServingInit /\ [][ServingNext]_allVars
  /\ SchedulesFair /\ SessionsFair /\ SignInFair /\ ChatFair
  /\ MigrationsFair /\ ProcessFair /\ SetupFair

-----------------------------------------------------------------------------
(* The properties of the instances.                                        *)

\* Every component keeps its types.
Types ==
  CASE part = "schedules" -> TypeOK [] part = "sessions" -> Sessions!TypeOK
    [] part = "tabs" -> SignIn!TypeOK [] part = "chat" -> Chat!TypeOK
    [] part = "migrations" -> Migrations!TypeOK [] part = "process" -> Process!TypeOK
    [] part = "setup" -> Setup!TypeOK

\* Every expired session leaves the table in the end.
ExpiredRemoved == Sessions!ExpiredRemoved

\* Every request of a tab ends in a page.
EveryRequestEnds == SignIn!EveryRequestEnds

\* A question ends, on the page and in the handler.
QuestionEnds == part = "chat" => Chat!QuestionEnds

\* No start of the program waits for ever.
EveryStartEnds == Migrations!EveryStartEnds

\* A signal ends the process.
SignalEnds == Process!SignalEnds

\* Run goes on or reports its setup when the database is back for good, and
\* only a setup that no retry can fix ends it with an error.
StartIsDecided == []Setup!OnlyBadSetupEndsRun /\ Setup!StartIsDecided
=============================================================================
