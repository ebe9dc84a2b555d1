----------------------------- MODULE MCRequests -----------------------------
(***************************************************************************)
(* The components that answer requests and share no state, side by side    *)
(* on small instances: the rate limiter with and without a delay before    *)
(* its mutex, the session table, the accounts, the pages of the notes, the *)
(* readers of a model's answer, a triage, and the bytes of the event       *)
(* stream.  In a behaviour one of them runs, which part says, and the      *)
(* others stay in their initial state.                                     *)
(***************************************************************************)
EXTENDS RateLimiter, SessionTable, AccountLookup, NoteWalk, StreamEnd, TriageDecision

VARIABLES
  part,  \* the component of this behaviour
  lateNow, lateSlot, lateTat, lateSweep, lateAdm, latePromise,
  victims, cleanup, picked,
  req,
  clock, started, notes, after,
  spent, elapsed,
  sent, wire, buffer, got

late == <<lateNow, lateSlot, lateTat, lateSweep, lateAdm, latePromise>>
sessions == <<dbTime, pc, at, victims, alone, rows, ended, cleanup, picked>>
accounts == <<account, typed, req, logins>>
pages == <<clock, started, notes, before, after, listed, older, stable, loading>>
reader == <<api, said, stopped, lines, body, reason, done, shown, result>>
triage == <<phase, spent, elapsed, provider, message, resp, decision, status, arrived>>
events == <<sent, wire, buffer, got>>
allVars == <<part, vars, late, sessions, accounts, pages, reader, triage, events>>

-----------------------------------------------------------------------------
(* The instances.                                                          *)

\* One client that is reachable as plain and as mapped IPv4, one IPv6 client,
\* and the proxy's own key.
V4 == [kind |-> "v4", net |-> 0, host |-> 1]
Mapped == [kind |-> "mapped", net |-> 0, host |-> 1]
V6 == [kind |-> "v6", net |-> 1, host |-> 2]
MCClient == {V4, Mapped, V6}
MCProxy == [kind |-> "v4", net |-> 0, host |-> 9]

\* Two requests whose times can be one apart from the order of the mutex.
Late == INSTANCE RateLimiter WITH
  Request <- {"r1", "r2"}, Client <- {V4, V6},
  Interval <- 1, Burst <- 1, MaxKeys <- 2, Sweep <- 2, Delay <- 1, MaxTime <- 4,
  now <- lateNow, slot <- lateSlot, tat <- lateTat, lastSweep <- lateSweep,
  adm <- lateAdm, promise <- latePromise

\* Four logins (Token), two at a time (Logins), and a cap (Keep) of two.
Sessions == INSTANCE Sessions WITH
  Batch <- 1, MaxNow <- 1

\* Two accounts (Id) and two addresses: an address can move between accounts.
Accounts == INSTANCE Accounts WITH
  Address <- {"a1", "a2"}, Request <- {"r1", "r2"}

\* Pages of one note (PageSize), three notes (NoteId) of two users, and times
\* that can be equal.
Notes == INSTANCE NotePages WITH
  User <- {"u1", "u2"}, MaxTime <- 1

\* Answers of up to three parts, and two words for the fake.
Readers == INSTANCE StreamReaders WITH MaxTokens <- 2, MaxSay <- 3

\* Times in units of five seconds, confidences on both sides of each limit.
Triage == INSTANCE Triage WITH
  AcquireMax <- 0, WriteMax <- 6, ReadMax <- 2, StatementMax <- 1, TriageMax <- 2,
  Value <- {-1, 0, 5, 6, 7, 11, 999}, clock <- elapsed

\* Data of two characters in two events.
Events == INSTANCE EventFormat WITH
  Char <- {"CR", "LF", ":", " "}, MaxLength <- 2, MaxEvents <- 2, MaxChunk <- 2

-----------------------------------------------------------------------------
Part == {"rate", "late", "sessions", "accounts", "notes", "readers", "triage", "events"}

\* The provider and the message of a triage are inputs, and so is the adapter.
OneTriage == provider = "fake" /\ message = "text"

RequestsInit ==
  /\ part \in Part
  /\ Init /\ Late!Init /\ Sessions!Init /\ Accounts!Init /\ Notes!Init /\ Events!Init
  /\ Triage!Init /\ (part = "triage" \/ OneTriage)
  /\ Readers!Init /\ (part = "readers" \/ api = "fake")

\* All but component p stay.
Only(p) ==
  /\ part = p /\ UNCHANGED part
  /\ IF p = "rate" THEN TRUE ELSE UNCHANGED vars
  /\ IF p = "late" THEN TRUE ELSE UNCHANGED late
  /\ IF p = "sessions" THEN TRUE ELSE UNCHANGED sessions
  /\ IF p = "accounts" THEN TRUE ELSE UNCHANGED accounts
  /\ IF p = "notes" THEN TRUE ELSE UNCHANGED pages
  /\ IF p = "readers" THEN TRUE ELSE UNCHANGED reader
  /\ IF p = "triage" THEN TRUE ELSE UNCHANGED triage
  /\ IF p = "events" THEN TRUE ELSE UNCHANGED events

RequestsNext ==
  \/ Only("rate") /\ Next
  \/ Only("late") /\ Late!Next
  \/ Only("sessions") /\ Sessions!Next
  \/ Only("accounts") /\ Accounts!Next
  \/ Only("notes") /\ Notes!Next
  \/ Only("readers") /\ Readers!Next
  \/ Only("triage") /\ Triage!Next
  \/ Only("events") /\ Events!Next

RequestsSpec == RequestsInit /\ [][RequestsNext]_allVars

\* No property of Late reads its history.
NoLateHistory ==
  <<part, vars, lateNow, lateSlot, lateTat, lateSweep, latePromise,
    sessions, accounts, pages, reader, triage, events>>

-----------------------------------------------------------------------------
(* The properties of the instances.                                        *)

\* Every component keeps its types.
Types ==
  CASE part = "rate" -> TypeOK [] part = "late" -> Late!TypeOK
    [] part = "sessions" -> Sessions!TypeOK [] part = "accounts" -> Accounts!TypeOK
    [] part = "notes" -> Notes!TypeOK [] part = "readers" -> Readers!TypeOK
    [] part = "triage" -> Triage!TypeOK [] part = "events" -> Events!TypeOK

\* The promises of the limiter to a client when requests wait for the mutex.
LateKeysAreFair == Late!FairKeys

\* The page gets the events that were sent, however they are cut into chunks.
RoundTrip == Events!RoundTrip
=============================================================================
