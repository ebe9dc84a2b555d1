------------------------------ MODULE Process ------------------------------
(***************************************************************************)
(* The life of an api process: run, the subcommands, serve with its two    *)
(* listeners, the drain after a signal, and the deferred closes.  The main *)
(* goroutine has a stage; the listeners and the request handlers run       *)
(* beside it.                                                              *)
(***************************************************************************)
EXTENDS Naturals, Sequences, FiniteSets, ProcessEnd

VARIABLES
  signal,  \* SIGTERM came: the context of run has ended
  late,    \* the 10 seconds of Shutdown passed
  debug,   \* the debug server: "off", "listening" or "closed"
  errCh    \* the errors of the listeners, of capacity 2

vars == <<command, stage, returned, signal, late, pool, main, debug, errCh, req, cut>>

listeners == <<main, debug, errCh>>
requests == <<req, cut>>

Commands == {"serve", "worker", "migrate", "adduser"}
Stages == {"command line", "config", "connect", "migrate", "command", "models", "debug", "spawn",
           "select", "drain", "close", "pool", "exited"}

TypeOK ==
  /\ command \in Commands \cup {"none"} /\ stage \in Stages
  /\ returned \in {"none", "nil", "error"} /\ signal \in BOOLEAN /\ late \in BOOLEAN
  /\ pool \in {"none", "open", "closing", "closed"}
  /\ main \in {"off", "starting", "listening", "closed"}
  /\ debug \in {"off", "listening", "closed"}
  /\ errCh \in UNION {[1..n -> {"main", "debug"}] : n \in 0..2}
  /\ req \in [Req -> {"none", "handling", "query", "answered", "lost"}]
  /\ cut \subseteq Req

Init ==
  /\ command = "none" /\ stage = "command line" /\ returned = "none"
  /\ signal = FALSE /\ late = FALSE /\ pool = "none"
  /\ main = "off" /\ debug = "off" /\ errCh = <<>>
  /\ req = [r \in Req |-> "none"] /\ cut = {}

-----------------------------------------------------------------------------
(* run.                                                                    *)

Goto(next) == stage' = next /\ UNCHANGED returned

\* The return of run or serve: the deferred calls come next.
ReturnWith(outcome, next) == stage' = next /\ returned' = outcome

parseCommand ==
  /\ stage = "command line"
  /\ \/ command' \in Commands /\ Goto("config")
     \/ ReturnWith("error", "exited") /\ UNCHANGED command
  /\ UNCHANGED <<signal, late, pool, listeners, requests>>

Validate ==
  /\ stage = "config"
  /\ Goto("connect") \/ ReturnWith("error", "exited")
  /\ UNCHANGED <<command, signal, late, pool, listeners, requests>>

\* The ping has the context of the signal. A pool that does not answer it is
\* closed again.
Connect ==
  /\ stage = "connect"
  /\ \/ ~signal /\ pool' = "open" /\ Goto("migrate")
     \/ pool' \in {"none", "closed"} /\ ReturnWith("error", "exited")
  /\ UNCHANGED <<command, signal, late, listeners, requests>>

Migrate ==
  /\ stage = "migrate"
  /\ \/ ~signal /\ Goto(IF command = "serve" THEN "models" ELSE "command")
     \/ ReturnWith("error", "pool")
  /\ UNCHANGED <<command, signal, late, pool, listeners, requests>>

\* A worker runs until the signal; the other commands end by themselves.
RunCommand ==
  /\ stage = "command"
  /\ \/ /\ (command = "worker") => signal
        /\ ReturnWith("nil", "pool")
     \/ command # "migrate" /\ ReturnWith("error", "pool")
  /\ UNCHANGED <<command, signal, late, pool, listeners, requests>>

-----------------------------------------------------------------------------
(* serve.                                                                  *)

NewModels ==
  /\ stage = "models"
  /\ Goto("debug") \/ ReturnWith("error", "pool")
  /\ UNCHANGED <<command, signal, late, pool, listeners, requests>>

\* The listener opens before the function returns, or serve returns.
startDebugServer ==
  /\ stage = "debug"
  /\ \/ debug' \in {"off", "listening"} /\ Goto("spawn")
     \/ UNCHANGED debug /\ ReturnWith("error", "close")
  /\ UNCHANGED <<command, signal, late, pool, main, errCh, requests>>

Spawn ==
  /\ stage = "spawn"
  /\ main' = "starting" /\ Goto("select")
  /\ UNCHANGED <<command, signal, late, pool, debug, errCh, requests>>

SelectError ==
  /\ stage = "select" /\ errCh # <<>>
  /\ errCh' = Tail(errCh) /\ ReturnWith("error", "close")
  /\ UNCHANGED <<command, signal, late, pool, main, debug, requests>>

\* The listener that srv stops, and the error that its goroutine then sends.
Stop == IF main = "listening" THEN main' = "closed" /\ errCh' = Append(errCh, "main")
        ELSE UNCHANGED <<main, errCh>>

\* Shutdown closes the listener before it waits.
SelectDone ==
  /\ stage = "select" /\ signal
  /\ Stop /\ Goto("drain")
  /\ UNCHANGED <<command, signal, late, pool, debug, requests>>

Drained ==
  /\ stage = "drain" /\ ~late
  /\ Running = {}
  /\ ReturnWith("nil", "close")
  /\ UNCHANGED <<command, signal, late, pool, listeners, requests>>

\* Mutant of Overrun: Shutdown gets a context without a deadline.
OverrunNever ==
  /\ stage = "drain" /\ Running = {}
  /\ late' = TRUE /\ ReturnWith("error", "close")
  /\ UNCHANGED <<command, signal, pool, listeners, requests>>

\* The deadline of Shutdown.
Overrun ==
  /\ stage = "drain"
  /\ late' = TRUE /\ ReturnWith("error", "close")
  /\ UNCHANGED <<command, signal, pool, listeners, requests>>

\* Mutant of CloseServers: srv is not closed, only its listener.
CloseListeners ==
  /\ stage = "close"
  /\ main' = "closed" /\ debug' = "closed" /\ Goto("pool")
  /\ UNCHANGED <<command, signal, late, pool, errCh, requests>>

\* The deferred calls of serve: debugSrv.Close, then srv.Close, which also
\* closes the connections of the open requests.
CloseServers ==
  /\ stage = "close"
  /\ cut' = cut \cup Running
  /\ errCh' = errCh \o (IF debug = "listening" THEN <<"debug">> ELSE <<>>)
                   \o (IF main = "listening" THEN <<"main">> ELSE <<>>)
  /\ main' = IF main = "listening" THEN "closed" ELSE main
  /\ debug' = IF debug = "listening" THEN "closed" ELSE debug
  /\ Goto("pool")
  /\ UNCHANGED <<command, signal, late, pool, req>>

-----------------------------------------------------------------------------
(* pool.Close and the exit: a closing pool gives out no connection, and    *)
(* the close waits for those that are out.  The exit ends every handler.   *)

ClosePool ==
  /\ stage = "pool" /\ pool = "open"
  /\ pool' = "closing"
  /\ UNCHANGED <<command, stage, returned, signal, late, listeners, requests>>

Exit ==
  /\ stage = "pool" /\ pool = "closing"
  /\ \A r \in Req : req[r] # "query"
  /\ pool' = "closed" /\ Goto("exited")
  /\ req' = [r \in Req |-> IF r \in Running THEN "lost" ELSE req[r]]
  /\ UNCHANGED <<command, signal, late, listeners, cut>>

-----------------------------------------------------------------------------
(* The goroutines of the listeners.                                        *)

\* Shutdown or Close of srv was called.
Shut == ~(stage = "select" \/ (stage = "close" /\ returned = "error" /\ ~late))

\* A server that was shut down or closed before never listens. The port can
\* be in use.
ListenAndServe ==
  /\ main = "starting" /\ stage # "exited"
  /\ \/ main' = "closed" /\ errCh' = Append(errCh, "main")
     \/ ~Shut /\ main' = "listening" /\ UNCHANGED errCh
  /\ UNCHANGED <<command, stage, returned, signal, late, pool, debug, requests>>

\* Accept fails for good.
ListenerFails ==
  /\ stage # "exited"
  /\ \/ /\ main = "listening" /\ main' = "closed"
        /\ errCh' = Append(errCh, "main") /\ UNCHANGED debug
     \/ /\ debug = "listening" /\ debug' = "closed"
        /\ errCh' = Append(errCh, "debug") /\ UNCHANGED main
  /\ UNCHANGED <<command, stage, returned, signal, late, pool, requests>>

-----------------------------------------------------------------------------
(* The requests.                                                           *)

Request(r, from, to) ==
  /\ req[r] = from /\ stage # "exited"
  /\ req' = [req EXCEPT ![r] = to]
  /\ UNCHANGED <<command, stage, returned, signal, late, pool, listeners, cut>>

Accept(r) == main = "listening" /\ Request(r, "none", "handling")

Acquire(r) == pool = "open" /\ Request(r, "handling", "query")

\* The statement timeout, or the context of a closed connection, ends a query.
QueryEnds(r) == Request(r, "query", "handling")

Answer(r) == Request(r, "handling", IF r \in cut THEN "lost" ELSE "answered")

\* SIGINT or SIGTERM.
Signal ==
  /\ ~signal /\ stage # "exited"
  /\ signal' = TRUE
  /\ UNCHANGED <<command, stage, returned, late, pool, listeners, requests>>

Ended == stage = "exited" /\ UNCHANGED vars

Main ==
  \/ parseCommand \/ Validate \/ Connect \/ Migrate \/ RunCommand
  \/ NewModels \/ startDebugServer \/ Spawn
  \/ SelectError \/ SelectDone \/ Drained \/ Overrun \/ CloseServers
  \/ ClosePool \/ Exit

Next ==
  \/ Main \/ ListenAndServe \/ ListenerFails \/ Signal \/ Ended
  \/ \E r \in Req : Accept(r) \/ Acquire(r) \/ QueryEnds(r) \/ Answer(r)

Spec == Init /\ [][Next]_vars

\* The main goroutine runs, the deadline of Shutdown passes, and a query
\* ends. Nothing makes a handler return: a stream can be long.
FairSpec ==
  /\ Spec
  /\ WF_vars(Main)
  /\ \A r \in Req : WF_vars(QueryEnds(r))

-----------------------------------------------------------------------------
(* Properties.                                                             *)

\* A signal ends the process whatever its requests do.
SignalEnds == signal ~> stage = "exited"

\* serve drains the open requests when the context ends or a listener fails:
\* it closes the connection of a request only after the drain had its time
\* (main.go:113). It does not hold after the failure of a listener.
CutAfterDrain == cut # {} => late
=============================================================================
