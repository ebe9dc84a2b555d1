----------------------------- MODULE ProcessEnd -----------------------------
(***************************************************************************)
(* How a process ends for the clients of its requests.  Process has the    *)
(* steps.                                                                  *)
(***************************************************************************)
CONSTANT Req \* the requests that clients send

VARIABLES
  command,  \* what parseCommand returned
  stage,    \* the step of the main goroutine
  returned, \* what run returns: "none" so far, "nil" or "error"
  pool,     \* "none", "open", "closing" or "closed"
  main,     \* srv: "off", "starting", "listening" or "closed"
  req,      \* the requests: "none", "handling", "query", "answered" or "lost"
  cut       \* the requests whose connections srv.Close closed

Running == {r \in Req : req[r] \in {"handling", "query"}}

\* The exit status 0 of a server means that it answered every request that it
\* accepted.
CleanExitServedAll ==
  stage = "exited" /\ returned = "nil" => \A r \in Req : req[r] \in {"none", "answered"}

\* The deferred closes run in the right order: a request whose client still
\* waits never finds the pool closed.
PoolOutlivesRequests == pool \in {"closing", "closed"} => Running \subseteq cut

\* A process without a database never accepts a request, and every end closes
\* the pool that was opened.
ListensWithPool ==
  /\ main = "listening" => pool = "open" /\ command = "serve"
  /\ stage = "exited" => pool \in {"none", "closed"}

\* The end of a process as its clients see it.
OrderlyEnd == CleanExitServedAll /\ PoolOutlivesRequests /\ ListensWithPool
=============================================================================
