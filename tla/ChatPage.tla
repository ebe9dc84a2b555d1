------------------------------ MODULE ChatPage ------------------------------
(***************************************************************************)
(* What the page of the chat takes for the answer of the model, and what   *)
(* it tells of an early end.  AnswerStream has the steps.                  *)
(***************************************************************************)
EXTENDS Naturals, Sequences

VARIABLES
  said, stopped, shown, result, \* the model call, see Provider
  calls,    \* the model calls that this question has started
  status,   \* the header: "none", a "stream", a "page" of any status, or "lost" on its way
  wire,     \* what the client did not read of the body
  page,     \* "wait" for the header, "read", "rest", or "left" by the user
  output,   \* the parts that the page shows
  answer,   \* how the answer ended: "none", "done", "page", or in an error
  notice    \* whether the error notice of the layout is visible

Model == INSTANCE Provider

\* The events of a stream; a body without them is a page.
Event == {"delta", "done", "error"}

\* What the page takes for a complete answer is complete: the model stopped
\* for a reason of the interface, and every part of its text is on the page.
CompleteIsWhole ==
  answer \in {"done", "page"} =>
    stopped \in Model!Stops /\ Len(output) = said /\ output = shown

\* An answer that failed after the stream began is told: when the page stops
\* to read, the notice is visible.
EarlyEndIsTold == [][page = "read" /\ page' = "rest" /\ answer' # "done" => notice']_page

\* The second post of the page never pays for the answer a second time.
PaidOnce == calls <= 1

\* A body is a stream or a page, never an error page after some events.
NoMixedBody ==
  /\ status = "stream" => \A i \in 1..Len(wire) : wire[i].event \in Event
  /\ status = "page" => \A i \in 1..Len(wire) : wire[i].event \notin Event

\* A question makes at most one model call, and its response is either a page
\* or a stream that the page takes for complete only when it is.
OneWholeAnswer == CompleteIsWhole /\ PaidOnce /\ NoMixedBody
=============================================================================
