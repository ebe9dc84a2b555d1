----------------------------- MODULE StreamEnd ------------------------------
(***************************************************************************)
(* How the reading of a model's event stream ends, and what the response   *)
(* promises then.  StreamReaders has the steps before.                     *)
(***************************************************************************)
EXTENDS Naturals, Sequences

VARIABLES
  api,     \* the provider of this call: "anthropic", "chat" or "fake"
  said,    \* the number of text parts that the model has said
  stopped, \* why the model stopped, or ""
  lines,   \* the lines that the server sent and the adapter did not read
  body,    \* "open", "closing" after the stop reason, "eof", or with a loss "cut" or "broken"
  reason,  \* stream.stop of anthropic, stream.finish of chatcompletions
  done,    \* the last event was read
  shown,   \* the parts that onText took
  result   \* "none", "error", or the stop reason of the response

Abstract == INSTANCE Provider

Reader == result = "none" /\ UNCHANGED <<api, said, stopped, body>>

\* Any error: the status, a line over the cap, a broken event, the context.
Return(value) == result' = value

\* Mutant of stopReason: a stream without a reason ended normally.
EndOfStream(why) == IF why = "" THEN "end" ELSE why

stopReason(why) == IF why \in Abstract!Stops THEN why ELSE "error"

\* The loop is over: the last event, or the end of the body without an error.
ReadEnd ==
  /\ Reader
  /\ done \/ (lines = <<>> /\ body \in {"eof", "cut", "broken"})
  /\ Return(IF ~done /\ body = "broken" THEN "error" ELSE stopReason(reason))
  /\ UNCHANGED <<lines, reason, done, shown>>

-----------------------------------------------------------------------------
(* Properties.                                                             *)

\* An adapter keeps the promise of llm.Provider: a stream that ends early,
\* breaks, carries an error or lost its end never becomes a response, and a
\* response has the stop reason of the model and all of its text.
KeepsPromise == Abstract!Spec

\* The other direction: a stream that came whole, with a reason to stop that
\* the interface knows, is never turned into an error at its end.
WholeIsAccepted ==
  [][ReadEnd /\ body = "eof" /\ stopped \in Abstract!Stops => result' = stopped]_result
=============================================================================
