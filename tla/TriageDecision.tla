--------------------------- MODULE TriageDecision ---------------------------
(***************************************************************************)
(* The page of a triage: the decision and the answer that it rests on.     *)
(* Triage has the steps.                                                   *)
(***************************************************************************)
EXTENDS Integers

VARIABLES
  phase,    \* "identity", "form", "message", "ask", "decide", "write" or "end"
  provider, \* "fake" or "typesafe"
  message,  \* "text", "spaced", "blank", "binary" or "long"
  resp,     \* the answers by question id
  decision, \* the decision, or NoDecision
  status,   \* the status of the page, or 0
  arrived   \* the page left before the write deadline

Options == {"account", "billing", "bug"}
NoDecision == [queue |-> "none"]

\* questions(): what the service asks.
Questions ==
  [topic |-> [type |-> "choice", options |-> Options],
   urgent |-> [type |-> "noul", options |-> {}]]

\* A decision rests on an answer to the question that was asked: a choice of
\* an offered queue with a real confidence, never an answer of another kind,
\* and its numbers are probabilities.
DecisionIsGrounded ==
  decision # NoDecision =>
    /\ \A id \in {"topic", "urgent"} :
         id \in DOMAIN resp /\ resp[id].type = Questions[id].type /\ resp[id].value \in 0..10
    /\ decision.queue # "review" =>
         decision.queue = resp["topic"].choice /\ decision.confidence >= 6
    /\ decision.queue = "review" => decision.confidence < 6

\* The fake answers what the service asks, and a person reviews its decision.
FakeIsReviewed ==
  provider = "fake" /\ phase = "write" /\ message \in {"text", "spaced"} /\ status = 200 =>
    decision.queue = "review" /\ ~decision.urgent

\* triageTimeout is shorter than http.Server.WriteTimeout, so the page of a
\* triage always reaches the client.
PageArrives == phase = "end" => arrived

\* The page of a triage arrives in time, with a decision that rests on a good
\* answer to the question that was asked, and a person reviews the fake's.
SafeDecision == DecisionIsGrounded /\ FakeIsReviewed /\ PageArrives
=============================================================================
