------------------------------- MODULE Triage -------------------------------
(***************************************************************************)
(* One triage of a support message: the form, the questions, the answer of *)
(* a System One provider, the decision, and the time that the response has *)
(* until the write deadline of the server drops it.  The answer of a real  *)
(* provider is external data, so it can be anything that the JSON of the   *)
(* API can hold.                                                           *)
(***************************************************************************)
EXTENDS Integers, FiniteSets, TriageDecision

CONSTANTS
  AcquireMax, \* the longest wait for a connection of the pool
  WriteMax,   \* http.Server.WriteTimeout
  ReadMax,    \* http.Server.ReadTimeout
  StatementMax, \* statement_timeout of the database
  TriageMax,  \* triageTimeout
  Value       \* the numbers of an answer, in tenths

NaN == 999 \* compares false with every number

VARIABLES
  spent,    \* the time in this phase
  clock     \* the time since the server read the header

vars == <<phase, spent, clock, provider, message, resp, decision, status, arrived>>

\* Answers to other ids are ignored by the code, so they are left out.
Ids == {"topic", "urgent"}
Types == {"choice", "score", "noul", "unknown"}
\* The value of an answer is its confidence for the topic and its probability
\* for the urgency: the fields that the service reads.
Answer == [type : Types, choice : Options \cup {"other"}, value : Value]

TypeOK ==
  /\ phase \in {"identity", "form", "message", "ask", "decide", "write", "end"}
  /\ spent \in Nat /\ clock \in Nat
  /\ provider \in {"fake", "typesafe"}
  /\ message \in {"text", "spaced", "blank", "binary", "long"}
  /\ DOMAIN resp \subseteq Ids
  /\ \A id \in DOMAIN resp : resp[id] \in Answer
  /\ decision = NoDecision \/ decision \in
       [queue : Options \cup {"review"}, urgent : BOOLEAN, confidence : 0..10, urgency : 0..10]
  /\ status \in {0, 200, 400, 422, 500}
  /\ arrived \in BOOLEAN

NoAnswers == [id \in {} |-> NoDecision]

Init ==
  /\ phase = "identity" /\ spent = 0 /\ clock = 0
  /\ provider \in {"fake", "typesafe"}
  /\ message \in {"text", "spaced", "blank", "binary", "long"}
  /\ resp = NoAnswers /\ decision = NoDecision /\ status = 0 /\ arrived = FALSE

Enter(next) == phase' = next /\ spent' = 0

\* The page is ready, with this status.
Answered(code) == Enter("write") /\ status' = code

-----------------------------------------------------------------------------
(* Time.  A phase that is at its limit has to end.                         *)

Limit ==
  [identity |-> AcquireMax + StatementMax, form |-> ReadMax, message |-> 0,
   ask |-> TriageMax, decide |-> 0, write |-> 0, end |-> 0]

Tick ==
  /\ spent < Limit[phase]
  /\ phase = "form" => clock < ReadMax
  /\ spent' = spent + 1 /\ clock' = clock + 1
  /\ UNCHANGED <<phase, provider, message, resp, decision, status, arrived>>

Timeless == UNCHANGED <<clock, provider, message, arrived>>

-----------------------------------------------------------------------------
(* The request.                                                            *)

\* LoadIdentity waits for a connection and reads the session.
LoadIdentity ==
  /\ phase = "identity"
  /\ \/ Enter("form") /\ UNCHANGED status
     \/ Answered(500)
  /\ Timeless /\ UNCHANGED <<resp, decision>>

\* ParseForm. A body that comes after the read deadline is an error; a body
\* that the server had by then is not.
ParseForm ==
  /\ phase = "form"
  /\ \/ Enter("message") /\ UNCHANGED status
     \/ Answered(400)
  /\ Timeless /\ UNCHANGED <<resp, decision>>

normalizeMessage ==
  /\ phase = "message"
  /\ IF message \in {"text", "spaced"} THEN Enter("ask") /\ UNCHANGED status
     ELSE Answered(422)
  /\ Timeless /\ UNCHANGED <<resp, decision>>

\* uniformChoice and uniformAnswer: the first label, no confidence, and one half.
Uniform(q) ==
  IF q.type = "choice" THEN [type |-> "choice", choice |-> "account", value |-> 0]
  ELSE [type |-> "noul", choice |-> "other", value |-> 5]

\* The fake rejects a choice with fewer than two options.
AskFake ==
  /\ phase = "ask" /\ provider = "fake"
  /\ IF \E id \in DOMAIN Questions :
          Questions[id].type = "choice" /\ Cardinality(Questions[id].options) < 2
       THEN Answered(500) /\ UNCHANGED resp
       ELSE /\ resp' = [id \in DOMAIN Questions |-> Uniform(Questions[id])]
            /\ Enter("decide") /\ UNCHANGED status
  /\ Timeless /\ UNCHANGED decision

\* newResponse of the adapter: an answer of an unknown type fails them all.
AskTypesafe ==
  /\ phase = "ask" /\ provider = "typesafe"
  /\ \E ids \in SUBSET Ids : \E answers \in [ids -> Answer] :
       IF \E id \in ids : answers[id].type = "unknown"
         THEN Answered(500) /\ UNCHANGED resp
         ELSE resp' = answers /\ Enter("decide") /\ UNCHANGED status
  /\ Timeless /\ UNCHANGED decision

\* The status, the body, the deadline or the client end the call.
AskFails ==
  /\ phase = "ask"
  /\ Answered(500)
  /\ Timeless /\ UNCHANGED <<resp, decision>>

-----------------------------------------------------------------------------
(* The decision.                                                           *)

GE(x, y) == x # NaN /\ x >= y
LE(x, y) == x # NaN /\ x <= y

isProbability(p) == GE(p, 0) /\ LE(p, 10)

ValidTopic(answers) ==
  /\ "topic" \in DOMAIN answers
  /\ answers["topic"].choice \in Options
  /\ answers["topic"].type = "choice"
  /\ isProbability(answers["topic"].value)

ValidUrgent(answers) ==
  /\ "urgent" \in DOMAIN answers
  /\ answers["urgent"].type = "noul"
  /\ isProbability(answers["urgent"].value)

\* Mutant of QueueOf: the limit itself is not enough.
QueueAbove(topic) == IF topic.value <= 6 THEN "review" ELSE topic.choice

\* minConfidence
QueueOf(topic) == IF topic.value < 6 THEN "review" ELSE topic.choice

decide ==
  /\ phase = "decide"
  /\ IF ValidTopic(resp) /\ ValidUrgent(resp)
       THEN /\ decision' = [queue |-> QueueOf(resp["topic"]),
                            urgent |-> GE(resp["urgent"].value, 7),
                            confidence |-> resp["topic"].value,
                            urgency |-> resp["urgent"].value]
            /\ Answered(200)
       ELSE Answered(500) /\ UNCHANGED decision
  /\ Timeless /\ UNCHANGED resp

\* The page is written; the server drops it after the write deadline.
Write ==
  /\ phase = "write"
  /\ Enter("end")
  /\ arrived' = (clock < WriteMax)
  /\ UNCHANGED <<clock, provider, message, resp, decision, status>>

Next ==
  \/ Tick \/ LoadIdentity \/ ParseForm \/ normalizeMessage
  \/ AskFake \/ AskTypesafe \/ AskFails \/ decide \/ Write

Spec == Init /\ [][Next]_vars
=============================================================================
