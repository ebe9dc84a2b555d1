------------------------------ MODULE Provider ------------------------------
(***************************************************************************)
(* What llm.Provider promises of one call of Stream: the parts of the      *)
(* answer reach onText in order and once each, and the call returns a      *)
(* response only when the model stopped and every part was handed over.    *)
(***************************************************************************)
EXTENDS Naturals, Sequences

VARIABLES
  said,    \* the number of text parts that the model has said
  stopped, \* why the model stopped, or "" while it goes on
  shown,   \* the parts that onText took, in order
  result   \* "none", "error", or the stop reason of the response

Stops == {"end", "max_tokens", "refusal"}

Init ==
  /\ said = 0
  /\ stopped = ""
  /\ shown = <<>>
  /\ result = "none"

\* The model says one more part.
Say ==
  /\ stopped = ""
  /\ said' = said + 1
  /\ UNCHANGED <<stopped, shown, result>>

\* The model stops, for a reason the interface knows or for another one. A
\* last part can come with the reason.
Stop(reason) ==
  /\ stopped = ""
  /\ stopped' = reason
  /\ said' \in {said, said + 1}
  /\ UNCHANGED <<shown, result>>

\* onText gets the next part.
Part ==
  /\ result = "none"
  /\ Len(shown) < said
  /\ shown' = Append(shown, Len(shown) + 1)
  /\ UNCHANGED <<said, stopped, result>>

\* onText gets the next part and returns an error, which ends the call.
PartFails ==
  /\ result = "none"
  /\ Len(shown) < said
  /\ shown' = Append(shown, Len(shown) + 1)
  /\ result' = "error"
  /\ UNCHANGED <<said, stopped>>

Complete ==
  /\ result = "none"
  /\ stopped \in Stops
  /\ Len(shown) = said
  /\ result' = stopped
  /\ UNCHANGED <<said, stopped, shown>>

Fail ==
  /\ result = "none"
  /\ result' = "error"
  /\ UNCHANGED <<said, stopped, shown>>

Next ==
  \/ Say
  \/ \E reason \in Stops \cup {"tool"} : Stop(reason)
  \/ Part \/ PartFails \/ Complete \/ Fail

Spec == Init /\ [][Next]_<<said, stopped, shown, result>>
=============================================================================
