--------------------------- MODULE StreamReaders ---------------------------
(***************************************************************************)
(* The two adapters that read the event stream of a model server, which    *)
(* are anthropic and chatcompletions, and the fake provider.  The server   *)
(* sends one event per line.  The body can end or break after any line or  *)
(* inside one, the context can end, and onText can refuse a part.          *)
(***************************************************************************)
EXTENDS Naturals, Sequences, StreamEnd

CONSTANTS
  MaxTokens, \* the cap of the answer of the fake, in words
  MaxSay     \* bound: the parts that the model says

vars == <<api, said, stopped, lines, body, reason, done, shown, result>>

\* The lines of the two protocols. A "part" has text, "thought" has none, and
\* a "half" is a line that the end of the body cut.
Line == [kind : {"part", "thought", "stop", "last", "error", "half"},
         text : 0..MaxSay, stop : {"", "end", "max_tokens", "refusal", "tool"}]

TypeOK ==
  /\ api \in {"anthropic", "chat", "fake"}
  /\ said \in 0..MaxSay
  /\ stopped \in {"", "end", "max_tokens", "refusal", "tool"}
  /\ lines \in Seq(Line)
  /\ body \in {"open", "closing", "eof", "cut", "broken"}
  /\ reason \in {"", "end", "max_tokens", "refusal", "tool"}
  /\ done \in BOOLEAN
  /\ shown \in Seq(1..MaxSay)
  /\ result \in {"none", "error"} \cup Abstract!Stops

Init ==
  /\ api \in {"anthropic", "chat", "fake"}
  /\ Abstract!Init
  /\ lines = <<>> /\ body = "open"
  /\ reason = "" /\ done = FALSE

-----------------------------------------------------------------------------
(* The server (external).                                                  *)

Send(kind, text, stop) ==
  lines' = Append(lines, [kind |-> kind, text |-> text, stop |-> stop])

\* The rest of the call is not the server's.
Server == api # "fake" /\ UNCHANGED <<api, reason, done, shown, result>>

SendPart ==
  /\ Server
  /\ body = "open" /\ stopped = "" /\ said < MaxSay
  /\ said' = said + 1
  /\ Send("part", said', "")
  /\ UNCHANGED <<stopped, body>>

\* A ping, a thinking delta, the usage counts, a comment.
SendThought ==
  /\ Server
  /\ body \in {"open", "closing"} /\ Len(lines) < 2
  /\ Send("thought", 0, "")
  /\ UNCHANGED <<said, stopped, body>>

\* The event with the stop reason. In the chat API it can carry the last part.
SendStop(stop, withPart) ==
  /\ Server
  /\ body = "open" /\ stopped = ""
  /\ withPart => api = "chat" /\ said < MaxSay
  /\ said' = IF withPart THEN said + 1 ELSE said
  /\ Send("stop", IF withPart THEN said' ELSE 0, stop)
  /\ stopped' = stop /\ body' = "closing"

\* message_stop, or [DONE], which some servers send after a failure too.
SendLast ==
  /\ Server
  /\ body = "closing" \/ (body = "open" /\ api = "chat")
  /\ Send("last", 0, "")
  /\ body' = "eof"
  /\ UNCHANGED <<said, stopped>>

SendError ==
  /\ Server
  /\ body \in {"open", "closing"}
  /\ Send("error", 0, "")
  /\ body' = "eof"
  /\ UNCHANGED <<said, stopped>>

Half == [kind |-> "half", text |-> 0, stop |-> ""]

\* The body ends, and the last lines may be lost with it or cut in half.
EndBody ==
  /\ Server
  /\ body \in {"open", "closing"}
  /\ \/ body' = "eof" /\ UNCHANGED lines
     \/ /\ body' \in {"cut", "broken"}
        /\ \E kept \in 0..Len(lines), cut \in BOOLEAN :
             lines' = SubSeq(lines, 1, kept) \o (IF cut THEN <<Half>> ELSE <<>>)
  /\ UNCHANGED <<said, stopped>>

-----------------------------------------------------------------------------
(* The adapter.                                                            *)

\* The text of one event goes to onText, which may refuse it.
TakeText(text) ==
  IF text = 0 THEN UNCHANGED <<shown, result>>
  ELSE /\ shown' = Append(shown, text)
       /\ UNCHANGED result \/ Return("error")

\* Mutant of KeepReason: a later chunk without a reason resets it.
LastReason(old, new) == new

\* chatcompletions keeps the reason when a later chunk has none.
KeepReason(old, new) == IF new = "" THEN old ELSE new

\* stream.add of anthropic.
AddEvent(line) ==
  CASE line.kind = "part" -> TakeText(line.text) /\ UNCHANGED <<reason, done>>
    [] line.kind = "stop" -> reason' = line.stop /\ UNCHANGED <<done, shown, result>>
    [] line.kind = "last" -> done' = TRUE /\ UNCHANGED <<reason, shown, result>>
    [] line.kind = "thought" -> UNCHANGED <<reason, done, shown, result>>
    [] line.kind \in {"error", "half"} -> Return("error") /\ UNCHANGED <<reason, done, shown>>

\* stream.add of chatcompletions, and the test for [DONE] before it.
AddChunk(line) ==
  CASE line.kind = "last" -> done' = TRUE /\ UNCHANGED <<reason, shown, result>>
    [] line.kind \in {"error", "half"} -> Return("error") /\ UNCHANGED <<reason, done, shown>>
    [] OTHER -> /\ reason' = KeepReason(reason, line.stop)
                /\ TakeText(line.text)
                /\ UNCHANGED done

\* One turn of the loop of readStream. A half of a line that lost its
\* "data:" prefix is skipped.
ReadLine ==
  /\ Reader
  /\ ~done /\ lines # <<>>
  /\ lines' = Tail(lines)
  /\ \/ /\ Head(lines).kind = "half"
        /\ UNCHANGED <<reason, done, shown, result>>
     \/ IF api = "chat" THEN AddChunk(Head(lines)) ELSE AddEvent(Head(lines))

\* The request fails, or the context ends while the adapter waits.
CallFails ==
  /\ Reader
  /\ Return("error")
  /\ UNCHANGED <<lines, reason, done, shown>>

-----------------------------------------------------------------------------
(* The fake: the model is the last user message, word by word.             *)

FakeCapped(words) == words > MaxTokens

\* The word is part of the answer: words[:MaxTokens].
FakeSay ==
  /\ api = "fake" /\ stopped = "" /\ said < MaxSay
  /\ said' = said + 1
  /\ ~FakeCapped(said')
  /\ UNCHANGED <<api, stopped, lines, body, reason, done, shown, result>>

\* The question ends here, or has one more word than the cap allows.
FakeStop ==
  /\ api = "fake" /\ stopped = ""
  /\ \E words \in {said, said + 1} :
       /\ words > said => FakeCapped(words)
       /\ stopped' = IF FakeCapped(words) THEN "max_tokens" ELSE "end"
       /\ reason' = stopped'
  /\ UNCHANGED <<api, said, lines, body, done, shown, result>>

\* wait found the context open; the word goes to onText.
FakeWord ==
  /\ api = "fake" /\ stopped # "" /\ Reader
  /\ Len(shown) < said
  /\ TakeText(Len(shown) + 1)
  /\ UNCHANGED <<lines, reason, done>>

FakeEnd ==
  /\ api = "fake" /\ stopped # "" /\ Reader
  /\ Len(shown) = said
  /\ Return(reason)
  /\ UNCHANGED <<lines, reason, done, shown>>

Next ==
  \/ SendPart \/ SendThought \/ SendLast \/ SendError \/ EndBody
  \/ \E stop \in Abstract!Stops \cup {"tool"}, withPart \in BOOLEAN : SendStop(stop, withPart)
  \/ ReadLine \/ ReadEnd \/ CallFails
  \/ FakeSay \/ FakeStop \/ FakeWord \/ FakeEnd

Spec == Init /\ [][Next]_vars
=============================================================================
