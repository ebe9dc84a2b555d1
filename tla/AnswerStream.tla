---------------------------- MODULE AnswerStream ----------------------------
(***************************************************************************)
(* One question of the chat page, from the submit of the form to the end:  *)
(* static/app.js posts it with fetch and reads the events, the handler     *)
(* behind web.E and RecoverPanics streams the answer of a provider, and a  *)
(* response that is no stream makes the page post the form again without   *)
(* fetch.  The connection can break anywhere, the handler can panic, the   *)
(* process can stop, and the user can leave.                               *)
(***************************************************************************)
EXTENDS Naturals, Sequences, ChatPage

CONSTANTS
  MaxSay,  \* bound: the parts of the answer
  Htmx     \* whether the page has other htmx requests (the dashboard has)

VARIABLES
  path,     \* what the request asks for: "stream" or "page"
  handler,  \* "checks", "open", "ask", "send", "error" or "ended"
  conn,     \* "up", "eof" after a complete response, or "cut"
  half      \* the buffer of readEvents has the start of this event, or "none"

call == <<said, stopped, shown, result>>
server == <<calls, path, handler>>
network == <<status, wire, conn>>
client == <<page, half, output, answer, notice>>
vars == <<call, server, network, client>>

\* An event is on the wire in two halves: the text, and the line break that
\* makes it an event. A page is whole, in one piece: the "answer", or a "page"
\* without it.
Piece == [event : Event \cup {"answer", "page"}, end : BOOLEAN]

TypeOK ==
  /\ said \in 0..MaxSay /\ shown \in Seq(1..MaxSay)
  /\ stopped \in {"", "tool"} \cup Model!Stops
  /\ result \in {"none", "error"} \cup Model!Stops
  /\ calls \in 0..2
  /\ path \in {"stream", "page"}
  /\ handler \in {"checks", "open", "ask", "send", "error", "ended"}
  /\ status \in {"none", "stream", "page", "lost"}
  /\ wire \in Seq(Piece)
  /\ conn \in {"up", "eof", "cut"}
  /\ page \in {"wait", "read", "rest", "left"}
  /\ half \in Event \cup {"none"}
  /\ output \in Seq(1..MaxSay)
  /\ answer \in {"none", "done", "page", "error", "early", "broken", "failed"}
  /\ notice \in BOOLEAN

\* The user submitted the form: streamForm cleared the output and the notice.
Init ==
  /\ Model!Init
  /\ calls = 0 /\ path = "stream" /\ handler = "checks"
  /\ status = "none" /\ wire = <<>> /\ conn = "up"
  /\ page = "wait" /\ half = "none" /\ output = <<>> /\ answer = "none" /\ notice = FALSE

-----------------------------------------------------------------------------
(* The response.                                                           *)

\* What the handler writes reaches a connection that is up.
Written(pieces) == wire' = IF conn = "up" THEN wire \o pieces ELSE wire

\* EventStream.Send writes and flushes one event.
Send(event) == Written(<<[event |-> event, end |-> FALSE], [event |-> event, end |-> TRUE]>>)

\* The handler chain returns: the server ends the response.
Ended ==
  /\ handler' = "ended"
  /\ conn' = IF conn = "up" THEN "eof" ELSE conn

\* The handler chain panics with ErrAbortHandler: the connection is cut.
Aborted ==
  /\ handler' = "ended"
  /\ conn' = "cut"
  /\ UNCHANGED <<status, wire>>

wroteHeader == status # "none"

WriteHeader(kind) == status' = IF conn = "up" THEN kind ELSE "lost"

\* A page with any status: the answer, or an error page, the form, the login page.
Render(what) == WriteHeader("page") /\ Written(<<[event |-> what, end |-> TRUE]>>)

\* web.E with an error of its handler, and recoverResponse with a panic before
\* the response started: one error page, and only when no header was written.
Respond ==
  /\ IF wroteHeader THEN UNCHANGED <<status, wire>> ELSE Render("page")
  /\ Ended

-----------------------------------------------------------------------------
(* The handler.                                                            *)

\* Another origin, no session, the rate limit or a bad form: the checks run
\* before the handler opens a stream.
Refuse ==
  /\ handler = "checks"
  /\ Respond
  /\ UNCHANGED <<call, calls, path, client>>

\* The checks pass, and renderAnswer or streamAnswer begins.
Pass ==
  /\ handler = "checks"
  /\ handler' = "open"
  /\ UNCHANGED <<call, calls, path, network, client>>

\* The write deadline cannot be removed, or the page does not render.
OpenFails ==
  /\ handler = "open"
  /\ Respond
  /\ UNCHANGED <<call, calls, path, client>>

\* NewEventStream sends the header at once, then the model is called.
Open ==
  /\ handler = "open"
  /\ handler' = "ask"
  /\ calls' = calls + 1
  /\ IF path = "stream" THEN WriteHeader("stream") ELSE UNCHANGED status
  /\ UNCHANGED <<call, path, wire, conn, client>>

\* Service.request refuses the question: an "error" event, or the page.
Invalid ==
  /\ handler = "open"
  /\ IF path = "page" THEN Render("page")
     ELSE WriteHeader("stream") /\ Send("error")
  /\ Ended
  /\ UNCHANGED <<call, calls, path, client>>

\* The model goes on, whether anybody listens or not (external).
Speak ==
  /\ handler = "ask"
  /\ (Model!Say /\ said < MaxSay)
     \/ (\E reason \in Model!Stops \cup {"tool"} : Model!Stop(reason) /\ said' = said)
  /\ UNCHANGED <<server, network, client>>

\* onText sends a "delta" event. On a broken connection Send fails, or the
\* event is lost without an error.
Deliver ==
  /\ handler = "ask"
  /\ Model!Part \/ (Model!PartFails /\ conn = "cut" /\ path = "stream")
  /\ IF path = "stream" THEN Send("delta") ELSE UNCHANGED wire
  /\ UNCHANGED <<server, status, conn, client>>

\* Mutant of Return: the call has no deadline.
ReturnComplete ==
  /\ handler = "ask"
  /\ IF result = "none" THEN Model!Complete ELSE UNCHANGED call
  /\ handler' = "send"
  /\ UNCHANGED <<calls, path, network, client>>

\* The call returns. The provider fails, the two minutes are over, or the
\* client left and the context ended.
Return ==
  /\ handler = "ask"
  /\ IF result = "none" THEN Model!Complete \/ Model!Fail ELSE UNCHANGED call
  /\ handler' = "send"
  /\ UNCHANGED <<calls, path, network, client>>

\* Mutant of Finish: the error of the call is only logged.
FinishAnyway ==
  /\ handler = "send"
  /\ IF path = "page" THEN Render("answer") ELSE Send("done") /\ UNCHANGED status
  /\ Ended
  /\ UNCHANGED <<call, calls, path, client>>

\* The end of streamAnswer or renderAnswer. An error goes on to E, after an
\* event that tells the page.
Finish ==
  /\ handler = "send"
  /\ IF result = "error"
       THEN /\ handler' = "error"
            /\ IF path = "page" THEN UNCHANGED wire ELSE Send("error")
            /\ UNCHANGED <<status, conn>>
       ELSE /\ IF path = "page" THEN Render("answer") ELSE Send("done") /\ UNCHANGED status
            /\ Ended
  /\ UNCHANGED <<call, calls, path, client>>

E ==
  /\ handler = "error"
  /\ Respond
  /\ UNCHANGED <<call, calls, path, client>>

\* RecoverPanics around the whole chain.
Panic ==
  /\ handler \in {"checks", "open", "ask", "send", "error"}
  /\ IF wroteHeader THEN Aborted ELSE Respond
  /\ UNCHANGED <<call, calls, path, client>>

\* The drain of the server is over while the handler runs: Close, and exit.
Stop ==
  /\ handler # "ended"
  /\ Aborted
  /\ UNCHANGED <<call, calls, path, client>>

-----------------------------------------------------------------------------
(* The network (external): what was not read can be lost, the header too.  *)

Cut ==
  /\ conn # "cut"
  /\ conn' = "cut"
  /\ \E kept \in 0..Len(wire) : wire' = SubSeq(wire, 1, kept)
  /\ \/ UNCHANGED status
     \/ page = "wait" /\ wroteHeader /\ status' = "lost" /\ wire' = <<>>
  /\ UNCHANGED <<call, server, client>>

-----------------------------------------------------------------------------
(* The page.                                                               *)

Rest(how, visible) ==
  /\ page' = "rest"
  /\ answer' = how
  /\ notice' = visible

\* fetch resolves with the header of a stream.
StreamStarts ==
  /\ page = "wait" /\ path = "stream" /\ status = "stream"
  /\ page' = "read"
  /\ UNCHANGED <<call, server, network, half, output, answer, notice>>

\* form.submit(): a new request, for a page.
PostAgain ==
  /\ path' = "page" /\ handler' = "checks"
  /\ status' = "none" /\ wire' = <<>> /\ conn' = "up"
  /\ said' = 0 /\ stopped' = "" /\ shown' = <<>> /\ result' = "none"
  /\ half' = "none"

\* fetch resolves with anything else.
Fallback ==
  /\ page = "wait" /\ path = "stream" /\ status = "page"
  /\ PostAgain
  /\ UNCHANGED <<calls, page, output, answer, notice>>

\* The browser shows the response to the form.
ShowPage ==
  /\ page = "wait" /\ path = "page" /\ status = "page"
  /\ \/ wire # <<>> /\ Head(wire).event = "answer" /\ Rest("page", FALSE) /\ output' = shown
     \/ wire # <<>> /\ Head(wire).event = "page" /\ Rest("error", FALSE) /\ UNCHANGED output
     \/ wire = <<>> /\ conn = "cut" /\ Rest("failed", FALSE) /\ UNCHANGED output
  /\ UNCHANGED <<call, server, network, half>>

\* fetch rejects, or the browser shows its own error page.
FetchFails ==
  /\ page = "wait" /\ status \in {"none", "lost"} /\ conn = "cut"
  /\ Rest("failed", path = "stream")
  /\ UNCHANGED <<call, server, network, half, output>>

\* readEvents yields the event that ends here, and readAnswer takes it.
TakeEvent(event) ==
  CASE event = "delta" ->
         /\ output' = Append(output, Len(output) + 1)
         /\ UNCHANGED <<page, answer, notice>>
    [] event = "error" -> Rest("error", TRUE) /\ UNCHANGED output
    [] event = "done" -> Rest("done", notice) /\ UNCHANGED output
    [] OTHER -> UNCHANGED <<page, output, answer, notice>>

\* The next bytes of the body.
Read ==
  /\ page = "read" /\ wire # <<>>
  /\ wire' = Tail(wire)
  /\ IF Head(wire).end
       THEN half' = "none" /\ TakeEvent(Head(wire).event)
       ELSE half' = Head(wire).event /\ UNCHANGED <<page, output, answer, notice>>
  /\ UNCHANGED <<call, server, status, conn>>

\* Mutant of BodyEnds: the page stops without a word.
BodyEndsQuietly ==
  /\ page = "read" /\ wire = <<>> /\ conn # "up"
  /\ Rest("early", notice)
  /\ UNCHANGED <<call, server, network, half, output>>

\* The body ends before the answer did: the reader returns or throws. A
\* proxy in between can make one look like the other.
BodyEnds ==
  /\ page = "read" /\ wire = <<>> /\ conn # "up"
  /\ Rest("early", TRUE) \/ (conn = "cut" /\ Rest("broken", TRUE))
  /\ UNCHANGED <<call, server, network, half, output>>

\* The user closes the page.
Leave ==
  /\ page \in {"wait", "read"}
  /\ page' = "left"
  /\ conn' = "cut"
  /\ UNCHANGED <<call, server, status, wire, half, output, answer, notice>>

\* htmx:afterRequest of another request of the page: a success hides the
\* notice, and an error shows it.
OtherRequest ==
  /\ Htmx /\ page \in {"wait", "read", "rest"} /\ path = "stream"
  /\ notice' = ~notice
  /\ UNCHANGED <<call, server, network, page, half, output, answer>>

Serve ==
  \/ Refuse \/ Pass \/ OpenFails \/ Open \/ Invalid
  \/ Deliver \/ Return \/ Finish \/ E \/ Panic

Browse ==
  StreamStarts \/ Fallback \/ ShowPage \/ FetchFails \/ Read \/ BodyEnds

Next == Serve \/ Speak \/ Stop \/ Cut \/ Browse \/ Leave \/ OtherRequest

Spec == Init /\ [][Next]_vars

\* The handler goes on, since the call has a deadline and a write on a broken
\* connection returns; the browser reads what is there. No failure has to
\* happen.
FairSpec ==
  Spec /\ WF_vars(Refuse \/ Pass) /\ WF_vars(OpenFails \/ Open \/ Invalid)
       /\ WF_vars(Return) /\ WF_vars(Finish) /\ WF_vars(E) /\ WF_vars(Browse)

-----------------------------------------------------------------------------
(* Properties.                                                             *)

\* The page does not stay busy, and the handler does not stay with it.
QuestionEnds == <>(page \in {"rest", "left"} /\ handler = "ended")

\* static/app.js shows the user that an answer stopped early (http.md:160).
\* It does not hold with Htmx: another request hides the notice.
EarlyEndStaysVisible == page = "rest" /\ answer \in {"early", "broken"} => notice
=============================================================================
