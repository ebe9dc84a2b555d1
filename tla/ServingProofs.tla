---------------------------- MODULE ServingProofs ----------------------------
(***************************************************************************)
(* What a server promises to the browsers that it serves, for instances of *)
(* any size: a question of the chat page, a logout against the requests of *)
(* the other tabs, and the end of a process with its open requests.        *)
(*                                                                         *)
(* The chat comes first: what the page takes for a complete answer is      *)
(* complete, although the connection, the handler, the process and the     *)
(* user may give up at any moment.  The inductive invariant relates the    *)
(* page to the model call through what is on the wire.  A numbering of the *)
(* wire counts the parts: before its first piece it is what the page       *)
(* shows, behind its last piece what the handler wrote, and at a "done"    *)
(* all that the model said.                                                *)
(***************************************************************************)
EXTENDS AnswerStream, TabView, ProcessEnd, Integers, SequenceTheorems, TLAPS

-----------------------------------------------------------------------------
(* The parts on the wire.                                                  *)

\* A part is there when its second half is: readEvents yields an event then.
Gain(piece) == IF piece.event = "delta" /\ piece.end THEN 1 ELSE 0

Events(pieces) == {pieces[i].event : i \in 1..Len(pieces)}

\* A reader with "from" parts has "to" parts behind the pieces, and all of
\* them at a "done".
Carries(pieces, from, to, all) ==
  \E f \in [1..Len(pieces) + 1 -> Nat] :
    /\ f[1] = from /\ f[Len(pieces) + 1] = to
    /\ \A i \in 1..Len(pieces) :
         /\ f[i + 1] = f[i] + Gain(pieces[i])
         /\ pieces[i].event = "done" => f[i] = all

LEMMA GainType == \A piece : Gain(piece) \in {0, 1}
BY DEF Gain

\* Nothing on the wire carries nothing.
LEMMA EmptyWire ==
  ASSUME NEW from \in Nat, NEW all \in Nat
  PROVE  Carries(<<>>, from, from, all) /\ Events(<<>>) = {}
<1>1. Len(<<>>) = 0 /\ \A i \in 1..Len(<<>>) : FALSE
  OBVIOUS
<1>2. PICK f \in [1..1 -> Nat] : f[1] = from
  <2>1. [i \in 1..1 |-> from] \in [1..1 -> Nat] /\ [i \in 1..1 |-> from][1] = from
    OBVIOUS
  <2>2. QED
    BY <2>1
<1>3. f \in [1..Len(<<>>) + 1 -> Nat] /\ f[Len(<<>>) + 1] = from
  BY <1>1, <1>2
<1>4. QED
  BY <1>1, <1>2, <1>3 DEF Carries, Events

\* A piece more carries its gain more.
LEMMA WireAppend ==
  ASSUME NEW pieces \in Seq(Piece), NEW piece \in Piece
  PROVE  /\ Append(pieces, piece) \in Seq(Piece)
         /\ Events(Append(pieces, piece)) = Events(pieces) \cup {piece.event}
         /\ \A from, to, all \in Nat :
              Carries(pieces, from, to, all) /\ (piece.event = "done" => to = all)
                => Carries(Append(pieces, piece), from, to + Gain(piece), all)
<1> DEFINE n == Len(pieces)
           more == Append(pieces, piece)
<1>1. /\ n \in Nat /\ Len(more) = n + 1 /\ more \in Seq(Piece)
      /\ \A i \in 1..n : more[i] = pieces[i]
      /\ more[n + 1] = piece
  BY AppendProperties, LenProperties
<1>2. \A i \in 1..n + 1 : i = n + 1 \/ i \in 1..n
  BY <1>1
<1> HIDE DEF more
<1>3. Events(more) = Events(pieces) \cup {piece.event}
  <2>1. Events(more) = {more[i].event : i \in 1..n + 1}
    BY <1>1 DEF Events
  <2>2. \A i \in 1..n : i \in 1..n + 1
    BY <1>1
  <2>3. n + 1 \in 1..n + 1
    BY <1>1
  <2>4. QED
    BY <1>1, <1>2, <2>1, <2>2, <2>3, Zenon DEF Events
<1>4. ASSUME NEW from \in Nat, NEW to \in Nat, NEW all \in Nat,
             Carries(pieces, from, to, all), piece.event = "done" => to = all
      PROVE  Carries(more, from, to + Gain(piece), all)
  <2>1. PICK f \in [1..n + 1 -> Nat] :
          /\ f[1] = from /\ f[n + 1] = to
          /\ \A i \in 1..n :
               /\ f[i + 1] = f[i] + Gain(pieces[i])
               /\ pieces[i].event = "done" => f[i] = all
    BY <1>4 DEF Carries
  <2>2. PICK g \in [1..Len(more) + 1 -> Nat] :
          (\A i \in 1..n + 1 : g[i] = f[i]) /\ g[n + 2] = to + Gain(piece)
    <3> DEFINE h == [i \in 1..n + 2 |-> IF i <= n + 1 THEN f[i] ELSE to + Gain(piece)]
    <3>1. to + Gain(piece) \in Nat
      BY GainType
    <3>2. /\ h \in [1..Len(more) + 1 -> Nat] /\ h[n + 2] = to + Gain(piece)
          /\ \A i \in 1..n + 1 : h[i] = f[i]
      BY <1>1, <2>1, <3>1
    <3> HIDE DEF h
    <3>3. QED
      BY <3>2
  <2> HIDE DEF n
  <2>3. g[1] = from /\ g[Len(more) + 1] = to + Gain(piece)
    BY <1>1, <2>1, <2>2
  <2>4. ASSUME NEW i \in 1..Len(more)
        PROVE  /\ g[i + 1] = g[i] + Gain(more[i])
               /\ more[i].event = "done" => g[i] = all
    <3>1. CASE i = n + 1
      <4>1. more[i] = piece /\ g[i] = to /\ g[i + 1] = to + Gain(piece)
        BY <1>1, <2>1, <2>2, <3>1
      <4>2. QED
        BY <1>4, <4>1
    <3>2. CASE i \in 1..n
      <4>1. more[i] = pieces[i] /\ g[i] = f[i] /\ g[i + 1] = f[i + 1]
        BY <1>1, <2>2, <3>2
      <4>2. QED
        BY <2>1, <3>2, <4>1
    <3>3. QED
      BY <1>1, <1>2, <3>1, <3>2
  <2>5. QED
    BY <2>3, <2>4 DEF Carries
<1>5. QED
  BY <1>1, <1>3, <1>4 DEF more

\* The first piece goes to the reader.
LEMMA WireTail ==
  ASSUME NEW pieces \in Seq(Piece), pieces # <<>>
  PROVE  /\ Tail(pieces) \in Seq(Piece) /\ Head(pieces) \in Piece
         /\ Events(Tail(pieces)) \subseteq Events(pieces)
         /\ Head(pieces).event \in Events(pieces)
         /\ \A from, to, all \in Nat :
              Carries(pieces, from, to, all) =>
                /\ Head(pieces).event = "done" => from = all
                /\ Carries(Tail(pieces), from + Gain(Head(pieces)), to, all)
<1> DEFINE n == Len(pieces)
           rest == Tail(pieces)
           first == Head(pieces)
<1>1. /\ n \in Nat /\ n > 0 /\ Len(rest) = n - 1 /\ rest \in Seq(Piece)
      /\ \A i \in 1..n - 1 : rest[i] = pieces[i + 1]
      /\ first \in Piece /\ first = pieces[1]
  BY HeadTailProperties, LenProperties, EmptySeq
<1> HIDE DEF rest, first
<1>2. 1 \in 1..n /\ \A i \in 1..Len(rest) : i + 1 \in 1..n /\ rest[i] = pieces[i + 1]
  BY <1>1
<1>3. Events(rest) \subseteq Events(pieces) /\ first.event \in Events(pieces)
  BY <1>1, <1>2, Zenon DEF Events, n
<1>4. ASSUME NEW from \in Nat, NEW to \in Nat, NEW all \in Nat, Carries(pieces, from, to, all)
      PROVE  /\ first.event = "done" => from = all
             /\ Carries(rest, from + Gain(first), to, all)
  <2>1. PICK f \in [1..n + 1 -> Nat] :
          /\ f[1] = from /\ f[n + 1] = to
          /\ \A i \in 1..n :
               /\ f[i + 1] = f[i] + Gain(pieces[i])
               /\ pieces[i].event = "done" => f[i] = all
    BY <1>4 DEF Carries
  <2>2. PICK g \in [1..Len(rest) + 1 -> Nat] : \A i \in 1..n : g[i] = f[i + 1]
    <3> DEFINE h == [i \in 1..n |-> f[i + 1]]
    <3>1. h \in [1..Len(rest) + 1 -> Nat] /\ \A i \in 1..n : h[i] = f[i + 1]
      BY <1>1, <2>1
    <3> HIDE DEF h
    <3>2. QED
      BY <3>1
  <2> HIDE DEF n
  <2>3. g[1] = from + Gain(first) /\ (first.event = "done" => from = all)
    <3>1. f[1 + 1] = f[1] + Gain(pieces[1]) /\ (pieces[1].event = "done" => f[1] = all)
      BY <1>2, <2>1
    <3>2. g[1] = f[1 + 1]
      BY <1>2, <2>2
    <3>3. QED
      BY <1>1, <2>1, <3>1, <3>2
  <2>4. g[Len(rest) + 1] = to
    <3>1. Len(rest) + 1 = n /\ n \in 1..n
      BY <1>1
    <3>2. QED
      BY <2>1, <2>2, <3>1
  <2>5. ASSUME NEW i \in 1..Len(rest)
        PROVE  /\ g[i + 1] = g[i] + Gain(rest[i])
               /\ rest[i].event = "done" => g[i] = all
    <3>1. i \in 1..n /\ i + 1 \in 1..n /\ rest[i] = pieces[i + 1]
      BY <1>1, <1>2
    <3>2. g[i] = f[i + 1] /\ g[i + 1] = f[i + 1 + 1]
      BY <2>2, <3>1
    <3>3. QED
      BY <2>1, <3>1, <3>2
  <2>6. QED
    BY <2>3, <2>4, <2>5 DEF Carries
<1>5. QED
  BY <1>1, <1>3, <1>4 DEF rest, first

\* The rest of the wire is lost.
LEMMA WireCut ==
  ASSUME NEW pieces \in Seq(Piece), NEW kept \in 0..Len(pieces)
  PROVE  /\ SubSeq(pieces, 1, kept) \in Seq(Piece)
         /\ Events(SubSeq(pieces, 1, kept)) \subseteq Events(pieces)
         /\ \A from, to, all \in Nat :
              Carries(pieces, from, to, all) =>
                \E less \in Nat : Carries(SubSeq(pieces, 1, kept), from, less, all)
<1> DEFINE head == SubSeq(pieces, 1, kept)
<1>1. \A i \in 1..kept : i \in 1..Len(pieces) /\ pieces[i] \in Piece
  BY LenProperties, ElementOfSeq
<1>2. /\ head \in Seq(Piece) /\ Len(head) = kept /\ kept \in Nat /\ Len(pieces) \in Nat
      /\ \A i \in 1..kept : head[i] = pieces[i]
  BY <1>1, LenProperties, SubSeqProperties
<1> HIDE DEF head
<1>3. Events(head) \subseteq Events(pieces)
  BY <1>1, <1>2, Zenon DEF Events
<1>4. ASSUME NEW from \in Nat, NEW to \in Nat, NEW all \in Nat, Carries(pieces, from, to, all)
      PROVE  \E less \in Nat : Carries(head, from, less, all)
  <2>1. PICK f \in [1..Len(pieces) + 1 -> Nat] :
          /\ f[1] = from
          /\ \A i \in 1..Len(pieces) :
               /\ f[i + 1] = f[i] + Gain(pieces[i])
               /\ pieces[i].event = "done" => f[i] = all
    BY <1>4 DEF Carries
  <2>2. PICK g \in [1..Len(head) + 1 -> Nat] : \A i \in 1..kept + 1 : g[i] = f[i]
    <3> DEFINE h == [i \in 1..kept + 1 |-> f[i]]
    <3>1. h \in [1..Len(head) + 1 -> Nat] /\ \A i \in 1..kept + 1 : h[i] = f[i]
      BY <1>2, <2>1
    <3> HIDE DEF h
    <3>2. QED
      BY <3>1
  <2>3. g[1] = from /\ g[Len(head) + 1] \in Nat
    BY <1>2, <2>1, <2>2
  <2>4. ASSUME NEW i \in 1..Len(head)
        PROVE  /\ g[i + 1] = g[i] + Gain(head[i])
               /\ head[i].event = "done" => g[i] = all
    <3>1. i \in 1..Len(pieces) /\ head[i] = pieces[i] /\ g[i] = f[i] /\ g[i + 1] = f[i + 1]
      BY <1>1, <1>2, <2>2
    <3>2. QED
      BY <2>1, <3>1
  <2>5. Carries(head, from, g[Len(head) + 1], all)
    BY <2>3, <2>4 DEF Carries
  <2>6. QED
    BY <2>3, <2>5
<1>5. QED
  BY <1>2, <1>3, <1>4 DEF head

\* Before a "done" the model may go on.
LEMMA WireOpen ==
  ASSUME NEW pieces, NEW from, NEW to, NEW all, NEW other,
         Carries(pieces, from, to, all), "done" \notin Events(pieces)
  PROVE  Carries(pieces, from, to, other)
BY DEF Carries, Events

-----------------------------------------------------------------------------
(* The inductive invariant.                                                *)

ChatTypes ==
  /\ said \in Nat /\ calls \in Nat
  /\ shown \in Seq(Nat) /\ output \in Seq(Nat)
  /\ stopped \in {"", "tool"} \cup Model!Stops
  /\ result \in {"none", "error"} \cup Model!Stops
  /\ path \in {"stream", "page"}
  /\ handler \in {"checks", "open", "ask", "send", "error", "ended"}
  /\ status \in {"none", "stream", "page", "lost"}
  /\ wire \in Seq(Piece)
  /\ conn \in {"up", "eof", "cut"}

\* What the model call gave so far.
CallInv ==
  /\ Len(shown) <= said
  /\ \A i \in 1..Len(shown) : shown[i] = i
  /\ \A i \in 1..Len(output) : output[i] = i
  /\ result \in Model!Stops => stopped = result /\ Len(shown) = said
  /\ handler = "send" => result # "none"

\* When the header and the model call have begun.
HandlerInv ==
  /\ handler # "ended" => conn # "eof"
  /\ handler \in {"checks", "open"} => status = "none" /\ calls = 0
  /\ handler # "ended" /\ path = "page" => status = "none"
  /\ handler \in {"ask", "send", "error"} /\ path = "stream" => status \in {"stream", "lost"}
  /\ calls <= 1
  /\ calls = 1 /\ path = "stream" => status \in {"stream", "lost"}

\* What may be on the wire: an end of the answer only after the model call.
BodyInv ==
  /\ status \in {"none", "lost"} => wire = <<>>
  /\ status = "lost" => conn # "up"
  /\ status = "stream" => Events(wire) \subseteq Event
  /\ status = "page" => Events(wire) \cap Event = {}
  /\ "done" \in Events(wire) \/ "answer" \in Events(wire) => result \in Model!Stops

\* The parts on the wire continue the parts on the page.
PartsInv ==
  path = "stream" =>
    \E to \in Nat : Carries(wire, Len(output), to, Len(shown)) /\ (conn = "up" => to = Len(shown))

PageInv ==
  /\ page = "read" => path = "stream" /\ status = "stream"
  /\ answer \in {"done", "page"} =>
       page = "rest" /\ result \in Model!Stops /\ Len(output) = Len(shown)

ChatInv == ChatTypes /\ CallInv /\ HandlerInv /\ BodyInv /\ PartsInv /\ PageInv

-----------------------------------------------------------------------------
(* What the response does to the wire.                                     *)

LEMMA SendEffect ==
  ASSUME wire \in Seq(Piece), NEW event \in Event, Send(event)
  PROVE  /\ wire' \in Seq(Piece) /\ Events(wire') \subseteq Events(wire) \cup {event}
         /\ conn # "up" => wire' = wire
         /\ conn = "up" =>
              \A from, to, all \in Nat :
                Carries(wire, from, to, all) /\ (event = "done" => to = all)
                  => Carries(wire', from, IF event = "delta" THEN to + 1 ELSE to, all)
<1> DEFINE start == [event |-> event, end |-> FALSE]
           stop == [event |-> event, end |-> TRUE]
<1>1. /\ start \in Piece /\ start.event = event /\ Gain(start) = 0
      /\ stop \in Piece /\ stop.event = event /\ Gain(stop) = IF event = "delta" THEN 1 ELSE 0
  BY DEF Piece, Gain
<1>2. wire' = IF conn = "up" THEN wire \o <<start, stop>> ELSE wire
  BY DEF Send, Written
<1> HIDE DEF start, stop
<1>3. CASE conn # "up"
  BY <1>2, <1>3
<1>4. CASE conn = "up"
  <2> DEFINE one == Append(wire, start)
  <2>1. one \in Seq(Piece) /\ Events(one) = Events(wire) \cup {event}
    BY <1>1, WireAppend
  <2>2. wire' = Append(one, stop)
    BY <1>1, <1>2, <1>4
  <2>3. ASSUME NEW from \in Nat, NEW to \in Nat, NEW all \in Nat,
               Carries(wire, from, to, all), event = "done" => to = all
        PROVE  Carries(wire', from, IF event = "delta" THEN to + 1 ELSE to, all)
    <3>1. Carries(one, from, to + 0, all)
      BY <1>1, <2>3, WireAppend
    <3>2. Carries(one, from, to, all)
      BY <3>1
    <3> HIDE DEF one
    <3>3. Carries(wire', from, to + Gain(stop), all)
      BY <1>1, <2>1, <2>2, <2>3, <3>2, WireAppend
    <3>4. to + Gain(stop) = IF event = "delta" THEN to + 1 ELSE to
      BY <1>1
    <3>5. QED
      BY <3>3, <3>4
  <2> HIDE DEF one
  <2>4. wire' \in Seq(Piece) /\ Events(wire') \subseteq Events(wire) \cup {event}
    BY <1>1, <2>1, <2>2, WireAppend
  <2>5. QED
    BY <1>4, <2>3, <2>4
<1>5. QED
  BY <1>3, <1>4

LEMMA RenderEffect ==
  ASSUME wire \in Seq(Piece), NEW what \in {"answer", "page"}, Render(what)
  PROVE  /\ wire' \in Seq(Piece) /\ Events(wire') \subseteq Events(wire) \cup {what}
         /\ status' = IF conn = "up" THEN "page" ELSE "lost"
         /\ conn # "up" => wire' = wire
         /\ \A from, to, all \in Nat :
              Carries(wire, from, to, all) => Carries(wire', from, to, all)
<1> DEFINE whole == [event |-> what, end |-> TRUE]
<1>1. whole \in Piece /\ whole.event = what /\ Gain(whole) = 0 /\ what # "done"
  BY DEF Piece, Gain
<1>2. /\ wire' = IF conn = "up" THEN wire \o <<whole>> ELSE wire
      /\ status' = IF conn = "up" THEN "page" ELSE "lost"
  BY DEF Render, Written, WriteHeader
<1> HIDE DEF whole
<1>3. CASE conn # "up"
  BY <1>2, <1>3
<1>4. CASE conn = "up"
  <2>1. wire' = Append(wire, whole)
    BY <1>1, <1>2, <1>4
  <2>2. wire' \in Seq(Piece) /\ Events(wire') \subseteq Events(wire) \cup {what}
    BY <1>1, <2>1, WireAppend
  <2>3. ASSUME NEW from \in Nat, NEW to \in Nat, NEW all \in Nat, Carries(wire, from, to, all)
        PROVE  Carries(wire', from, to, all)
    <3>1. Carries(wire', from, to + 0, all)
      BY <1>1, <2>1, <2>3, WireAppend
    <3>2. QED
      BY <3>1
  <2>4. QED
    BY <1>2, <1>4, <2>2, <2>3
<1>5. QED
  BY <1>3, <1>4

\* The answer of web.E or recoverResponse keeps what was written, or is a page.
LEMMA RespondEffect ==
  ASSUME ChatInv, Respond
  PROVE  /\ handler' = "ended" /\ conn' = IF conn = "up" THEN "eof" ELSE conn
         /\ wire' \in Seq(Piece)
         /\ status # "none" => UNCHANGED <<status, wire>>
         /\ status = "none" =>
              /\ status' = IF conn = "up" THEN "page" ELSE "lost"
              /\ Events(wire') \subseteq {"page"} /\ (conn # "up" => wire' = <<>>)
         /\ \A from, to, all \in Nat :
              Carries(wire, from, to, all) => Carries(wire', from, to, all)
<1>1. wire \in Seq(Piece) /\ (status = "none" => wire = <<>>)
  BY DEF ChatInv, ChatTypes, BodyInv
<1>2. /\ handler' = "ended" /\ conn' = IF conn = "up" THEN "eof" ELSE conn
  BY DEF Respond, Ended
<1>3. CASE status # "none"
  <2>1. UNCHANGED <<status, wire>>
    BY <1>3 DEF Respond, wroteHeader
  <2>2. QED
    BY <1>1, <1>2, <1>3, <2>1
<1>4. CASE status = "none"
  <2>1. Render("page")
    BY <1>4 DEF Respond, wroteHeader
  <2>2. Events(wire) = {}
    BY <1>1, <1>4, EmptyWire
  <2>3. QED
    BY <1>1, <1>2, <1>4, <2>1, <2>2, RenderEffect
<1>5. QED
  BY <1>3, <1>4

-----------------------------------------------------------------------------
(* The steps of the handler.                                               *)

\* The handler chain ends, with a response or a cut connection.
LEMMA EndStep ==
  ASSUME ChatInv, UNCHANGED <<call, calls, path, client>>, handler # "ended",
         Respond \/ Aborted
  PROVE  ChatInv'
<1>1. ChatTypes /\ CallInv /\ HandlerInv /\ BodyInv /\ PartsInv /\ PageInv
  BY DEF ChatInv
<1>2. UNCHANGED <<said, stopped, shown, result, calls, path, page, half, output, answer, notice>>
  BY DEF call, client
<1>3. CASE Aborted
  <2>1. handler' = "ended" /\ conn' = "cut" /\ UNCHANGED <<status, wire>>
    BY <1>3 DEF Aborted
  <2>2. ChatTypes' /\ CallInv' /\ HandlerInv' /\ BodyInv' /\ PageInv'
    BY <1>1, <1>2, <2>1 DEF ChatTypes, CallInv, HandlerInv, BodyInv, PageInv
  <2>3. PartsInv'
    BY <1>1, <1>2, <2>1 DEF PartsInv
  <2>4. QED
    BY <2>2, <2>3 DEF ChatInv
<1>4. CASE Respond
  <2>1. /\ handler' = "ended" /\ conn' = IF conn = "up" THEN "eof" ELSE conn
        /\ wire' \in Seq(Piece)
        /\ status # "none" => UNCHANGED <<status, wire>>
        /\ status = "none" =>
             /\ status' = IF conn = "up" THEN "page" ELSE "lost"
             /\ Events(wire') \subseteq {"page"} /\ (conn # "up" => wire' = <<>>)
        /\ \A from, to, all \in Nat :
             Carries(wire, from, to, all) => Carries(wire', from, to, all)
    BY <1>4, RespondEffect
  <2>2. ChatTypes' /\ CallInv'
    BY <1>1, <1>2, <2>1 DEF ChatTypes, CallInv
  <2>3. HandlerInv'
    BY <1>1, <1>2, <2>1 DEF HandlerInv
  <2>4. BodyInv' /\ PageInv'
    BY <1>1, <1>2, <2>1 DEF BodyInv, PageInv, Event, ChatTypes
  <2>5. PartsInv'
    <3>1. Len(output) \in Nat
      BY <1>1, LenProperties DEF ChatTypes
    <3>2. QED
      BY <1>1, <1>2, <2>1, <3>1 DEF PartsInv
  <2>6. QED
    BY <2>2, <2>3, <2>4, <2>5 DEF ChatInv
<1>5. QED
  BY <1>3, <1>4

LEMMA PassStep == ASSUME ChatInv, Pass PROVE ChatInv'
<1>1. /\ handler = "checks" /\ handler' = "open"
      /\ UNCHANGED <<said, stopped, shown, result, calls, path, status, wire, conn,
                     page, half, output, answer, notice>>
  BY DEF Pass, call, network, client
<1>2. QED
  BY <1>1 DEF ChatInv, ChatTypes, CallInv, HandlerInv, BodyInv, PartsInv, PageInv

LEMMA OpenStep == ASSUME ChatInv, Open PROVE ChatInv'
<1>1. ChatTypes /\ CallInv /\ HandlerInv /\ BodyInv /\ PartsInv /\ PageInv
  BY DEF ChatInv
<1>2. /\ handler = "open" /\ handler' = "ask" /\ calls' = calls + 1
      /\ UNCHANGED <<said, stopped, shown, result, path, wire, conn,
                     page, half, output, answer, notice>>
      /\ status' = IF path = "page" THEN status ELSE IF conn = "up" THEN "stream" ELSE "lost"
  BY <1>1 DEF Open, WriteHeader, call, client, ChatTypes
<1>3. status = "none" /\ calls = 0 /\ calls' = 1 /\ wire = <<>> /\ conn # "eof"
  BY <1>1, <1>2 DEF HandlerInv, BodyInv
<1>4. Events(wire) = {}
  BY <1>3, EmptyWire
<1>5. ChatTypes' /\ CallInv'
  <2>1. calls' \in Nat
    BY <1>3
  <2>2. QED
    BY <1>1, <1>2, <2>1 DEF ChatTypes, CallInv
<1>6. HandlerInv' /\ PageInv'
  <2>1. calls' <= 1
    BY <1>3
  <2>2. QED
    BY <1>1, <1>2, <1>3, <2>1 DEF ChatTypes, HandlerInv, PageInv
<1>7. BodyInv' /\ PartsInv'
  BY <1>1, <1>2, <1>3, <1>4 DEF BodyInv, PartsInv
<1>8. QED
  BY <1>5, <1>6, <1>7 DEF ChatInv

LEMMA InvalidStep == ASSUME ChatInv, Invalid PROVE ChatInv'
<1>1. ChatTypes /\ CallInv /\ HandlerInv /\ BodyInv /\ PartsInv /\ PageInv
  BY DEF ChatInv
<1>2. /\ handler = "open" /\ handler' = "ended" /\ conn' = IF conn = "up" THEN "eof" ELSE conn
      /\ UNCHANGED <<said, stopped, shown, result, calls, path,
                     page, half, output, answer, notice>>
  BY DEF Invalid, Ended, call, client
<1>3. status = "none" /\ calls = 0 /\ wire = <<>> /\ conn # "eof" /\ Len(output) \in Nat
  BY <1>1, <1>2, LenProperties DEF HandlerInv, BodyInv, ChatTypes
<1>4. Events(wire) = {} /\ wire \in Seq(Piece)
  BY <1>1, <1>3, EmptyWire DEF ChatTypes
<1>5. CASE path = "page"
  <2>1. /\ wire' \in Seq(Piece) /\ Events(wire') \subseteq {"page"}
        /\ status' = IF conn = "up" THEN "page" ELSE "lost"
        /\ conn # "up" => wire' = wire
    BY <1>4, <1>5, RenderEffect DEF Invalid
  <2>2. ChatTypes' /\ CallInv'
    BY <1>1, <1>2, <2>1 DEF ChatTypes, CallInv
  <2>3. HandlerInv' /\ PageInv' /\ PartsInv'
    BY <1>1, <1>2, <1>3, <1>5, <2>1 DEF ChatTypes, HandlerInv, PageInv, PartsInv
  <2>4. BodyInv'
    BY <1>1, <1>2, <1>3, <2>1 DEF BodyInv, Event, ChatTypes
  <2>5. QED
    BY <2>2, <2>3, <2>4 DEF ChatInv
<1>6. CASE path = "stream"
  <2>1. Send("error") /\ status' = IF conn = "up" THEN "stream" ELSE "lost"
    BY <1>6 DEF Invalid, WriteHeader
  <2>2. /\ wire' \in Seq(Piece) /\ Events(wire') \subseteq {"error"}
        /\ conn # "up" => wire' = wire
        /\ conn = "up" => \A from, to, all \in Nat :
             Carries(wire, from, to, all) => Carries(wire', from, to, all)
    BY <1>4, <2>1, SendEffect DEF Event
  <2>3. ChatTypes' /\ CallInv'
    BY <1>1, <1>2, <2>1, <2>2 DEF ChatTypes, CallInv
  <2>4. HandlerInv' /\ PageInv'
    BY <1>1, <1>2, <1>3, <2>1 DEF ChatTypes, HandlerInv, PageInv
  <2>5. BodyInv'
    BY <1>1, <1>2, <1>3, <2>1, <2>2 DEF BodyInv, Event, ChatTypes
  <2>6. PartsInv'
    BY <1>1, <1>2, <1>3, <2>2 DEF PartsInv
  <2>7. QED
    BY <2>3, <2>4, <2>5, <2>6 DEF ChatInv
<1>7. QED
  BY <1>1, <1>5, <1>6 DEF ChatTypes

LEMMA SpeakStep == ASSUME ChatInv, Speak PROVE ChatInv'
<1>1. ChatTypes /\ CallInv /\ HandlerInv /\ BodyInv /\ PartsInv /\ PageInv
  BY DEF ChatInv
<1>2. /\ UNCHANGED <<shown, result, calls, path, handler, status, wire, conn,
                     page, half, output, answer, notice>>
      /\ stopped = "" /\ said' \in {said, said + 1}
      /\ stopped' \in {"", "tool"} \cup Model!Stops
  BY DEF Speak, server, network, client, Model!Say, Model!Stop
<1>3. said' \in Nat /\ said' >= said /\ said \in Nat /\ Len(shown) \in Nat
  <2>1. said \in Nat /\ Len(shown) \in Nat
    BY <1>1, LenProperties DEF ChatTypes
  <2>2. said' \in {said, said + 1}
    BY <1>2
  <2>3. QED
    BY <2>1, <2>2
<1>4. result \notin Model!Stops
  BY <1>1, <1>2 DEF CallInv, Model!Stops
<1>5. Len(shown) <= said'
  BY <1>1, <1>3 DEF CallInv
<1>6. ChatTypes' /\ CallInv'
  BY <1>1, <1>2, <1>3, <1>4, <1>5 DEF ChatTypes, CallInv
<1>7. HandlerInv' /\ BodyInv' /\ PartsInv' /\ PageInv'
  BY <1>1, <1>2 DEF HandlerInv, BodyInv, PartsInv, PageInv
<1>8. QED
  BY <1>6, <1>7 DEF ChatInv

LEMMA ReturnStep == ASSUME ChatInv, Return PROVE ChatInv'
<1>1. ChatTypes /\ CallInv /\ HandlerInv /\ BodyInv /\ PartsInv /\ PageInv
  BY DEF ChatInv
<1>2. /\ UNCHANGED <<said, stopped, shown, calls, path, status, wire, conn,
                     page, half, output, answer, notice>>
      /\ handler = "ask" /\ handler' = "send"
  BY DEF Return, network, client, call, Model!Complete, Model!Fail
<1>3. \/ result # "none" /\ result' = result
      \/ result = "none" /\ result' = "error"
      \/ result = "none" /\ result' = stopped /\ stopped \in Model!Stops /\ Len(shown) = said
  BY DEF Return, call, Model!Complete, Model!Fail
<1>4. "none" \notin Model!Stops /\ "error" \notin Model!Stops
  BY DEF Model!Stops
<1>5. /\ result' \in {"error"} \cup Model!Stops /\ result' # "none"
      /\ result \in Model!Stops => result' = result
      /\ result' \in Model!Stops => stopped = result' /\ Len(shown) = said
  BY <1>1, <1>3, <1>4 DEF ChatTypes, CallInv
<1>6. ChatTypes' /\ CallInv'
  BY <1>1, <1>2, <1>5 DEF ChatTypes, CallInv
<1>7. HandlerInv' /\ BodyInv' /\ PartsInv' /\ PageInv'
  BY <1>1, <1>2, <1>5 DEF HandlerInv, BodyInv, PartsInv, PageInv
<1>8. QED
  BY <1>6, <1>7 DEF ChatInv

LEMMA DeliverStep == ASSUME ChatInv, Deliver PROVE ChatInv'
<1>1. ChatTypes /\ CallInv /\ HandlerInv /\ BodyInv /\ PartsInv /\ PageInv
  BY DEF ChatInv
<1>2. /\ UNCHANGED <<said, stopped, calls, path, handler, status, conn,
                     page, half, output, answer, notice>>
      /\ handler = "ask" /\ result = "none" /\ result' \in {"none", "error"}
      /\ Len(shown) < said /\ shown' = Append(shown, Len(shown) + 1)
  BY DEF Deliver, server, client, Model!Part, Model!PartFails
<1>3. /\ shown \in Seq(Nat) /\ Len(shown) \in Nat /\ Len(output) \in Nat
      /\ said \in Nat /\ wire \in Seq(Piece)
  BY <1>1, LenProperties DEF ChatTypes
<1>4. /\ shown' \in Seq(Nat) /\ Len(shown') = Len(shown) + 1
      /\ \A i \in 1..Len(shown) : shown'[i] = shown[i]
      /\ shown'[Len(shown) + 1] = Len(shown) + 1
  BY <1>2, <1>3, AppendProperties
<1>5. Len(shown') <= said' /\ \A i \in 1..Len(shown') : shown'[i] = i
  <2>1. \A i \in 1..Len(shown') : i \in 1..Len(shown) \/ i = Len(shown) + 1
    BY <1>3, <1>4
  <2>2. \A i \in 1..Len(shown') : shown'[i] = i
    BY <1>1, <1>4, <2>1 DEF CallInv
  <2>3. Len(shown') <= said'
    BY <1>2, <1>3, <1>4
  <2>4. QED
    BY <2>2, <2>3
<1>6. result \notin Model!Stops /\ result' \notin Model!Stops
  BY <1>2 DEF Model!Stops
<1>7. "done" \notin Events(wire) /\ "answer" \notin Events(wire)
  BY <1>1, <1>6 DEF BodyInv
<1>8. CallInv' /\ HandlerInv' /\ PageInv'
  <2>1. CallInv'
    BY <1>1, <1>2, <1>5, <1>6 DEF CallInv
  <2>2. HandlerInv' /\ PageInv'
    BY <1>1, <1>2, <1>6 DEF HandlerInv, PageInv
  <2>3. QED
    BY <2>1, <2>2
<1>9. CASE path # "stream"
  <2>1. UNCHANGED wire
    BY <1>9 DEF Deliver
  <2>2. ChatTypes' /\ BodyInv' /\ PartsInv'
    BY <1>1, <1>2, <1>4, <1>7, <1>9, <2>1 DEF ChatTypes, BodyInv, PartsInv
  <2>3. QED
    BY <1>8, <2>2 DEF ChatInv
<1>10. CASE path = "stream"
  <2>1. Send("delta") /\ "delta" \in Event /\ "delta" # "done"
    BY <1>10 DEF Deliver, Event
  <2>2. /\ wire' \in Seq(Piece) /\ Events(wire') \subseteq Events(wire) \cup {"delta"}
        /\ conn # "up" => wire' = wire
        /\ conn = "up" => \A from, to, all \in Nat :
             Carries(wire, from, to, all) => Carries(wire', from, to + 1, all)
    BY <1>3, <2>1, SendEffect
  <2>3. status \in {"stream", "lost"}
    BY <1>1, <1>2, <1>10 DEF HandlerInv
  <2>4. ChatTypes' /\ BodyInv'
    BY <1>1, <1>2, <1>4, <1>7, <2>1, <2>2, <2>3 DEF ChatTypes, BodyInv
  <2>5. PICK to \in Nat :
          Carries(wire, Len(output), to, Len(shown)) /\ (conn = "up" => to = Len(shown))
    BY <1>1, <1>10 DEF PartsInv
  <2>6. Carries(wire, Len(output), to, Len(shown'))
    BY <1>7, <2>5, WireOpen
  <2>7. PartsInv'
    <3>1. CASE conn # "up"
      BY <1>2, <2>2, <2>6, <3>1 DEF PartsInv
    <3>2. CASE conn = "up"
      <4>1. Carries(wire', Len(output), to + 1, Len(shown'))
        BY <1>3, <2>2, <2>6, <3>2
      <4>2. to + 1 \in Nat /\ to + 1 = Len(shown')
        BY <1>4, <2>5, <3>2
      <4>3. QED
        BY <1>2, <4>1, <4>2 DEF PartsInv
    <3>3. QED
      BY <3>1, <3>2
  <2>8. QED
    BY <1>8, <2>4, <2>7 DEF ChatInv
<1>11. QED
  BY <1>9, <1>10

LEMMA FinishStep == ASSUME ChatInv, Finish PROVE ChatInv'
<1>1. ChatTypes /\ CallInv /\ HandlerInv /\ BodyInv /\ PartsInv /\ PageInv
  BY DEF ChatInv
<1>2. /\ UNCHANGED <<said, stopped, shown, result, calls, path,
                     page, half, output, answer, notice>>
      /\ handler = "send"
  BY DEF Finish, call, client
<1>3. wire \in Seq(Piece) /\ Len(output) \in Nat /\ Len(shown) \in Nat /\ conn # "eof"
  BY <1>1, <1>2, LenProperties DEF ChatTypes, HandlerInv
<1>4. CASE result = "error" /\ path = "page"
  <2>1. handler' = "error" /\ UNCHANGED <<status, conn, wire>>
    BY <1>4 DEF Finish
  <2>2. QED
    BY <1>1, <1>2, <1>4, <2>1
      DEF ChatInv, ChatTypes, CallInv, HandlerInv, BodyInv, PartsInv, PageInv
<1>5. CASE result = "error" /\ path # "page"
  <2>1. handler' = "error" /\ UNCHANGED <<status, conn>> /\ Send("error")
    BY <1>5 DEF Finish
  <2>2. path = "stream" /\ status \in {"stream", "lost"}
    BY <1>1, <1>2, <1>5 DEF ChatTypes, HandlerInv
  <2>3. /\ wire' \in Seq(Piece) /\ Events(wire') \subseteq Events(wire) \cup {"error"}
        /\ conn # "up" => wire' = wire
        /\ conn = "up" => \A from, to, all \in Nat :
             Carries(wire, from, to, all) => Carries(wire', from, to, all)
    BY <1>3, <2>1, SendEffect DEF Event
  <2>4. ChatTypes' /\ CallInv'
    BY <1>1, <1>2, <2>1, <2>3 DEF ChatTypes, CallInv
  <2>5. HandlerInv' /\ PageInv' /\ BodyInv'
    BY <1>1, <1>2, <2>1, <2>2, <2>3 DEF HandlerInv, PageInv, BodyInv, Event
  <2>6. PartsInv'
    BY <1>1, <1>2, <1>3, <2>1, <2>2, <2>3 DEF PartsInv
  <2>7. QED
    BY <2>4, <2>5, <2>6 DEF ChatInv
<1>6. CASE result # "error"
  <2>1. result \in Model!Stops /\ Ended
    BY <1>1, <1>2, <1>6 DEF ChatTypes, CallInv, Finish
  <2>2. handler' = "ended" /\ conn' = IF conn = "up" THEN "eof" ELSE conn
    BY <2>1 DEF Ended
  <2>3. CASE path = "page"
    <3>1. status = "none" /\ wire = <<>>
      BY <1>1, <1>2, <2>3 DEF HandlerInv, BodyInv
    <3>2. Events(wire) = {}
      BY <3>1, EmptyWire
    <3>3. /\ wire' \in Seq(Piece) /\ Events(wire') \subseteq {"answer"}
          /\ status' = IF conn = "up" THEN "page" ELSE "lost"
          /\ conn # "up" => wire' = wire
      BY <1>3, <1>6, <2>3, <3>2, RenderEffect DEF Finish
    <3>4. ChatTypes' /\ CallInv'
      BY <1>1, <1>2, <2>2, <3>3 DEF ChatTypes, CallInv
    <3>5. HandlerInv' /\ PageInv' /\ PartsInv'
      BY <1>1, <1>2, <2>2, <2>3 DEF HandlerInv, PageInv, PartsInv
    <3>6. BodyInv'
      BY <1>1, <1>2, <1>3, <2>1, <2>2, <3>1, <3>3 DEF BodyInv, Event, ChatTypes
    <3>7. QED
      BY <3>4, <3>5, <3>6 DEF ChatInv
  <2>4. CASE path # "page"
    <3>1. Send("done") /\ UNCHANGED status /\ "done" \in Event
      BY <1>6, <2>4 DEF Finish, Event
    <3>2. path = "stream" /\ status \in {"stream", "lost"}
      BY <1>1, <1>2, <2>4 DEF ChatTypes, HandlerInv
    <3>3. /\ wire' \in Seq(Piece) /\ Events(wire') \subseteq Events(wire) \cup {"done"}
          /\ conn # "up" => wire' = wire
          /\ conn = "up" => \A from, to, all \in Nat :
               Carries(wire, from, to, all) /\ to = all => Carries(wire', from, to, all)
      BY <1>3, <3>1, SendEffect
    <3>4. ChatTypes' /\ CallInv'
      BY <1>1, <1>2, <2>2, <3>1, <3>3 DEF ChatTypes, CallInv
    <3>5. HandlerInv' /\ PageInv' /\ BodyInv'
      BY <1>1, <1>2, <2>1, <2>2, <3>1, <3>2, <3>3 DEF HandlerInv, PageInv, BodyInv
    <3>6. PartsInv'
      BY <1>1, <1>2, <1>3, <2>2, <3>2, <3>3 DEF PartsInv
    <3>7. QED
      BY <3>4, <3>5, <3>6 DEF ChatInv
  <2>5. QED
    BY <2>3, <2>4
<1>7. QED
  BY <1>4, <1>5, <1>6

-----------------------------------------------------------------------------
(* The steps of the network and the page.                                  *)

LEMMA CutStep == ASSUME ChatInv, Cut PROVE ChatInv'
<1>1. ChatTypes /\ CallInv /\ HandlerInv /\ BodyInv /\ PartsInv /\ PageInv
  BY DEF ChatInv
<1>2. /\ UNCHANGED <<said, stopped, shown, result, calls, path, handler,
                     page, half, output, answer, notice>>
      /\ conn # "cut" /\ conn' = "cut"
      /\ status' = status \/ (page = "wait" /\ status # "none" /\ status' = "lost" /\ wire' = <<>>)
  BY DEF Cut, call, server, client, wroteHeader
<1>3. wire \in Seq(Piece) /\ Len(output) \in Nat
  BY <1>1, LenProperties DEF ChatTypes
<1>4. PICK kept \in 0..Len(wire) : wire' = SubSeq(wire, 1, kept)
  BY DEF Cut
<1>5. /\ wire' \in Seq(Piece) /\ Events(wire') \subseteq Events(wire)
      /\ \A from, to, all \in Nat :
           Carries(wire, from, to, all) => \E less \in Nat : Carries(wire', from, less, all)
  BY <1>3, <1>4, WireCut
<1>6. wire = <<>> => wire' = <<>>
  BY <1>3, <1>4
<1>7. ChatTypes' /\ CallInv'
  BY <1>1, <1>2, <1>5 DEF ChatTypes, CallInv
<1>8. HandlerInv' /\ PageInv'
  BY <1>1, <1>2 DEF HandlerInv, PageInv
<1>9. BodyInv'
  BY <1>1, <1>2, <1>5, <1>6 DEF BodyInv
<1>10. PartsInv'
  BY <1>1, <1>2, <1>3, <1>5 DEF PartsInv
<1>11. QED
  BY <1>7, <1>8, <1>9, <1>10 DEF ChatInv

\* fetch resolves with a stream, a response or a body fails, the user leaves,
\* or another request of the page ends.
LEMMA QuietStep ==
  ASSUME ChatInv, StreamStarts \/ FetchFails \/ BodyEnds \/ Leave \/ OtherRequest
  PROVE  ChatInv'
<1>1. ChatTypes /\ CallInv /\ HandlerInv /\ BodyInv /\ PartsInv /\ PageInv
  BY DEF ChatInv
<1>2. /\ UNCHANGED <<said, stopped, shown, result, calls, path, handler, status, wire, output>>
      /\ conn' = conn \/ conn' = "cut"
  BY DEF StreamStarts, FetchFails, BodyEnds, Leave, OtherRequest, Rest, call, server, network
<1>3. PageInv'
  <2>1. CASE StreamStarts
    BY <1>1, <1>2, <2>1 DEF StreamStarts, PageInv
  <2>2. CASE FetchFails \/ BodyEnds
    BY <1>2, <2>2 DEF FetchFails, BodyEnds, Rest, PageInv
  <2>3. CASE Leave \/ OtherRequest
    BY <1>1, <1>2, <2>3 DEF Leave, OtherRequest, PageInv
  <2>4. QED
    BY <2>1, <2>2, <2>3
<1>4. ChatTypes' /\ CallInv'
  BY <1>1, <1>2 DEF ChatTypes, CallInv
<1>5. HandlerInv' /\ BodyInv'
  BY <1>1, <1>2 DEF HandlerInv, BodyInv
<1>6. PartsInv'
  BY <1>1, <1>2 DEF PartsInv
<1>7. QED
  BY <1>3, <1>4, <1>5, <1>6 DEF ChatInv

\* The page posts the form again only when no model call has begun.
LEMMA FallbackStep == ASSUME ChatInv, Fallback PROVE ChatInv'
<1>1. ChatTypes /\ CallInv /\ HandlerInv /\ BodyInv /\ PartsInv /\ PageInv
  BY DEF ChatInv
<1>2. /\ page = "wait" /\ path = "stream" /\ status = "page"
      /\ path' = "page" /\ handler' = "checks" /\ status' = "none" /\ conn' = "up"
      /\ UNCHANGED <<calls, page, output, answer>>
  BY DEF Fallback, PostAgain
<1>3. said' = 0 /\ stopped' = "" /\ shown' = <<>> /\ result' = "none" /\ wire' = <<>>
  BY DEF Fallback, PostAgain
<1>4. /\ <<>> \in Seq(Nat) /\ <<>> \in Seq(Piece) /\ Len(<<>>) = 0 /\ Events(<<>>) = {}
      /\ 0 \in Nat /\ "none" \notin Model!Stops
  BY EmptyWire DEF Model!Stops
<1>5. calls' = 0
  <2>1. calls # 1 /\ calls <= 1 /\ calls \in Nat
    BY <1>1, <1>2 DEF HandlerInv, ChatTypes
  <2>2. QED
    BY <1>2, <2>1
<1>6. Len(shown') <= said' /\ \A i \in 1..Len(shown') : FALSE
  <2>1. Len(shown') = 0 /\ said' = 0
    BY <1>3, <1>4
  <2>2. QED
    BY <2>1
<1>7. ChatTypes' /\ CallInv'
  <2>1. said' \in Nat /\ calls' \in Nat /\ shown' \in Seq(Nat) /\ wire' \in Seq(Piece)
    BY <1>3, <1>4, <1>5
  <2>2. QED
    BY <1>1, <1>2, <1>3, <1>4, <1>6, <2>1 DEF ChatTypes, CallInv
<1>8. HandlerInv'
  <2>1. calls' <= 1 /\ calls' # 1
    BY <1>5
  <2>2. QED
    BY <1>2, <1>5, <2>1 DEF HandlerInv
<1>9. BodyInv' /\ PartsInv' /\ PageInv'
  BY <1>1, <1>2, <1>3, <1>4 DEF BodyInv, PartsInv, PageInv
<1>10. QED
  BY <1>7, <1>8, <1>9 DEF ChatInv

LEMMA ShowPageStep == ASSUME ChatInv, ShowPage PROVE ChatInv'
<1>1. ChatTypes /\ CallInv /\ HandlerInv /\ BodyInv /\ PartsInv /\ PageInv
  BY DEF ChatInv
<1>2. /\ UNCHANGED <<said, stopped, shown, result, calls, path, handler, status, wire, conn>>
      /\ path = "page" /\ page' = "rest"
      /\ \/ wire # <<>> /\ Head(wire).event = "answer" /\ answer' = "page" /\ output' = shown
         \/ answer' \in {"error", "failed"} /\ output' = output
  BY DEF ShowPage, Rest, call, server, network
<1>3. ASSUME answer' = "page"
      PROVE  result \in Model!Stops /\ output' = shown
  <2>1. wire # <<>> /\ Head(wire).event = "answer" /\ output' = shown
    BY <1>2, <1>3
  <2>2. "answer" \in Events(wire)
    BY <1>1, <2>1, WireTail DEF ChatTypes
  <2>3. QED
    BY <1>1, <2>1, <2>2 DEF BodyInv
<1>4. output' \in {shown, output}
  BY <1>2
<1>5. ChatTypes' /\ CallInv'
  BY <1>1, <1>2, <1>4 DEF ChatTypes, CallInv
<1>6. HandlerInv' /\ BodyInv' /\ PartsInv'
  BY <1>1, <1>2 DEF HandlerInv, BodyInv, PartsInv
<1>7. PageInv'
  BY <1>2, <1>3 DEF PageInv
<1>8. QED
  BY <1>5, <1>6, <1>7 DEF ChatInv

LEMMA ReadStep == ASSUME ChatInv, Read PROVE ChatInv'
<1>1. ChatTypes /\ CallInv /\ HandlerInv /\ BodyInv /\ PartsInv /\ PageInv
  BY DEF ChatInv
<1> DEFINE piece == Head(wire)
<1>2. /\ UNCHANGED <<said, stopped, shown, result, calls, path, handler, status, conn>>
      /\ page = "read" /\ wire # <<>> /\ wire' = Tail(wire)
      /\ IF piece.end THEN TakeEvent(piece.event) ELSE UNCHANGED <<page, output, answer>>
  BY DEF Read, call, server
<1>3. path = "stream" /\ status = "stream" /\ answer \notin {"done", "page"}
  BY <1>1, <1>2 DEF PageInv
<1>4. /\ wire \in Seq(Piece) /\ output \in Seq(Nat) /\ Len(output) \in Nat /\ Len(shown) \in Nat
      /\ Append(output, Len(output) + 1) \in Seq(Nat)
      /\ Len(Append(output, Len(output) + 1)) = Len(output) + 1
      /\ \A i \in 1..Len(output) : Append(output, Len(output) + 1)[i] = output[i]
      /\ Append(output, Len(output) + 1)[Len(output) + 1] = Len(output) + 1
  <2>1. wire \in Seq(Piece) /\ output \in Seq(Nat) /\ shown \in Seq(Nat)
    BY <1>1 DEF ChatTypes
  <2>2. Len(output) + 1 \in Nat
    BY <2>1, LenProperties
  <2>3. QED
    BY <2>1, <2>2, LenProperties, AppendProperties
<1>5. /\ wire' \in Seq(Piece) /\ piece \in Piece
      /\ Events(wire') \subseteq Events(wire) /\ piece.event \in Events(wire)
      /\ \A from, to, all \in Nat :
           Carries(wire, from, to, all) =>
             /\ piece.event = "done" => from = all
             /\ Carries(wire', from + Gain(piece), to, all)
  BY <1>2, <1>4, WireTail
<1> HIDE DEF piece
<1>6. piece.event \in Event
  BY <1>1, <1>3, <1>5 DEF BodyInv
<1>7. /\ \/ Gain(piece) = 0 /\ output' = output
         \/ Gain(piece) = 1 /\ output' = Append(output, Len(output) + 1)
      /\ \/ page' = page /\ answer' = answer
         \/ page' = "rest" /\ answer' = "error"
         \/ page' = "rest" /\ answer' = "done" /\ piece.event = "done" /\ output' = output
  BY <1>2, <1>6 DEF TakeEvent, Rest, Gain, Event
<1>8. output' \in Seq(Nat) /\ Len(output') = Len(output) + Gain(piece)
  <2>1. CASE Gain(piece) = 0 /\ output' = output
    BY <1>4, <2>1
  <2>2. CASE Gain(piece) = 1 /\ output' = Append(output, Len(output) + 1)
    BY <1>4, <2>2
  <2>3. QED
    BY <1>7, <2>1, <2>2
<1>9. \A i \in 1..Len(output') : output'[i] = i
  <2>1. CASE output' = output
    BY <1>1, <2>1 DEF CallInv
  <2>2. CASE output' = Append(output, Len(output) + 1)
    <3>1. \A i \in 1..Len(output') : i \in 1..Len(output) \/ i = Len(output) + 1
      BY <1>4, <2>2
    <3>2. QED
      BY <1>1, <1>4, <2>2, <3>1 DEF CallInv
  <2>3. QED
    BY <1>7, <2>1, <2>2
<1>10. PICK to \in Nat :
         Carries(wire, Len(output), to, Len(shown)) /\ (conn = "up" => to = Len(shown))
  BY <1>1, <1>3 DEF PartsInv
<1>11. /\ piece.event = "done" => Len(output) = Len(shown)
       /\ Carries(wire', Len(output'), to, Len(shown))
  BY <1>4, <1>5, <1>8, <1>10
<1>12. ChatTypes' /\ CallInv'
  BY <1>1, <1>2, <1>5, <1>8, <1>9 DEF ChatTypes, CallInv
<1>13. HandlerInv' /\ BodyInv'
  BY <1>1, <1>2, <1>3, <1>5 DEF HandlerInv, BodyInv
<1>14. PartsInv'
  BY <1>2, <1>10, <1>11 DEF PartsInv
<1>15. PageInv'
  <2>1. piece.event = "done" => result \in Model!Stops
    BY <1>1, <1>5 DEF BodyInv
  <2>2. QED
    BY <1>2, <1>3, <1>7, <1>11, <2>1 DEF PageInv
<1>16. QED
  BY <1>12, <1>13, <1>14, <1>15 DEF ChatInv

-----------------------------------------------------------------------------
(* The theorems.                                                           *)

LEMMA ChatInit == Init => ChatInv
<1> SUFFICES ASSUME Init
             PROVE  ChatInv
  OBVIOUS
<1>1. /\ shown = <<>> /\ output = <<>> /\ wire = <<>> /\ said = 0 /\ calls = 0
  BY DEF Init, Model!Init
<1>2. /\ stopped = "" /\ result = "none" /\ path = "stream" /\ handler = "checks"
      /\ status = "none" /\ conn = "up" /\ page = "wait" /\ answer = "none"
  BY DEF Init, Model!Init
<1>3. /\ <<>> \in Seq(Nat) /\ <<>> \in Seq(Piece) /\ Len(<<>>) = 0 /\ 0 \in Nat
      /\ Events(<<>>) = {} /\ Carries(<<>>, 0, 0, 0)
  BY EmptyWire
<1>4. /\ said \in Nat /\ calls \in Nat /\ shown \in Seq(Nat) /\ output \in Seq(Nat)
      /\ wire \in Seq(Piece)
  BY <1>1, <1>3
<1>5. Len(shown) = 0 /\ Len(output) = 0 /\ Events(wire) = {}
  BY <1>1, <1>3
<1>6. /\ Len(shown) <= said /\ calls <= 1 /\ calls # 1
      /\ \A i \in 1..Len(shown) : FALSE
      /\ \A i \in 1..Len(output) : FALSE
  <2>1. said = 0 /\ calls = 0
    BY <1>1
  <2>2. QED
    BY <1>5, <2>1
<1>7. ChatTypes /\ CallInv /\ HandlerInv /\ BodyInv /\ PageInv
  BY <1>1, <1>2, <1>4, <1>5, <1>6
    DEF ChatTypes, CallInv, HandlerInv, BodyInv, PageInv, Model!Stops
<1>8. PartsInv
  <2>1. Carries(wire, Len(output), 0, Len(shown)) /\ 0 = Len(shown)
    BY <1>1, <1>3
  <2>2. QED
    BY <1>3, <2>1 DEF PartsInv
<1>9. QED
  BY <1>7, <1>8 DEF ChatInv

LEMMA ChatStep == ChatInv /\ [Next]_vars => ChatInv'
<1> SUFFICES ASSUME ChatInv, [Next]_vars
             PROVE  ChatInv'
  OBVIOUS
<1>1. CASE Refuse \/ OpenFails \/ E \/ Panic \/ Stop
  <2>1. /\ UNCHANGED <<call, calls, path, client>> /\ handler # "ended"
        /\ Respond \/ Aborted
    BY <1>1 DEF Refuse, OpenFails, E, Panic, Stop
  <2>2. QED
    BY <2>1, EndStep
<1>2. CASE Pass \/ Open \/ Invalid
  BY <1>2, PassStep, OpenStep, InvalidStep
<1>3. CASE Speak \/ Deliver \/ Return \/ Finish
  BY <1>3, SpeakStep, DeliverStep, ReturnStep, FinishStep
<1>4. CASE Cut \/ Browse \/ Leave \/ OtherRequest
  BY <1>4, CutStep, QuietStep, FallbackStep, ShowPageStep, ReadStep DEF Browse
<1>5. CASE UNCHANGED vars
  <2>1. UNCHANGED <<said, stopped, shown, result, calls, path, handler, status, wire, conn,
                    page, half, output, answer, notice>>
    BY <1>5 DEF vars, call, server, network, client
  <2>2. QED
    <3>1. ChatTypes' /\ CallInv' /\ HandlerInv'
      BY <2>1 DEF ChatInv, ChatTypes, CallInv, HandlerInv
    <3>2. BodyInv' /\ PartsInv' /\ PageInv'
      BY <2>1 DEF ChatInv, BodyInv, PartsInv, PageInv
    <3>3. QED
      BY <3>1, <3>2 DEF ChatInv
<1>6. QED
  BY <1>1, <1>2, <1>3, <1>4, <1>5 DEF Next, Serve

THEOREM ChatInvariant == Spec => []ChatInv
BY ChatInit, ChatStep, PTL DEF Spec

\* handleAsk calls the model at most once for a question, also when the page
\* posts the form again; its response is a page or a stream; and what static/app.js
\* or the browser shows as the complete answer has all the text of the model,
\* once and in order, and a stop reason of the interface.
THEOREM WholeAnswer == Spec => []OneWholeAnswer
<1>1. ASSUME ChatInv
      PROVE  OneWholeAnswer
  <2>1. ChatTypes /\ CallInv /\ HandlerInv /\ BodyInv /\ PageInv
    BY <1>1 DEF ChatInv
  <2>2. PaidOnce
    BY <2>1 DEF HandlerInv, PaidOnce
  <2>3. NoMixedBody
    BY <2>1 DEF BodyInv, NoMixedBody, Events
  <2>4. ASSUME answer \in {"done", "page"}
        PROVE  stopped \in Model!Stops /\ Len(output) = said /\ output = shown
    <3>1. result \in Model!Stops /\ Len(output) = Len(shown)
      BY <2>1, <2>4 DEF PageInv
    <3>2. stopped \in Model!Stops /\ Len(output) = said
      BY <2>1, <3>1 DEF CallInv
    <3>3. \A i \in 1..Len(output) : output[i] = shown[i]
      BY <2>1, <3>1 DEF CallInv
    <3>4. output \in Seq(Nat) /\ shown \in Seq(Nat)
      BY <2>1 DEF ChatTypes
    <3>5. output = shown
      BY <3>1, <3>3, <3>4, SeqEqual
    <3>6. QED
      BY <3>2, <3>5
  <2>5. QED
    BY <2>2, <2>3, <2>4 DEF OneWholeAnswer, CompleteIsWhole
<1>2. QED
  BY <1>1, ChatInvariant, PTL

\* streamForm and readAnswer show the notice in the step that ends the reading
\* of an answer, unless the answer is complete.
THEOREM EndIsTold == Spec => EarlyEndIsTold
<1>1. ASSUME [Next]_vars, page = "read", page' = "rest", answer' # "done"
      PROVE  notice'
  <2>1. Read \/ BodyEnds
    BY <1>1 DEF Next, Serve, Browse, Refuse, Pass, OpenFails, Open, Invalid, Deliver, Return,
      Finish, E, Panic, Speak, Stop, Cut, StreamStarts, Fallback, ShowPage, FetchFails, Leave,
      OtherRequest, Rest, vars, client
  <2>2. QED
    BY <1>1, <2>1 DEF Read, TakeEvent, BodyEnds, Rest
<1>2. [Next]_vars => [page = "read" /\ page' = "rest" /\ answer' # "done" => notice']_page
  BY <1>1 DEF vars, client
<1>3. QED
  BY <1>2, PTL DEF Spec, EarlyEndIsTold

-----------------------------------------------------------------------------
(* A logout against the requests of the other tabs.                        *)

CONSTANT MaxToken

VARIABLES live, issued, loggedOut, cookie

SignIn == INSTANCE SignIn

\* A request that left after a logout carries a token that the logout ended,
\* and no identity. Requests and answers carry tokens that were issued.
Fits(request) ==
  /\ request.at \in {"sent", "loaded"} =>
       /\ request.token \in 0..issued
       /\ request.afterEnd => request.token \in loggedOut
  /\ request.at = "loaded" /\ request.afterEnd => ~request.user
  /\ request.at = "answered" => request.set \in -1..issued

\* A session that a logout ended stays ended, since a login gets a new token.
SignInInv ==
  /\ issued \in Nat /\ cookie \in 0..issued
  /\ live \subseteq 1..issued /\ loggedOut \subseteq 1..issued
  /\ live \cap loggedOut = {}
  /\ tab = [b \in Tab |-> tab[b]]
  /\ \A b \in Tab : Fits(tab[b])

\* A step on one tab leaves the requests of the others as good as they were.
LEMMA OneTab ==
  ASSUME SignInInv, NEW b \in Tab, tab' = [tab EXCEPT ![b] = tab'[b]],
         issued' \in Nat, issued <= issued', loggedOut \subseteq loggedOut', Fits(tab[b])'
  PROVE  tab' = [c \in Tab |-> tab'[c]] /\ \A c \in Tab : Fits(tab[c])'
<1>1. /\ tab' = [c \in Tab |-> tab'[c]]
      /\ \A c \in Tab : c # b => tab'[c] = tab[c]
  BY DEF SignInInv
<1>2. ASSUME NEW c \in Tab
      PROVE  Fits(tab[c])'
  <2>1. CASE c = b
    BY <2>1
  <2>2. CASE c # b
    <3>1. Fits(tab[c]) /\ tab'[c] = tab[c] /\ issued \in Nat
      BY <1>1, <2>2 DEF SignInInv
    <3>2. QED
      BY <3>1 DEF Fits
  <2>3. QED
    BY <2>1, <2>2
<1>3. QED
  BY <1>1, <1>2

\* An answer that sets no new token.
LEMMA Answered ==
  ASSUME SignInInv, NEW b \in Tab, UNCHANGED <<issued, cookie>>,
         live' \subseteq live, loggedOut \subseteq loggedOut', loggedOut' \subseteq 1..issued,
         live' \cap loggedOut' = {}, tab' = [tab EXCEPT ![b] = tab'[b]],
         tab'[b].at = "answered", tab'[b].set \in {-1, 0}
  PROVE  SignInInv'
<1>1. issued \in Nat /\ issued' \in Nat /\ issued <= issued'
  BY DEF SignInInv
<1>2. Fits(tab[b])'
  BY <1>1 DEF Fits
<1>3. QED
  BY <1>1, <1>2, OneTab DEF SignInInv

LEMMA SignInStep == SignInInv /\ [SignIn!Next]_SignIn!vars => SignInInv'
<1> SUFFICES ASSUME SignInInv, [SignIn!Next]_SignIn!vars
             PROVE  SignInInv'
  OBVIOUS
<1> issued \in Nat /\ issued <= issued
  BY DEF SignInInv
<1>1. ASSUME NEW b \in Tab, SignIn!Send(b)
      PROVE  SignInInv'
  <2>1. UNCHANGED <<live, issued, loggedOut, cookie>>
    BY <1>1 DEF SignIn!Send
  <2>2. /\ tab' = [tab EXCEPT ![b] = tab'[b]] /\ tab'[b].at = "sent"
        /\ tab'[b].token = cookie /\ tab'[b].afterEnd = (cookie \in loggedOut)
    BY <1>1 DEF SignIn!Send, SignIn!Request, SignInInv
  <2>3. Fits(tab[b])'
    BY <2>1, <2>2 DEF Fits, SignInInv
  <2>4. QED
    BY <2>1, <2>2, <2>3, OneTab DEF SignInInv
<1>2. ASSUME NEW b \in Tab, SignIn!LoadIdentity(b)
      PROVE  SignInInv'
  <2>1. /\ UNCHANGED <<live, issued, loggedOut, cookie>> /\ tab[b].at = "sent"
        /\ tab' = [tab EXCEPT ![b] = tab'[b]]
    BY <1>2 DEF SignIn!LoadIdentity, SignInInv
  <2>2. \/ tab'[b].at = "answered" /\ tab'[b].set = -1
        \/ /\ tab'[b].at = "loaded" /\ tab'[b].token = tab[b].token
           /\ tab'[b].afterEnd = tab[b].afterEnd
           /\ tab'[b].user = (tab[b].token \in live)
    BY <1>2 DEF SignIn!LoadIdentity, SignIn!KeepCookie, SignInInv
  <2>3. Fits(tab[b]) /\ live \cap loggedOut = {}
    BY DEF SignInInv
  <2>4. tab[b].token \in 0..issued /\ (tab[b].afterEnd => tab[b].token \in loggedOut)
    BY <2>1, <2>3 DEF Fits
  <2>5. tab[b].afterEnd => tab[b].token \notin live
    BY <2>3, <2>4
  <2>6. Fits(tab[b])'
    <3>1. CASE tab'[b].at = "answered" /\ tab'[b].set = -1
      BY <2>1, <3>1 DEF Fits
    <3>2. CASE /\ tab'[b].at = "loaded" /\ tab'[b].token = tab[b].token
               /\ tab'[b].afterEnd = tab[b].afterEnd
               /\ tab'[b].user = (tab[b].token \in live)
      <4>1. tab'[b].afterEnd => tab'[b].token \in loggedOut /\ ~tab'[b].user
        BY <2>4, <2>5, <3>2
      <4>2. QED
        BY <2>1, <2>4, <3>2, <4>1 DEF Fits
    <3>3. QED
      BY <2>2, <3>1, <3>2
  <2>7. QED
    BY <2>1, <2>6, OneTab DEF SignInInv
<1>3. ASSUME NEW b \in Tab,
             SignIn!Home(b) \/ SignIn!LoginPage(b) \/ SignIn!LoginFails(b) \/ SignIn!Me(b)
      PROVE  SignInInv'
  <2>1. \/ \E p : SignIn!Page(b, p)
        \/ \E p : SignIn!Redirect(b, p)
    BY <1>3 DEF SignIn!Home, SignIn!LoginPage, SignIn!LoginFails, SignIn!Me
  <2>2. /\ tab' = [tab EXCEPT ![b] = tab'[b]]
        /\ tab'[b].at = "answered" /\ tab'[b].set \in {-1, 0}
    BY <2>1 DEF SignIn!Page, SignIn!Redirect, SignIn!KeepCookie, SignIn!Clear, SignInInv
  <2>3. UNCHANGED <<live, issued, loggedOut, cookie>>
    BY <1>3 DEF SignIn!Home, SignIn!LoginPage, SignIn!LoginFails, SignIn!Me
  <2>4. QED
    BY <2>2, <2>3, Answered DEF SignInInv
<1>4. ASSUME NEW b \in Tab, SignIn!Login(b)
      PROVE  SignInInv'
  <2>1. /\ issued' = issued + 1 /\ live' = live \cup {issued + 1}
        /\ UNCHANGED <<loggedOut, cookie>>
    BY <1>4 DEF SignIn!Login
  <2>2. /\ tab' = [tab EXCEPT ![b] = tab'[b]]
        /\ tab'[b].at = "answered" /\ tab'[b].set = issued + 1
    BY <1>4 DEF SignIn!Login, SignInInv
  <2>3. /\ issued' \in Nat /\ cookie' \in 0..issued' /\ issued <= issued'
        /\ live' \subseteq 1..issued' /\ loggedOut' \subseteq 1..issued'
        /\ live' \cap loggedOut' = {}
    BY <2>1 DEF SignInInv
  <2>4. Fits(tab[b])'
    BY <2>1, <2>2 DEF Fits
  <2>5. QED
    BY <2>1, <2>2, <2>3, <2>4, OneTab DEF SignInInv
<1>5. ASSUME NEW b \in Tab, SignIn!Logout(b)
      PROVE  SignInInv'
  <2>1. Fits(tab[b]) /\ tab[b].at = "loaded" /\ UNCHANGED <<issued, cookie>>
    BY <1>5 DEF SignIn!Logout, SignIn!Runs, SignInInv
  <2>2. /\ tab' = [tab EXCEPT ![b] = tab'[b]]
        /\ tab'[b].at = "answered" /\ tab'[b].set \in {-1, 0}
    <3>1. \/ tab' = [tab EXCEPT ![b] = [at |-> "answered", set |-> 0,
                                       go |-> "GET /login", page |-> "none"]]
          \/ SignIn!Page(b, "error")
      BY <1>5 DEF SignIn!Logout, SignIn!Clear
    <3>2. CASE SignIn!Page(b, "error")
      BY <3>2 DEF SignIn!Page, SignIn!KeepCookie, SignIn!Clear, SignInInv
    <3>3. CASE tab' = [tab EXCEPT ![b] = [at |-> "answered", set |-> 0,
                                       go |-> "GET /login", page |-> "none"]]
      BY <3>3 DEF SignInInv
    <3>4. QED
      BY <3>1, <3>2, <3>3
  <2>3. tab[b].token \in 0..issued
    BY <2>1 DEF Fits
  <2>4. \/ UNCHANGED <<live, loggedOut>>
        \/ /\ live' = live \ {tab[b].token}
           /\ loggedOut' = loggedOut \cup ({tab[b].token} \ {0})
    BY <1>5 DEF SignIn!Logout
  <2>5. /\ live' \subseteq live /\ loggedOut \subseteq loggedOut'
        /\ loggedOut' \subseteq 1..issued /\ live' \cap loggedOut' = {}
    BY <2>3, <2>4 DEF SignInInv
  <2>6. QED
    BY <2>1, <2>2, <2>5, Answered
<1>6. ASSUME NEW b \in Tab, SignIn!Deliver(b)
      PROVE  SignInInv'
  <2> DEFINE jar == IF tab[b].set = -1 THEN cookie ELSE tab[b].set
  <2>1. /\ UNCHANGED <<live, issued, loggedOut>> /\ cookie' = jar
        /\ Fits(tab[b]) /\ tab[b].at = "answered"
        /\ tab' = [tab EXCEPT ![b] = tab'[b]]
    BY <1>6 DEF SignIn!Deliver, SignIn!KeepCookie, SignInInv
  <2>2. jar \in 0..issued
    BY <2>1 DEF Fits, SignInInv
  <2>3. \/ tab'[b].at = "shown"
        \/ tab'[b].at = "sent" /\ tab'[b].token = jar /\ tab'[b].afterEnd = (jar \in loggedOut)
    BY <1>6 DEF SignIn!Deliver, SignIn!KeepCookie, SignInInv
  <2> HIDE DEF jar
  <2>4. Fits(tab[b])'
    BY <2>1, <2>2, <2>3 DEF Fits
  <2>5. QED
    BY <2>1, <2>2, <2>4, OneTab DEF SignInInv
<1>7. ASSUME NEW t, SignIn!LoseSession(t)
      PROVE  SignInInv'
  BY <1>7 DEF SignInInv, SignIn!LoseSession, Fits
<1>8. CASE UNCHANGED SignIn!vars
  BY <1>8 DEF SignInInv, SignIn!vars, Fits
<1>9. QED
  BY <1>1, <1>2, <1>3, <1>4, <1>5, <1>6, <1>7, <1>8 DEF SignIn!Next, SignIn!Handle

\* handleLogout ends a session for every tab: LoadIdentity gives no user to a
\* request that leaves later with the cookie of the logout.
THEOREM LogoutHolds == SignIn!Spec => []LogoutRevokes
<1>1. SignIn!Init => SignInInv
  BY DEF SignIn!Init, SignInInv, Fits
<1>2. SignInInv => LogoutRevokes
  BY DEF SignInInv, LogoutRevokes, Fits
<1>3. QED
  BY <1>1, <1>2, SignInStep, PTL DEF SignIn!Spec

\* The states of a tab: an answer that leads nowhere has a page.
Answers == {a \in SignIn!Answered : a.go = "stay" => a.page # "none"}
TabState == SignIn!Shown \cup SignIn!Sent \cup SignIn!Loaded \cup Answers

SignInTypeInv == SignIn!TypeOK /\ tab \in [Tab -> TabState]

\* The tokens of a type state are numbers up to the bound.
LEMMA TokenType ==
  ASSUME MaxToken \in Nat, SignIn!TypeOK
  PROVE  /\ SignIn!Token \cup {0} = 0..MaxToken
         /\ issued \in 0..MaxToken /\ cookie \in 0..MaxToken
BY DEF SignIn!TypeOK, SignIn!Token

\* A page or a redirect is a state of a tab.
LEMMA PageType ==
  ASSUME NEW set \in SignIn!Token \cup {0, -1}, NEW go \in SignIn!Path \cup {"stay"},
         NEW view \in {"none", "login", "me", "error"}, go = "stay" => view # "none"
  PROVE  [at |-> "answered", set |-> set, go |-> go, page |-> view] \in TabState
BY DEF TabState, Answers, SignIn!Answered, SignIn!Clear, SignIn!KeepCookie

\* A step that answers the request of a tab.
LEMMA AnswerType ==
  ASSUME SignInTypeInv, NEW b \in Tab, NEW view \in {"login", "me", "error"},
         NEW to \in SignIn!Path,
         SignIn!Page(b, view) \/ SignIn!Redirect(b, to)
  PROVE  tab' \in [Tab -> TabState]
<1> DEFINE set == IF tab[b].clear THEN 0 ELSE -1
<1>1. CASE SignIn!Page(b, view)
  <2>1. tab' = [tab EXCEPT ![b] =
                  [at |-> "answered", set |-> set, go |-> "stay", page |-> view]]
    BY <1>1 DEF SignIn!Page, SignIn!Clear, SignIn!KeepCookie
  <2>2. [at |-> "answered", set |-> set, go |-> "stay", page |-> view] \in TabState
    BY PageType
  <2>3. QED
    BY <2>1, <2>2 DEF SignInTypeInv
<1>2. CASE SignIn!Redirect(b, to)
  <2>1. tab' = [tab EXCEPT ![b] =
                  [at |-> "answered", set |-> set, go |-> to, page |-> "none"]]
    BY <1>2 DEF SignIn!Redirect, SignIn!Clear, SignIn!KeepCookie
  <2>2. [at |-> "answered", set |-> set, go |-> to, page |-> "none"] \in TabState
    BY PageType DEF SignIn!Path
  <2>3. QED
    BY <2>1, <2>2 DEF SignInTypeInv
<1>3. QED
  BY <1>1, <1>2

LEMMA SignInTypeStep ==
  MaxToken \in Nat /\ SignInInv /\ SignInTypeInv /\ [SignIn!Next]_SignIn!vars => SignInTypeInv'
<1> SUFFICES ASSUME MaxToken \in Nat, SignInInv, SignInTypeInv, [SignIn!Next]_SignIn!vars
             PROVE  SignInTypeInv'
  OBVIOUS
<1> SignIn!TypeOK /\ tab \in [Tab -> TabState]
  BY DEF SignInTypeInv
<1>1. /\ live' \subseteq 1..issued' /\ loggedOut' \subseteq 1..issued'
      /\ cookie' \in 0..issued' /\ issued' \in Nat
  BY SignInStep DEF SignInInv
<1>2. issued' \in 0..MaxToken
  <2>1. issued \in 0..MaxToken
    BY TokenType
  <2>2. issued' = issued \/ (issued < MaxToken /\ issued' = issued + 1)
    BY DEF SignIn!Next, SignIn!Handle, SignIn!vars, SignIn!Send, SignIn!LoadIdentity,
       SignIn!Deliver, SignIn!Home, SignIn!LoginPage, SignIn!Login, SignIn!LoginFails,
       SignIn!Me, SignIn!Logout, SignIn!LoseSession
  <2>3. QED
    BY <2>1, <2>2
<1>3. tab' \in [Tab -> TabState]
  <2>1. ASSUME NEW b \in Tab, SignIn!Send(b)
        PROVE  tab' \in [Tab -> TabState]
    <3>1. PICK to \in SignIn!Path : tab' = [tab EXCEPT ![b] = SignIn!Request(to)]
      BY <2>1 DEF SignIn!Send
    <3>2. SignIn!Request(to) \in TabState
      BY TokenType DEF TabState, SignIn!Request, SignIn!Sent
    <3>3. QED
      BY <3>1, <3>2
  <2>2. ASSUME NEW b \in Tab, SignIn!LoadIdentity(b)
        PROVE  tab' \in [Tab -> TabState]
    <3>1. tab[b] \in SignIn!Sent
      BY <2>2 DEF SignIn!LoadIdentity, TabState, Answers, SignIn!Shown, SignIn!Loaded, SignIn!Answered
    <3>2. [at |-> "loaded", path |-> tab[b].path, token |-> tab[b].token,
           afterEnd |-> tab[b].afterEnd, user |-> tab[b].token \in live,
           clear |-> tab[b].token # 0 /\ tab[b].token \notin live] \in TabState
      BY <3>1 DEF TabState, SignIn!Sent, SignIn!Loaded
    <3>3. [at |-> "answered", set |-> -1, go |-> "stay", page |-> "error"] \in TabState
      BY PageType
    <3>4. QED
      BY <2>2, <3>2, <3>3 DEF SignIn!LoadIdentity, SignIn!KeepCookie
  <2>3. ASSUME NEW b \in Tab,
               SignIn!Home(b) \/ SignIn!LoginPage(b) \/ SignIn!LoginFails(b) \/ SignIn!Me(b)
        PROVE  tab' \in [Tab -> TabState]
    <3>1. \/ \E view \in {"login", "me", "error"} : SignIn!Page(b, view)
          \/ \E to \in SignIn!Path : SignIn!Redirect(b, to)
      BY <2>3 DEF SignIn!Home, SignIn!LoginPage, SignIn!LoginFails, SignIn!Me, SignIn!Path
    <3>2. "GET /" \in SignIn!Path
      BY DEF SignIn!Path
    <3>3. QED
      BY <3>1, <3>2, AnswerType
  <2>4. ASSUME NEW b \in Tab, SignIn!Login(b)
        PROVE  tab' \in [Tab -> TabState]
    <3> issued \in 0..MaxToken /\ issued < MaxToken
      BY <2>4, TokenType DEF SignIn!Login
    <3>1. issued + 1 \in SignIn!Token /\ "GET /me" \in SignIn!Path
      BY DEF SignIn!Token, SignIn!Path
    <3>2. [at |-> "answered", set |-> issued + 1, go |-> "GET /me", page |-> "none"] \in TabState
      BY <3>1, PageType
    <3>3. QED
      BY <2>4, <3>2 DEF SignIn!Login
  <2>5. ASSUME NEW b \in Tab, SignIn!Logout(b)
        PROVE  tab' \in [Tab -> TabState]
    <3>1. "GET /login" \in SignIn!Path
      BY DEF SignIn!Path
    <3>2. [at |-> "answered", set |-> 0, go |-> "GET /login", page |-> "none"] \in TabState
      BY <3>1, PageType
    <3>3. SignIn!Page(b, "error") => tab' \in [Tab -> TabState]
      BY <3>1, AnswerType
    <3>4. QED
      BY <2>5, <3>2, <3>3 DEF SignIn!Logout, SignIn!Clear
  <2>6. ASSUME NEW b \in Tab, SignIn!Deliver(b)
        PROVE  tab' \in [Tab -> TabState]
    <3> DEFINE jar == IF tab[b].set = -1 THEN cookie ELSE tab[b].set
    <3>1. tab[b] \in Answers
      BY <2>6 DEF SignIn!Deliver, TabState, SignIn!Shown, SignIn!Loaded, SignIn!Sent
    <3>2. jar \in SignIn!Token \cup {0} /\ tab[b].go \in SignIn!Path \cup {"stay"}
      BY <3>1, TokenType DEF Answers, SignIn!Answered, SignIn!Clear, SignIn!KeepCookie
    <3> HIDE DEF jar
    <3>3. tab[b].go = "stay" => [at |-> "shown", page |-> tab[b].page] \in TabState
      BY <3>1 DEF Answers, SignIn!Answered, TabState, SignIn!Shown
    <3>4. tab[b].go # "stay" =>
            [at |-> "sent", path |-> tab[b].go, token |-> jar, afterEnd |-> jar \in loggedOut]
              \in TabState
      BY <3>2 DEF TabState, SignIn!Sent
    <3>5. QED
      BY <2>6, <3>3, <3>4 DEF SignIn!Deliver, SignIn!KeepCookie, jar
  <2>7. ASSUME NEW t, SignIn!LoseSession(t)
        PROVE  tab' \in [Tab -> TabState]
    BY <2>7 DEF SignIn!LoseSession
  <2>8. CASE UNCHANGED SignIn!vars
    BY <2>8 DEF SignIn!vars
  <2>9. QED
    BY <2>1, <2>2, <2>3, <2>4, <2>5, <2>6, <2>7, <2>8 DEF SignIn!Next, SignIn!Handle
<1>4. QED
  BY <1>1, <1>2, <1>3 DEF SignInTypeInv, SignIn!TypeOK, TabState, Answers

\* A browser has tokens that were issued, and each tab is in a state that a
\* step of it expects, for every number of tabs and logins.
THEOREM SignInTypes == MaxToken \in Nat => (SignIn!Spec => []SignIn!TypeOK)
<1> SUFFICES ASSUME MaxToken \in Nat
             PROVE  SignIn!Spec => []SignIn!TypeOK
  OBVIOUS
<1>1. SignIn!Init => SignInInv /\ SignInTypeInv
  BY DEF SignIn!Init, SignInInv, Fits, SignInTypeInv, SignIn!TypeOK, TabState, SignIn!Shown
<1>2. SignInInv /\ SignInTypeInv /\ [SignIn!Next]_SignIn!vars => (SignInInv /\ SignInTypeInv)'
  BY SignInStep, SignInTypeStep
<1>3. SignInTypeInv => SignIn!TypeOK
  BY DEF SignInTypeInv
<1>4. QED
  BY <1>1, <1>2, <1>3, PTL DEF SignIn!Spec

-----------------------------------------------------------------------------
(* The end of a process.                                                   *)

VARIABLES signal, late, debug, errCh

Process == INSTANCE Process

\* The pool is open from a good ping until the stage that closes it.
PoolInv ==
  /\ stage \in Process!Stages
  /\ stage \in {"command line", "config", "connect"} => pool = "none"
  /\ stage \in {"migrate", "command", "models", "debug", "spawn", "select", "drain", "close"} =>
       pool = "open"
  /\ stage = "pool" => pool \in {"open", "closing"}
  /\ stage = "exited" => pool \in {"none", "closed"}

\* Only serve listens, and nothing listens once the drain began or a deferred
\* close ran.
ListenInv ==
  /\ stage \in {"command line", "config", "connect", "migrate", "command", "models", "debug", "spawn"} =>
       main = "off"
  /\ stage \in {"models", "debug", "spawn", "select", "drain", "close"} => command = "serve"
  /\ main = "off" \/ command = "serve"
  /\ main = "listening" => stage = "select" \/ (stage = "close" /\ returned = "error" /\ ~late)
  /\ late \in BOOLEAN /\ (late => stage \in {"close", "pool", "exited"})

\* A connection is cut only by srv.Close, which leaves no request running that
\* it did not cut; a clean end has nothing to cut.
RequestInv ==
  /\ req \in [Req -> {"none", "handling", "query", "answered", "lost"}]
  /\ main = "off" => \A r \in Req : req[r] = "none"
  /\ stage \in {"pool", "exited"} => Process!Running \subseteq cut
  /\ stage \notin {"pool", "exited"} => cut = {}
  /\ stage \notin {"close", "pool", "exited"} => returned = "none"
  /\ returned = "nil" => Process!Running = {} /\ cut = {}
  /\ cut = {} /\ (stage # "exited" \/ returned = "nil") => \A r \in Req : req[r] # "lost"

ProcessInv == PoolInv /\ ListenInv /\ RequestInv

\* The steps that leave the requests alone.
LEMMA ProcessGoesOn ==
  ASSUME ProcessInv,
         \/ Process!parseCommand \/ Process!Validate \/ Process!Connect \/ Process!Migrate
         \/ Process!RunCommand \/ Process!NewModels \/ Process!startDebugServer \/ Process!Spawn
         \/ Process!SelectError \/ Process!SelectDone \/ Process!Drained \/ Process!Overrun
         \/ Process!ClosePool \/ Process!ListenAndServe \/ Process!ListenerFails
         \/ Process!Signal \/ UNCHANGED Process!vars
  PROVE  ProcessInv'
<1> USE DEF ProcessInv, PoolInv, ListenInv, RequestInv, Process!Stages, Process!Running,
            Process!Goto, Process!ReturnWith, Process!listeners, Process!requests
<1>1. CASE Process!parseCommand
  BY <1>1 DEF Process!parseCommand
<1>2. CASE Process!Validate
  BY <1>2 DEF Process!Validate
<1>3. CASE Process!Connect
  BY <1>3 DEF Process!Connect
<1>4. CASE Process!Migrate
  BY <1>4 DEF Process!Migrate
<1>5. CASE Process!RunCommand
  BY <1>5 DEF Process!RunCommand
<1>6. CASE Process!NewModels
  BY <1>6 DEF Process!NewModels
<1>7. CASE Process!startDebugServer
  BY <1>7 DEF Process!startDebugServer
<1>8. CASE Process!Spawn
  BY <1>8 DEF Process!Spawn
<1>9. CASE Process!SelectError
  BY <1>9 DEF Process!SelectError
<1>10. CASE Process!SelectDone
  BY <1>10 DEF Process!SelectDone, Process!Stop
<1>11. CASE Process!Drained
  BY <1>11 DEF Process!Drained
<1>12. CASE Process!Overrun
  BY <1>12 DEF Process!Overrun
<1>13. CASE Process!ClosePool
  BY <1>13 DEF Process!ClosePool
<1>14. CASE Process!ListenAndServe
  BY <1>14 DEF Process!ListenAndServe, Process!Shut
<1>15. CASE Process!ListenerFails
  BY <1>15 DEF Process!ListenerFails
<1>16. CASE Process!Signal
  BY <1>16 DEF Process!Signal
<1>17. CASE UNCHANGED Process!vars
  BY <1>17 DEF Process!vars
<1>18. QED
  BY <1>1, <1>2, <1>3, <1>4, <1>5, <1>6, <1>7, <1>8, <1>9, <1>10, <1>11, <1>12, <1>13,
     <1>14, <1>15, <1>16, <1>17

LEMMA ProcessStep == ProcessInv /\ [Process!Next]_Process!vars => ProcessInv'
<1> SUFFICES ASSUME ProcessInv, [Process!Next]_Process!vars
             PROVE  ProcessInv'
  OBVIOUS
<1> USE DEF ProcessInv, PoolInv, ListenInv, RequestInv, Process!Stages, Process!Running,
            Process!Goto, Process!listeners
<1>1. CASE Process!CloseServers
  BY <1>1 DEF Process!CloseServers
<1>2. CASE Process!Exit
  BY <1>2 DEF Process!Exit
<1>3. ASSUME NEW r \in Req, Process!Accept(r)
      PROVE  ProcessInv'
  BY <1>3 DEF Process!Accept, Process!Request
<1>4. ASSUME NEW r \in Req, Process!Acquire(r)
      PROVE  ProcessInv'
  BY <1>4 DEF Process!Acquire, Process!Request
<1>5. ASSUME NEW r \in Req, Process!QueryEnds(r)
      PROVE  ProcessInv'
  BY <1>5 DEF Process!QueryEnds, Process!Request
<1>6. ASSUME NEW r \in Req, Process!Answer(r)
      PROVE  ProcessInv'
  <2>1. main # "off" /\ PoolInv' /\ ListenInv'
    BY <1>6 DEF Process!Answer, Process!Request
  <2>2. RequestInv'
    BY <1>6, <2>1 DEF Process!Answer, Process!Request
  <2>3. QED
    BY <2>1, <2>2
<1>7. QED
  BY <1>1, <1>2, <1>3, <1>4, <1>5, <1>6, ProcessGoesOn DEF Process!Next, Process!Main, Process!Ended

\* serve and run return through their deferred calls in the right order: a nil
\* return answered every accepted request, no request whose client waits finds
\* the pool closed, and srv listens only on an open pool that the exit closes.
THEOREM EndInOrder == Process!Spec => []OrderlyEnd
<1>1. Process!Init => ProcessInv
  BY DEF Process!Init, ProcessInv, PoolInv, ListenInv, RequestInv, Process!Stages, Process!Running
<1>2. ProcessInv => CleanExitServedAll
  BY DEF ProcessInv, RequestInv, CleanExitServedAll, Process!Running
<1>3. ProcessInv => PoolOutlivesRequests
  BY DEF ProcessInv, PoolInv, RequestInv, PoolOutlivesRequests, Running, Process!Running, Process!Stages
<1>4. ProcessInv => ListensWithPool
  BY DEF ProcessInv, PoolInv, ListenInv, ListensWithPool
<1>5. QED
  BY <1>1, <1>2, <1>3, <1>4, ProcessStep, PTL DEF Process!Spec, OrderlyEnd
\* The channel of the listeners: the goroutine of each sends one error, behind
\* the end of its server, and both fit.
Servers == {"main", "debug"}
Sends(x) == IF x = "closed" THEN 1 ELSE 0

ErrorInv ==
  /\ command \in Process!Commands \cup {"none"} /\ returned \in {"none", "nil", "error"}
  /\ signal \in BOOLEAN /\ pool \in {"none", "open", "closing", "closed"}
  /\ main \in {"off", "starting", "listening", "closed"}
  /\ debug \in {"off", "listening", "closed"}
  /\ errCh \in Seq(Servers) /\ Len(errCh) <= Sends(main) + Sends(debug)
  /\ cut \subseteq Req

\* There is no debug server before startDebugServer.
DebugInv ==
  stage \in {"command line", "config", "connect", "migrate", "command", "models", "debug"} =>
    debug = "off"

LEMMA DebugStep == ProcessInv /\ DebugInv /\ [Process!Next]_Process!vars => DebugInv'
BY DEF DebugInv, ProcessInv, PoolInv, ListenInv, Process!Next, Process!Main, Process!vars,
   Process!Ended, Process!Stages, Process!Goto, Process!ReturnWith, Process!listeners,
   Process!parseCommand, Process!Validate, Process!Connect, Process!Migrate, Process!RunCommand,
   Process!NewModels, Process!startDebugServer, Process!Spawn, Process!SelectError,
   Process!SelectDone, Process!Drained, Process!Overrun, Process!CloseServers, Process!ClosePool,
   Process!Exit, Process!ListenAndServe, Process!ListenerFails, Process!Signal, Process!Request,
   Process!Accept, Process!Acquire, Process!QueryEnds, Process!Answer

LEMMA ServerFacts ==
  /\ "main" \in Servers /\ "debug" \in Servers
  /\ Sends("closed") = 1 /\ \A x : x # "closed" => Sends(x) = 0
BY DEF Servers, Sends

LEMMA TwoMore ==
  ASSUME NEW s \in Seq(Servers), NEW d \in Seq(Servers), NEW m \in Seq(Servers),
         NEW x \in 0..1, NEW y \in 0..1, Len(s) <= x + y
  PROVE  s \o d \o m \in Seq(Servers) /\ Len(s \o d \o m) <= (x + Len(m)) + (y + Len(d))
<1>1. s \o d \in Seq(Servers) /\ Len(s \o d) = Len(s) + Len(d)
  BY ConcatProperties
<1>2. (s \o d) \o m \in Seq(Servers) /\ Len((s \o d) \o m) = Len(s \o d) + Len(m)
  BY <1>1, ConcatProperties
<1>3. QED
  BY <1>1, <1>2

LEMMA ErrorStep == ProcessInv /\ DebugInv /\ ErrorInv /\ [Process!Next]_Process!vars => ErrorInv'
<1> SUFFICES ASSUME ProcessInv, DebugInv, ErrorInv, [Process!Next]_Process!vars
             PROVE  ErrorInv'
  OBVIOUS
<1> USE DEF ErrorInv, Process!Commands, Process!Running, Process!Goto,
            Process!ReturnWith, Process!listeners, Process!requests
<1> /\ "main" \in Servers /\ "debug" \in Servers
    /\ Sends("closed") = 1 /\ \A x : x # "closed" => Sends(x) = 0
  BY ServerFacts
<1>1. CASE Process!parseCommand \/ Process!Validate \/ Process!Connect \/ Process!Migrate
  BY <1>1 DEF Process!parseCommand, Process!Validate, Process!Connect, Process!Migrate
<1>2. CASE Process!RunCommand \/ Process!NewModels \/ Process!Drained \/ Process!Overrun
  BY <1>2 DEF Process!RunCommand, Process!NewModels, Process!Drained, Process!Overrun
<1>3. CASE Process!startDebugServer
  <2>1. debug = "off"
    BY <1>3 DEF DebugInv, Process!startDebugServer
  <2>2. QED
    BY <1>3, <2>1 DEF Process!startDebugServer
<1>4. CASE Process!Spawn
  <2>1. main = "off"
    BY <1>4 DEF Process!Spawn, ProcessInv, ListenInv
  <2>2. QED
    BY <1>4, <2>1 DEF Process!Spawn
<1>5. CASE Process!SelectError
  <2>1. Tail(errCh) \in Seq(Servers) /\ Len(Tail(errCh)) = Len(errCh) - 1
    BY <1>5 DEF Process!SelectError
  <2>2. QED
    BY <1>5, <2>1 DEF Process!SelectError
<1>6. CASE Process!SelectDone
  BY <1>6 DEF Process!SelectDone, Process!Stop
<1>7. CASE Process!CloseServers
  <2> DEFINE D == IF debug = "listening" THEN <<"debug">> ELSE <<>>
             M == IF main = "listening" THEN <<"main">> ELSE <<>>
  <2>1. /\ D \in Seq(Servers) /\ Len(D) = IF debug = "listening" THEN 1 ELSE 0
        /\ M \in Seq(Servers) /\ Len(M) = IF main = "listening" THEN 1 ELSE 0
    <3>1. /\ <<>> \in Seq(Servers) /\ Len(<<>>) = 0
          /\ <<"debug">> \in Seq(Servers) /\ Len(<<"debug">>) = 1
          /\ <<"main">> \in Seq(Servers) /\ Len(<<"main">>) = 1
      BY ServerFacts
    <3>2. QED
      BY <3>1, Zenon
  <2>2. errCh' = errCh \o D \o M
    BY <1>7 DEF Process!CloseServers
  <2>3. /\ Sends(main') = Sends(main) + Len(M) /\ Sends(main) \in 0..1
        /\ Sends(debug') = Sends(debug) + Len(D) /\ Sends(debug) \in 0..1
    BY <1>7, <2>1 DEF Process!CloseServers
  <2> HIDE DEF D, M
  <2>4. errCh' \in Seq(Servers) /\ Len(errCh') <= Sends(main') + Sends(debug')
    BY <2>1, <2>2, <2>3, TwoMore
  <2>5. QED
    BY <1>7, <2>4 DEF Process!CloseServers
<1>8. CASE Process!ClosePool \/ Process!Exit \/ Process!Signal
  BY <1>8 DEF Process!ClosePool, Process!Exit, Process!Signal
<1>9. CASE Process!ListenAndServe
  <2>1. Append(errCh, "main") \in Seq(Servers) /\ Len(Append(errCh, "main")) = Len(errCh) + 1
    BY AppendProperties
  <2>2. QED
    BY <1>9, <2>1 DEF Process!ListenAndServe
<1>10. CASE Process!ListenerFails
  <2>1. \A error \in Servers :
          /\ Append(errCh, error) \in Seq(Servers)
          /\ Len(Append(errCh, error)) = Len(errCh) + 1
    BY AppendProperties
  <2>2. QED
    BY <1>10, <2>1 DEF Process!ListenerFails
<1>11. ASSUME NEW r \in Req,
              Process!Accept(r) \/ Process!Acquire(r) \/ Process!QueryEnds(r) \/ Process!Answer(r)
       PROVE  ErrorInv'
  BY <1>11 DEF Process!Accept, Process!Acquire, Process!QueryEnds, Process!Answer, Process!Request
<1>12. CASE UNCHANGED Process!vars
  BY <1>12 DEF Process!vars
<1>13. QED
  BY <1>1, <1>2, <1>3, <1>4, <1>5, <1>6, <1>7, <1>8, <1>9, <1>10, <1>11, <1>12
     DEF Process!Next, Process!Main, Process!Ended

\* serve makes errCh for two errors (main.go:131): no goroutine of a listener
\* waits for room in it, whichever of the two servers fails, is shut down or is
\* closed, and whatever serve took out before. This is the part of TypeOK that
\* is not the type of a variable.
THEOREM ProcessTypes == Process!Spec => []Process!TypeOK
<1>1. Process!Init => ProcessInv /\ DebugInv /\ ErrorInv
  <2>1. Process!Init => ProcessInv
    BY DEF Process!Init, ProcessInv, PoolInv, ListenInv, RequestInv, Process!Stages, Process!Running
  <2>2. Process!Init => ErrorInv
    <3>1. <<>> \in Seq(Servers) /\ Len(<<>>) = 0
      OBVIOUS
    <3>2. Process!Init =>
            /\ command = "none" /\ returned = "none" /\ signal = FALSE /\ pool = "none"
            /\ main = "off" /\ debug = "off" /\ errCh = <<>> /\ cut = {}
      BY DEF Process!Init
    <3>3. Sends("off") = 0
      BY ServerFacts
    <3>4. Process!Init => errCh \in Seq(Servers) /\ Len(errCh) <= Sends(main) + Sends(debug)
      BY <3>1, <3>2, <3>3
    <3>5. QED
      BY <3>2, <3>4 DEF ErrorInv
  <2>3. Process!Init => DebugInv
    BY DEF Process!Init, DebugInv
  <2>4. QED
    BY <2>1, <2>2, <2>3
<1>2. ProcessInv /\ ErrorInv => Process!TypeOK
  <2> SUFFICES ASSUME ProcessInv, ErrorInv
               PROVE  Process!TypeOK
    OBVIOUS
  <2>1. Len(errCh) \in 0..2 /\ errCh \in [1..Len(errCh) -> {"main", "debug"}]
    <3>1. Sends(main) \in 0..1 /\ Sends(debug) \in 0..1
      BY ServerFacts
    <3>2. /\ errCh \in Seq(Servers) /\ Len(errCh) <= Sends(main) + Sends(debug)
      BY DEF ErrorInv
    <3>3. Len(errCh) \in Nat /\ errCh \in [1..Len(errCh) -> {"main", "debug"}]
      BY <3>2, LenProperties DEF Servers
    <3>4. QED
      BY <3>1, <3>2, <3>3
  <2>2. errCh \in UNION {[1..n -> {"main", "debug"}] : n \in 0..2}
    BY <2>1
  <2>3. QED
    BY <2>2 DEF ProcessInv, PoolInv, ListenInv, RequestInv, ErrorInv, Process!TypeOK
<1>3. QED
  BY <1>1, <1>2, ProcessStep, DebugStep, ErrorStep, PTL DEF Process!Spec
=============================================================================
