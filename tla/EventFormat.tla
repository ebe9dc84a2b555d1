---------------------------- MODULE EventFormat ----------------------------
(***************************************************************************)
(* The bytes of an event stream: web.EventStream.Send writes events, the   *)
(* network passes them on in chunks of any size, and readEvents with       *)
(* parseEvent in static/app.js takes the chunks apart again.  A text is a  *)
(* sequence of characters; a field name and an event name are one each.    *)
(***************************************************************************)
EXTENDS Integers, Sequences, SequencesExt

CONSTANTS
  Char,      \* the characters of the data: "CR", "LF", ":", " " and others
  MaxLength, \* bound: the length of the data of one event
  MaxEvents, \* bound: the events of one stream
  MaxChunk   \* bound: the length of a chunk that is not all the rest

VARIABLES
  sent,   \* the events that Send accepted
  wire,   \* what the network did not pass on
  buffer, \* what readEvents has of an unfinished event
  got     \* the events that it yielded

vars == <<sent, wire, buffer, got>>

\* "" is the default event, and "a LF" a name with a line break.
Names == {"", "delta", "a LF"}
Data == UNION {[1..n -> Char] : n \in 0..MaxLength}
Fields == {"event", "data", "delta"}

TypeOK ==
  /\ sent \in Seq([type : {"", "delta"}, data : Data])
  /\ wire \in Seq(Char \cup Fields \cup {":", " ", "LF"})
  /\ buffer \in Seq(Char \cup Fields \cup {":", " ", "LF"})
  /\ got \in Seq([type : {"message", "delta"}, data : Seq(Char)])

Init == sent = <<>> /\ wire = <<>> /\ buffer = <<>> /\ got = <<>>

-----------------------------------------------------------------------------
(* The server.                                                             *)

\* strings.ReplaceAll of CRLF, then of CR.
JoinCRLF(data) ==
  FoldLeftDomain(LAMBDA out, i :
      IF data[i] = "LF" /\ i > 1 /\ data[i - 1] = "CR" THEN out ELSE Append(out, data[i]),
    <<>>, data)

\* Mutant of LineBreaks: only CRLF is replaced.
LineBreaksCRLF(data) ==
  FoldLeftDomain(LAMBDA out, i :
      IF data[i] = "CR" /\ i < Len(data) /\ data[i + 1] = "LF" THEN out ELSE Append(out, data[i]),
    <<>>, data)

LineBreaks(data) == ReplaceAll(JoinCRLF(data), "CR", "LF")

\* strings.SplitSeq(data, "\n")
Split(data) ==
  FoldLeft(LAMBDA lines, c :
      IF c = "LF" THEN Append(lines, <<>>)
      ELSE [lines EXCEPT ![Len(lines)] = Append(@, c)],
    <<<<>>>>, data)

Field(name, line) == <<name, ":", " ">> \o line \o <<"LF">>

Encode(type, data) ==
  LET lines == Split(LineBreaks(data))
  IN (IF type = "" THEN <<>> ELSE Field("event", <<type>>))
     \o FlattenSeq([i \in 1..Len(lines) |-> Field("data", lines[i])]) \o <<"LF">>

\* A name with a line break is an error, and nothing is written.
Send(type, data) ==
  /\ type # "a LF"
  /\ sent' = Append(sent, [type |-> type, data |-> data])
  /\ wire' = wire \o Encode(type, data)
  /\ UNCHANGED <<buffer, got>>

-----------------------------------------------------------------------------
(* The page.                                                               *)

\* indexOf("\n\n"), counted from 1, or 0.
BlankLine(text) ==
  SelectInSubSeq([i \in 1..Len(text) |-> <<text[i], IF i < Len(text) THEN text[i + 1] ELSE "">>],
                 1, Len(text), LAMBDA pair : pair = <<"LF", "LF">>)

Colon(line) == SelectInSeq(line, LAMBDA c : c = ":")

FieldOf(line) == IF Colon(line) = 0 THEN line ELSE SubSeq(line, 1, Colon(line) - 1)

\* The format allows one space after the colon.
ValueOf(line) ==
  LET value == IF Colon(line) = 0 THEN <<>> ELSE SubSeq(line, Colon(line) + 1, Len(line))
  IN IF value # <<>> /\ Head(value) = " " THEN Tail(value) ELSE value

\* data.join("\n")
Join(lines) ==
  FoldLeftDomain(LAMBDA out, i : IF i = 1 THEN lines[i] ELSE out \o <<"LF">> \o lines[i], <<>>, lines)

parseEvent(block) ==
  LET lines == Split(block)
      types == SelectSeq(lines, LAMBDA l : FieldOf(l) = <<"event">>)
      datas == SelectSeq(lines, LAMBDA l : FieldOf(l) = <<"data">>)
  IN [type |-> IF types = <<>> THEN "message" ELSE ValueOf(Last(types))[1],
      data |-> Join([i \in 1..Len(datas) |-> ValueOf(datas[i])])]

\* The inner loop of readEvents: every complete event of the buffer.
Blocks(text) ==
  LET take[n \in 0..Len(text)] ==
        IF n = 0 THEN [events |-> <<>>, rest |-> text]
        ELSE LET done == take[n - 1]
                 end == BlankLine(done.rest)
             IN IF end = 0 THEN done
                ELSE [events |-> Append(done.events, parseEvent(SubSeq(done.rest, 1, end - 1))),
                      rest |-> SubSeq(done.rest, end + 2, Len(done.rest))]
  IN take[Len(text)]

\* reader.read() returns a chunk.
Receive(n) ==
  LET read == Blocks(buffer \o SubSeq(wire, 1, n))
  IN /\ wire' = SubSeq(wire, n + 1, Len(wire))
     /\ buffer' = read.rest
     /\ got' = got \o read.events
     /\ UNCHANGED sent

Next ==
  \/ Len(sent) < MaxEvents /\ \E type \in Names, data \in Data : Send(type, data)
  \/ \E n \in 1..Len(wire) : (n <= MaxChunk \/ n = Len(wire)) /\ Receive(n)

Spec == Init /\ [][Next]_vars

-----------------------------------------------------------------------------
(* Properties.                                                             *)

\* The lines of a text, whatever ends them: the reference for the line breaks.
Lines(data) ==
  LET end(i) == data[i] \in {"CR", "LF"}
      pair(i) == i < Len(data) /\ data[i] = "CR" /\ data[i + 1] = "LF"
      ends == {i \in 1..Len(data) : end(i) /\ ~pair(i)}
      starts == {1} \cup {i + 1 : i \in ends}
      last(i) == CHOOSE j \in i..(Len(data) + 1) :
                   j \in ends \cup {Len(data) + 1} /\ \A k \in i..(j - 1) : k \notin ends
      line(i) == SelectSeq(SubSeq(data, i, last(i) - 1), LAMBDA c : c \notin {"CR", "LF"})
      order == SetToSortSeq(starts, <)
  IN [n \in 1..Len(order) |-> line(order[n])]

Expected(event) ==
  [type |-> IF event.type = "" THEN "message" ELSE event.type, data |-> Join(Lines(event.data))]

\* Whatever the chunks are, the page gets the events that were sent, in
\* order, with their lines, and no event more. When the wire is empty it has
\* them all.
RoundTrip ==
  /\ Len(got) <= Len(sent)
  /\ \A i \in 1..Len(got) : got[i] = Expected(sent[i])
  /\ wire = <<>> => Len(got) = Len(sent) /\ buffer = <<>>
=============================================================================
