---------------------------- MODULE AnswerProofs ----------------------------
(***************************************************************************)
(* The answer of a model on its way from the server of the model to the    *)
(* handler: StreamReaders implements Provider and accepts every whole      *)
(* stream.  The proofs hold for answers of any length.                     *)
(*                                                                         *)
(* They number the text that is on its way, in lines that carry text and   *)
(* lines that do not.  A function f does it: f[i] is the number of text    *)
(* parts before line i, so f[1] is what onText took, and the last value is *)
(* what the model said.                                                    *)
(***************************************************************************)
EXTENDS StreamReaders, SequenceTheorems, TLAPS

-----------------------------------------------------------------------------
(* The lines of a stream and what the adapter knows of them.               *)

Reasons == {"", "end", "max_tokens", "refusal", "tool"}
Kinds == {"part", "thought", "stop", "last", "error", "half"}
Item == [kind : Kinds, text : Nat, stop : Reasons]

ReaderTypes ==
  /\ api \in {"anthropic", "chat", "fake"}
  /\ said \in Nat /\ stopped \in Reasons /\ reason \in Reasons
  /\ lines \in Seq(Item) /\ shown \in Seq(Nat)
  /\ body \in {"open", "closing", "eof", "cut", "broken"}
  /\ done \in BOOLEAN
  /\ result \in {"none", "error"} \cup Abstract!Stops

\* The text of the lines continues what onText took, without a gap, up to the
\* stop of the model.
Numbers(f) ==
  /\ f[1] = Len(shown)
  /\ \A i \in 1..Len(lines) + 1 : f[i] <= said
  /\ \A i \in 1..Len(lines) :
       /\ lines[i].text \in {0, f[i] + 1}
       /\ f[i + 1] = IF lines[i].text = 0 THEN f[i] ELSE f[i] + 1
       /\ lines[i].kind = "stop" => f[i + 1] = said
  /\ body = "open" => f[Len(lines) + 1] = said

TextInv == api # "fake" => \E f \in [1..Len(lines) + 1 -> Nat] : Numbers(f)

LineInv ==
  \A i \in 1..Len(lines) :
    /\ lines[i].kind = "stop" <=> lines[i].stop # ""
    /\ lines[i].stop \in {"", stopped}
    /\ lines[i].text # 0 =>
         lines[i].kind = "part" \/ (lines[i].kind = "stop" /\ api = "chat")

\* The reason that the adapter has is the one of the model, and it came after
\* all of the text.
ReasonInv ==
  /\ reason \in {"", stopped}
  /\ api # "fake" /\ reason # "" => Len(shown) = said
  /\ api = "fake" =>
       /\ reason = stopped /\ stopped \in {"", "end", "max_tokens"}
       /\ lines = <<>> /\ body = "open" /\ ~done /\ Len(shown) <= said

\* A stream without a loss has the reason on its way, before its last line.
EndInv ==
  /\ api # "fake" /\ body = "open" =>
       stopped = "" /\ ~done /\ \A i \in 1..Len(lines) : lines[i].kind # "last"
  /\ \A i, j \in 1..Len(lines) :
       lines[i].kind = "last" /\ lines[j].kind = "stop" => j < i
  /\ body \notin {"cut", "broken"} /\ stopped # "" /\ reason = "" =>
       ~done /\ \E j \in 1..Len(lines) : lines[j].kind = "stop"

ReaderInv == ReaderTypes /\ TextInv /\ LineInv /\ ReasonInv /\ EndInv

-----------------------------------------------------------------------------
(* What the steps do to the lines.                                         *)

\* The server appends a line: its text is the next one that the model says.
LEMMA TextAppend ==
  ASSUME ReaderTypes, TextInv, NEW item \in Item,
         lines' = Append(lines, item), UNCHANGED <<api, shown>>,
         \/ /\ item.text = 0 /\ said' = said
            /\ item.kind = "stop" \/ body' = "open" => body = "open"
         \/ /\ item.text = said + 1 /\ said' = said + 1 /\ body = "open"
            /\ \A i \in 1..Len(lines) : lines[i].kind # "stop"
  PROVE  TextInv'
<1> SUFFICES ASSUME api # "fake"
             PROVE  \E g \in [1..Len(lines') + 1 -> Nat] : Numbers(g)'
  BY DEF TextInv
<1> DEFINE n == Len(lines)
<1>1. PICK f \in [1..n + 1 -> Nat] : Numbers(f)
  BY DEF TextInv
<1>2. /\ n \in Nat /\ Len(lines') = n + 1 /\ said \in Nat /\ item.text \in Nat
      /\ \A i \in 1..n : lines'[i] = lines[i]
      /\ lines'[n + 1] = item
  BY AppendProperties, LenProperties DEF ReaderTypes, Item
<1>3. PICK g \in [1..Len(lines') + 1 -> Nat] :
        /\ \A i \in 1..n + 1 : g[i] = f[i]
        /\ g[n + 2] = IF item.text = 0 THEN f[n + 1] ELSE f[n + 1] + 1
  <2> DEFINE h == [i \in 1..n + 2 |->
                     IF i <= n + 1 THEN f[i]
                     ELSE IF item.text = 0 THEN f[n + 1] ELSE f[n + 1] + 1]
  <2>1. /\ h \in [1..Len(lines') + 1 -> Nat]
        /\ \A i \in 1..n + 1 : h[i] = f[i]
        /\ h[n + 2] = IF item.text = 0 THEN f[n + 1] ELSE f[n + 1] + 1
    BY <1>1, <1>2
  <2> HIDE DEF h
  <2>2. QED
    BY <2>1
<1> HIDE DEF n
<1>4. /\ f[1] = Len(shown) /\ f[n + 1] \in Nat
      /\ \A i \in 1..n + 1 : f[i] <= said
      /\ \A i \in 1..n :
           /\ lines[i].text \in {0, f[i] + 1}
           /\ f[i + 1] = IF lines[i].text = 0 THEN f[i] ELSE f[i] + 1
           /\ lines[i].kind = "stop" => f[i + 1] = said
      /\ body = "open" => f[n + 1] = said
  BY <1>1, <1>2 DEF Numbers, n
<1>5. g[1] = Len(shown')
  BY <1>2, <1>3, <1>4
<1>6. \A i \in 1..n + 2 : g[i] <= said'
  <2>1. \A i \in 1..n + 1 : f[i] \in Nat
    BY <1>1 DEF n
  <2>2. QED
    BY <1>2, <1>3, <1>4, <2>1
<1>7. ASSUME NEW i \in 1..n + 1
      PROVE  /\ lines'[i].text \in {0, g[i] + 1}
             /\ g[i + 1] = IF lines'[i].text = 0 THEN g[i] ELSE g[i] + 1
             /\ lines'[i].kind = "stop" => g[i + 1] = said'
  <2>1. CASE i <= n
    <3>1. i \in 1..n /\ i + 1 \in 1..n + 1
      BY <1>2, <2>1
    <3>2. lines'[i] = lines[i] /\ g[i] = f[i] /\ g[i + 1] = f[i + 1]
      BY <1>2, <1>3, <3>1
    <3>3. /\ lines[i].text \in {0, f[i] + 1}
          /\ f[i + 1] = IF lines[i].text = 0 THEN f[i] ELSE f[i] + 1
          /\ lines[i].kind = "stop" => f[i + 1] = said
      BY <1>4, <3>1
    <3>4. lines[i].kind = "stop" => said' = said
      BY <3>1 DEF n
    <3>5. QED
      BY ONLY <3>2, <3>3, <3>4
  <2>2. CASE i = n + 1
    <3>1. lines'[i] = item /\ g[i] = f[n + 1] /\ f[n + 1] \in Nat
          /\ g[i + 1] = IF item.text = 0 THEN f[n + 1] ELSE f[n + 1] + 1
      BY <1>2, <1>3, <1>4, <2>2
    <3>2. body = "open" => f[n + 1] = said
      BY <1>4
    <3>3. \/ /\ item.text = 0 /\ said' = said
             /\ item.kind = "stop" => f[n + 1] = said
          \/ item.text = said + 1 /\ said' = said + 1 /\ f[n + 1] = said
      BY <3>2
    <3>4. item.text \in {0, f[n + 1] + 1}
      BY <3>3
    <3>5. item.kind = "stop" => g[i + 1] = said'
      BY <1>2, <3>1, <3>3
    <3>6. QED
      BY <3>1, <3>4, <3>5
  <2>3. QED
    BY <1>2, <2>1, <2>2
<1>8. body' = "open" => g[n + 2] = said'
  BY <1>2, <1>3, <1>4
<1>9. Numbers(g)'
  <2>1. \A i \in 1..Len(lines') + 1 : g[i] <= said'
    BY <1>2, <1>6
  <2>2. \A i \in 1..Len(lines') :
          /\ lines'[i].text \in {0, g[i] + 1}
          /\ g[i + 1] = IF lines'[i].text = 0 THEN g[i] ELSE g[i] + 1
          /\ lines'[i].kind = "stop" => g[i + 1] = said'
    BY <1>2, <1>7
  <2>3. body' = "open" => g[Len(lines') + 1] = said'
    BY <1>2, <1>8
  <2>4. QED
    BY ONLY <1>5, <2>1, <2>2, <2>3 DEF Numbers
<1>10. QED
  BY <1>3, <1>9

\* The adapter takes the first line, and onText its text.
LEMMA TextTail ==
  ASSUME ReaderTypes, TextInv, api # "fake", lines # <<>>,
         lines' = Tail(lines), UNCHANGED <<api, said, body>>
  PROVE  LET text == lines[1].text
         IN /\ text # 0 => text = Len(shown) + 1 /\ Len(shown) < said
            /\ lines[1].kind = "stop" =>
                 said = IF text = 0 THEN Len(shown) ELSE Len(shown) + 1
            /\ Len(shown') = (IF text = 0 THEN Len(shown) ELSE Len(shown) + 1) => TextInv'
<1> DEFINE n == Len(lines)
<1>1. PICK f \in [1..n + 1 -> Nat] : Numbers(f)
  BY DEF TextInv
<1>2. /\ n \in Nat /\ n > 0 /\ Len(lines') = n - 1 /\ said \in Nat
      /\ \A i \in 1..n - 1 : lines'[i] = lines[i + 1]
  BY HeadTailProperties, LenProperties, EmptySeq DEF ReaderTypes
<1>3. PICK g \in [1..Len(lines') + 1 -> Nat] : \A i \in 1..n : g[i] = f[i + 1]
  <2> DEFINE h == [i \in 1..n |-> f[i + 1]]
  <2>1. h \in [1..Len(lines') + 1 -> Nat] /\ \A i \in 1..n : h[i] = f[i + 1]
    BY <1>1, <1>2
  <2> HIDE DEF h
  <2>2. QED
    BY <2>1
<1> HIDE DEF n
<1>4. /\ f[1] = Len(shown) /\ f[1] \in Nat /\ f[2] \in Nat
      /\ \A i \in 1..n + 1 : f[i] <= said
      /\ \A i \in 1..n :
           /\ lines[i].text \in {0, f[i] + 1}
           /\ f[i + 1] = IF lines[i].text = 0 THEN f[i] ELSE f[i] + 1
           /\ lines[i].kind = "stop" => f[i + 1] = said
      /\ body = "open" => f[n + 1] = said
  BY <1>1, <1>2 DEF Numbers, n
<1>5. /\ lines[1].text \in {0, f[1] + 1}
      /\ f[2] = IF lines[1].text = 0 THEN f[1] ELSE f[1] + 1
      /\ lines[1].kind = "stop" => f[2] = said
      /\ f[2] <= said
  BY <1>2, <1>4
<1>6. ASSUME Len(shown') = (IF lines[1].text = 0 THEN Len(shown) ELSE Len(shown) + 1)
      PROVE  TextInv'
  <2>1. g[1] = Len(shown')
    BY <1>2, <1>3, <1>4, <1>5, <1>6
  <2>2. \A i \in 1..Len(lines') + 1 : g[i] <= said'
    BY <1>2, <1>3, <1>4
  <2>3. ASSUME NEW i \in 1..Len(lines')
        PROVE  /\ lines'[i].text \in {0, g[i] + 1}
               /\ g[i + 1] = IF lines'[i].text = 0 THEN g[i] ELSE g[i] + 1
               /\ lines'[i].kind = "stop" => g[i + 1] = said'
    <3>1. i \in 1..n - 1 /\ i \in 1..n /\ i + 1 \in 1..n
      BY <1>2
    <3>2. lines'[i] = lines[i + 1] /\ g[i] = f[i + 1] /\ g[i + 1] = f[(i + 1) + 1]
      BY <1>2, <1>3, <3>1
    <3>3. /\ lines[i + 1].text \in {0, f[i + 1] + 1}
          /\ f[(i + 1) + 1] = IF lines[i + 1].text = 0 THEN f[i + 1] ELSE f[i + 1] + 1
          /\ lines[i + 1].kind = "stop" => f[(i + 1) + 1] = said
      BY <1>4, <3>1
    <3>4. QED
      BY <3>2, <3>3
  <2>4. body' = "open" => g[Len(lines') + 1] = said'
    <3>1. n \in 1..n /\ Len(lines') + 1 = n /\ g[n] = f[n + 1]
      BY <1>2, <1>3
    <3>2. QED
      BY <1>4, <3>1
  <2>5. Numbers(g)'
    BY ONLY <2>1, <2>2, <2>3, <2>4 DEF Numbers
  <2>6. QED
    BY <2>5 DEF TextInv
<1>7. lines[1].text # 0 => lines[1].text = Len(shown) + 1 /\ Len(shown) < said
  BY <1>2, <1>4, <1>5
<1>8. lines[1].kind = "stop" =>
        said = IF lines[1].text = 0 THEN Len(shown) ELSE Len(shown) + 1
  BY <1>4, <1>5
<1>9. QED
  BY <1>6, <1>7, <1>8

\* The body ends with some of its lines, the last one cut in half perhaps.
LEMMA TextCut ==
  ASSUME ReaderTypes, TextInv, UNCHANGED <<api, said, shown>>, body' # "open",
         NEW kept \in 0..Len(lines), \A i \in 1..kept : lines'[i] = lines[i],
         \/ Len(lines') = kept
         \/ Len(lines') = kept + 1 /\ lines'[kept + 1] = Half
  PROVE  TextInv'
<1> SUFFICES ASSUME api # "fake"
             PROVE  \E g \in [1..Len(lines') + 1 -> Nat] : Numbers(g)'
  BY DEF TextInv
<1>1. PICK f \in [1..Len(lines) + 1 -> Nat] : Numbers(f)
  BY DEF TextInv
<1>2. /\ kept \in Nat /\ \A i \in 1..kept : i \in 1..Len(lines)
      /\ \A i \in 1..kept + 1 : i \in 1..Len(lines) + 1
      /\ Half.text = 0 /\ Half.kind = "half"
  <2>1. Len(lines) \in Nat
    BY LenProperties DEF ReaderTypes
  <2>2. Half.text = 0 /\ Half.kind = "half"
    BY DEF Half
  <2>3. QED
    BY <2>1, <2>2
<1>3. PICK g \in [1..Len(lines') + 1 -> Nat] :
        /\ \A i \in 1..kept + 1 : g[i] = f[i]
        /\ Len(lines') = kept + 1 => g[kept + 2] = f[kept + 1]
  <2> DEFINE h == [i \in 1..Len(lines') + 1 |-> IF i <= kept + 1 THEN f[i] ELSE f[kept + 1]]
  <2>1. /\ h \in [1..Len(lines') + 1 -> Nat]
        /\ \A i \in 1..kept + 1 : h[i] = f[i]
        /\ Len(lines') = kept + 1 => h[kept + 2] = f[kept + 1]
    BY <1>1, <1>2
  <2> HIDE DEF h
  <2>2. QED
    BY <2>1
<1>4. /\ f[1] = Len(shown)
      /\ \A i \in 1..kept + 1 : f[i] <= said
      /\ \A i \in 1..kept :
           /\ lines[i].text \in {0, f[i] + 1}
           /\ f[i + 1] = IF lines[i].text = 0 THEN f[i] ELSE f[i] + 1
           /\ lines[i].kind = "stop" => f[i + 1] = said
  BY <1>1, <1>2 DEF Numbers
<1>5. g[1] = Len(shown')
  BY <1>2, <1>3, <1>4
<1>6. \A i \in 1..Len(lines') + 1 : g[i] <= said'
  BY <1>2, <1>3, <1>4
<1>7. ASSUME NEW i \in 1..Len(lines')
      PROVE  /\ lines'[i].text \in {0, g[i] + 1}
             /\ g[i + 1] = IF lines'[i].text = 0 THEN g[i] ELSE g[i] + 1
             /\ lines'[i].kind = "stop" => g[i + 1] = said'
  <2>1. CASE i \in 1..kept
    <3>1. lines'[i] = lines[i] /\ g[i] = f[i] /\ g[i + 1] = f[i + 1]
      BY <1>2, <1>3, <2>1
    <3>2. QED
      BY <1>4, <2>1, <3>1
  <2>2. CASE i = kept + 1
    BY <1>2, <1>3, <1>4, <2>2
  <2>3. QED
    BY <1>2, <2>1, <2>2
<1>8. body' # "open"
  OBVIOUS
<1>9. Numbers(g)'
  BY ONLY <1>5, <1>6, <1>7, <1>8 DEF Numbers
<1>10. QED
  BY <1>9

\* What Send does to the lines.
LEMMA Appended ==
  ASSUME ReaderTypes, NEW kind \in Kinds, NEW text \in Nat, NEW stop \in Reasons,
         Send(kind, text, stop)
  PROVE  \E item \in Item :
           /\ lines' = Append(lines, item) /\ lines' \in Seq(Item)
           /\ item.kind = kind /\ item.text = text /\ item.stop = stop
           /\ Len(lines) \in Nat /\ Len(lines') = Len(lines) + 1
           /\ \A i \in 1..Len(lines) : lines'[i] = lines[i]
           /\ lines'[Len(lines) + 1] = item
<1> DEFINE item == [kind |-> kind, text |-> text, stop |-> stop]
<1>1. item \in Item /\ item.kind = kind /\ item.text = text /\ item.stop = stop
  BY DEF Item
<1>2. lines' = Append(lines, item) /\ lines \in Seq(Item)
  BY DEF Send, ReaderTypes
<1> HIDE DEF item
<1>3. QED
  BY <1>1, <1>2, AppendProperties, LenProperties

\* What EndBody does to the lines.
LEMMA Cutted ==
  ASSUME ReaderTypes, EndBody
  PROVE  /\ lines' \in Seq(Item) /\ Len(lines) \in Nat
         /\ \E kept \in 0..Len(lines) :
              /\ \A i \in 1..kept : lines'[i] = lines[i]
              /\ \/ Len(lines') = kept
                 \/ Len(lines') = kept + 1 /\ lines'[kept + 1] = Half
         /\ body' = "eof" => lines' = lines
<1>1. lines \in Seq(Item) /\ Len(lines) \in Nat
  BY LenProperties DEF ReaderTypes
<1>2. CASE UNCHANGED lines
  BY <1>1, <1>2
<1>3. ASSUME NEW kept \in 0..Len(lines), NEW cut \in BOOLEAN,
             lines' = SubSeq(lines, 1, kept) \o (IF cut THEN <<Half>> ELSE <<>>)
      PROVE  /\ lines' \in Seq(Item)
             /\ \A i \in 1..kept : lines'[i] = lines[i]
             /\ \/ Len(lines') = kept
                \/ Len(lines') = kept + 1 /\ lines'[kept + 1] = Half
  <2> DEFINE head == SubSeq(lines, 1, kept)
             tail == IF cut THEN <<Half>> ELSE <<>>
  <2>1. /\ head \in Seq(Item) /\ Len(head) = kept
        /\ \A i \in 1..kept : head[i] = lines[i]
    <3>1. \A i \in 1..kept : lines[i] \in Item
      BY <1>1, ElementOfSeq
    <3>2. QED
      BY <1>1, <3>1, SubSeqProperties
  <2>2. /\ tail \in Seq(Item) /\ Len(tail) \in {0, 1}
        /\ Len(tail) = 1 => tail[1] = Half
    <3>1. Half \in Item
      BY DEF Half, Item, Kinds, Reasons
    <3> HIDE DEF head
    <3>2. QED
      BY <3>1
  <2>3. lines' = head \o tail
    BY <1>3
  <2> HIDE DEF head, tail
  <2>4. /\ lines' \in Seq(Item) /\ Len(lines') = kept + Len(tail)
        /\ \A i \in 1..kept + Len(tail) :
             lines'[i] = IF i <= kept THEN head[i] ELSE tail[i - kept]
    BY <2>1, <2>2, <2>3, ConcatProperties
  <2>5. QED
    BY <2>1, <2>2, <2>4
<1>4. QED
  BY <1>1, <1>2, <1>3 DEF EndBody

\* What the adapter takes from the first line.
LEMMA ReadEffect ==
  ASSUME ReaderInv, ReadLine
  PROVE  LET line == lines[1]
         IN /\ api # "fake" /\ lines # <<>> /\ lines' = Tail(lines) /\ line \in Item
            /\ ~done /\ result = "none" /\ UNCHANGED <<api, said, stopped, body>>
            /\ reason' = IF line.kind = "stop" THEN stopped ELSE reason
            /\ done' = (line.kind = "last")
            /\ result' \in {"none", "error"}
            /\ shown' = IF line.text = 0 THEN shown ELSE Append(shown, line.text)
<1> DEFINE line == Head(lines)
<1>1. /\ lines # <<>> /\ lines' = Tail(lines) /\ ~done /\ result = "none"
      /\ UNCHANGED <<api, said, stopped, body>>
  BY DEF ReadLine, Reader
<1>2. lines \in Seq(Item) /\ 1 \in 1..Len(lines) /\ line = lines[1] /\ line \in Item
  BY <1>1, EmptySeq, LenProperties, HeadTailProperties DEF ReaderInv, ReaderTypes
<1>3. api # "fake"
  BY <1>1 DEF ReaderInv, ReasonInv
<1>4. /\ line.kind = "stop" <=> line.stop # ""
      /\ line.stop \in {"", stopped}
      /\ line.text # 0 => line.kind = "part" \/ (line.kind = "stop" /\ api = "chat")
      /\ line.kind \in Kinds
  BY <1>2 DEF ReaderInv, LineInv, Item
<1>5. done = FALSE /\ shown = shown
  BY <1>1 DEF ReaderInv, ReaderTypes
<1> HIDE DEF line
<1>6. CASE line.kind = "half" /\ UNCHANGED <<reason, done, shown, result>>
  <2>1. line.text = 0
    BY <1>4, <1>6
  <2>2. done' = (line.kind = "last")
    BY <1>5, <1>6
  <2>3. QED
    BY <1>1, <1>2, <1>3, <1>6, <2>1, <2>2
<1>7. CASE api = "chat" /\ AddChunk(line)
  BY <1>1, <1>2, <1>3, <1>4, <1>5, <1>7 DEF AddChunk, TakeText, Return, KeepReason
<1>8. CASE api # "chat" /\ AddEvent(line)
  BY <1>1, <1>2, <1>3, <1>4, <1>5, <1>8 DEF AddEvent, TakeText, Return, Kinds
<1>9. QED
  BY <1>6, <1>7, <1>8 DEF ReadLine, line

-----------------------------------------------------------------------------
(* The steps keep the invariant.                                           *)

\* The server sends a line. Text comes while the body is open and the model
\* goes on, and the reason to stop comes once.
Sends(kind, text, stop) ==
  /\ Send(kind, text, stop)
  /\ UNCHANGED <<api, reason, done, shown, result>>
  /\ api # "fake" /\ body \in {"open", "closing"} /\ body' \in {"open", "closing", "eof"}
  /\ kind = "stop" <=> stop # ""
  /\ \/ text = 0 /\ said' = said
     \/ /\ text = said + 1 /\ said' = said + 1 /\ body = "open"
        /\ kind = "part" \/ (kind = "stop" /\ api = "chat")
  /\ kind = "stop" => body = "open" /\ stopped = "" /\ stopped' = stop
  /\ kind # "stop" => stopped' = stopped
  /\ kind = "last" => body' = "eof"
  /\ body' = "open" => body = "open" /\ kind # "stop"

LEMMA ServerSends ==
  ASSUME ReaderInv,
         \/ SendPart \/ SendThought \/ SendLast \/ SendError
         \/ \E stop \in Abstract!Stops \cup {"tool"}, withPart \in BOOLEAN :
              SendStop(stop, withPart)
  PROVE  \E kind \in Kinds, text \in Nat, stop \in Reasons : Sends(kind, text, stop)
<1>1. said \in Nat /\ said + 1 \in Nat
  BY DEF ReaderInv, ReaderTypes
<1> USE DEF Sends, Server, Reasons, Kinds
<1>2. CASE SendPart
  <2>1. Sends("part", said + 1, "")
    BY <1>2 DEF SendPart
  <2>2. QED
    BY ONLY <1>1, <2>1 DEF Kinds, Reasons
<1>3. CASE SendThought
  <2>1. Sends("thought", 0, "")
    BY <1>3 DEF SendThought
  <2>2. QED
    BY ONLY <2>1 DEF Kinds, Reasons
<1>4. CASE SendLast
  <2>1. Sends("last", 0, "")
    BY <1>4 DEF SendLast
  <2>2. QED
    BY ONLY <2>1 DEF Kinds, Reasons
<1>5. CASE SendError
  <2>1. Sends("error", 0, "")
    BY <1>5 DEF SendError
  <2>2. QED
    BY ONLY <2>1 DEF Kinds, Reasons
<1>6. ASSUME NEW stop \in Abstract!Stops \cup {"tool"}, NEW withPart \in BOOLEAN,
             SendStop(stop, withPart)
      PROVE  \E kind \in Kinds, text \in Nat, why \in Reasons : Sends(kind, text, why)
  <2> DEFINE text == IF withPart THEN said + 1 ELSE 0
  <2>1. Sends("stop", text, stop)
    BY <1>6 DEF SendStop, Abstract!Stops
  <2>2. text \in Nat /\ stop \in Reasons
    BY <1>1 DEF Abstract!Stops
  <2> HIDE DEF text
  <2>3. QED
    BY ONLY <2>1, <2>2 DEF Kinds
<1>7. QED
  BY <1>2, <1>3, <1>4, <1>5, <1>6

LEMMA ServerStep ==
  ASSUME ReaderInv, NEW kind \in Kinds, NEW text \in Nat, NEW stop \in Reasons,
         Sends(kind, text, stop)
  PROVE  ReaderInv'
<1>1. ReaderTypes /\ TextInv /\ LineInv /\ ReasonInv /\ EndInv
  BY DEF ReaderInv
<1>2. Send(kind, text, stop)
  BY DEF Sends
<1>3. PICK item \in Item :
        /\ lines' = Append(lines, item) /\ lines' \in Seq(Item)
        /\ item.kind = kind /\ item.text = text /\ item.stop = stop
        /\ Len(lines) \in Nat /\ Len(lines') = Len(lines) + 1
        /\ \A i \in 1..Len(lines) : lines'[i] = lines[i]
        /\ lines'[Len(lines) + 1] = item
  BY <1>1, <1>2, Appended
<1>4. \A i \in 1..Len(lines') : i = Len(lines) + 1 \/ i \in 1..Len(lines)
  BY <1>3
<1>5. ReaderTypes'
  BY <1>1, <1>3 DEF Sends, ReaderTypes
<1>6. ASSUME stopped = ""
      PROVE  \A i \in 1..Len(lines) : lines[i].kind # "stop"
  BY <1>1, <1>6 DEF LineInv
<1>7. TextInv'
  <2>1. UNCHANGED <<api, shown>>
    BY DEF Sends
  <2>2. \/ /\ item.text = 0 /\ said' = said
           /\ item.kind = "stop" \/ body' = "open" => body = "open"
        \/ /\ item.text = said + 1 /\ said' = said + 1 /\ body = "open"
           /\ \A i \in 1..Len(lines) : lines[i].kind # "stop"
    BY <1>1, <1>3, <1>6 DEF Sends, EndInv
  <2>3. QED
    BY <1>1, <1>3, <2>1, <2>2, TextAppend
<1>8. LineInv'
  <2> SUFFICES ASSUME NEW i \in 1..Len(lines')
               PROVE  /\ lines'[i].kind = "stop" <=> lines'[i].stop # ""
                      /\ lines'[i].stop \in {"", stopped'}
                      /\ lines'[i].text # 0 =>
                           \/ lines'[i].kind = "part"
                           \/ lines'[i].kind = "stop" /\ api' = "chat"
    BY DEF LineInv
  <2>1. CASE i = Len(lines) + 1
    BY <1>3, <2>1 DEF Sends
  <2>2. CASE i \in 1..Len(lines)
    <3>1. lines'[i] = lines[i]
      BY <1>3, <2>2
    <3>2. QED
      BY <1>1, <2>2, <3>1 DEF Sends, LineInv
  <2>3. QED
    BY <1>4, <2>1, <2>2
<1>9. ReasonInv'
  BY <1>1 DEF Sends, ReasonInv, EndInv
<1>10. EndInv'
  <2>1. body' = "open" =>
          stopped' = "" /\ ~done' /\ \A i \in 1..Len(lines') : lines'[i].kind # "last"
    <3>1. SUFFICES ASSUME body' = "open"
                   PROVE  stopped' = "" /\ ~done' /\ \A i \in 1..Len(lines') : lines'[i].kind # "last"
      OBVIOUS
    <3>2. body = "open" /\ kind # "stop" /\ kind # "last" /\ stopped' = stopped /\ done' = done
      BY <3>1 DEF Sends
    <3>3. stopped = "" /\ ~done /\ \A i \in 1..Len(lines) : lines[i].kind # "last"
      BY <1>1, <3>2 DEF EndInv, Sends
    <3>4. \A i \in 1..Len(lines') : lines'[i].kind # "last"
      BY <1>3, <1>4, <3>2, <3>3
    <3>5. QED
      BY <3>2, <3>3, <3>4
  <2>2. ASSUME NEW i \in 1..Len(lines'), NEW j \in 1..Len(lines'),
               lines'[i].kind = "last", lines'[j].kind = "stop"
        PROVE  j < i
    <3>1. CASE j = Len(lines) + 1
      <4>1. kind = "stop"
        BY <1>3, <2>2, <3>1
      <4>2. \A k \in 1..Len(lines) : lines[k].kind # "last"
        BY <1>1, <4>1 DEF Sends, EndInv
      <4>3. QED
        BY <1>3, <1>4, <2>2, <4>1, <4>2
    <3>2. CASE j \in 1..Len(lines) /\ i = Len(lines) + 1
      BY <1>3, <3>2
    <3>3. CASE j \in 1..Len(lines) /\ i \in 1..Len(lines)
      <4>1. lines[i].kind = "last" /\ lines[j].kind = "stop"
        BY <1>3, <2>2, <3>3
      <4>2. QED
        BY <1>1, <3>3, <4>1 DEF EndInv
    <3>4. QED
      BY <1>4, <3>1, <3>2, <3>3
  <2>3. ASSUME stopped' # "", reason' = ""
        PROVE  ~done' /\ \E j \in 1..Len(lines') : lines'[j].kind = "stop"
    <3>1. CASE kind = "stop"
      <4>1. ~done'
        BY <1>1, <3>1 DEF Sends, EndInv
      <4>2. Len(lines) + 1 \in 1..Len(lines') /\ lines'[Len(lines) + 1].kind = "stop"
        BY <1>3, <3>1
      <4>3. QED
        BY <4>1, <4>2
    <3>2. CASE kind # "stop"
      <4>1. stopped # "" /\ reason = "" /\ done' = done /\ body \notin {"cut", "broken"}
        BY <2>3, <3>2 DEF Sends
      <4>2. PICK j \in 1..Len(lines) : lines[j].kind = "stop"
        BY <1>1, <4>1 DEF EndInv
      <4>3. ~done
        BY <1>1, <4>1 DEF EndInv
      <4>4. j \in 1..Len(lines') /\ lines'[j].kind = "stop"
        BY <1>3, <4>2
      <4>5. QED
        BY <4>1, <4>3, <4>4
    <3>3. QED
      BY <3>1, <3>2
  <2>4. QED
    BY <2>1, <2>2, <2>3 DEF EndInv
<1>11. QED
  BY <1>5, <1>7, <1>8, <1>9, <1>10 DEF ReaderInv

LEMMA EndBodyStep ==
  ASSUME ReaderInv, EndBody
  PROVE  ReaderInv'
<1>1. ReaderTypes /\ TextInv /\ LineInv /\ ReasonInv /\ EndInv
  BY DEF ReaderInv
<1>2. /\ UNCHANGED <<api, said, stopped, reason, done, shown, result>>
      /\ body' \in {"eof", "cut", "broken"} /\ api # "fake"
      /\ body \in {"open", "closing"}
  BY DEF EndBody, Server
<1>3. PICK kept \in 0..Len(lines) :
        /\ \A i \in 1..kept : lines'[i] = lines[i]
        /\ Len(lines') = kept \/ (Len(lines') = kept + 1 /\ lines'[kept + 1] = Half)
  BY <1>1, Cutted
<1>4. lines' \in Seq(Item) /\ Len(lines) \in Nat /\ (body' = "eof" => lines' = lines)
  BY <1>1, Cutted
<1>5. ReaderTypes'
  BY <1>1, <1>2, <1>4 DEF ReaderTypes
<1>6. TextInv'
  BY <1>1, <1>2, <1>3, TextCut
<1>7. \A i \in 1..Len(lines') :
        (i \in 1..Len(lines) /\ lines'[i] = lines[i]) \/ lines'[i] = Half
  BY <1>3, <1>4
<1>8. Half.kind = "half" /\ Half.text = 0 /\ Half.stop = ""
  BY DEF Half
<1>9. LineInv'
  <2> SUFFICES ASSUME NEW i \in 1..Len(lines')
               PROVE  /\ lines'[i].kind = "stop" <=> lines'[i].stop # ""
                      /\ lines'[i].stop \in {"", stopped'}
                      /\ lines'[i].text # 0 =>
                           \/ lines'[i].kind = "part"
                           \/ lines'[i].kind = "stop" /\ api' = "chat"
    BY DEF LineInv
  <2>1. CASE lines'[i] = Half
    BY <1>8, <2>1
  <2>2. CASE i \in 1..Len(lines) /\ lines'[i] = lines[i]
    BY <1>1, <1>2, <2>2 DEF LineInv
  <2>3. QED
    BY <1>7, <2>1, <2>2
<1>10. ReasonInv'
  BY <1>1, <1>2 DEF ReasonInv
<1>11. EndInv'
  <2>1. ASSUME NEW i \in 1..Len(lines'), NEW j \in 1..Len(lines'),
               lines'[i].kind = "last", lines'[j].kind = "stop"
        PROVE  j < i
    <3>1. /\ i \in 1..Len(lines) /\ lines[i].kind = "last"
          /\ j \in 1..Len(lines) /\ lines[j].kind = "stop"
      BY <1>7, <1>8, <2>1
    <3>2. QED
      BY <1>1, <3>1 DEF EndInv
  <2>2. ASSUME body' = "eof", stopped' # "", reason' = ""
        PROVE  ~done' /\ \E j \in 1..Len(lines') : lines'[j].kind = "stop"
    BY <1>1, <1>2, <1>4, <2>2 DEF EndInv
  <2>3. body' # "open"
    BY <1>2
  <2>4. QED
    BY <1>2, <2>1, <2>2, <2>3 DEF EndInv
<1>12. QED
  BY <1>5, <1>6, <1>9, <1>10, <1>11 DEF ReaderInv

LEMMA ReadStep ==
  ASSUME ReaderInv, ReadLine
  PROVE  ReaderInv'
<1>1. ReaderTypes /\ TextInv /\ LineInv /\ ReasonInv /\ EndInv
  BY DEF ReaderInv
<1> DEFINE line == lines[1]
<1>2. /\ api # "fake" /\ lines # <<>> /\ lines' = Tail(lines) /\ line \in Item
      /\ ~done /\ result = "none" /\ UNCHANGED <<api, said, stopped, body>>
      /\ reason' = IF line.kind = "stop" THEN stopped ELSE reason
      /\ done' = (line.kind = "last")
      /\ result' \in {"none", "error"}
      /\ shown' = IF line.text = 0 THEN shown ELSE Append(shown, line.text)
  BY ReadEffect
<1>3. /\ line.text # 0 => line.text = Len(shown) + 1 /\ Len(shown) < said
      /\ line.kind = "stop" =>
           said = IF line.text = 0 THEN Len(shown) ELSE Len(shown) + 1
      /\ Len(shown') = (IF line.text = 0 THEN Len(shown) ELSE Len(shown) + 1) => TextInv'
  BY <1>1, <1>2, TextTail
<1>4. /\ Len(lines) \in Nat /\ Len(lines) > 0 /\ lines' \in Seq(Item)
      /\ Len(lines') = Len(lines) - 1
      /\ \A i \in 1..Len(lines') : i + 1 \in 1..Len(lines) /\ lines'[i] = lines[i + 1]
  <2>1. lines \in Seq(Item)
    BY <1>1 DEF ReaderTypes
  <2>2. /\ Len(lines) \in Nat /\ Len(lines) > 0 /\ lines' \in Seq(Item)
        /\ Len(lines') = Len(lines) - 1
        /\ \A i \in 1..Len(lines') : lines'[i] = lines[i + 1]
    BY <1>2, <2>1, HeadTailProperties, LenProperties, EmptySeq
  <2>3. QED
    BY <2>2
<1> HIDE DEF line
<1>5. 1 \in 1..Len(lines) /\ line.text \in Nat /\ line.kind \in Kinds
  BY <1>2, <1>4 DEF Item
<1>6. /\ shown' \in Seq(Nat) /\ shown \in Seq(Nat) /\ Len(shown) \in Nat
      /\ Len(shown') = IF line.text = 0 THEN Len(shown) ELSE Len(shown) + 1
  <2>1. shown \in Seq(Nat)
    BY <1>1 DEF ReaderTypes
  <2>2. QED
    BY <1>2, <1>5, <2>1, AppendProperties, LenProperties
<1>7. TextInv'
  BY <1>3, <1>6
<1>8. ReaderTypes'
  BY <1>1, <1>2, <1>4, <1>6 DEF ReaderTypes
<1>9. LineInv'
  <2> SUFFICES ASSUME NEW i \in 1..Len(lines')
               PROVE  /\ lines'[i].kind = "stop" <=> lines'[i].stop # ""
                      /\ lines'[i].stop \in {"", stopped'}
                      /\ lines'[i].text # 0 =>
                           \/ lines'[i].kind = "part"
                           \/ lines'[i].kind = "stop" /\ api' = "chat"
    BY DEF LineInv
  <2>1. i + 1 \in 1..Len(lines) /\ lines'[i] = lines[i + 1]
    BY <1>4
  <2>2. QED
    BY <1>1, <1>2, <2>1 DEF LineInv
<1>10. ReasonInv'
  <2>1. reason' \in {"", stopped'}
    BY <1>1, <1>2 DEF ReasonInv
  <2>2. ASSUME reason' # ""
        PROVE  Len(shown') = said'
    <3>1. CASE line.kind = "stop"
      BY <1>2, <1>3, <1>6, <3>1
    <3>2. CASE line.kind # "stop"
      <4>1. Len(shown) = said
        BY <1>1, <1>2, <2>2, <3>2 DEF ReasonInv
      <4>2. line.text = 0
        BY <1>3, <1>6, <4>1
      <4>3. QED
        BY <1>2, <4>1, <4>2
    <3>3. QED
      BY <3>1, <3>2
  <2>3. QED
    BY <1>2, <2>1, <2>2 DEF ReasonInv
<1>11. EndInv'
  <2>1. ASSUME body' = "open"
        PROVE  stopped' = "" /\ ~done' /\ \A i \in 1..Len(lines') : lines'[i].kind # "last"
    <3>1. stopped = "" /\ \A i \in 1..Len(lines) : lines[i].kind # "last"
      BY <1>1, <1>2, <2>1 DEF EndInv
    <3>2. line.kind # "last"
      BY <1>5, <3>1 DEF line
    <3>3. QED
      BY <1>2, <1>4, <3>1, <3>2
  <2>2. ASSUME NEW i \in 1..Len(lines'), NEW j \in 1..Len(lines'),
               lines'[i].kind = "last", lines'[j].kind = "stop"
        PROVE  j < i
    <3>1. /\ i + 1 \in 1..Len(lines) /\ lines[i + 1].kind = "last"
          /\ j + 1 \in 1..Len(lines) /\ lines[j + 1].kind = "stop"
      BY <1>4, <2>2
    <3>2. j + 1 < i + 1
      BY <1>1, <3>1 DEF EndInv
    <3>3. QED
      BY <3>2
  <2>3. ASSUME body' \notin {"cut", "broken"}, stopped' # "", reason' = ""
        PROVE  ~done' /\ \E j \in 1..Len(lines') : lines'[j].kind = "stop"
    <3>1. line.kind # "stop" /\ reason = "" /\ stopped # ""
      BY <1>2, <2>3
    <3>2. PICK j \in 1..Len(lines) : lines[j].kind = "stop"
      BY <1>1, <1>2, <2>3, <3>1 DEF EndInv
    <3>3. j # 1
      BY <3>1, <3>2 DEF line
    <3>4. j - 1 \in 1..Len(lines') /\ lines'[j - 1] = lines[j]
      BY <1>4, <3>2, <3>3
    <3>5. line.kind # "last"
      <4>1. SUFFICES ASSUME lines[1].kind = "last"
                     PROVE  FALSE
        BY DEF line
      <4>2. j < 1
        BY <1>1, <1>5, <3>2, <4>1 DEF EndInv
      <4>3. QED
        BY <3>2, <4>2
    <3>6. QED
      BY <1>2, <3>2, <3>4, <3>5
  <2>4. QED
    BY <1>2, <2>1, <2>2, <2>3 DEF EndInv
<1>12. QED
  BY <1>7, <1>8, <1>9, <1>10, <1>11 DEF ReaderInv

LEMMA FakeStep ==
  ASSUME ReaderInv, FakeSay \/ FakeStop \/ FakeWord \/ FakeEnd
  PROVE  ReaderInv'
<1>1. ReaderTypes /\ TextInv /\ LineInv /\ ReasonInv /\ EndInv
  BY DEF ReaderInv
<1>2. /\ api = "fake" /\ api' = "fake" /\ lines = <<>> /\ lines' = <<>>
      /\ body = "open" /\ body' = "open" /\ ~done /\ done' = done
      /\ reason = stopped /\ stopped \in {"", "end", "max_tokens"} /\ Len(shown) <= said
  BY <1>1 DEF ReasonInv, FakeSay, FakeStop, FakeWord, FakeEnd, Reader
<1>3. /\ shown \in Seq(Nat) /\ Len(shown) \in Nat /\ said \in Nat /\ Len(shown) <= said
      /\ Append(shown, Len(shown) + 1) \in Seq(Nat)
      /\ Len(Append(shown, Len(shown) + 1)) = Len(shown) + 1
  <2>1. shown \in Seq(Nat) /\ Len(shown) + 1 \in Nat /\ said \in Nat
    BY <1>1, LenProperties DEF ReaderTypes
  <2>2. QED
    BY <1>2, <2>1, AppendProperties, LenProperties
<1>4. /\ said' \in Nat /\ shown' \in Seq(Nat) /\ Len(shown') <= said'
      /\ stopped' \in {"", "end", "max_tokens"} /\ reason' = stopped'
      /\ result' \in {"none", "error"} \cup Abstract!Stops
  <2>1. CASE FakeSay
    <3>1. said' = said + 1 /\ UNCHANGED <<stopped, reason, shown, result>>
      BY <2>1 DEF FakeSay
    <3>2. result \in {"none", "error"} \cup Abstract!Stops
      BY <1>1 DEF ReaderTypes
    <3>3. said' \in Nat /\ shown' \in Seq(Nat) /\ Len(shown') <= said'
      BY <1>3, <3>1
    <3>4. QED
      BY <1>2, <3>1, <3>2, <3>3
  <2>2. CASE FakeStop
    BY <1>1, <1>2, <1>3, <2>2 DEF FakeStop, ReaderTypes, Reasons
  <2>3. CASE FakeWord
    <3>1. /\ Len(shown) < said /\ UNCHANGED <<said, stopped, reason>>
          /\ TakeText(Len(shown) + 1) /\ result = "none"
      BY <2>3 DEF FakeWord, Reader
    <3>2. Len(shown) + 1 # 0
      BY <1>3
    <3>3. shown' = Append(shown, Len(shown) + 1) /\ result' \in {result, "error"}
      BY <3>1, <3>2 DEF TakeText, Return
    <3>4. said' \in Nat /\ shown' \in Seq(Nat) /\ Len(shown') <= said'
      BY <1>3, <3>1, <3>3
    <3>5. QED
      BY <1>2, <3>1, <3>3, <3>4
  <2>4. CASE FakeEnd
    <3>1. stopped # "" /\ result' = stopped /\ UNCHANGED <<said, stopped, shown, reason>>
      BY <1>2, <2>4 DEF FakeEnd, Return, Reader
    <3>2. result' \in Abstract!Stops
      BY <1>2, <3>1 DEF Abstract!Stops
    <3>3. QED
      BY <1>2, <1>3, <3>1, <3>2
  <2>5. QED
    BY <2>1, <2>2, <2>3, <2>4
<1>5. ReaderTypes' /\ TextInv' /\ ReasonInv'
  BY <1>1, <1>2, <1>4 DEF ReaderTypes, TextInv, ReasonInv, Reasons
<1>6. LineInv' /\ EndInv'
  <2>1. Len(lines') = 0
    BY <1>2
  <2>2. \A i \in 1..Len(lines') : FALSE
    BY <2>1
  <2>3. reason' = stopped' /\ api' = "fake"
    BY <1>2, <1>4
  <2>4. QED
    BY ONLY <2>2, <2>3 DEF LineInv, EndInv
<1>7. QED
  BY <1>5, <1>6 DEF ReaderInv

LEMMA RestStep ==
  ASSUME ReaderInv, ReadEnd \/ CallFails \/ UNCHANGED vars
  PROVE  ReaderInv'
<1>1. UNCHANGED <<api, said, stopped, lines, body, reason, done, shown>>
  BY DEF ReadEnd, CallFails, Reader, vars
<1>2. result' \in {"none", "error"} \cup Abstract!Stops
  BY DEF ReadEnd, CallFails, Return, stopReason, vars, ReaderInv, ReaderTypes
<1>3. ReaderTypes' /\ LineInv' /\ ReasonInv' /\ EndInv'
  BY <1>1, <1>2 DEF ReaderInv, ReaderTypes, LineInv, ReasonInv, EndInv
<1>4. TextInv'
  BY <1>1 DEF ReaderInv, TextInv, Numbers
<1>5. QED
  BY <1>3, <1>4 DEF ReaderInv

LEMMA ReaderInit == Init => ReaderInv
<1> SUFFICES ASSUME Init
             PROVE  ReaderInv
  OBVIOUS
<1>0. done \in BOOLEAN /\ ~done
  BY DEF Init
<1>1. /\ said = 0 /\ stopped = "" /\ shown = <<>> /\ result = "none"
      /\ lines = <<>> /\ body = "open" /\ reason = ""
      /\ api \in {"anthropic", "chat", "fake"}
  BY DEF Init, Abstract!Init
<1>2. /\ <<>> \in Seq(Item) /\ <<>> \in Seq(Nat)
      /\ Len(lines) = 0 /\ Len(shown) = 0 /\ Len(shown) <= said
      /\ \A i \in 1..Len(lines) : FALSE
  <2>1. Len(<<>>) = 0 /\ <<>> \in Seq(Item) /\ <<>> \in Seq(Nat)
    OBVIOUS
  <2>2. Len(lines) = 0 /\ Len(shown) = 0
    BY ONLY <1>1, <2>1
  <2>3. said = 0
    BY <1>1
  <2>4. QED
    BY <2>1, <2>2, <2>3
<1>3. ReaderTypes
  BY <1>0, <1>1, <1>2 DEF ReaderTypes, Reasons
<1>4. TextInv
  <2>1. PICK f \in [1..1 -> Nat] : f[1] = 0
    <3>1. [i \in 1..1 |-> 0] \in [1..1 -> Nat] /\ [i \in 1..1 |-> 0][1] = 0
      OBVIOUS
    <3>2. QED
      BY <3>1
  <2>2. f \in [1..Len(lines) + 1 -> Nat]
    BY <1>2, <2>1
  <2>3. said = 0
    BY <1>1
  <2>4. f[1] = Len(shown) /\ (body = "open" => f[Len(lines) + 1] = said)
    BY <1>2, <2>1, <2>3
  <2>5. \A i \in 1..Len(lines) + 1 : f[i] <= said
    BY <1>2, <2>1, <2>3
  <2>6. Numbers(f)
    BY <1>2, <2>4, <2>5 DEF Numbers
  <2>7. QED
    BY <2>2, <2>6 DEF TextInv
<1>5. LineInv /\ ReasonInv /\ EndInv
  BY <1>0, <1>1, <1>2 DEF LineInv, ReasonInv, EndInv
<1>6. QED
  BY <1>3, <1>4, <1>5 DEF ReaderInv

LEMMA ReaderStep == ReaderInv /\ [Next]_vars => ReaderInv'
<1> SUFFICES ASSUME ReaderInv, [Next]_vars
             PROVE  ReaderInv'
  OBVIOUS
<1>1. CASE \/ SendPart \/ SendThought \/ SendLast \/ SendError
           \/ \E stop \in Abstract!Stops \cup {"tool"}, withPart \in BOOLEAN :
                SendStop(stop, withPart)
  BY <1>1, ServerSends, ServerStep
<1>2. CASE EndBody
  BY <1>2, EndBodyStep
<1>3. CASE ReadLine
  BY <1>3, ReadStep
<1>4. CASE ReadEnd \/ CallFails \/ UNCHANGED vars
  BY <1>4, RestStep
<1>5. CASE FakeSay \/ FakeStop \/ FakeWord \/ FakeEnd
  BY <1>5, FakeStep
<1>6. QED
  BY <1>1, <1>2, <1>3, <1>4, <1>5 DEF Next

THEOREM ReaderInvariant == Spec => []ReaderInv
BY ReaderInit, ReaderStep, PTL DEF Spec

-----------------------------------------------------------------------------
(* The adapters and the promise of the interface.                          *)

\* A line that the adapter reads is a part for the caller, or nothing, or an error.
LEMMA LineIsAPart ==
  ASSUME ReaderInv, ReadLine
  PROVE  Abstract!Next \/ UNCHANGED <<said, stopped, shown, result>>
<1> DEFINE line == lines[1]
<1>1. /\ api # "fake" /\ lines # <<>> /\ lines' = Tail(lines)
      /\ result = "none" /\ UNCHANGED <<api, said, stopped, body>>
      /\ result' \in {"none", "error"}
      /\ shown' = IF line.text = 0 THEN shown ELSE Append(shown, line.text)
  BY ReadEffect
<1>2. line.text # 0 => line.text = Len(shown) + 1 /\ Len(shown) < said
  BY <1>1, TextTail DEF ReaderInv
<1> HIDE DEF line
<1>3. CASE line.text = 0
  BY <1>1, <1>3 DEF Abstract!Next, Abstract!Fail
<1>4. CASE line.text # 0
  BY <1>1, <1>2, <1>4 DEF Abstract!Next, Abstract!Part, Abstract!PartFails
<1>5. QED
  BY <1>3, <1>4

\* The adapter ends a call without an error only with all of the answer.
LEMMA EndIsComplete ==
  ASSUME ReaderInv, ReadEnd
  PROVE  Abstract!Next
<1>1. ReasonInv /\ result = "none" /\ UNCHANGED <<said, stopped, shown>>
  BY DEF ReaderInv, ReadEnd, Reader
<1>2. CASE result' = "error"
  BY <1>1, <1>2 DEF Abstract!Next, Abstract!Fail
<1>3. CASE result' # "error"
  <2>1. reason \in Abstract!Stops /\ result' = reason
    BY <1>3 DEF ReadEnd, Return, stopReason
  <2>2. reason = stopped /\ reason # "" /\ api # "fake"
    BY <1>1, <1>3, <2>1 DEF ReasonInv, ReadEnd, Abstract!Stops
  <2>3. Len(shown) = said
    BY <1>1, <2>2 DEF ReasonInv
  <2>4. QED
    BY <1>1, <2>1, <2>2, <2>3 DEF Abstract!Next, Abstract!Complete
<1>4. QED
  BY <1>2, <1>3

LEMMA StepKeepsPromise ==
  ReaderInv /\ [Next]_vars => [Abstract!Next]_<<said, stopped, shown, result>>
<1> SUFFICES ASSUME ReaderInv, [Next]_vars
             PROVE  Abstract!Next \/ UNCHANGED <<said, stopped, shown, result>>
  OBVIOUS
<1>1. CASE SendPart
  BY <1>1 DEF SendPart, Server, Abstract!Next, Abstract!Say
<1>2. CASE SendThought \/ SendLast \/ SendError \/ EndBody
  BY <1>2 DEF SendThought, SendLast, SendError, EndBody, Server
<1>3. ASSUME NEW stop \in Abstract!Stops \cup {"tool"}, NEW withPart \in BOOLEAN,
             SendStop(stop, withPart)
      PROVE  Abstract!Next
  <2>1. Abstract!Stop(stop)
    BY <1>3 DEF SendStop, Server, Abstract!Stop
  <2>2. QED
    BY <2>1 DEF Abstract!Next
<1>4. CASE ReadLine
  BY <1>4, LineIsAPart
<1>5. CASE ReadEnd
  BY <1>5, EndIsComplete
<1>6. CASE CallFails
  BY <1>6 DEF CallFails, Reader, Return, Abstract!Next, Abstract!Fail
<1>7. CASE FakeSay
  BY <1>7 DEF FakeSay, Abstract!Next, Abstract!Say
<1>8. CASE FakeStop
  <2>1. stopped = "" /\ stopped' \in {"max_tokens", "end"} /\ UNCHANGED <<said, shown, result>>
    BY <1>8 DEF FakeStop
  <2>2. Abstract!Stop(stopped')
    BY <2>1 DEF Abstract!Stop
  <2>3. QED
    BY <2>1, <2>2 DEF Abstract!Next, Abstract!Stops
<1>9. CASE FakeWord
  <2>1. Len(shown) \in Nat
    BY LenProperties DEF ReaderInv, ReaderTypes
  <2>2. /\ result = "none" /\ Len(shown) < said /\ UNCHANGED <<said, stopped>>
        /\ TakeText(Len(shown) + 1)
    BY <1>9 DEF FakeWord, Reader
  <2>3. Len(shown) + 1 # 0
    BY <2>1
  <2>4. QED
    BY <2>2, <2>3 DEF TakeText, Return, Abstract!Next, Abstract!Part, Abstract!PartFails
<1>10. CASE FakeEnd
  <2>1. reason = stopped /\ stopped \in {"end", "max_tokens"}
    BY <1>10 DEF FakeEnd, ReaderInv, ReasonInv
  <2>2. QED
    BY <1>10, <2>1 DEF FakeEnd, Reader, Return, Abstract!Next, Abstract!Complete, Abstract!Stops
<1>11. CASE UNCHANGED vars
  BY <1>11 DEF vars
<1>12. QED
  BY <1>1, <1>2, <1>3, <1>4, <1>5, <1>6, <1>7, <1>8, <1>9, <1>10, <1>11 DEF Next

\* The adapters of llm/anthropic and llm/chatcompletions and the fake keep what
\* llm.Provider says of Stream: each text part of the model reaches onText once
\* and in order, and a response is returned only after the stop reason of the
\* model and all of the text. Every loss, cut or error on the way ends in an error.
THEOREM PromiseKept == Spec => KeepsPromise
<1>1. Init => Abstract!Init
  BY DEF Init
<1>2. QED
  BY <1>1, ReaderInvariant, StepKeepsPromise, PTL DEF Spec, KeepsPromise, Abstract!Spec

\* A stream that came whole, with a reason to stop that the interface knows, is
\* returned with this reason: readStream does not turn it into an error.
THEOREM WholeAccepted == Spec => WholeIsAccepted
<1>1. ASSUME ReaderInv, ReadEnd, body = "eof", stopped \in Abstract!Stops
      PROVE  result' = stopped
  <2>1. stopped # "" /\ result' = stopReason(reason) /\ (done \/ lines = <<>>)
    BY <1>1 DEF ReadEnd, Return, Abstract!Stops
  <2>2. reason # ""
    <3>1. SUFFICES ASSUME reason = ""
                   PROVE  FALSE
      OBVIOUS
    <3>2. ~done /\ \E j \in 1..Len(lines) : lines[j].kind = "stop"
      BY <1>1, <2>1, <3>1 DEF ReaderInv, EndInv
    <3>3. lines = <<>>
      BY <2>1, <3>2
    <3>4. \A j \in 1..Len(lines) : FALSE
      BY <3>3
    <3>5. QED
      BY <3>2, <3>4
  <2>3. reason = stopped
    BY <1>1, <2>2 DEF ReaderInv, ReasonInv
  <2>4. QED
    BY <1>1, <2>1, <2>3 DEF stopReason
<1>2. ReaderInv /\ [Next]_vars =>
        [ReadEnd /\ body = "eof" /\ stopped \in Abstract!Stops => result' = stopped]_result
  BY <1>1 DEF vars
<1>3. QED
  BY <1>2, ReaderInvariant, PTL DEF Spec, WholeIsAccepted
=============================================================================
