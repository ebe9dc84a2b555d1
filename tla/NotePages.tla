----------------------------- MODULE NotePages -----------------------------
(***************************************************************************)
(* The notes of the users and one browser tab that walks through the pages *)
(* of its owner's notes by keyset, while the same user elsewhere and other *)
(* users add and remove notes.  A note gets its time when its insert       *)
(* starts and is visible when it commits, so the newest note to appear is  *)
(* not always the newest by time, and two notes can have one time.         *)
(***************************************************************************)
EXTENDS NoteWalk, FiniteSets, Functions

CONSTANTS
  User,      \* the users
  MaxTime    \* bound: the clock of the database, in its smallest unit

VARIABLES
  clock,    \* the clock of the database
  started,  \* the inserts that run: notes that nobody sees yet
  notes,    \* the table
  after     \* the cursor of the page of the tab, as text

table == <<clock, started, notes>>
tab == <<before, after, listed, older, stable, loading>>
vars == <<table, tab>>

Note == [id : NoteId, user : User, created : 0..MaxTime]

IsZero(c) == c.id = 0
CursorOf(n) == [created |-> n.created, id |-> n.id]

Text == [sec : 0..MaxTime, frac : 0..1, id : NoteId \cup {0}]

\* Mutant of formatCursor: the time loses the digits after the second.
formatSeconds(c) ==
  IF IsZero(c) THEN NoText ELSE [sec |-> c.created \div 2, frac |-> 0, id |-> c.id]

formatCursor(c) ==
  IF IsZero(c) THEN NoText
  ELSE [sec |-> c.created \div 2, frac |-> c.created % 2, id |-> c.id]

TypeOK ==
  /\ clock \in 0..MaxTime
  /\ started \subseteq Note /\ notes \subseteq Note
  /\ after \in Text /\ older \in Text
  /\ before \in Seq(Note)
  /\ listed \in Seq(Note) /\ Len(listed) <= PageSize
  /\ stable \subseteq Note
  /\ loading \in BOOLEAN

-----------------------------------------------------------------------------
(* The list.                                                               *)

\* The notes of set, newest first.
Sorted(set) ==
  CHOOSE s \in [1..Cardinality(set) -> set] :
    \A i, j \in 1..Cardinality(set) : i < j => Less(s[j], s[i])

Limit(seq, n) == SubSeq(seq, 1, IF Len(seq) < n THEN Len(seq) ELSE n)

OlderThan(set, c) == IF IsZero(c) THEN set ELSE {n \in set : Less(n, c)}

ListByUser(user, c, limit) ==
  Limit(Sorted(OlderThan({n \in notes : n.user = user}, c)), limit)

\* The cursor of the next page, when there is an extra row.
NextOf(found) ==
  IF Len(found) > PageSize THEN CursorOf(found[PageSize]) ELSE Zero

\* Service.List and loadNotes: the page after the cursor that the text names.
Page(text) ==
  LET found == ListByUser(Owner, parseCursor(text), PageSize + 1)
  IN /\ after' = formatCursor(parseCursor(text))
     /\ listed' = Limit(found, PageSize)
     /\ older' = formatCursor(NextOf(found))

-----------------------------------------------------------------------------
Init ==
  /\ clock = 0 /\ started = {} /\ notes = {}
  /\ before = <<>> /\ after = NoText /\ listed = <<>> /\ older = NoText
  /\ stable = {} /\ loading = FALSE

Tick ==
  /\ clock < MaxTime
  /\ clock' = clock + 1
  /\ UNCHANGED <<started, notes, tab>>

\* Service.Add accepts the text, and the insert starts: now() and uuidv7().
InsertNote(user, id) ==
  /\ \A n \in started \cup notes \cup stable \cup Range(before) \cup Range(listed) : n.id # id
  /\ started' = started \cup {[id |-> id, user |-> user, created |-> clock]}
  /\ UNCHANGED <<clock, notes, tab>>

Commit(n) ==
  /\ started' = started \ {n}
  /\ notes' = notes \cup {n}
  /\ UNCHANGED <<clock, tab>>

Scope(user, id) == {n \in notes : n.id = id /\ n.user = user}

\* Repo.Delete. An unknown id, a foreign id and a repeated delete are the same.
Delete(user, id) ==
  /\ notes' = notes \ Scope(user, id)
  /\ stable' = stable \ Scope(user, id)
  /\ UNCHANGED <<clock, started>>

DeleteElsewhere(user, id) ==
  /\ Delete(user, id)
  /\ UNCHANGED <<before, after, listed, older, loading>>

-----------------------------------------------------------------------------
(* The tab.                                                                *)

\* handleNotes for a URL with any cursor, the first page included: a walk
\* begins here. handleNoteAdd shows the first page in the same way.
Open(text) ==
  /\ ~loading
  /\ Page(text)
  /\ before' = <<>>
  /\ stable' = OlderThan({n \in notes : n.user = Owner}, parseCursor(text))
  /\ UNCHANGED <<table, loading>>

\* The "Older notes" link.
Follow ==
  /\ ~loading /\ older # NoText
  /\ Page(older)
  /\ before' = before \o listed
  /\ UNCHANGED <<table, stable, loading>>

\* handleNoteDelete of a note of this page, with the cursor of its form.
RemoveNote(i) ==
  /\ ~loading
  /\ Delete(Owner, listed[i].id)
  /\ loading' = TRUE
  /\ UNCHANGED <<before, after, listed, older>>

\* notesChanged: the same page again, in the fragment or after the redirect.
Refresh ==
  /\ loading
  /\ Page(after)
  /\ loading' = FALSE
  /\ UNCHANGED <<table, before, stable>>

Next ==
  \/ Tick
  \/ \E user \in User, id \in NoteId : InsertNote(user, id) \/ DeleteElsewhere(user, id)
  \/ \E n \in started : Commit(n)
  \/ \E n \in notes \cup stable : Open(formatCursor(CursorOf(n)))
  \/ Open(NoText) \/ Follow \/ Refresh
  \/ \E i \in 1..Len(listed) : RemoveNote(i)

Spec == Init /\ [][Next]_vars
=============================================================================
