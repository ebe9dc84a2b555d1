------------------------------ MODULE NoteWalk ------------------------------
(***************************************************************************)
(* A walk of one browser tab through the pages of its user's notes, and    *)
(* what it promises.  NotePages has the steps.                             *)
(***************************************************************************)
EXTENDS Integers, Sequences

CONSTANTS
  Owner,    \* the user of the tab
  PageSize, \* the notes of one page
  NoteId    \* bound: the ids of the notes, comparable numbers above zero

ASSUME NoteAssumption == PageSize \in Nat \ {0} /\ NoteId \subseteq Nat \ {0}

VARIABLES
  before,   \* the notes that the earlier pages of the walk showed
  listed,   \* the notes of this page
  older,    \* its "Older notes" link
  stable,   \* the owner's notes that were there since the walk began
  loading   \* the tab waits for its page

\* The zero Cursor is the start of the list, and its text is empty.
Zero == [created |-> 0, id |-> 0]
NoText == [sec |-> 0, frac |-> 0, id |-> 0]

\* A cursor in a URL: the seconds, the digits after them, and the id.
parseCursor(s) ==
  IF s = NoText THEN Zero ELSE [created |-> 2 * s.sec + s.frac, id |-> s.id]

\* (created_at, id) < (created_at, id) of PostgreSQL.
Less(m, n) == m.created < n.created \/ (m.created = n.created /\ m.id < n.id)

Walked == before \o listed

-----------------------------------------------------------------------------
(* Properties.                                                             *)

\* A walk shows the owner's notes only, in one order, and no note twice,
\* whatever is added or removed meanwhile.
WalkDescends ==
  /\ \A i \in 1..Len(Walked) : Walked[i].user = Owner
  /\ \A i, j \in 1..Len(Walked) : i < j => Less(Walked[j], Walked[i])

\* A walk misses no note that was there all the time: on the last page all
\* were shown, on an earlier page all that are newer than its end.
WalkMissesNothing ==
  ~loading =>
    \A n \in stable :
      \/ \E i \in 1..Len(Walked) : Walked[i] = n
      \/ older # NoText /\ Less(n, parseCursor(older))

\* A walk through the pages shows every note that was there all the time, in
\* order and once.
FaithfulWalk == WalkDescends /\ WalkMissesNothing
=============================================================================
