------------------------------ MODULE Sessions ------------------------------
(***************************************************************************)
(* The session table of internal/auth for one user: concurrent logins      *)
(* (Service.Start and Repo.Insert), logout (Service.End), the lookup of    *)
(* each request (Repo.Get) and the hourly cleanup (Service.DeleteExpired). *)
(*                                                                         *)
(* A login is a READ COMMITTED transaction of two statements: each         *)
(* statement sees what committed before it started, now() is the start of  *)
(* the transaction, and a DELETE waits for a transaction that deleted one  *)
(* of its rows.  So Insert, the snapshot of the DELETE, the end of the     *)
(* DELETE and the COMMIT are four steps.  A token is random and belongs to *)
(* one login; the other users' rows are out of every statement's reach.    *)
(***************************************************************************)
EXTENDS SessionTable

CONSTANTS
  Batch,   \* expiredBatch: the rows of one cleanup statement
  MaxNow   \* bound: the last time of the database clock

VARIABLES
  victims,  \* victims[t]: the rows that the DELETE of login t found
  cleanup,  \* the cleanup: "idle", "delete" or "again"
  picked    \* the rows that the cleanup statement found

vars == <<dbTime, pc, at, victims, alone, rows, ended, cleanup, picked>>

Running == {"inserted", "deleting", "deleted"}

TypeOK ==
  /\ dbTime \in 0..MaxNow
  /\ pc \in [Token -> {"new", "done", "lost", "failed"} \cup Running]
  /\ at \in [Token -> 0..MaxNow]
  /\ victims \in [Token -> SUBSET Token]
  /\ alone \in [Token -> BOOLEAN]
  /\ rows \subseteq Token
  /\ ended \subseteq Token
  /\ cleanup \in {"idle", "delete", "again"}
  /\ picked \subseteq Token

Init ==
  /\ dbTime = 0
  /\ pc = [t \in Token |-> "new"]
  /\ at = [t \in Token |-> 0]
  /\ victims = [t \in Token |-> {}]
  /\ alone = [t \in Token |-> TRUE]
  /\ rows = {}
  /\ ended = {}
  /\ cleanup = "idle"
  /\ picked = {}

-----------------------------------------------------------------------------
InFlight == {t \in Token : pc[t] \in Running}

\* The rows that an uncommitted DELETE of a login holds locked.
Locked == UNION {victims[t] : t \in {u \in Token : pc[u] = "deleted"}}

\* The n elements of S with the highest rank come first: D is what is left
\* after them (ORDER BY rank DESC OFFSET n), ties in any order.
LeftAfter(D, S, n, rank) ==
  /\ D \subseteq S
  /\ Cardinality(S \ D) = IF Cardinality(S) < n THEN Cardinality(S) ELSE n
  /\ \A d \in D, k \in S \ D : rank[d] <= rank[k]

\* Mutant of Evicted: older_to_keep is keep and not keep - 1.
EvictedOneLess(D, t) == LeftAfter(D, rows \ {t}, Keep, at)

\* D is what the DELETE of login t finds: the others but the Keep - 1 newest.
Evicted(D, t) == LeftAfter(D, rows \ {t}, Keep - 1, at)

\* BEGIN and the INSERT. The row stays invisible until the commit.
Insert(t) ==
  /\ pc[t] = "new" /\ \A u \in Token : u < t => pc[u] # "new"
  /\ Cardinality(InFlight) < Logins
  /\ pc' = [pc EXCEPT ![t] = "inserted"]
  /\ at' = [at EXCEPT ![t] = dbTime]
  /\ alone' = [u \in Token |-> IF u = t THEN InFlight = {}
                               ELSE alone[u] /\ u \notin InFlight]
  /\ UNCHANGED <<dbTime, victims, rows, ended, cleanup, picked>>

\* The DELETE starts: its snapshot does not have the rows of other logins
\* that did not commit.
FindVictims(t) ==
  /\ pc[t] = "inserted"
  /\ \E D \in SUBSET rows :
       /\ Evicted(D, t)
       /\ victims' = [victims EXCEPT ![t] = D]
  /\ pc' = [pc EXCEPT ![t] = "deleting"]
  /\ UNCHANGED <<dbTime, at, alone, rows, ended, cleanup, picked>>

\* The DELETE ends, after the transactions that hold its rows: a row that
\* is gone by then is skipped.
DeleteVictims(t) ==
  /\ pc[t] = "deleting"
  /\ victims[t] \cap Locked = {}
  /\ victims' = [victims EXCEPT ![t] = @ \cap rows]
  /\ pc' = [pc EXCEPT ![t] = "deleted"]
  /\ UNCHANGED <<dbTime, at, alone, rows, ended, cleanup, picked>>

\* The COMMIT. The caller sets the cookie, or the connection broke before
\* the answer: then Start returns an error for a session that exists.
Commit(t) ==
  /\ pc[t] = "deleted"
  /\ rows' = (rows \ victims[t]) \cup {t}
  /\ victims' = [victims EXCEPT ![t] = {}]
  /\ \E result \in {"done", "lost"} : pc' = [pc EXCEPT ![t] = result]
  /\ UNCHANGED <<dbTime, at, alone, ended, cleanup, picked>>

\* The transaction rolls back: an error, a lock cycle, a cancelled request.
Abort(t) ==
  /\ pc[t] \in Running
  /\ pc' = [pc EXCEPT ![t] = "failed"]
  /\ victims' = [victims EXCEPT ![t] = {}]
  /\ UNCHANGED <<dbTime, at, alone, rows, ended, cleanup, picked>>

\* Logout: the DELETE of one row. It finds no row when the session is gone,
\* and that is no error.
End(t) ==
  /\ pc[t] = "done"
  /\ t \notin Locked \cup ended
  /\ rows' = rows \ {t}
  /\ ended' = ended \cup {t}
  /\ UNCHANGED <<dbTime, pc, at, victims, alone, cleanup, picked>>

\* Mutant of FindExpired: the LIMIT applies before the filter on expires_at.
FindLimited ==
  /\ cleanup \in {"idle", "again"}
  /\ \E D \in SUBSET rows :
       /\ LeftAfter(rows \ D, rows, Batch, at)
       /\ picked' = {t \in D : Expired(t)}
  /\ cleanup' = "delete"
  /\ UNCHANGED <<dbTime, pc, at, victims, alone, rows, ended>>

\* One statement of the cleanup starts: the rows that expired first.
FindExpired ==
  /\ cleanup \in {"idle", "again"}
  /\ LET expired == {t \in rows : Expired(t)}
     IN \E D \in SUBSET expired :
          /\ LeftAfter(expired \ D, expired, Batch, [t \in Token |-> -at[t]])
          /\ picked' = D
  /\ cleanup' = "delete"
  /\ UNCHANGED <<dbTime, pc, at, victims, alone, rows, ended>>

\* It ends and returns the rows that it really deleted; a short batch ends
\* the cleanup, until the next hour.
DeleteExpired ==
  /\ cleanup = "delete"
  /\ picked \cap Locked = {}
  /\ rows' = rows \ picked
  /\ cleanup' = IF Cardinality(picked \cap rows) < Batch THEN "idle" ELSE "again"
  /\ picked' = {}
  /\ UNCHANGED <<dbTime, pc, at, victims, alone, ended>>

Tick ==
  /\ dbTime < MaxNow
  /\ dbTime' = dbTime + 1
  /\ UNCHANGED <<pc, at, victims, alone, rows, ended, cleanup, picked>>

Login(t) == Insert(t) \/ FindVictims(t) \/ DeleteVictims(t) \/ Commit(t) \/ Abort(t)

Next ==
  \/ \E t \in Token : Login(t) \/ End(t)
  \/ FindExpired \/ DeleteExpired
  \/ Tick

Spec == Init /\ [][Next]_vars

\* A transaction ends and the cleanup is scheduled.
FairSpec ==
  /\ Spec
  /\ \A t \in Token : WF_vars(Commit(t) \/ Abort(t))
  /\ WF_vars(FindExpired) /\ WF_vars(DeleteExpired)

-----------------------------------------------------------------------------
(* Properties.                                                             *)

\* The cap as the comment of maxSessionsPerUser states it (service.go:22):
\* no user has more than Keep sessions. Logins that overlap break it.
SessionCap == Cardinality(rows) <= Keep

\* Every expired session leaves the table in the end, also when a cleanup
\* stops early because its rows were deleted under it.
ExpiredRemoved ==
  \A t \in Token : (t \in rows /\ Expired(t)) ~> t \notin rows
=============================================================================
