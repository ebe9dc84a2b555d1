---------------------------- MODULE SessionTable ----------------------------
(***************************************************************************)
(* The rows of the session table of one user, the logins that write them,  *)
(* and what the cap of a login promises.  Sessions has the steps.          *)
(***************************************************************************)
EXTENDS Integers, FiniteSets

CONSTANTS
  Token,   \* the logins of the user, one token each, numbered as they begin
  Keep,    \* maxSessionsPerUser, the cap that Start passes to Insert
  TTL,     \* the lifetime of a session
  Logins   \* bound: the logins that run at the same time (the pool has a limit)

ASSUME SessionAssumption ==
  /\ Keep \in Nat \ {0}
  /\ TTL \in Nat
  /\ Logins \in Nat

VARIABLES
  dbTime,   \* the database clock
  pc,       \* pc[t]: where login t is
  at,       \* at[t]: created_at of login t
  alone,    \* alone[t]: no other login ran since login t began
  rows,     \* the committed sessions
  ended     \* the sessions whose logout returned

\* The session is past its expires_at.
Expired(t) == at[t] + TTL <= dbTime

\* The logins that committed; the caller of a lost one got an error.
Committed == {t \in Token : pc[t] \in {"done", "lost"}}

-----------------------------------------------------------------------------
(* Properties.                                                             *)

\* What the two statements do guarantee: overlapping logins leave at most
\* one session each above the cap but one (postgres.go:46).
SessionBound == Cardinality(rows) <= Keep - 1 + Logins

\* The excess does not last: a login that no other login overlaps leaves at
\* most Keep sessions.
LoneLoginRestoresCap ==
  [][\A t \in Token : pc[t] = "deleted" /\ pc'[t] \in {"done", "lost"} /\ alone[t]
       => Cardinality(rows') <= Keep]_pc

\* A session that is gone was ended, is expired, or at least Keep other
\* logins of the user committed, all but one of them not older than it.
GoneForAReason ==
  \A t \in Token : pc[t] = "done" /\ t \notin rows /\ t \notin ended /\ ~Expired(t) =>
    LET others == Committed \ {t}
    IN /\ Cardinality(others) >= Keep
       /\ Cardinality({u \in others : at[u] >= at[t]}) >= Keep - 1

\* Overlapping logins exceed the cap by less than one session each, a login
\* that overlaps no other restores it, and a session is gone only when it was
\* ended, expired or pushed out.
CapKept == []SessionBound /\ LoneLoginRestoresCap /\ []GoneForAReason
=============================================================================
