----------------------------- MODULE Migrations -----------------------------
(***************************************************************************)
(* database.Migrate: several starts of the program, each with the files of *)
(* its own version, bring one database up to date under an advisory lock   *)
(* of their session.  A start can fail, be cancelled or die anywhere.  A   *)
(* session whose client is gone stays on the server for a while, with its  *)
(* lock, and a COMMIT that was on its way can still take effect.           *)
(***************************************************************************)
EXTENDS Integers

CONSTANTS
  Proc,   \* the starts of the program, each with a session of its own
  Files   \* Files[p]: the migration files of the version of p, in order 1, 2, ..

None == 0

ASSUME MigrationsAssumption ==
  /\ Files \in [Proc -> SUBSET (Nat \ {None})]
  /\ None \notin Proc

VARIABLES
  applied,  \* the rows of schema_migrations
  holder,   \* the start whose session holds the advisory lock, or None
  pc,       \* where start p is
  seen,     \* the applied files that p knows of
  cur,      \* the file that the open transaction of p applies, or None
  session   \* the session of p: "none", "open", or "broken" without a client

vars == <<applied, holder, pc, seen, cur, session>>

TypeOK ==
  /\ applied \subseteq Nat \ {None}
  /\ holder \in Proc \cup {None}
  /\ pc \in [Proc -> {"start", "lock", "list", "apply", "tx", "ok", "error",
                      "migrated", "failed", "dead"}]
  /\ seen \in [Proc -> SUBSET (Nat \ {None})]
  /\ cur \in [Proc -> Nat]
  /\ session \in [Proc -> {"none", "open", "broken"}]

Init ==
  /\ applied = {}
  /\ holder = None
  /\ pc = [p \in Proc |-> "start"]
  /\ seen = [p \in Proc |-> {}]
  /\ cur = [p \in Proc |-> None]
  /\ session = [p \in Proc |-> "none"]

Goto(p, label) == pc' = [pc EXCEPT ![p] = label]

-----------------------------------------------------------------------------
Acquire(p) ==
  /\ pc[p] = "start"
  /\ Goto(p, "lock")
  /\ session' = [session EXCEPT ![p] = "open"]
  /\ UNCHANGED <<applied, holder, seen, cur>>

\* pg_advisory_lock returns; the call can still fail after the grant.
Lock(p) ==
  /\ pc[p] = "lock"
  /\ session[p] = "open"
  /\ holder = None
  /\ holder' = p
  /\ Goto(p, "list") \/ Goto(p, "error")
  /\ UNCHANGED <<applied, seen, cur, session>>

\* Mutant of List: the list was read before the wait for the lock.
ListEarly(p) ==
  /\ pc[p] = "list"
  /\ seen' = [seen EXCEPT ![p] = {}]
  /\ Goto(p, "apply")
  /\ UNCHANGED <<applied, holder, cur, session>>

\* appliedMigrations creates the table and reads it.
List(p) ==
  /\ pc[p] = "list"
  /\ seen' = [seen EXCEPT ![p] = applied]
  /\ Goto(p, "apply")
  /\ UNCHANGED <<applied, holder, cur, session>>

Missing(p) == Files[p] \ seen[p]

\* Mutant of IsNext: the files are taken in any order.
IsAny(p, f) == f \in Missing(p)

\* The first file in lexical order that was not applied.
IsNext(p, f) == f \in Missing(p) /\ \A g \in Missing(p) : f <= g

\* applyMigration opens the transaction of the next file.
Begin(p) ==
  /\ pc[p] = "apply"
  /\ \E f \in Missing(p) :
       /\ IsNext(p, f)
       /\ cur' = [cur EXCEPT ![p] = f]
  /\ Goto(p, "tx")
  /\ UNCHANGED <<applied, holder, seen, session>>

\* Mutant of Commit: the file is forgotten before its row is written.
CommitForgotten(p) ==
  /\ pc[p] = "tx"
  /\ cur' = [cur EXCEPT ![p] = None]
  /\ applied' = applied \cup {cur'[p]}
  /\ Goto(p, "apply") \/ Goto(p, "error")
  /\ UNCHANGED <<holder, session, seen>>

\* The file and its row commit together. The answer may be lost: then
\* Migrate returns an error for a file that is applied.
Commit(p) ==
  /\ pc[p] = "tx"
  /\ applied' = applied \cup {cur[p]}
  /\ seen' = [seen EXCEPT ![p] = @ \cup {cur[p]}]
  /\ cur' = [cur EXCEPT ![p] = None]
  /\ Goto(p, "apply") \/ Goto(p, "error")
  /\ UNCHANGED <<holder, session>>

\* Mutant of AllApplied: the loop stops at the first known file.
SomeApplied(p) == seen[p] # {}

AllApplied(p) == Missing(p) = {}

Finish(p) ==
  /\ pc[p] = "apply"
  /\ AllApplied(p)
  /\ Goto(p, "ok")
  /\ UNCHANGED <<applied, holder, seen, cur, session>>

\* A statement fails or the context ends: the transaction, if any, rolls
\* back. A cancelled statement breaks the session, and what it was doing is
\* up to the server then.
Fail(p) ==
  /\ pc[p] \in {"lock", "list", "tx"}
  /\ Goto(p, "error")
  /\ \/ cur' = [cur EXCEPT ![p] = None] /\ UNCHANGED session
     \/ session' = [session EXCEPT ![p] = "broken"] /\ UNCHANGED cur
  /\ UNCHANGED <<applied, holder, seen>>

\* Mutant of Release: a failed unlock leaves the connection in the pool.
ReleaseAnyway(p) ==
  /\ pc[p] \in {"ok", "error"}
  /\ Goto(p, IF pc[p] = "ok" THEN "migrated" ELSE "failed")
  /\ \/ holder = p /\ session[p] = "open" /\ holder' = None
     \/ UNCHANGED holder
  /\ UNCHANGED <<applied, seen, cur, session>>

\* releaseMigrationLock: the unlock works, or the connection is closed.
Release(p) ==
  /\ pc[p] \in {"ok", "error"}
  /\ Goto(p, IF pc[p] = "ok" THEN "migrated" ELSE "failed")
  /\ \/ /\ holder = p /\ session[p] = "open"
        /\ holder' = None
        /\ UNCHANGED session
     \/ /\ session' = [session EXCEPT ![p] = "broken"]
        /\ UNCHANGED holder
  /\ UNCHANGED <<applied, seen, cur>>

\* The process dies.
Crash(p) ==
  /\ pc[p] \notin {"start", "migrated", "failed", "dead"}
  /\ Goto(p, "dead")
  /\ session' = [session EXCEPT ![p] = "broken"]
  /\ UNCHANGED <<applied, holder, seen, cur>>

\* The server ends a session without a client: an open transaction commits
\* if the COMMIT had arrived, or rolls back, and the lock is free after that.
Drop(p) ==
  /\ session[p] = "broken"
  /\ session' = [session EXCEPT ![p] = "none"]
  /\ \/ cur[p] # None /\ applied' = applied \cup {cur[p]}
     \/ UNCHANGED applied
  /\ cur' = [cur EXCEPT ![p] = None]
  /\ holder' = IF holder = p THEN None ELSE holder
  /\ UNCHANGED <<pc, seen>>

Migrate(p) ==
  Acquire(p) \/ Lock(p) \/ List(p) \/ Begin(p) \/ Commit(p) \/ Finish(p) \/ Release(p)

Next == \E p \in Proc : Migrate(p) \/ Fail(p) \/ Crash(p) \/ Drop(p)

Spec == Init /\ [][Next]_vars

\* A start goes on, and the server notices a session without a client. No
\* failure has to happen.
FairSpec ==
  Spec /\ \A p \in Proc : WF_vars(Migrate(p)) /\ WF_vars(Drop(p))

-----------------------------------------------------------------------------
(* Properties.                                                             *)

\* A transaction runs no file that is applied, whoever applied it, and two
\* transactions never run at the same time, a broken session included.
RunsOnce ==
  \A p \in Proc : cur[p] # None =>
    /\ cur[p] \notin applied
    /\ \A q \in Proc \ {p} : cur[q] = None

\* A file runs after all earlier files of its version.
InOrder ==
  \A p \in Proc : cur[p] # None =>
    \A f \in Files[p] : f < cur[p] => f \in applied

\* Migrate returns nil only when every file of the version is applied.
MigratedIsComplete ==
  \A p \in Proc : pc[p] \in {"ok", "migrated"} => Files[p] \subseteq applied

\* The pool never gets back a connection that holds the lock.
PoolHasNoLock ==
  \A p \in Proc : holder = p /\ pc[p] \in {"migrated", "failed"} => session[p] = "broken"

\* No start waits for ever, however the others fail.
EveryStartEnds ==
  \A p \in Proc : (pc[p] # "start") ~> (pc[p] \in {"migrated", "failed", "dead"})
=============================================================================
