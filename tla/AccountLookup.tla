--------------------------- MODULE AccountLookup ----------------------------
(***************************************************************************)
(* The rows of the users table, how a login finds one, and whose account   *)
(* it opens.  Accounts has the steps.                                      *)
(***************************************************************************)
EXTENDS Integers

CONSTANT Id \* the account ids, numbered as the database generates them

VARIABLES
  account,  \* account[id]: the row, or None
  typed,    \* typed[id]: the email and password as the user last typed them
  logins    \* what the started sessions logged in: ids with their password

None == [email |-> "none"]

\* normalizeEmail trims and lowers a bare address.
ValidEmail(e) == e.form # "bad"

\* lower(email) of PostgreSQL, which has no trim.
Lower(e) == IF e.form = "upper" THEN [e EXCEPT !.form = "plain"] ELSE e

NormalizeEmail(e) == [e EXCEPT !.form = "plain"]

VerifyPassword(hash, p) ==
  /\ 1 <= hash.iterations /\ hash.iterations <= 1200000
  /\ hash.password = p

Users == {id \in Id : account[id] # None}

\* The accounts that the index on lower(email) has for e.
Holders(e) == {id \in Users : Lower(account[id].email) = Lower(e)}

\* The credentials pass the checks that need no password hash: the id that
\* the row of the email gives, or none.
Found(e, p) == IF p = "huge" \/ ~ValidEmail(e) THEN {} ELSE Holders(NormalizeEmail(e))

-----------------------------------------------------------------------------
(* Properties.                                                             *)

\* No two accounts have the same address in any spelling, and a login finds
\* at most one: GetByEmail fails with an internal error on two rows.
OneAccountPerAddress ==
  \A a, b \in Users : account[a].email.addr = account[b].email.addr => a = b

\* What the user typed at Register or in the profile form opens the account:
\* the checks of Register and those of Authenticate agree.
TypedOpensAccount ==
  \A id \in Users :
    /\ Found(typed[id].email, typed[id].password) = {id}
    /\ VerifyPassword(account[id].hash, typed[id].password)

\* Only the password of an account logs it in, also when emails moved between
\* accounts while the password was checked.
LoginsHavePassword ==
  \A l \in logins : typed[l[1]].password = l[2]

\* One account per address in any spelling, what its user typed opens it, and
\* nothing else does.
OneOwner == OneAccountPerAddress /\ TypedOpensAccount /\ LoginsHavePassword
=============================================================================
