------------------------------ MODULE Accounts ------------------------------
(***************************************************************************)
(* The accounts of internal/user: Register, Authenticate and UpdateProfile *)
(* with their normalisation, over the users table and its unique index on  *)
(* lower(email).  Inserting and updating are one statement each; a login   *)
(* reads the account, spends a password hash and then starts a session, so *)
(* the account can change in between; a failed update reads the account    *)
(* again to render the form.                                               *)
(*                                                                         *)
(* A text is a record of what the validation tells apart: which address or *)
(* word it is, and its form: plain, in upper case, with spaces around it,  *)
(* or with a fault that no trimming repairs (a NUL byte, a display name).  *)
(***************************************************************************)
EXTENDS Integers, FiniteSets, AccountLookup

CONSTANTS
  Address,  \* the email addresses, apart from case and spaces
  Request   \* the concurrent login and profile requests

VARIABLE req \* req[r]: the login or the profile update of request r

vars == <<account, typed, req, logins>>

\* "short" stands for what validatePassword refuses before the byte limit,
\* "huge" is above that.
Password == {"pw1", "pw2", "short", "huge"}
Email == [addr : Address, form : {"plain", "upper", "spaced", "bad"}]
Name == {"name", "bad"}

Hash == [iterations : {600000}, password : Password]
Row == [email : Email, name : Name, hash : Hash]

Idle == [at |-> "idle"]
Answer == {"started", "refused", "saved", "invalid", "taken"}

TypeOK ==
  /\ account \in [Id -> Row \cup {None}]
  /\ typed \in [Id -> [email : Email, password : Password] \cup {None}]
  /\ \A r \in Request :
       req[r].at \in {"idle", "checking", "rereading"} \cup Answer
  /\ logins \subseteq Id \X Password

Init ==
  /\ account = [id \in Id |-> None]
  /\ typed = [id \in Id |-> None]
  /\ req = [r \in Request |-> Idle]
  /\ logins = {}

-----------------------------------------------------------------------------
(* The pure parts.                                                         *)

ValidName(n) == n = "name"

\* Mutant of ValidPassword: the limit in bytes is forgotten.
MinPassword(p) == p # "short"

ValidPassword(p) == p \notin {"short", "huge"}

HashPassword(p) == [iterations |-> 600000, password |-> p]

-----------------------------------------------------------------------------
\* Register: the first fault of the input decides, then the INSERT, where
\* the unique index decides.
Register(id, e, n, p) ==
  /\ account[id] = None /\ \A i \in Id : i < id => i \in Users
  /\ ValidEmail(e) /\ ValidName(n) /\ ValidPassword(p)
  /\ Holders(NormalizeEmail(e)) = {}
  /\ account' = [account EXCEPT ![id] =
       [email |-> NormalizeEmail(e), name |-> n, hash |-> HashPassword(p)]]
  /\ typed' = [typed EXCEPT ![id] = [email |-> e, password |-> p]]
  /\ UNCHANGED <<req, logins>>

\* Authenticate reads the account by email. Without one it hashes anyway
\* and refuses.
ReadLogin(r) ==
  /\ req[r] = Idle
  /\ \E e \in Email, p \in Password :
       req' = [req EXCEPT ![r] =
         IF Found(e, p) = {} THEN [at |-> "refused"]
         ELSE LET id == CHOOSE id \in Found(e, p) : TRUE
              IN [at |-> "checking", id |-> id, hash |-> account[id].hash, password |-> p]]
  /\ UNCHANGED <<account, typed, logins>>

\* The password is checked against the row as it was read; a good one starts
\* a session for its id.
FinishLogin(r) ==
  /\ req[r].at = "checking"
  /\ IF VerifyPassword(req[r].hash, req[r].password)
     THEN /\ req' = [req EXCEPT ![r] = [at |-> "started"]]
          /\ logins' = logins \cup {<<req[r].id, req[r].password>>}
     ELSE /\ req' = [req EXCEPT ![r] = [at |-> "refused"]]
          /\ UNCHANGED logins
  /\ UNCHANGED <<account, typed>>

\* UpdateProfile succeeds: one UPDATE of email and name.
Update(r, id, e, n) ==
  /\ req[r] = Idle
  /\ account[id] # None
  /\ ValidEmail(e) /\ ValidName(n)
  /\ Holders(NormalizeEmail(e)) \subseteq {id}
  /\ account' = [account EXCEPT ![id].email = NormalizeEmail(e), ![id].name = n]
  /\ typed' = [typed EXCEPT ![id].email = e]
  /\ req' = [req EXCEPT ![r] = [at |-> "saved"]]
  /\ UNCHANGED logins

\* UpdateProfile fails with an error for the form; the row stays.
UpdateFails(r, id, e, n) ==
  /\ req[r] = Idle
  /\ account[id] # None
  /\ \/ /\ ~(ValidEmail(e) /\ ValidName(n))
        /\ req' = [req EXCEPT ![r] = [at |-> "rereading", id |-> id, error |-> "invalid"]]
     \/ /\ ValidEmail(e) /\ ValidName(n)
        /\ ~(Holders(NormalizeEmail(e)) \subseteq {id})
        /\ req' = [req EXCEPT ![r] = [at |-> "rereading", id |-> id, error |-> "taken"]]
  /\ UNCHANGED <<account, typed, logins>>

\* The handler reads the account again and answers 422 with the form as it
\* was submitted.
Reread(r) ==
  /\ req[r].at = "rereading"
  /\ req' = [req EXCEPT ![r] =
       [at |-> req[r].error, user |-> account[req[r].id]]]
  /\ UNCHANGED <<account, typed, logins>>

\* The request is over; its slot takes the next one.
Finish(r) ==
  /\ req[r].at \in Answer
  /\ req' = [req EXCEPT ![r] = Idle]
  /\ UNCHANGED <<account, typed, logins>>

Next ==
  \/ \E id \in Id, e \in Email, n \in Name, p \in Password : Register(id, e, n, p)
  \/ \E r \in Request : ReadLogin(r) \/ FinishLogin(r) \/ Reread(r) \/ Finish(r)
  \/ \E r \in Request, id \in Id, e \in Email, n \in Name :
       Update(r, id, e, n) \/ UpdateFails(r, id, e, n)

Spec == Init /\ [][Next]_vars
=============================================================================
