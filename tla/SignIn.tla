------------------------------- MODULE SignIn -------------------------------
(***************************************************************************)
(* One browser with several tabs against the session layer: the middleware *)
(* LoadIdentity and RequireIdentity of internal/auth, and the handlers     *)
(* around a session (handleHome, handleLoginPage, handleLogin, handleMe,   *)
(* handleLogout).  The tabs share one cookie jar.  A request carries the   *)
(* cookie of the moment it is sent, the server looks the session up and    *)
(* then runs the handler, and answers arrive in any order.                 *)
(*                                                                         *)
(* The session table is the set of the live tokens here; Sessions.tla      *)
(* models how a login writes it, and End here is its step of that name.    *)
(* LoseSession stands for everything that ends a session behind the        *)
(* browser's back: expiry, the cap, a logout elsewhere.                    *)
(***************************************************************************)
EXTENDS Integers, TabView

CONSTANT MaxToken \* bound: the number of logins

VARIABLES
  live,      \* the live sessions
  issued,    \* the number of tokens so far: token n is n
  loggedOut, \* the tokens that a logout of the browser deleted
  cookie     \* the session cookie in the jar, 0 without one

vars == <<live, issued, loggedOut, cookie, tab>>

Token == 1..MaxToken
Path == {"GET /", "GET /login", "GET /me", "POST /login", "POST /logout"}

\* The Set-Cookie header of an answer: a token, an empty one, or no header.
Clear == 0
KeepCookie == -1

\* A tab shows a page, has sent a request, has passed LoadIdentity on the
\* server, or has an answer on the way.
Shown == [at : {"shown"}, page : {"blank", "login", "me", "error"}]
Sent == [at : {"sent"}, path : Path, token : Token \cup {0}, afterEnd : BOOLEAN]
Loaded == [at : {"loaded"}, path : Path, token : Token \cup {0},
           afterEnd : BOOLEAN, user : BOOLEAN, clear : BOOLEAN]
Answered == [at : {"answered"}, set : Token \cup {Clear, KeepCookie},
             go : Path \cup {"stay"}, page : {"none", "login", "me", "error"}]

TypeOK ==
  /\ live \subseteq 1..issued
  /\ issued \in 0..MaxToken
  /\ loggedOut \subseteq 1..issued
  /\ cookie \in 0..issued
  /\ tab \in [Tab -> Shown \cup Sent \cup Loaded \cup Answered]

Init ==
  /\ live = {}
  /\ issued = 0
  /\ loggedOut = {}
  /\ cookie = 0
  /\ tab = [b \in Tab |-> [at |-> "shown", page |-> "blank"]]

-----------------------------------------------------------------------------
(* The browser and the environment.                                        *)

Request(path) ==
  [at |-> "sent", path |-> path, token |-> cookie, afterEnd |-> cookie \in loggedOut]

\* The user opens a page or submits a form.
Send(b) ==
  /\ tab[b].at = "shown"
  /\ \E path \in Path : tab' = [tab EXCEPT ![b] = Request(path)]
  /\ UNCHANGED <<live, issued, loggedOut, cookie>>

\* The session expires, or a login elsewhere or the cleanup deletes it.
LoseSession(t) ==
  /\ t \in live
  /\ live' = live \ {t}
  /\ UNCHANGED <<issued, loggedOut, cookie, tab>>

\* The answer arrives: the jar takes its cookie, the tab follows a redirect
\* (HX-Redirect is one too) or shows the page.
Deliver(b) ==
  /\ tab[b].at = "answered"
  /\ LET jar == IF tab[b].set = KeepCookie THEN cookie ELSE tab[b].set
     IN /\ cookie' = jar
        /\ tab' = [tab EXCEPT ![b] =
             IF tab[b].go = "stay" THEN [at |-> "shown", page |-> tab[b].page]
             ELSE [at |-> "sent", path |-> tab[b].go, token |-> jar,
                   afterEnd |-> jar \in loggedOut]]
  /\ UNCHANGED <<live, issued, loggedOut>>

-----------------------------------------------------------------------------
(* The server.                                                             *)

\* LoadIdentity resolves the cookie of the request. A cookie without a
\* session is cleared with the answer; a failed lookup ends the request.
LoadIdentity(b) ==
  /\ tab[b].at = "sent"
  /\ LET t == tab[b].token
     IN \/ tab' = [tab EXCEPT ![b] =
             [at |-> "loaded", path |-> tab[b].path, token |-> t,
              afterEnd |-> tab[b].afterEnd,
              user |-> t \in live, clear |-> t # 0 /\ t \notin live]]
        \/ /\ t # 0
           /\ tab' = [tab EXCEPT ![b] = [at |-> "answered", set |-> KeepCookie,
                                         go |-> "stay", page |-> "error"]]
  /\ UNCHANGED <<live, issued, loggedOut, cookie>>

\* An answer that leaves the session alone. The header that LoadIdentity
\* wrote goes out with it.
Page(b, page) ==
  tab' = [tab EXCEPT ![b] = [at |-> "answered", go |-> "stay", page |-> page,
                             set |-> IF tab[b].clear THEN Clear ELSE KeepCookie]]
Redirect(b, path) ==
  tab' = [tab EXCEPT ![b] = [at |-> "answered", go |-> path, page |-> "none",
                             set |-> IF tab[b].clear THEN Clear ELSE KeepCookie]]

Runs(b, path) == tab[b].at = "loaded" /\ tab[b].path = path

\* "/" leads to the page that fits.
Home(b) ==
  /\ Runs(b, "GET /")
  /\ Redirect(b, IF tab[b].user THEN "GET /me" ELSE "GET /login")
  /\ UNCHANGED <<live, issued, loggedOut, cookie>>

\* The login page sends a logged-in user away.
LoginPage(b) ==
  /\ Runs(b, "GET /login")
  /\ IF tab[b].user THEN Redirect(b, "GET /me") ELSE Page(b, "login")
  /\ UNCHANGED <<live, issued, loggedOut, cookie>>

\* POST /login with good credentials: Start stores a session, also when the
\* request had one, and its cookie replaces the one in the jar.
Login(b) ==
  /\ Runs(b, "POST /login")
  /\ issued < MaxToken
  /\ issued' = issued + 1
  /\ live' = live \cup {issued + 1}
  /\ tab' = [tab EXCEPT ![b] = [at |-> "answered", set |-> issued + 1,
                                go |-> "GET /me", page |-> "none"]]
  /\ UNCHANGED <<loggedOut, cookie>>

\* The rate limiter, the form or the credentials turn the login down, or
\* Start fails.
LoginFails(b) ==
  /\ Runs(b, "POST /login")
  /\ Page(b, "login") \/ Page(b, "error")
  /\ UNCHANGED <<live, issued, loggedOut, cookie>>

\* Mutant of Me: an account that is gone leads to the login page.
MeGoneToLogin(b) ==
  /\ Runs(b, "GET /me")
  /\ (tab[b].user /\ Page(b, "me")) \/ Redirect(b, "GET /login")
  /\ UNCHANGED <<live, issued, loggedOut, cookie>>

\* GET /me shows the user, an error when the account is gone, and sends the
\* others to the login page.
Me(b) ==
  /\ Runs(b, "GET /me")
  /\ IF tab[b].user THEN Page(b, "me") \/ Page(b, "error")
     ELSE Redirect(b, "GET /login")
  /\ UNCHANGED <<live, issued, loggedOut, cookie>>

\* Mutant of Logout: it only clears the cookie.
LogoutClearsCookie(b) ==
  /\ Runs(b, "POST /logout")
  /\ tab' = [tab EXCEPT ![b] = [at |-> "answered", set |-> Clear,
                                go |-> "GET /login", page |-> "none"]]
  /\ loggedOut' = loggedOut \cup ({tab[b].token} \ {0})
  /\ UNCHANGED <<live, issued, cookie>>

\* POST /logout needs no identity: End deletes the row of the cookie, if
\* any, and clears the cookie. When the delete fails, the row stays and so
\* does a live cookie.
Logout(b) ==
  /\ Runs(b, "POST /logout")
  /\ \/ /\ live' = live \ {tab[b].token}
        /\ loggedOut' = loggedOut \cup ({tab[b].token} \ {0})
        /\ tab' = [tab EXCEPT ![b] = [at |-> "answered", set |-> Clear,
                                      go |-> "GET /login", page |-> "none"]]
     \/ /\ tab[b].token # 0
        /\ Page(b, "error")
        /\ UNCHANGED <<live, loggedOut>>
  /\ UNCHANGED <<issued, cookie>>

Handle(b) ==
  Home(b) \/ LoginPage(b) \/ Login(b) \/ LoginFails(b) \/ Me(b) \/ Logout(b)

Next ==
  \/ \E b \in Tab : Send(b) \/ LoadIdentity(b) \/ Handle(b) \/ Deliver(b)
  \/ \E t \in Token : LoseSession(t)

Spec == Init /\ [][Next]_vars

\* The server answers and the answers arrive; the user may stop at any page.
FairSpec == Spec /\ \A b \in Tab : WF_vars(LoadIdentity(b) \/ Handle(b) \/ Deliver(b))

-----------------------------------------------------------------------------
(* Properties.                                                             *)

\* The browser is never sent round between the pages without end: every
\* request ends in a page (handleHome, handleLoginPage, RequireIdentity).
EveryRequestEnds == \A b \in Tab : (tab[b].at # "shown") ~> (tab[b].at = "shown")

\* "Clear a stale cookie" (middleware.go:25): an answer that clears the
\* cookie, other than a logout's, never removes the cookie of a session that
\* is still good. It does not hold: answers arrive in any order.
ClearsOnlyStale ==
  [][\A b \in Tab :
       tab[b].at = "answered" /\ tab[b].set = Clear /\ tab[b].go # "GET /login"
         /\ tab'[b].at = "shown" => cookie \notin live]_vars
=============================================================================
