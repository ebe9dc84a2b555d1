------------------------------ MODULE TabView -------------------------------
(***************************************************************************)
(* What the tabs of a browser see of a logout.  SignIn has the steps.      *)
(***************************************************************************)
CONSTANT Tab \* the tabs of the browser

VARIABLE tab \* tab[b]: the request of tab b, or what the tab shows

\* A request that leaves after a logout with the cookie of that logout, which
\* the jar can hold again when an older answer arrives late, is anonymous.
LogoutRevokes ==
  \A b \in Tab : tab[b].at = "loaded" /\ tab[b].afterEnd => ~tab[b].user
=============================================================================
