---------------------------- MODULE RateLimiter ----------------------------
(***************************************************************************)
(* The rate limiter of internal/platform/web: concurrent requests of       *)
(* several clients pass Limit, which reads the clock, and then Allow,      *)
(* which takes the mutex, sweeps the table and applies GCRA.  A request    *)
(* can wait between the two, up to Delay, so Allow sees times that go      *)
(* back.  A time of 0 in tat stands for a missing key.                     *)
(***************************************************************************)
EXTENDS Integers, Sequences, FiniteSets

CONSTANTS
  Request,   \* the requests that run at the same time
  Client,    \* the client addresses
  Proxy,     \* the address of the trusted proxy
  Interval,  \* the interval of one request
  Burst,     \* the burst, at least 1
  MaxKeys,   \* maxLimiterKeys
  Sweep,     \* sweepInterval
  Delay,     \* bound: the time between the read of the clock and the mutex
  MaxTime    \* bound: the last time

ASSUME RateLimiterAssumption ==
  /\ Interval \in Nat \ {0}
  /\ Burst \in Nat \ {0}
  /\ MaxKeys \in Nat \ {0}
  /\ Sweep \in Nat \ {0}
  /\ Delay \in Nat
  /\ MaxTime \in Nat

VARIABLES
  now,        \* the clock
  slot,       \* slot[r]: request r between Limit and Allow, or Idle
  tat,        \* tat[k]: the theoretical arrival time of key k, 0 without one
  lastSweep,  \* the time of the last sweep
  adm,        \* adm[k]: the times of the admitted requests of key k
  promise     \* promise[k]: when the last refusal of k told it to come back

vars == <<now, slot, tat, lastSweep, adm, promise>>

Tolerance == Interval * (Burst - 1)

-----------------------------------------------------------------------------
(* The key of a request.                                                   *)

\* An address is plain IPv4, IPv4 mapped into IPv6, or IPv6 of a /64 network.
\* The mapped form is unmapped; an IPv6 client is its network.
Key(a) ==
  IF a.kind = "v6" THEN [kind |-> "v6", net |-> a.net, host |-> 0]
  ELSE [kind |-> "v4", net |-> a.net, host |-> a.host]

Keys == {Key(a) : a \in Client \cup {Proxy}}

\* lastAddr: the last entry of the last header line.
LastAddr(lines) == LET list == lines[Len(lines)] IN list[Len(list)]

\* clientKey: the header of the proxy, or its own address when that is
\* missing.
ClientKey(lines) == Key(IF lines = << >> THEN Proxy ELSE LastAddr(lines))

\* What the proxy may pass on for client c: it appends c to the line that the
\* client sent or adds a line, or sends no header.
Headers(c) ==
  {<<<<c>>>>, << >>} \cup UNION {{<<<<d, c>>>>, <<<<d>>, <<c>>>>} : d \in Client}

-----------------------------------------------------------------------------
Idle == [from |-> Proxy, key |-> Key(Proxy), stamp |-> -1]
InFlight == {r \in Request : slot[r] # Idle}

TypeOK ==
  /\ now \in Nat
  /\ slot \in [Request -> [from : Client, key : Keys, stamp : Nat] \cup {Idle}]
  /\ tat \in [Keys -> Nat]
  /\ lastSweep \in Int
  /\ adm \in [Keys -> Seq(Nat)]
  /\ promise \in [Keys -> Nat]

\* The zero lastSweep is long ago: the first request sweeps an empty table.
Init ==
  /\ now = 0
  /\ slot = [r \in Request |-> Idle]
  /\ tat = [k \in Keys |-> 0]
  /\ lastSweep = -Sweep
  /\ adm = [k \in Keys |-> << >>]
  /\ promise = [k \in Keys |-> 0]

\* Limit computes the key and reads the clock.
Limit(r) ==
  /\ slot[r] = Idle
  /\ \E c \in Client : \E lines \in Headers(c) :
       slot' = [slot EXCEPT ![r] = 
         [from |-> c, key |-> ClientKey(lines), stamp |-> now]]
  /\ UNCHANGED <<now, tat, lastSweep, adm, promise>>

\* The table after sweep(t).
Swept(t) ==
  IF t - lastSweep < Sweep THEN tat
  ELSE [k \in Keys |-> IF tat[k] > t THEN tat[k] ELSE 0]

\* The arrival time that a request at t starts from.
Start(t, k) == IF Swept(t)[k] < t THEN t ELSE Swept(t)[k]

Full(t, k) ==
  /\ Swept(t)[k] = 0
  /\ Cardinality({j \in Keys : Swept(t)[j] # 0}) >= MaxKeys

\* Mutant of Early: one request more than the burst.
EarlyByOne(t, k) == t < Start(t, k) - Interval * Burst

\* The request is above the rate.
Early(t, k) == t < Start(t, k) - Tolerance

\* Mutant of LastSweep: every request moves it.
SweepPostponed(t) == t

LastSweep(t) == IF t - lastSweep < Sweep THEN lastSweep ELSE t

Admit(r) ==
  /\ slot[r] # Idle
  /\ LET t == slot[r].stamp
         k == slot[r].key
     IN /\ ~Full(t, k) /\ ~Early(t, k)
        /\ tat' = [Swept(t) EXCEPT ![k] = Start(t, k) + Interval]
        /\ lastSweep' = LastSweep(t)
        /\ adm' = [adm EXCEPT ![k] = Append(@, t)]
        /\ promise' = [promise EXCEPT ![k] = 0]
  /\ slot' = [slot EXCEPT ![r] = Idle]
  /\ UNCHANGED now

\* Mutant of RefuseEarly: the wait has the wrong sign.
RefuseSwapped(r) ==
  /\ slot[r] # Idle
  /\ LET t == slot[r].stamp
         k == slot[r].key
     IN /\ ~Full(t, k) /\ Early(t, k)
        /\ promise' = [promise EXCEPT ![k] = t - Start(t, k) + Tolerance]
  /\ slot' = [slot EXCEPT ![r] = Idle]
  /\ UNCHANGED <<now, tat, lastSweep, adm>>

\* 429: the client is above the rate and learns when to come back.
RefuseEarly(r) ==
  /\ slot[r] # Idle
  /\ LET t == slot[r].stamp
         k == slot[r].key
     IN /\ ~Full(t, k) /\ Early(t, k)
        /\ tat' = Swept(t)
        /\ lastSweep' = LastSweep(t)
        /\ promise' = [promise EXCEPT ![k] = Start(t, k) - Tolerance]
  /\ slot' = [slot EXCEPT ![r] = Idle]
  /\ UNCHANGED <<now, adm>>

\* 429: there is no room for a new key.
RefuseFull(r) ==
  /\ slot[r] # Idle
  /\ LET t == slot[r].stamp
     IN /\ Full(t, slot[r].key)
        /\ tat' = Swept(t)
        /\ lastSweep' = LastSweep(t)
  /\ slot' = [slot EXCEPT ![r] = Idle]
  /\ UNCHANGED <<now, adm, promise>>

Tick ==
  /\ now < MaxTime
  /\ \A r \in InFlight : now + 1 - slot[r].stamp <= Delay
  /\ now' = now + 1
  /\ UNCHANGED <<slot, tat, lastSweep, adm, promise>>

Allow(r) == Admit(r) \/ RefuseEarly(r) \/ RefuseFull(r)

Next == Tick \/ \E r \in Request : Limit(r) \/ Allow(r)

Spec == Init /\ [][Next]_vars

-----------------------------------------------------------------------------
(* Properties.                                                             *)

\* "A client can send burst requests at once and after that one request per
\* interval" (ratelimit.go:24): n + 1 admissions in a row span at least
\* n intervals less the tolerance, in whatever order requests get the mutex.
Spacing ==
  \A k \in Keys : \A i, j \in 1..Len(adm[k]) :
    i < j => adm[k][j] - adm[k][i] >= (j - i) * Interval - Tolerance

\* A refused client that comes back when it was told is admitted, whatever
\* the others did meanwhile; only a full table can turn it away.
RetryAfterHolds ==
  [][\A r \in Request :
       RefuseEarly(r) => promise[slot[r].key] = 0 \/ slot[r].stamp < promise[slot[r].key]]_vars

\* A flood cannot fill the table for good: right after any request at time t
\* each key in the table was in use later than Sweep and the delay before t.
IdleKeysGo ==
  [][\A r \in Request : Allow(r) =>
       \A k \in Keys : tat'[k] # 0 => tat'[k] > slot[r].stamp - Sweep - Delay]_vars

\* Whoever sent header lines of its own is counted under its own address, or
\* under that of the proxy without the header, never under one it made up.
NoForeignKey ==
  \A r \in InFlight : slot[r].key \in {Key(slot[r].from), Key(Proxy)}

\* Every key is the one of a client, a client that comes back when it was told
\* is not refused again, and no key outlives its use by more than the time
\* between two sweeps and the delay.
FairKeys == []NoForeignKey /\ RetryAfterHolds /\ IdleKeysGo
=============================================================================
