---------------------------- MODULE RequestProofs ----------------------------
(***************************************************************************)
(* What the components behind the requests keep, for instances of any      *)
(* size.                                                                   *)
(*                                                                         *)
(* The rate of a client comes first, for every interval, burst, number of  *)
(* clients and concurrent requests, as long as no request waits between    *)
(* its read of the clock and the mutex (Delay = 0): with a delay, a sweep  *)
(* can delete a key that still counts.  The owner of an account and the    *)
(* decision of a triage follow.                                            *)
(***************************************************************************)
EXTENDS RateLimiter, AccountLookup, TriageDecision, SequenceTheorems, TLAPS

Later(a, b) == IF a > b THEN a ELSE b

\* Requests in flight have the time of now, and the sweep is not ahead.
OnTime ==
  /\ \A r \in Request : slot[r] # Idle => slot[r].stamp = now
  /\ lastSweep <= now

\* The arrival time of a key, or now for a key that was swept, is behind all
\* admissions of the key by one interval for each admission since.
Behind ==
  \A k \in Keys : \A i \in 1..Len(adm[k]) :
    adm[k][i] + (Len(adm[k]) + 1 - i) * Interval <= Later(tat[k], now)

SpacingInv == TypeOK /\ OnTime /\ Behind /\ Spacing

-----------------------------------------------------------------------------
LEMMA OneMore ==
  ASSUME NEW a \in Int, NEW b \in Int
  PROVE  /\ a * b \in Int
         /\ (a + 1) * b = a * b + b
  OBVIOUS

LEMMA Below ==
  ASSUME NEW x \in Int, NEW y \in Int, NEW top \in Int, NEW t \in Int, NEW d \in Int,
         x + y <= top, t >= top - d
  PROVE  t - x >= y - d
  OBVIOUS

LEMMA Constant ==
  /\ Interval \in Nat /\ Interval > 0 /\ Sweep \in Nat
  /\ Tolerance \in Nat
  /\ Key(Proxy) \in Keys
  <1>1. Interval \in Nat /\ Interval > 0 /\ Sweep \in Nat /\ Burst - 1 \in Nat
    BY RateLimiterAssumption
  <1>2. \A a, b \in Nat : a * b \in Nat
    OBVIOUS
  <1>. QED BY <1>1, <1>2 DEF Tolerance, Keys

\* The header of a client leads to a key of the table.
LEMMA KeyType ==
  ASSUME NEW c \in Client, NEW lines \in Headers(c)
  PROVE  ClientKey(lines) \in Keys /\ ClientKey(lines) \in {Key(c), Key(Proxy)}
  <1>1. \/ lines = <<<<c>>>>
        \/ lines = << >>
        \/ \E d \in Client : lines = <<<<d, c>>>> \/ lines = <<<<d>>, <<c>>>>
    BY DEF Headers
  <1>2. CASE lines = << >>
    BY <1>2 DEF ClientKey, Keys
  <1>3. CASE lines = <<<<c>>>>
    <2>1. Len(lines) = 1 /\ lines[1] = <<c>> /\ lines # << >>
      BY <1>3
    <2>2. LastAddr(lines) = c BY <2>1 DEF LastAddr
    <2>. QED BY <2>1, <2>2 DEF ClientKey, Keys
  <1>4. ASSUME NEW d \in Client, lines = <<<<d, c>>>>
        PROVE  ClientKey(lines) \in Keys /\ ClientKey(lines) \in {Key(c), Key(Proxy)}
    <2>1. Len(lines) = 1 /\ lines[1] = <<d, c>> /\ lines # << >>
      BY <1>4
    <2>2. LastAddr(lines) = c BY <2>1 DEF LastAddr
    <2>. QED BY <2>1, <2>2 DEF ClientKey, Keys
  <1>5. ASSUME NEW d \in Client, lines = <<<<d>>, <<c>>>>
        PROVE  ClientKey(lines) \in Keys /\ ClientKey(lines) \in {Key(c), Key(Proxy)}
    <2>1. Len(lines) = 2 /\ lines[2] = <<c>> /\ lines # << >>
      BY <1>5
    <2>2. LastAddr(lines) = c BY <2>1 DEF LastAddr
    <2>. QED BY <2>1, <2>2 DEF ClientKey, Keys
  <1>. QED BY <1>1, <1>2, <1>3, <1>4, <1>5

\* The sweep only takes keys that the current time has passed.
LEMMA SweptType ==
  ASSUME TypeOK, NEW t \in Nat
  PROVE  /\ Swept(t) \in [Keys -> Nat]
         /\ \A k \in Keys : Later(Swept(t)[k], t) = Later(tat[k], t)
         /\ \A k \in Keys : Start(t, k) = Later(tat[k], t)
         /\ \A k \in Keys : Start(t, k) \in Nat
         /\ LastSweep(t) \in Int
  <1>1. Swept(t) \in [Keys -> Nat]
    BY DEF Swept, TypeOK
  <1>2. \A k \in Keys : Swept(t)[k] = tat[k] \/ (Swept(t)[k] = 0 /\ tat[k] <= t)
    BY DEF Swept, TypeOK
  <1>3. \A k \in Keys : Later(Swept(t)[k], t) = Later(tat[k], t)
    BY <1>1, <1>2 DEF Later, TypeOK
  <1>4. \A k \in Keys : Start(t, k) = Later(Swept(t)[k], t)
    BY <1>1 DEF Start, Later
  <1>5. \A k \in Keys : Later(tat[k], t) \in Nat
    BY DEF Later, TypeOK
  <1>. QED BY <1>1, <1>3, <1>4, <1>5 DEF LastSweep, TypeOK

\* The history of a key after an admission at t, in numbers.
LEMMA Admission ==
  ASSUME NEW s \in Seq(Nat), NEW t \in Nat, NEW start \in Nat,
         t <= start, ~(t < start - Tolerance),
         \A i \in 1..Len(s) : s[i] + (Len(s) + 1 - i) * Interval <= start,
         \A i, j \in 1..Len(s) : i < j => s[j] - s[i] >= (j - i) * Interval - Tolerance
  PROVE  LET a == Append(s, t) IN
         /\ a \in Seq(Nat)
         /\ \A i \in 1..Len(a) : a[i] + (Len(a) + 1 - i) * Interval <= start + Interval
         /\ \A i, j \in 1..Len(a) : i < j => a[j] - a[i] >= (j - i) * Interval - Tolerance
  <1>. DEFINE a == Append(s, t)
              n == Len(s)
  <1>1. /\ a \in Seq(Nat) /\ Len(a) = n + 1 /\ n \in Nat
        /\ \A i \in 1..n : a[i] = s[i] /\ s[i] \in Nat
        /\ a[n + 1] = t
    BY AppendProperties, ElementOfSeq, LenProperties
  <1>. HIDE DEF a
  <1>2. ASSUME NEW i \in 1..(n + 1)
        PROVE  a[i] + (n + 2 - i) * Interval <= start + Interval
    <2>1. CASE i = n + 1
      <3>1. (n + 2 - i) * Interval = Interval BY <2>1, <1>1, Constant
      <3>. QED BY <3>1, <2>1, <1>1, Constant
    <2>2. CASE i # n + 1
      <3>1. i \in 1..n BY <2>2, <1>1
      <3>2. n + 1 - i \in Int /\ (n + 1 - i) + 1 = n + 2 - i BY <3>1, <1>1
      <3>3. (n + 2 - i) * Interval = (n + 1 - i) * Interval + Interval
        BY <3>2, OneMore, Constant
      <3>4. s[i] + (n + 1 - i) * Interval <= start BY <3>1
      <3>5. (n + 1 - i) * Interval \in Int BY <3>2, OneMore, Constant
      <3>. HIDE DEF n
      <3>. QED BY <3>1, <3>3, <3>4, <3>5, <1>1, Constant
    <2>. QED BY <2>1, <2>2
  <1>3. ASSUME NEW i \in 1..(n + 1), NEW j \in 1..(n + 1), i < j
        PROVE  a[j] - a[i] >= (j - i) * Interval - Tolerance
    <2>1. i \in 1..n BY <1>1, <1>3
    <2>2. CASE j \in 1..n BY <2>1, <2>2, <1>1, <1>3
    <2>3. CASE j = n + 1
      <3>1. s[i] + (n + 1 - i) * Interval <= start BY <2>1
      <3>2. (n + 1 - i) * Interval \in Int BY <2>1, <1>1, OneMore, Constant
      <3>3. t >= start - Tolerance BY Constant
      <3>4. a[j] = t /\ a[i] = s[i] /\ j - i = n + 1 - i
        BY <2>1, <2>3, <1>1
      <3>5. s[i] \in Int /\ start \in Int /\ t \in Int /\ Tolerance \in Int
        BY <2>1, <1>1, Constant
      <3>. DEFINE y == (n + 1 - i) * Interval
      <3>6. y \in Int /\ s[i] + y <= start /\ (j - i) * Interval = y
        BY <3>1, <3>2, <3>4
      <3>. HIDE DEF y
      <3>7. t - s[i] >= y - Tolerance BY <3>3, <3>5, <3>6, Below
      <3>. QED BY <3>4, <3>6, <3>7
    <2>. QED BY <2>2, <2>3, <1>1
  <1>4. Len(a) + 1 = n + 2 BY <1>1
  <1>5. ASSUME NEW i \in 1..Len(a)
        PROVE  a[i] + (Len(a) + 1 - i) * Interval <= start + Interval
    BY <1>1, <1>2, <1>4
  <1>6. ASSUME NEW i \in 1..Len(a), NEW j \in 1..Len(a), i < j
        PROVE  a[j] - a[i] >= (j - i) * Interval - Tolerance
    BY <1>1, <1>3, <1>6
  <1>. QED BY <1>1, <1>5, <1>6 DEF a

LEMMA SpacingInit == Init => SpacingInv
  <1>. SUFFICES ASSUME Init PROVE SpacingInv
    OBVIOUS
  <1>1. \A k \in Keys : adm[k] = << >> /\ Len(adm[k]) = 0
    BY DEF Init
  <1>2. TypeOK BY Constant DEF Init, TypeOK
  <1>3. OnTime BY Constant DEF Init, OnTime
  <1>4. Behind /\ Spacing BY <1>1 DEF Behind, Spacing
  <1>. QED BY <1>2, <1>3, <1>4 DEF SpacingInv

LEMMA LimitKeeps ==
  ASSUME SpacingInv, NEW r \in Request, Limit(r)
  PROVE  SpacingInv'
  <1>. USE DEF SpacingInv
  <1>0. PICK c \in Client : \E lines \in Headers(c) :
          slot' = [slot EXCEPT ![r] =
            [from |-> c, key |-> ClientKey(lines), stamp |-> now]]
    BY DEF Limit
  <1>1. PICK lines \in Headers(c) :
          slot' = [slot EXCEPT ![r] =
            [from |-> c, key |-> ClientKey(lines), stamp |-> now]]
    BY <1>0
  <1>2. ClientKey(lines) \in Keys BY KeyType
  <1>3. now' = now /\ tat' = tat /\ lastSweep' = lastSweep /\ adm' = adm /\ promise' = promise
    BY DEF Limit
  <1>4. TypeOK'
    <2>1. [from |-> c, key |-> ClientKey(lines), stamp |-> now]
            \in [from : Client, key : Keys, stamp : Nat]
      BY <1>2 DEF TypeOK
    <2>. QED BY <1>1, <1>3, <2>1 DEF TypeOK
  <1>5. OnTime' BY <1>1, <1>3 DEF OnTime, TypeOK
  <1>6. Behind' /\ Spacing' BY <1>3 DEF Behind, Spacing
  <1>. QED BY <1>4, <1>5, <1>6

\* A request that leaves its slot with the table swept.
LEMMA LeaveKeeps ==
  ASSUME SpacingInv, NEW r \in Request, slot[r] # Idle,
         slot' = [slot EXCEPT ![r] = Idle], now' = now,
         lastSweep' = LastSweep(slot[r].stamp)
  PROVE  /\ slot[r].stamp = now /\ slot[r].key \in Keys /\ now \in Nat
         /\ slot' \in [Request -> [from : Client, key : Keys, stamp : Nat] \cup {Idle}]
         /\ OnTime'
  <1>. USE DEF SpacingInv
  <1>1. slot[r].stamp = now /\ slot[r].key \in Keys /\ now \in Nat
    BY DEF OnTime, TypeOK
  <1>2. lastSweep' <= now' BY <1>1 DEF LastSweep, OnTime
  <1>. QED BY <1>1, <1>2 DEF OnTime, TypeOK

LEMMA AdmitKeeps ==
  ASSUME SpacingInv, NEW r \in Request, Admit(r)
  PROVE  SpacingInv'
  <1>. DEFINE t == slot[r].stamp
              k == slot[r].key
  <1>. USE DEF SpacingInv
  <1>1. /\ slot[r] # Idle /\ ~Early(t, k)
        /\ tat' = [Swept(t) EXCEPT ![k] = Start(t, k) + Interval]
        /\ lastSweep' = LastSweep(t)
        /\ adm' = [adm EXCEPT ![k] = Append(@, t)]
        /\ promise' = [promise EXCEPT ![k] = 0]
        /\ slot' = [slot EXCEPT ![r] = Idle]
        /\ now' = now
    BY DEF Admit
  <1>2. /\ t = now /\ k \in Keys /\ now \in Nat
        /\ slot' \in [Request -> [from : Client, key : Keys, stamp : Nat] \cup {Idle}]
        /\ OnTime'
    BY <1>1, LeaveKeeps
  <1>. HIDE DEF t, k
  <1>3. /\ Swept(t) \in [Keys -> Nat]
        /\ \A j \in Keys : Later(Swept(t)[j], t) = Later(tat[j], t)
        /\ Start(t, k) = Later(tat[k], t) /\ Start(t, k) \in Nat
        /\ LastSweep(t) \in Int
    BY <1>2, SweptType
  <1>4. t <= Start(t, k) /\ ~(t < Start(t, k) - Tolerance)
    BY <1>1, <1>2, <1>3 DEF Later, Early, TypeOK
  <1>5. \A i \in 1..Len(adm[k]) : adm[k][i] + (Len(adm[k]) + 1 - i) * Interval <= Start(t, k)
    BY <1>2, <1>3 DEF Behind
  <1>6. adm[k] \in Seq(Nat) BY <1>2 DEF TypeOK
  <1>7. \A i, j \in 1..Len(adm[k]) :
          i < j => adm[k][j] - adm[k][i] >= (j - i) * Interval - Tolerance
    BY <1>2 DEF Spacing
  <1>. DEFINE a == Append(adm[k], t)
  <1>8. /\ a \in Seq(Nat)
        /\ \A i \in 1..Len(a) : a[i] + (Len(a) + 1 - i) * Interval <= Start(t, k) + Interval
        /\ \A i, j \in 1..Len(a) : i < j => a[j] - a[i] >= (j - i) * Interval - Tolerance
    BY <1>2, <1>3, <1>4, <1>5, <1>6, <1>7, Admission
  <1>9. /\ adm'[k] = a /\ tat'[k] = Start(t, k) + Interval
        /\ \A j \in Keys : j # k => adm'[j] = adm[j] /\ tat'[j] = Swept(t)[j]
    BY <1>1, <1>2, <1>3 DEF TypeOK
  <1>10. Later(tat'[k], now') = Start(t, k) + Interval
    BY <1>1, <1>2, <1>3, <1>4, <1>9, Constant DEF Later
  <1>. HIDE DEF a
  <1>11. Behind'
    <2>. SUFFICES ASSUME NEW j \in Keys, NEW i \in 1..Len(adm'[j])
                  PROVE  adm'[j][i] + (Len(adm'[j]) + 1 - i) * Interval <= Later(tat'[j], now')
      BY DEF Behind, Keys
    <2>1. CASE j = k BY <2>1, <1>8, <1>9, <1>10
    <2>2. CASE j # k
      <3>1. Later(tat'[j], now') = Later(tat[j], now)
        BY <2>2, <1>1, <1>2, <1>3, <1>9
      <3>. QED BY <3>1, <2>2, <1>9 DEF Behind
    <2>. QED BY <2>1, <2>2
  <1>12. Spacing'
    <2>. SUFFICES ASSUME NEW j \in Keys, NEW i \in 1..Len(adm'[j]), NEW m \in 1..Len(adm'[j]), i < m
                  PROVE  adm'[j][m] - adm'[j][i] >= (m - i) * Interval - Tolerance
      BY DEF Spacing, Keys
    <2>1. CASE j = k BY <2>1, <1>8, <1>9
    <2>2. CASE j # k BY <2>2, <1>9 DEF Spacing
    <2>. QED BY <2>1, <2>2
  <1>13. TypeOK'
    <2>0. Start(t, k) + Interval \in Nat BY <1>3, Constant
    <2>1. tat' \in [Keys -> Nat] BY <1>1, <1>3, <2>0
    <2>2. adm' \in [Keys -> Seq(Nat)] BY <1>1, <1>8 DEF TypeOK, a
    <2>3. promise' \in [Keys -> Nat] BY <1>1 DEF TypeOK
    <2>. QED BY <1>1, <1>2, <1>3, <2>1, <2>2, <2>3 DEF TypeOK
  <1>. QED BY <1>2, <1>11, <1>12, <1>13

\* A refusal only sweeps and leaves the history alone.
LEMMA RefuseKeeps ==
  ASSUME SpacingInv, NEW r \in Request, RefuseEarly(r) \/ RefuseFull(r)
  PROVE  SpacingInv'
  <1>. DEFINE t == slot[r].stamp
              k == slot[r].key
  <1>. USE DEF SpacingInv
  <1>1. /\ slot[r] # Idle /\ tat' = Swept(t) /\ lastSweep' = LastSweep(t)
        /\ slot' = [slot EXCEPT ![r] = Idle]
        /\ now' = now /\ adm' = adm
        /\ \/ promise' = promise
           \/ Early(t, k) /\ promise' = [promise EXCEPT ![k] = Start(t, k) - Tolerance]
    BY DEF RefuseEarly, RefuseFull
  <1>2. /\ t = now /\ k \in Keys /\ now \in Nat
        /\ slot' \in [Request -> [from : Client, key : Keys, stamp : Nat] \cup {Idle}]
        /\ OnTime'
    BY <1>1, LeaveKeeps
  <1>. HIDE DEF t, k
  <1>3. /\ Swept(t) \in [Keys -> Nat]
        /\ \A j \in Keys : Later(Swept(t)[j], t) = Later(tat[j], t)
        /\ Start(t, k) \in Nat
        /\ LastSweep(t) \in Int
    BY <1>2, SweptType
  <1>4. promise' \in [Keys -> Nat]
    <2>1. CASE promise' = promise BY <2>1 DEF TypeOK
    <2>2. CASE Early(t, k) /\ promise' = [promise EXCEPT ![k] = Start(t, k) - Tolerance]
      <3>1. Start(t, k) - Tolerance \in Nat BY <2>2, <1>2, <1>3, Constant DEF Early
      <3>. QED BY <2>2, <3>1 DEF TypeOK
    <2>. QED BY <2>1, <2>2, <1>1
  <1>5. TypeOK' BY <1>1, <1>2, <1>3, <1>4 DEF TypeOK
  <1>6. \A j \in Keys : Later(tat'[j], now') = Later(tat[j], now)
    BY <1>1, <1>2, <1>3
  <1>7. Behind' /\ Spacing' BY <1>1, <1>6 DEF Behind, Spacing, Keys
  <1>. QED BY <1>2, <1>5, <1>7

\* Without delay the clock only moves when nothing is in flight.
LEMMA TickKeeps ==
  ASSUME SpacingInv, Delay = 0, Tick
  PROVE  SpacingInv'
  <1>. USE DEF SpacingInv
  <1>1. /\ now' = now + 1 /\ slot' = slot /\ tat' = tat /\ lastSweep' = lastSweep
        /\ adm' = adm /\ promise' = promise /\ now \in Nat
    BY DEF Tick, TypeOK
  <1>2. \A r \in Request : slot[r] = Idle
    <2>. SUFFICES ASSUME NEW r \in Request, slot[r] # Idle PROVE FALSE
      OBVIOUS
    <2>1. slot[r].stamp = now BY DEF OnTime
    <2>2. now + 1 - slot[r].stamp <= 0 BY DEF Tick, InFlight
    <2>. QED BY <2>1, <2>2, <1>1
  <1>3. TypeOK' BY <1>1 DEF TypeOK
  <1>4. OnTime' BY <1>1, <1>2 DEF OnTime, TypeOK
  <1>5. Spacing' BY <1>1 DEF Spacing, Keys
  <1>6. Behind'
    <2>. SUFFICES ASSUME NEW k \in Keys, NEW i \in 1..Len(adm[k])
                  PROVE  adm[k][i] + (Len(adm[k]) + 1 - i) * Interval <= Later(tat[k], now + 1)
      BY <1>1 DEF Behind, Keys
    <2>1. adm[k][i] + (Len(adm[k]) + 1 - i) * Interval <= Later(tat[k], now)
      BY DEF Behind
    <2>2. adm[k][i] \in Nat /\ Len(adm[k]) + 1 - i \in Int
      BY ElementOfSeq, LenProperties DEF TypeOK
    <2>3. (Len(adm[k]) + 1 - i) * Interval \in Int BY <2>2, OneMore, Constant
    <2>. QED BY <2>1, <2>2, <2>3, <1>1 DEF Later, TypeOK
  <1>. QED BY <1>3, <1>4, <1>5, <1>6

LEMMA SpacingNext == Delay = 0 /\ SpacingInv /\ [Next]_vars => SpacingInv'
  <1>. SUFFICES ASSUME Delay = 0, SpacingInv, [Next]_vars PROVE SpacingInv'
    OBVIOUS
  <1>1. CASE Tick BY <1>1, TickKeeps
  <1>2. ASSUME NEW r \in Request, Limit(r) PROVE SpacingInv' BY <1>2, LimitKeeps
  <1>3. ASSUME NEW r \in Request, Allow(r) PROVE SpacingInv'
    BY <1>3, AdmitKeeps, RefuseKeeps DEF Allow
  <1>4. CASE UNCHANGED vars
    BY <1>4 DEF vars, SpacingInv, TypeOK, OnTime, Behind, Spacing, Keys
  <1>. QED BY <1>1, <1>2, <1>3, <1>4 DEF Next

\* The documented rate of a client, for every value of the constants, when
\* no request waits between the clock and the mutex.
THEOREM RateHolds == Delay = 0 => (Spec => []Spacing)
  <1>. SUFFICES ASSUME Delay = 0 PROVE Spec => []Spacing
    OBVIOUS
  <1>1. SpacingInv /\ [Next]_vars => SpacingInv'
    BY SpacingNext
  <1>2. SpacingInv => Spacing BY DEF SpacingInv
  <1>. QED BY <1>1, <1>2, SpacingInit, PTL DEF Spec

-----------------------------------------------------------------------------
(* The keys of the limiter, for every delay before the mutex.              *)

\* A request in flight is late by the delay at most and counts for its client
\* or the proxy; a key was in use after the last sweep, less the delay; and
\* the time at which a refused client is let in again does not move away.
KeysInv ==
  /\ TypeOK
  /\ lastSweep <= now
  /\ \A r \in InFlight :
       /\ slot[r].stamp <= now /\ now <= slot[r].stamp + Delay
       /\ slot[r].key \in {Key(slot[r].from), Key(Proxy)}
  /\ \A k \in Keys : tat[k] # 0 => tat[k] > lastSweep - Delay
  /\ \A k \in Keys : promise[k] # 0 => tat[k] <= promise[k] + Tolerance

\* The table that a request at t finds after the sweep.
LEMMA SweptKeys ==
  ASSUME KeysInv, NEW r \in Request, slot[r] # Idle, NEW t, t = slot[r].stamp
  PROVE  /\ t \in Nat /\ slot[r].key \in Keys /\ t <= now /\ now <= t + Delay
         /\ Swept(t) \in [Keys -> Nat]
         /\ LastSweep(t) \in Int /\ LastSweep(t) <= now
         /\ \A k \in Keys :
              /\ Swept(t)[k] \in {0, tat[k]}
              /\ Swept(t)[k] # 0 =>
                   Swept(t)[k] > LastSweep(t) - Delay /\ Swept(t)[k] > t - Sweep - Delay
<1>1. t \in Nat /\ slot[r].key \in Keys /\ t <= now /\ now <= t + Delay
  BY DEF KeysInv, TypeOK, InFlight
<1>2. /\ Delay \in Nat /\ Sweep \in Nat /\ now \in Nat /\ lastSweep \in Int /\ lastSweep <= now
      /\ tat \in [Keys -> Nat]
      /\ \A k \in Keys : tat[k] \in Nat /\ (tat[k] # 0 => tat[k] > lastSweep - Delay)
  BY RateLimiterAssumption DEF KeysInv, TypeOK
<1>3. CASE t - lastSweep < Sweep
  <2>1. Swept(t) = tat /\ LastSweep(t) = lastSweep
    BY <1>3 DEF Swept, LastSweep
  <2>2. ASSUME NEW k \in Keys, tat[k] # 0
        PROVE  tat[k] > lastSweep - Delay /\ tat[k] > t - Sweep - Delay
    BY <1>1, <1>2, <1>3, <2>2
  <2>3. QED
    BY <1>1, <1>2, <2>1, <2>2
<1>4. CASE ~(t - lastSweep < Sweep)
  <2>1. Swept(t) = [k \in Keys |-> IF tat[k] > t THEN tat[k] ELSE 0] /\ LastSweep(t) = t
    BY <1>4 DEF Swept, LastSweep
  <2>2. ASSUME NEW k \in Keys
        PROVE  /\ Swept(t)[k] \in {0, tat[k]}
               /\ Swept(t)[k] # 0 => Swept(t)[k] > t - Delay /\ Swept(t)[k] > t - Sweep - Delay
    BY <1>1, <1>2, <2>1
  <2>3. Swept(t) \in [Keys -> Nat]
    BY <1>2, <2>1
  <2>4. QED
    BY <1>1, <2>1, <2>2, <2>3
<1>5. QED
  BY <1>3, <1>4

LEMMA KeysLimit ==
  ASSUME KeysInv, NEW r \in Request, Limit(r)
  PROVE  KeysInv'
<1>0. PICK c \in Client : \E lines \in Headers(c) :
        slot' = [slot EXCEPT ![r] = [from |-> c, key |-> ClientKey(lines), stamp |-> now]]
  BY DEF Limit
<1>1. PICK lines \in Headers(c) :
        slot' = [slot EXCEPT ![r] = [from |-> c, key |-> ClientKey(lines), stamp |-> now]]
  BY <1>0
<1>2. UNCHANGED <<now, tat, lastSweep, adm, promise>>
  BY DEF Limit
<1>3. ClientKey(lines) \in Keys /\ ClientKey(lines) \in {Key(c), Key(Proxy)}
  BY KeyType
<1>4. TypeOK /\ now \in Nat /\ Delay \in Nat
  BY RateLimiterAssumption DEF KeysInv, TypeOK
<1>5. [from |-> c, key |-> ClientKey(lines), stamp |-> now] \in [from : Client, key : Keys, stamp : Nat]
  BY <1>3, <1>4
<1>6. TypeOK'
  BY <1>1, <1>2, <1>4, <1>5 DEF TypeOK
<1>7. ASSUME NEW q \in Request, slot'[q] # Idle
      PROVE  /\ slot'[q].stamp <= now' /\ now' <= slot'[q].stamp + Delay
             /\ slot'[q].key \in {Key(slot'[q].from), Key(Proxy)}
  <2>1. CASE q = r
    BY <1>1, <1>2, <1>3, <1>4, <2>1 DEF TypeOK
  <2>2. CASE q # r
    BY <1>1, <1>2, <1>4, <1>7, <2>2 DEF KeysInv, InFlight, TypeOK
  <2>3. QED
    BY <2>1, <2>2
<1>8. QED
  BY <1>2, <1>6, <1>7 DEF KeysInv, InFlight, Keys, Key, Idle

\* What every end of Allow does to the invariant, apart from its types.
LEMMA KeysLeave ==
  ASSUME KeysInv, NEW r \in Request, slot[r] # Idle, TypeOK',
         slot' = [slot EXCEPT ![r] = Idle], now' = now,
         lastSweep' = LastSweep(slot[r].stamp),
         \A k \in Keys : tat'[k] # 0 => tat'[k] > lastSweep' - Delay,
         \A k \in Keys : promise'[k] # 0 => tat'[k] <= promise'[k] + Tolerance
  PROVE  KeysInv'
<1>0. PICK t : t = slot[r].stamp
  OBVIOUS
<1>1. lastSweep' <= now'
  BY <1>0, SweptKeys
<1>2. \A q \in Request : slot'[q] # Idle => slot[q] # Idle /\ slot'[q] = slot[q]
  BY DEF KeysInv, TypeOK
<1>3. \A q \in InFlight' : /\ slot'[q].stamp <= now' /\ now' <= slot'[q].stamp + Delay
                           /\ slot'[q].key \in {Key(slot'[q].from), Key(Proxy)}
  BY <1>2 DEF KeysInv, InFlight
<1>4. QED
  BY <1>1, <1>3 DEF KeysInv, Keys

\* A refusal only sweeps, and promises the time that the key really has.
LEMMA KeysRefuse ==
  ASSUME KeysInv, NEW r \in Request, RefuseEarly(r) \/ RefuseFull(r)
  PROVE  /\ KeysInv'
         /\ RefuseEarly(r) => promise[slot[r].key] = 0 \/ slot[r].stamp < promise[slot[r].key]
<1>0. PICK t, k : t = slot[r].stamp /\ k = slot[r].key
  OBVIOUS
<1>1. /\ slot[r] # Idle /\ tat' = Swept(t) /\ lastSweep' = LastSweep(t)
      /\ slot' = [slot EXCEPT ![r] = Idle] /\ UNCHANGED <<now, adm>>
      /\ \/ promise' = promise
         \/ Early(t, k) /\ promise' = [promise EXCEPT ![k] = Start(t, k) - Tolerance]
      /\ RefuseEarly(r) => Early(t, k)
  BY <1>0 DEF RefuseEarly, RefuseFull
<1>2. /\ t \in Nat /\ k \in Keys /\ Swept(t) \in [Keys -> Nat]
      /\ LastSweep(t) \in Int
      /\ \A j \in Keys : /\ Swept(t)[j] \in {0, tat[j]}
                         /\ Swept(t)[j] # 0 => Swept(t)[j] > LastSweep(t) - Delay
  BY <1>0, <1>1, SweptKeys
<1>3. TypeOK /\ Tolerance \in Nat /\ tat \in [Keys -> Nat] /\ promise \in [Keys -> Nat]
  BY Constant DEF KeysInv, TypeOK
<1>4. \A j \in Keys : promise[j] # 0 => tat[j] <= promise[j] + Tolerance
  BY DEF KeysInv
<1>5. slot' \in [Request -> [from : Client, key : Keys, stamp : Nat] \cup {Idle}]
  BY <1>1, <1>3 DEF TypeOK
<1>6. ASSUME Early(t, k)
      PROVE  /\ Start(t, k) = Swept(t)[k] /\ Start(t, k) = tat[k]
             /\ Start(t, k) - Tolerance \in Nat /\ t < Start(t, k) - Tolerance
  <2>1. t < Start(t, k) - Tolerance
    BY <1>6 DEF Early
  <2>2. Start(t, k) = Swept(t)[k]
    BY <1>2, <1>3, <2>1 DEF Start
  <2>3. QED
    BY <1>2, <1>3, <2>1, <2>2
<1>7. promise' \in [Keys -> Nat]
  BY <1>1, <1>3, <1>6
<1>8. TypeOK'
  BY <1>1, <1>2, <1>3, <1>5, <1>7 DEF TypeOK
<1>9. ASSUME NEW j \in Keys, promise'[j] # 0
      PROVE  tat'[j] <= promise'[j] + Tolerance
  <2>1. CASE promise'[j] = promise[j]
    BY <1>1, <1>2, <1>3, <1>4, <1>9, <2>1
  <2>2. CASE promise'[j] # promise[j]
    <3>1. j = k /\ Early(t, k) /\ promise'[j] = Start(t, k) - Tolerance
      BY <1>1, <1>3, <2>2
    <3>2. Start(t, k) \in Nat /\ tat'[j] = Start(t, k)
      BY <1>1, <1>2, <1>6, <3>1
    <3>3. QED
      BY <1>3, <3>1, <3>2
  <2>3. QED
    BY <2>1, <2>2
<1>10. KeysInv'
  BY <1>1, <1>2, <1>8, <1>9, <1>0, KeysLeave
<1>11. RefuseEarly(r) => promise[k] = 0 \/ t < promise[k]
  <2>1. SUFFICES ASSUME Early(t, k), promise[k] # 0
                 PROVE  t < promise[k]
    BY <1>1
  <2>2. tat[k] <= promise[k] + Tolerance /\ t < tat[k] - Tolerance
    BY <1>2, <1>4, <1>6, <2>1
  <2>3. tat[k] \in Nat /\ promise[k] \in Nat
    BY <1>2, <1>3
  <2>4. QED
    BY <1>2, <1>3, <2>2, <2>3
<1>12. QED
  BY <1>0, <1>10, <1>11

LEMMA KeysAdmit ==
  ASSUME KeysInv, NEW r \in Request, Admit(r)
  PROVE  KeysInv'
<1>0. PICK t, k : t = slot[r].stamp /\ k = slot[r].key
  OBVIOUS
<1>1. /\ slot[r] # Idle
      /\ tat' = [Swept(t) EXCEPT ![k] = Start(t, k) + Interval]
      /\ lastSweep' = LastSweep(t)
      /\ adm' = [adm EXCEPT ![k] = Append(@, t)]
      /\ promise' = [promise EXCEPT ![k] = 0]
      /\ slot' = [slot EXCEPT ![r] = Idle] /\ now' = now
  BY <1>0 DEF Admit
<1>2. /\ t \in Nat /\ k \in Keys /\ Swept(t) \in [Keys -> Nat] /\ now <= t + Delay
      /\ LastSweep(t) \in Int /\ LastSweep(t) <= now
      /\ \A j \in Keys : /\ Swept(t)[j] \in {0, tat[j]}
                         /\ Swept(t)[j] # 0 => Swept(t)[j] > LastSweep(t) - Delay
  BY <1>0, <1>1, SweptKeys
<1>3. /\ Interval \in Nat /\ Interval > 0 /\ Delay \in Nat /\ now \in Nat /\ Tolerance \in Nat
      /\ tat \in [Keys -> Nat] /\ promise \in [Keys -> Nat] /\ adm \in [Keys -> Seq(Nat)]
  BY Constant, RateLimiterAssumption DEF KeysInv, TypeOK
<1>4. slot' \in [Request -> [from : Client, key : Keys, stamp : Nat] \cup {Idle}]
  BY <1>1 DEF KeysInv, TypeOK
<1>5. Start(t, k) \in Nat /\ Start(t, k) >= t
  BY <1>2 DEF Start
<1>6. /\ tat' \in [Keys -> Nat] /\ tat'[k] = Start(t, k) + Interval
      /\ \A j \in Keys : j # k => tat'[j] = Swept(t)[j]
  BY <1>1, <1>2, <1>3, <1>5
<1>7. /\ promise' \in [Keys -> Nat] /\ promise'[k] = 0
      /\ \A j \in Keys : j # k => promise'[j] = promise[j]
  BY <1>1, <1>2, <1>3
<1>8. adm' \in [Keys -> Seq(Nat)]
  <2>1. Append(adm[k], t) \in Seq(Nat)
    BY <1>2, <1>3, AppendProperties
  <2>2. QED
    BY <1>1, <1>3, <2>1
<1>9. TypeOK'
  BY <1>1, <1>2, <1>3, <1>4, <1>6, <1>7, <1>8 DEF TypeOK
<1>10. ASSUME NEW j \in Keys, tat'[j] # 0
       PROVE  tat'[j] > lastSweep' - Delay
  <2>1. CASE j = k
    BY <1>1, <1>2, <1>3, <1>5, <1>6, <2>1
  <2>2. CASE j # k
    BY <1>1, <1>2, <1>6, <1>10, <2>2
  <2>3. QED
    BY <2>1, <2>2
<1>11. ASSUME NEW j \in Keys, promise'[j] # 0
       PROVE  tat'[j] <= promise'[j] + Tolerance
  <2>1. j # k /\ promise'[j] = promise[j] /\ tat'[j] \in {0, tat[j]}
    BY <1>2, <1>6, <1>7, <1>11
  <2>2. tat[j] <= promise[j] + Tolerance
    BY <1>11, <2>1 DEF KeysInv
  <2>3. QED
    BY <1>3, <2>1, <2>2
<1>12. QED
  BY <1>1, <1>9, <1>10, <1>11, <1>0, KeysLeave

LEMMA KeysNext == KeysInv /\ [Next]_vars => KeysInv'
<1> SUFFICES ASSUME KeysInv, [Next]_vars
             PROVE  KeysInv'
  OBVIOUS
<1>1. CASE Tick
  <2>1. now' = now + 1 /\ UNCHANGED <<slot, tat, lastSweep, adm, promise>>
    BY <1>1 DEF Tick
  <2>2. now \in Nat /\ lastSweep \in Int /\ Delay \in Nat
    BY RateLimiterAssumption DEF KeysInv, TypeOK
  <2>3. TypeOK'
    BY <2>1, <2>2 DEF KeysInv, TypeOK
  <2>4. ASSUME NEW r \in InFlight
        PROVE  /\ slot[r].stamp <= now' /\ now' <= slot[r].stamp + Delay
               /\ slot[r].key \in {Key(slot[r].from), Key(Proxy)}
    <3>1. slot[r].stamp \in Nat /\ slot[r].stamp <= now
      BY DEF KeysInv, TypeOK, InFlight
    <3>2. now + 1 - slot[r].stamp <= Delay
      BY <1>1 DEF Tick
    <3>3. slot[r].key \in {Key(slot[r].from), Key(Proxy)}
      BY DEF KeysInv
    <3>4. QED
      BY <2>1, <2>2, <3>1, <3>2, <3>3
  <2>5. lastSweep' <= now'
    BY <2>1, <2>2 DEF KeysInv
  <2>6. QED
    BY <2>1, <2>3, <2>4, <2>5 DEF KeysInv, InFlight, Keys
<1>2. ASSUME NEW r \in Request, Limit(r)
      PROVE  KeysInv'
  BY <1>2, KeysLimit
<1>3. ASSUME NEW r \in Request, Allow(r)
      PROVE  KeysInv'
  BY <1>3, KeysAdmit, KeysRefuse DEF Allow
<1>4. CASE UNCHANGED vars
  BY <1>4 DEF vars, KeysInv, TypeOK, InFlight, Keys
<1>5. QED
  BY <1>1, <1>2, <1>3, <1>4 DEF Next

\* After an Allow at t every key in the table was in use at t, less the time
\* between two sweeps and the delay.
LEMMA KeysGo ==
  ASSUME KeysInv, NEW r \in Request, Allow(r), NEW k \in Keys, tat'[k] # 0
  PROVE  tat'[k] > slot[r].stamp - Sweep - Delay
<1>0. PICK t : t = slot[r].stamp
  OBVIOUS
<1>1. /\ slot[r] # Idle
      /\ \/ tat' = Swept(t)
         \/ tat' = [Swept(t) EXCEPT ![slot[r].key] = Start(t, slot[r].key) + Interval]
  BY <1>0 DEF Allow, Admit, RefuseEarly, RefuseFull
<1>2. /\ t \in Nat /\ slot[r].key \in Keys /\ Swept(t) \in [Keys -> Nat]
      /\ Swept(t)[k] # 0 => Swept(t)[k] > t - Sweep - Delay
  BY <1>0, <1>1, SweptKeys
<1>3. Interval \in Nat /\ Interval > 0 /\ Delay \in Nat /\ Sweep \in Nat
  BY Constant, RateLimiterAssumption
<1>4. Start(t, slot[r].key) \in Nat /\ Start(t, slot[r].key) >= t
  BY <1>2 DEF Start
<1>5. tat'[k] = Swept(t)[k] \/ tat'[k] = Start(t, slot[r].key) + Interval
  BY <1>1, <1>2
<1>6. QED
  BY <1>2, <1>3, <1>4, <1>5, <1>0

LEMMA KeysInit == Init => KeysInv
<1> SUFFICES ASSUME Init
             PROVE  KeysInv
  OBVIOUS
<1>1. TypeOK
  BY Constant DEF Init, TypeOK
<1>2. InFlight = {}
  BY DEF Init, InFlight
<1>3. lastSweep <= now
  BY Constant DEF Init
<1>4. QED
  BY <1>1, <1>2, <1>3 DEF Init, KeysInv

\* The table of the limiter has a time for each key, and a request that waits
\* for the mutex a time, for every delay.
THEOREM LimiterTypes == Spec => []TypeOK
<1>1. KeysInv => TypeOK
  BY DEF KeysInv
<1>2. QED
  BY <1>1, KeysInit, KeysNext, PTL DEF Spec

\* What Limit and Allow guarantee to a client, however late a request gets
\* the mutex: it is counted under its own address, a refused one is let in
\* when it was told, and an idle one does not stay in the table.
THEOREM KeysAreFair == Spec => FairKeys
<1>1. Init => KeysInv
  BY KeysInit
<1>2. KeysInv => NoForeignKey
  BY DEF KeysInv, NoForeignKey
<1>3. ASSUME KeysInv, NEW r \in Request, RefuseEarly(r)
      PROVE  promise[slot[r].key] = 0 \/ slot[r].stamp < promise[slot[r].key]
  BY <1>3, KeysRefuse
<1>4. KeysInv /\ [Next]_vars =>
        [\A r \in Request :
           RefuseEarly(r) => promise[slot[r].key] = 0 \/ slot[r].stamp < promise[slot[r].key]]_vars
  BY <1>3
<1>5. KeysInv /\ [Next]_vars =>
        [\A r \in Request : Allow(r) =>
           \A k \in Keys : tat'[k] # 0 => tat'[k] > slot[r].stamp - Sweep - Delay]_vars
  BY KeysGo
<1>6. QED
  BY <1>1, <1>2, <1>4, <1>5, KeysNext, PTL DEF Spec, FairKeys, RetryAfterHolds, IdleKeysGo

-----------------------------------------------------------------------------
(* The accounts.                                                           *)

CONSTANT Address

VARIABLE req

Accounts == INSTANCE Accounts

\* Stored emails are normalized, and no two accounts share an address.
RowsInv ==
  /\ account \in [Id -> Accounts!Row \cup {Accounts!None}]
  /\ \A a \in Accounts!Users : account[a].email.form = "plain"
  /\ \A a, b \in Accounts!Users : account[a].email.addr = account[b].email.addr => a = b

\* What the user typed last is what the row has, before its normalization.
TypedInv ==
  /\ DOMAIN typed = Id /\ typed = [a \in Id |-> typed[a]]
  /\ \A a \in Accounts!Users :
       /\ typed[a] \in [email : Accounts!Email, password : Accounts!Password]
       /\ typed[a].email.addr = account[a].email.addr
       /\ Accounts!ValidEmail(typed[a].email)
       /\ Accounts!ValidPassword(typed[a].password)
       /\ account[a].hash = Accounts!HashPassword(typed[a].password)

\* A hash never changes, so a login that checks one checks that of the row.
LoginInv ==
  /\ req = [r \in Request |-> req[r]]
  /\ \A r \in Request : req[r].at = "checking" =>
       req[r].id \in Accounts!Users /\ req[r].hash = account[req[r].id].hash
  /\ \A r \in Request : req[r].at = "rereading" => req[r].error \in {"invalid", "taken"}
  /\ \A l \in logins : l[1] \in Accounts!Users /\ typed[l[1]].password = l[2]

AccountsInv == RowsInv /\ TypedInv /\ LoginInv

LEMMA PasswordOfHash ==
  ASSUME NEW p, NEW q
  PROVE  Accounts!VerifyPassword(Accounts!HashPassword(p), q) <=> p = q
<1>1. /\ Accounts!HashPassword(p).iterations = 600000
      /\ Accounts!HashPassword(p).password = p
  BY DEF Accounts!HashPassword
<1>2. QED
  BY <1>1 DEF Accounts!VerifyPassword

LEMMA RowIsNotNone == \A row \in Accounts!Row : row # Accounts!None
BY DEF Accounts!Row, Accounts!None

LEMMA Row ==
  ASSUME RowsInv, NEW a \in Accounts!Users
  PROVE  a \in Id /\ account[a] \in Accounts!Row
BY DEF RowsInv, Accounts!Users

\* The index finds the account with the address, in any spelling.
LEMMA HoldersHaveAddress ==
  ASSUME RowsInv, NEW e \in Accounts!Email
  PROVE  /\ Accounts!NormalizeEmail(e) \in Accounts!Email
         /\ Accounts!NormalizeEmail(e).form = "plain"
         /\ Accounts!NormalizeEmail(e).addr = e.addr
         /\ Accounts!Holders(Accounts!NormalizeEmail(e)) =
              {a \in Accounts!Users : account[a].email.addr = e.addr}
<1> DEFINE norm == Accounts!NormalizeEmail(e)
<1>1. norm \in Accounts!Email /\ norm.form = "plain" /\ norm.addr = e.addr
  BY DEF Accounts!NormalizeEmail, Accounts!Email
<1>2. \A x, y \in Accounts!Email : x.form = "plain" /\ y.form = "plain" => (x = y <=> x.addr = y.addr)
  BY DEF Accounts!Email
<1> HIDE DEF norm
<1>3. ASSUME NEW a \in Accounts!Users
      PROVE  Accounts!Lower(account[a].email) = Accounts!Lower(norm) <=> account[a].email.addr = e.addr
  <2>1. account[a].email \in Accounts!Email /\ account[a].email.form = "plain"
    BY Row DEF RowsInv, Accounts!Row
  <2>2. Accounts!Lower(norm) = norm /\ Accounts!Lower(account[a].email) = account[a].email
    BY <1>1, <2>1 DEF Accounts!Lower
  <2>3. QED
    BY <1>1, <1>2, <2>1, <2>2
<1>4. Accounts!Holders(norm) = {a \in Accounts!Users : account[a].email.addr = e.addr}
  BY <1>3 DEF Accounts!Holders
<1>5. QED
  BY <1>1, <1>4 DEF norm

LEMMA RegisterStep ==
  ASSUME AccountsInv, NEW id \in Id, NEW e \in Accounts!Email, NEW n \in Accounts!Name,
         NEW p \in Accounts!Password, Accounts!Register(id, e, n, p)
  PROVE  AccountsInv'
<1> DEFINE row == [email |-> Accounts!NormalizeEmail(e), name |-> n, hash |-> Accounts!HashPassword(p)]
           norm == Accounts!NormalizeEmail(e)
<1>1. norm \in Accounts!Email /\ norm.form = "plain" /\ norm.addr = e.addr
  BY HoldersHaveAddress DEF AccountsInv
<1>2. row \in Accounts!Row /\ row.email = norm /\ row.hash = Accounts!HashPassword(p)
  BY <1>1 DEF Accounts!Row, Accounts!Hash, Accounts!HashPassword
<1>3. /\ account[id] = Accounts!None
      /\ account' = [account EXCEPT ![id] = row]
      /\ typed' = [typed EXCEPT ![id] = [email |-> e, password |-> p]]
      /\ UNCHANGED <<req, logins>>
      /\ Accounts!ValidEmail(e) /\ Accounts!ValidPassword(p)
      /\ \A a \in Accounts!Users : account[a].email.addr # e.addr
  BY HoldersHaveAddress DEF Accounts!Register, AccountsInv
<1> HIDE DEF row, norm
<1>4. /\ account'[id] = row /\ typed'[id] = [email |-> e, password |-> p]
      /\ \A a \in Id : a # id => account'[a] = account[a] /\ typed'[a] = typed[a]
      /\ account' \in [Id -> Accounts!Row \cup {Accounts!None}]
      /\ DOMAIN typed' = Id /\ typed' = [a \in Id |-> typed'[a]]
  BY <1>2, <1>3 DEF AccountsInv, RowsInv, TypedInv
<1>5. /\ Accounts!Users' = Accounts!Users \cup {id} /\ id \notin Accounts!Users
      /\ Accounts!Users \subseteq Id
  BY <1>2, <1>3, <1>4, RowIsNotNone DEF Accounts!Users
<1>6. RowsInv'
  BY <1>1, <1>2, <1>3, <1>4, <1>5 DEF AccountsInv, RowsInv
<1>7. TypedInv'
  <2>1. ASSUME NEW a \in Accounts!Users'
        PROVE  /\ typed'[a] \in [email : Accounts!Email, password : Accounts!Password]
               /\ typed'[a].email.addr = account'[a].email.addr
               /\ Accounts!ValidEmail(typed'[a].email)
               /\ Accounts!ValidPassword(typed'[a].password)
               /\ account'[a].hash = Accounts!HashPassword(typed'[a].password)
    <3>1. CASE a = id
      BY <1>1, <1>2, <1>3, <1>4, <3>1
    <3>2. CASE a # id
      <4>1. a \in Accounts!Users /\ account'[a] = account[a] /\ typed'[a] = typed[a]
        BY <1>4, <1>5, <3>2
      <4>2. QED
        BY <4>1 DEF AccountsInv, TypedInv
    <3>3. QED
      BY <3>1, <3>2
  <2>2. QED
    BY <1>4, <2>1 DEF TypedInv, Accounts!ValidEmail, Accounts!ValidPassword, Accounts!HashPassword
<1>8. LoginInv'
  BY <1>3, <1>4, <1>5 DEF AccountsInv, LoginInv
<1>9. QED
  BY <1>6, <1>7, <1>8 DEF AccountsInv

LEMMA UpdateStep ==
  ASSUME AccountsInv, NEW r \in Request, NEW id \in Id, NEW e \in Accounts!Email,
         NEW n \in Accounts!Name, Accounts!Update(r, id, e, n)
  PROVE  AccountsInv'
<1> DEFINE norm == Accounts!NormalizeEmail(e)
<1>1. norm \in Accounts!Email /\ norm.form = "plain" /\ norm.addr = e.addr
  BY HoldersHaveAddress DEF AccountsInv
<1>2. /\ id \in Accounts!Users
      /\ account' = [account EXCEPT ![id].email = norm, ![id].name = n]
      /\ typed' = [typed EXCEPT ![id].email = e]
      /\ req' = [req EXCEPT ![r] = [at |-> "saved"]] /\ UNCHANGED logins
      /\ Accounts!ValidEmail(e)
      /\ \A a \in Accounts!Users : account[a].email.addr = e.addr => a = id
  BY HoldersHaveAddress DEF Accounts!Update, Accounts!Users, AccountsInv
<1> HIDE DEF norm
<1>3. account[id] \in Accounts!Row /\ typed[id] \in [email : Accounts!Email, password : Accounts!Password]
  BY <1>2, Row DEF AccountsInv, TypedInv
<1>4. /\ account'[id] \in Accounts!Row /\ account'[id].email = norm
      /\ account'[id].hash = account[id].hash
      /\ \A a \in Id : a # id => account'[a] = account[a]
  BY <1>1, <1>2, <1>3 DEF AccountsInv, RowsInv, Accounts!Row
<1>5. /\ typed'[id] \in [email : Accounts!Email, password : Accounts!Password]
      /\ typed'[id].email = e /\ typed'[id].password = typed[id].password
      /\ \A a \in Id : a # id => typed'[a] = typed[a]
      /\ DOMAIN typed' = Id /\ typed' = [a \in Id |-> typed'[a]]
  BY <1>2, <1>3 DEF AccountsInv, TypedInv
<1>6. /\ Accounts!Users' = Accounts!Users /\ Accounts!Users \subseteq Id
      /\ account' \in [Id -> Accounts!Row \cup {Accounts!None}]
  BY <1>2, <1>4, RowIsNotNone DEF Accounts!Users, AccountsInv, RowsInv
<1>7. RowsInv'
  BY <1>1, <1>2, <1>4, <1>6 DEF AccountsInv, RowsInv
<1>8. TypedInv'
  <2>1. ASSUME NEW a \in Accounts!Users'
        PROVE  /\ typed'[a] \in [email : Accounts!Email, password : Accounts!Password]
               /\ typed'[a].email.addr = account'[a].email.addr
               /\ Accounts!ValidEmail(typed'[a].email)
               /\ Accounts!ValidPassword(typed'[a].password)
               /\ account'[a].hash = Accounts!HashPassword(typed'[a].password)
    <3>1. CASE a = id
      BY <1>1, <1>2, <1>4, <1>5, <3>1 DEF AccountsInv, TypedInv
    <3>2. CASE a # id
      BY <1>4, <1>5, <1>6, <3>2 DEF AccountsInv, TypedInv
    <3>3. QED
      BY <3>1, <3>2
  <2>2. QED
    BY <1>5, <2>1 DEF TypedInv, Accounts!ValidEmail, Accounts!ValidPassword, Accounts!HashPassword
<1>9. LoginInv'
  <2>1. \A a \in Accounts!Users : account'[a].hash = account[a].hash /\ typed'[a].password = typed[a].password
    BY <1>4, <1>5, <1>6
  <2>2. req' = [q \in Request |-> req'[q]] /\ req'[r].at = "saved" /\ \A q \in Request : q # r => req'[q] = req[q]
    BY <1>2 DEF AccountsInv, LoginInv
  <2>3. QED
    BY <1>2, <1>6, <2>1, <2>2 DEF AccountsInv, LoginInv
<1>10. QED
  BY <1>7, <1>8, <1>9 DEF AccountsInv

\* The steps of a request that leave the tables alone.
LEMMA RequestStep ==
  ASSUME AccountsInv, NEW r \in Request, UNCHANGED <<account, typed>>,
         req' = [req EXCEPT ![r] = req'[r]],
         req'[r].at = "checking" =>
           req'[r].id \in Accounts!Users /\ req'[r].hash = account[req'[r].id].hash,
         req'[r].at = "rereading" => req'[r].error \in {"invalid", "taken"},
         \A l \in logins' : l[1] \in Accounts!Users /\ typed[l[1]].password = l[2]
  PROVE  AccountsInv'
<1>1. RowsInv' /\ TypedInv' /\ Accounts!Users' = Accounts!Users
  BY DEF AccountsInv, RowsInv, TypedInv, Accounts!Users, Accounts!ValidEmail,
         Accounts!ValidPassword, Accounts!HashPassword
<1>2. req' = [q \in Request |-> req'[q]] /\ \A q \in Request : q # r => req'[q] = req[q]
  BY DEF AccountsInv, LoginInv
<1>3. LoginInv'
  BY <1>1, <1>2 DEF AccountsInv, LoginInv
<1>4. QED
  BY <1>1, <1>3 DEF AccountsInv

LEMMA AccountsStep == AccountsInv /\ [Accounts!Next]_Accounts!vars => AccountsInv'
<1> SUFFICES ASSUME AccountsInv, [Accounts!Next]_Accounts!vars
             PROVE  AccountsInv'
  OBVIOUS
<1> req = [r \in Request |-> req[r]] /\ \A l \in logins : l[1] \in Accounts!Users /\ typed[l[1]].password = l[2]
  BY DEF AccountsInv, LoginInv
<1>1. ASSUME NEW r \in Request, Accounts!ReadLogin(r)
      PROVE  AccountsInv'
  <2>1. PICK e \in Accounts!Email, p \in Accounts!Password :
          req' = [req EXCEPT ![r] =
            IF Accounts!Found(e, p) = {} THEN [at |-> "refused"]
            ELSE LET id == CHOOSE id \in Accounts!Found(e, p) : TRUE
                 IN [at |-> "checking", id |-> id, hash |-> account[id].hash, password |-> p]]
    BY <1>1 DEF Accounts!ReadLogin
  <2>2. Accounts!Found(e, p) \subseteq Accounts!Users
    BY DEF Accounts!Found, Accounts!Holders
  <2> DEFINE found == CHOOSE id \in Accounts!Found(e, p) : TRUE
  <2>3. Accounts!Found(e, p) # {} => found \in Accounts!Found(e, p)
    OBVIOUS
  <2>4. \/ req'[r] = [at |-> "refused"]
        \/ /\ Accounts!Found(e, p) # {}
           /\ req'[r] = [at |-> "checking", id |-> found, hash |-> account[found].hash, password |-> p]
    BY <2>1
  <2> HIDE DEF found
  <2>5. req'[r].at = "checking" =>
          req'[r].id \in Accounts!Users /\ req'[r].hash = account[req'[r].id].hash
    BY <2>2, <2>3, <2>4
  <2>9. req'[r].at # "rereading"
    BY <2>4
  <2>6. UNCHANGED <<account, typed, logins>>
    BY <1>1 DEF Accounts!ReadLogin
  <2>7. req' = [req EXCEPT ![r] = req'[r]]
    BY <2>1
  <2>8. QED
    BY <2>5, <2>6, <2>7, <2>9, RequestStep
<1>2. ASSUME NEW r \in Request, Accounts!FinishLogin(r)
      PROVE  AccountsInv'
  <2>1. /\ req[r].id \in Accounts!Users /\ req[r].hash = account[req[r].id].hash
        /\ account[req[r].id].hash = Accounts!HashPassword(typed[req[r].id].password)
    BY <1>2 DEF Accounts!FinishLogin, AccountsInv, LoginInv, TypedInv
  <2>2. /\ UNCHANGED <<account, typed>> /\ req' = [req EXCEPT ![r] = req'[r]]
        /\ req'[r].at \notin {"checking", "rereading"}
    BY <1>2 DEF Accounts!FinishLogin
  <2>3. \/ UNCHANGED logins
        \/ /\ Accounts!VerifyPassword(req[r].hash, req[r].password)
           /\ logins' = logins \cup {<<req[r].id, req[r].password>>}
    BY <1>2 DEF Accounts!FinishLogin
  <2>4. Accounts!VerifyPassword(req[r].hash, req[r].password) =>
          typed[req[r].id].password = req[r].password
    BY <2>1, PasswordOfHash
  <2>5. \A l \in logins' : l[1] \in Accounts!Users /\ typed[l[1]].password = l[2]
    BY <2>1, <2>3, <2>4
  <2>6. QED
    BY <2>2, <2>5, RequestStep
<1>3. ASSUME NEW r \in Request, Accounts!Reread(r)
      PROVE  AccountsInv'
  <2>1. /\ UNCHANGED <<account, typed, logins>> /\ req' = [req EXCEPT ![r] = req'[r]]
        /\ req'[r].at \in {"invalid", "taken"}
    BY <1>3 DEF Accounts!Reread, AccountsInv, LoginInv
  <2>2. QED
    BY <2>1, RequestStep
<1>4. ASSUME NEW r \in Request, Accounts!Finish(r)
      PROVE  AccountsInv'
  <2>1. /\ UNCHANGED <<account, typed, logins>> /\ req' = [req EXCEPT ![r] = req'[r]]
        /\ req'[r].at \notin {"checking", "rereading"}
    BY <1>4 DEF Accounts!Finish, Accounts!Idle
  <2>2. QED
    BY <2>1, RequestStep
<1>5. ASSUME NEW r \in Request, NEW id \in Id, NEW e \in Accounts!Email, NEW n \in Accounts!Name,
             Accounts!UpdateFails(r, id, e, n)
      PROVE  AccountsInv'
  <2>1. /\ UNCHANGED <<account, typed, logins>> /\ req' = [req EXCEPT ![r] = req'[r]]
        /\ req'[r].at = "rereading" /\ req'[r].error \in {"invalid", "taken"}
    BY <1>5 DEF Accounts!UpdateFails
  <2>2. QED
    BY <2>1, RequestStep
<1>6. CASE UNCHANGED Accounts!vars
  BY <1>6 DEF Accounts!vars, AccountsInv, RowsInv, TypedInv, LoginInv, Accounts!Users,
              Accounts!ValidEmail, Accounts!ValidPassword, Accounts!HashPassword
<1>7. QED
  BY <1>1, <1>2, <1>3, <1>4, <1>5, <1>6, RegisterStep, UpdateStep DEF Accounts!Next

\* The types of the accounts, with the password that a login checks.
AccountTypes ==
  /\ Accounts!TypeOK
  /\ \A r \in Request : req[r].at = "checking" => req[r].password \in Accounts!Password

LEMMA AccountTypeStep ==
  AccountsInv /\ AccountTypes /\ [Accounts!Next]_Accounts!vars => AccountTypes'
<1> SUFFICES ASSUME AccountsInv, AccountTypes, [Accounts!Next]_Accounts!vars
             PROVE  AccountTypes'
  OBVIOUS
<1> DEFINE Typed == [email : Accounts!Email, password : Accounts!Password]
           Ats == {"idle", "checking", "rereading"} \cup Accounts!Answer
<1>1. account' \in [Id -> Accounts!Row \cup {Accounts!None}]
  BY AccountsStep DEF AccountsInv, RowsInv
<1>2. typed \in [Id -> Typed \cup {Accounts!None}] /\ req = [r \in Request |-> req[r]]
  BY DEF AccountTypes, Accounts!TypeOK, AccountsInv, LoginInv
<1>3. ASSUME NEW r \in Request, req' = [req EXCEPT ![r] = req'[r]], req'[r].at \in Ats,
             req'[r].at = "checking" => req'[r].password \in Accounts!Password
      PROVE  /\ \A q \in Request : req'[q].at \in Ats
             /\ \A q \in Request : req'[q].at = "checking" => req'[q].password \in Accounts!Password
  <2>1. \A q \in Request : q # r => req'[q] = req[q]
    BY <1>2, <1>3
  <2>2. QED
    BY <1>3, <2>1 DEF AccountTypes, Accounts!TypeOK
<1>4. ASSUME NEW id \in Id, NEW e \in Accounts!Email, NEW n \in Accounts!Name,
             NEW p \in Accounts!Password, Accounts!Register(id, e, n, p)
      PROVE  AccountTypes'
  <2>1. [email |-> e, password |-> p] \in Typed
    OBVIOUS
  <2>2. typed' \in [Id -> Typed \cup {Accounts!None}] /\ UNCHANGED <<req, logins>>
    BY <1>2, <1>4, <2>1 DEF Accounts!Register
  <2>3. QED
    BY <1>1, <2>2 DEF AccountTypes, Accounts!TypeOK
<1>5. ASSUME NEW r \in Request, Accounts!ReadLogin(r)
      PROVE  AccountTypes'
  <2>1. PICK e \in Accounts!Email, p \in Accounts!Password :
          req' = [req EXCEPT ![r] =
            IF Accounts!Found(e, p) = {} THEN [at |-> "refused"]
            ELSE LET id == CHOOSE id \in Accounts!Found(e, p) : TRUE
                 IN [at |-> "checking", id |-> id, hash |-> account[id].hash, password |-> p]]
    BY <1>5 DEF Accounts!ReadLogin
  <2>2. /\ req' = [req EXCEPT ![r] = req'[r]] /\ req'[r].at \in {"refused", "checking"}
        /\ req'[r].at = "checking" => req'[r].password = p
    BY <1>2, <2>1
  <2>3. req'[r].at \in Ats
    BY <2>2 DEF Accounts!Answer
  <2>4. UNCHANGED <<account, typed, logins>>
    BY <1>5 DEF Accounts!ReadLogin
  <2>5. QED
    BY <1>1, <1>2, <1>3, <2>2, <2>3, <2>4 DEF AccountTypes, Accounts!TypeOK
<1>6. ASSUME NEW r \in Request, Accounts!FinishLogin(r)
      PROVE  AccountTypes'
  <2>1. /\ req' = [req EXCEPT ![r] = req'[r]] /\ req'[r].at \in {"started", "refused"}
        /\ UNCHANGED <<account, typed>>
    BY <1>2, <1>6 DEF Accounts!FinishLogin
  <2>2. req[r].id \in Id /\ req[r].password \in Accounts!Password
    BY <1>6 DEF Accounts!FinishLogin, AccountsInv, LoginInv, AccountTypes, Accounts!Users
  <2>3. logins' \subseteq Id \X Accounts!Password
    BY <1>6, <2>2 DEF Accounts!FinishLogin, AccountTypes, Accounts!TypeOK
  <2>4. QED
    BY <1>1, <1>2, <1>3, <2>1, <2>3 DEF AccountTypes, Accounts!TypeOK, Accounts!Answer
<1>7. ASSUME NEW r \in Request, NEW id \in Id, NEW e \in Accounts!Email, NEW n \in Accounts!Name,
             Accounts!Update(r, id, e, n)
      PROVE  AccountTypes'
  <2>1. typed[id] \in Typed
    BY <1>7 DEF Accounts!Update, AccountsInv, TypedInv, Accounts!Users
  <2>2. [typed[id] EXCEPT !.email = e] \in Typed
    BY <2>1
  <2>3. typed' \in [Id -> Typed \cup {Accounts!None}]
    BY <1>2, <1>7, <2>2 DEF Accounts!Update
  <2>4. req' = [req EXCEPT ![r] = req'[r]] /\ req'[r].at = "saved" /\ logins' = logins
    BY <1>2, <1>7 DEF Accounts!Update
  <2>5. QED
    BY <1>1, <1>3, <2>3, <2>4 DEF AccountTypes, Accounts!TypeOK, Accounts!Answer
<1>8. ASSUME NEW r \in Request, NEW id \in Id, NEW e \in Accounts!Email, NEW n \in Accounts!Name,
             Accounts!UpdateFails(r, id, e, n)
      PROVE  AccountTypes'
  <2>1. /\ req' = [req EXCEPT ![r] = req'[r]] /\ req'[r].at = "rereading"
        /\ UNCHANGED <<account, typed, logins>>
    BY <1>2, <1>8 DEF Accounts!UpdateFails
  <2>2. QED
    BY <1>1, <1>2, <1>3, <2>1 DEF AccountTypes, Accounts!TypeOK
<1>9. ASSUME NEW r \in Request, Accounts!Reread(r) \/ Accounts!Finish(r)
      PROVE  AccountTypes'
  <2>1. /\ req' = [req EXCEPT ![r] = req'[r]] /\ req'[r].at \in {"idle", "invalid", "taken"}
        /\ UNCHANGED <<account, typed, logins>>
    BY <1>2, <1>9 DEF Accounts!Reread, Accounts!Finish, Accounts!Idle, AccountsInv, LoginInv
  <2>2. QED
    BY <1>1, <1>2, <1>3, <2>1 DEF AccountTypes, Accounts!TypeOK, Accounts!Answer
<1>10. CASE UNCHANGED Accounts!vars
  BY <1>1, <1>10 DEF Accounts!vars, AccountTypes, Accounts!TypeOK
<1>11. QED
  BY <1>4, <1>5, <1>6, <1>7, <1>8, <1>9, <1>10 DEF Accounts!Next

LEMMA AccountsInit == Accounts!Init => AccountsInv /\ AccountTypes
<1>1. Accounts!Init => AccountsInv
  BY DEF Accounts!Init, AccountsInv, RowsInv, TypedInv, LoginInv, Accounts!Users, Accounts!Idle
<1>2. Accounts!Init => AccountTypes
  BY DEF Accounts!Init, AccountTypes, Accounts!TypeOK, Accounts!Idle
<1>3. QED
  BY <1>1, <1>2

\* A row is a row and a login checks a password that a user can type, for every
\* number of accounts, addresses and requests.
THEOREM AccountTypesHold == Accounts!Spec => []Accounts!TypeOK
<1>1. AccountTypes => Accounts!TypeOK
  BY DEF AccountTypes
<1>2. QED
  BY <1>1, AccountsInit, AccountsStep, AccountTypeStep, PTL DEF Accounts!Spec

\* Register, Authenticate and UpdateProfile keep one account for each address,
\* which what its user typed opens and nothing else does.
THEOREM OneOwnerHolds == Accounts!Spec => []OneOwner
<1>1. Accounts!Init => AccountsInv
  BY AccountsInit
<1>2. AccountsInv => Accounts!OneAccountPerAddress
  BY DEF AccountsInv, RowsInv, Accounts!OneAccountPerAddress
<1>3. AccountsInv => Accounts!LoginsHavePassword
  BY DEF AccountsInv, LoginInv, Accounts!LoginsHavePassword
<1>4. AccountsInv => Accounts!TypedOpensAccount
  <2> SUFFICES ASSUME AccountsInv, NEW id \in Accounts!Users
               PROVE  /\ Accounts!Found(typed[id].email, typed[id].password) = {id}
                      /\ Accounts!VerifyPassword(account[id].hash, typed[id].password)
    BY DEF Accounts!TypedOpensAccount
  <2>1. /\ typed[id].email \in Accounts!Email
        /\ typed[id].email.addr = account[id].email.addr
        /\ Accounts!ValidEmail(typed[id].email)
        /\ Accounts!ValidPassword(typed[id].password)
        /\ account[id].hash = Accounts!HashPassword(typed[id].password)
    BY DEF AccountsInv, TypedInv
  <2>2. Accounts!Holders(Accounts!NormalizeEmail(typed[id].email)) =
          {a \in Accounts!Users : account[a].email.addr = typed[id].email.addr}
    BY <2>1, HoldersHaveAddress DEF AccountsInv
  <2>3. \A a \in Accounts!Users : account[a].email.addr = typed[id].email.addr <=> a = id
    BY <2>1 DEF AccountsInv, RowsInv
  <2>4. Accounts!Found(typed[id].email, typed[id].password) = {id}
    BY <2>1, <2>2, <2>3 DEF Accounts!Found, Accounts!ValidPassword
  <2>5. Accounts!VerifyPassword(account[id].hash, typed[id].password)
    BY <2>1, PasswordOfHash
  <2>6. QED
    BY <2>4, <2>5
<1>5. QED
  <2>1. AccountsInv => OneOwner
    BY <1>2, <1>3, <1>4
    DEF OneOwner, OneAccountPerAddress, TypedOpensAccount, LoginsHavePassword, Found, Holders, Users,
        Lower, NormalizeEmail, ValidEmail, VerifyPassword, None,
        Accounts!OneAccountPerAddress, Accounts!TypedOpensAccount, Accounts!LoginsHavePassword,
        Accounts!Found, Accounts!Holders, Accounts!Users, Accounts!Lower, Accounts!NormalizeEmail,
        Accounts!ValidEmail, Accounts!VerifyPassword, Accounts!None
  <2>2. QED
    BY <1>1, <2>1, AccountsStep, PTL DEF Accounts!Spec

-----------------------------------------------------------------------------
(* A triage.                                                               *)

CONSTANTS AcquireMax, WriteMax, ReadMax, StatementMax, TriageMax, Value

VARIABLES spent, clock

Triage == INSTANCE Triage

\* The limits leave time for the page: an identity or a body that took as long
\* as it may, and then a provider that did.
InTime ==
  /\ AcquireMax \in Nat /\ StatementMax \in Nat /\ ReadMax \in Nat /\ TriageMax \in Nat
  /\ WriteMax \in Nat
  /\ AcquireMax + StatementMax + TriageMax < WriteMax /\ ReadMax + TriageMax < WriteMax

\* The time is spent on what came before the provider, and on the provider.
Within(more) == clock <= AcquireMax + StatementMax + more \/ clock <= ReadMax + more

ClockInv ==
  /\ phase \in {"identity", "form", "message", "ask", "decide", "write", "end"}
  /\ spent \in Nat /\ clock \in Nat
  /\ phase = "identity" => clock = spent /\ spent <= AcquireMax + StatementMax
  /\ phase \in {"form", "message"} => Within(0)
  /\ phase = "ask" => spent <= TriageMax /\ Within(spent)
  /\ phase \in {"decide", "write"} => Within(TriageMax)
  /\ phase = "end" => arrived

\* The answers of the fake are the uniform ones, and a decision stays with the
\* answers that it was made from.
AnswerInv ==
  /\ \A id \in DOMAIN resp : resp[id].value \in Int
  /\ provider = "fake" /\ phase = "decide" =>
       resp = [id \in DOMAIN Triage!Questions |-> Triage!Uniform(Triage!Questions[id])]
  /\ phase \notin {"write", "end"} => decision = Triage!NoDecision /\ status # 200
  /\ Triage!DecisionIsGrounded /\ Triage!FakeIsReviewed

LEMMA ClockStep ==
  ASSUME InTime, ClockInv, [Triage!Next]_Triage!vars
  PROVE  ClockInv'
<1> USE DEF InTime, ClockInv, Within, Triage!Timeless, Triage!Answered, Triage!Enter
<1>1. CASE Triage!Tick
  <2>1. /\ spent < Triage!Limit[phase] /\ (phase = "form" => clock < ReadMax)
        /\ spent' = spent + 1 /\ clock' = clock + 1 /\ UNCHANGED <<phase, arrived>>
    BY <1>1 DEF Triage!Tick
  <2>2. /\ phase = "identity" => spent < AcquireMax + StatementMax
        /\ phase = "ask" => spent < TriageMax
        /\ phase \in {"message", "decide", "write", "end"} => spent < 0
    BY <2>1 DEF Triage!Limit
  <2>3. QED
    BY <2>1, <2>2
<1>2. CASE Triage!LoadIdentity
  BY <1>2 DEF Triage!LoadIdentity
<1>3. CASE Triage!ParseForm
  BY <1>3 DEF Triage!ParseForm
<1>4. CASE Triage!normalizeMessage
  BY <1>4 DEF Triage!normalizeMessage
<1>5. CASE Triage!AskFake \/ Triage!AskTypesafe \/ Triage!AskFails
  <2>1. /\ phase = "ask" /\ phase' \in {"decide", "write"} /\ spent' = 0
        /\ UNCHANGED <<clock, arrived>>
    BY <1>5 DEF Triage!AskFake, Triage!AskTypesafe, Triage!AskFails
  <2>2. QED
    BY <2>1
<1>6. CASE Triage!decide
  BY <1>6 DEF Triage!decide
<1>7. CASE Triage!Write
  <2>1. phase = "write" /\ clock < WriteMax
    BY <1>7 DEF Triage!Write
  <2>2. arrived' = (clock < WriteMax)
    BY <1>7 DEF Triage!Write
  <2>3. arrived'
    BY <2>1, <2>2
  <2>4. phase' = "end" /\ spent' = 0 /\ clock' = clock
    BY <1>7 DEF Triage!Write
  <2>5. QED
    BY <2>3, <2>4
<1>8. CASE UNCHANGED Triage!vars
  BY <1>8 DEF Triage!vars
<1>9. QED
  BY <1>1, <1>2, <1>3, <1>4, <1>5, <1>6, <1>7, <1>8 DEF Triage!Next

\* A phase before the decision makes none.
LEMMA NoDecisionYet ==
  ASSUME AnswerInv, phase \notin {"write", "end", "decide"}, UNCHANGED <<decision, provider, message>>,
         phase' # "end", phase' = "write" => status' # 200, phase' # "write" => status' = status,
         \A id \in DOMAIN resp' : resp'[id].value \in Int,
         provider = "fake" /\ phase' = "decide" =>
           resp' = [id \in DOMAIN Triage!Questions |-> Triage!Uniform(Triage!Questions[id])]
  PROVE  AnswerInv'
<1>1. decision' = Triage!NoDecision /\ status' # 200
  BY DEF AnswerInv
<1>2. Triage!DecisionIsGrounded' /\ Triage!FakeIsReviewed'
  BY <1>1 DEF Triage!DecisionIsGrounded, Triage!FakeIsReviewed, Triage!NoDecision
<1>3. QED
  BY <1>1, <1>2 DEF AnswerInv, Triage!Questions, Triage!Uniform, Triage!NoDecision

LEMMA DecideStep ==
  ASSUME AnswerInv, Triage!decide
  PROVE  AnswerInv'
<1>1. /\ phase = "decide" /\ phase' = "write" /\ UNCHANGED <<provider, message, resp>>
      /\ decision = Triage!NoDecision
  BY DEF Triage!decide, Triage!Answered, Triage!Enter, Triage!Timeless, AnswerInv
<1>2. CASE ~(Triage!ValidTopic(resp) /\ Triage!ValidUrgent(resp))
  <2>1. decision' = Triage!NoDecision /\ status' = 500
    BY <1>1, <1>2 DEF Triage!decide, Triage!Answered
  <2>2. Triage!DecisionIsGrounded' /\ Triage!FakeIsReviewed'
    BY <2>1 DEF Triage!DecisionIsGrounded, Triage!FakeIsReviewed, Triage!NoDecision
  <2>3. QED
    BY <1>1, <2>1, <2>2 DEF AnswerInv
<1>3. CASE Triage!ValidTopic(resp) /\ Triage!ValidUrgent(resp)
  <2> DEFINE topic == resp["topic"]
             urgent == resp["urgent"]
  <2>1. /\ "topic" \in DOMAIN resp /\ "urgent" \in DOMAIN resp
        /\ topic.type = "choice" /\ urgent.type = "noul"
        /\ topic.choice \in Triage!Options
        /\ topic.value \in 0..10 /\ urgent.value \in 0..10
    BY <1>3 DEF AnswerInv, Triage!ValidTopic, Triage!ValidUrgent, Triage!isProbability,
                Triage!GE, Triage!LE
  <2>2. /\ decision' = [queue |-> Triage!QueueOf(topic), urgent |-> Triage!GE(urgent.value, 7),
                        confidence |-> topic.value, urgency |-> urgent.value]
        /\ status' = 200
    BY <1>3 DEF Triage!decide, Triage!Answered
  <2>3. decision'.queue = Triage!QueueOf(topic) /\ decision'.confidence = topic.value
        /\ decision'.urgent = Triage!GE(urgent.value, 7)
    BY <2>2
  <2>4. \/ Triage!QueueOf(topic) = "review" /\ topic.value < 6
        \/ /\ Triage!QueueOf(topic) = topic.choice /\ topic.choice # "review"
           /\ topic.value >= 6
    BY <2>1 DEF Triage!QueueOf, Triage!Options
  <2>5. Triage!DecisionIsGrounded'
    <3>1. ASSUME NEW id \in {"topic", "urgent"}
          PROVE  id \in DOMAIN resp /\ resp[id].type = Triage!Questions[id].type
                 /\ resp[id].value \in 0..10
      BY <2>1 DEF Triage!Questions
    <3>2. QED
      BY <1>1, <2>3, <2>4, <3>1 DEF Triage!DecisionIsGrounded, Triage!Questions
  <2>6. Triage!FakeIsReviewed'
    <3>1. CASE provider = "fake"
      <4>1. topic.value = 0 /\ urgent.value = 5
        BY <1>1, <3>1 DEF AnswerInv, Triage!Questions, Triage!Uniform
      <4>2. Triage!QueueOf(topic) = "review" /\ ~Triage!GE(urgent.value, 7)
        BY <4>1 DEF Triage!QueueOf, Triage!GE
      <4>3. QED
        BY <2>3, <4>2 DEF Triage!FakeIsReviewed
    <3>2. CASE provider # "fake"
      BY <1>1, <3>2 DEF Triage!FakeIsReviewed
    <3>3. QED
      BY <3>1, <3>2
  <2>7. QED
    BY <1>1, <2>5, <2>6 DEF AnswerInv
<1>4. QED
  BY <1>2, <1>3

LEMMA AnswerStep ==
  ASSUME Value \subseteq Int, AnswerInv, [Triage!Next]_Triage!vars
  PROVE  AnswerInv'
<1> USE DEF Triage!Timeless, Triage!Answered, Triage!Enter
<1>1. CASE Triage!Tick \/ UNCHANGED Triage!vars
  <2>1. UNCHANGED <<phase, provider, message, resp, decision, status>>
    BY <1>1 DEF Triage!Tick, Triage!vars
  <2>2. QED
    BY <2>1 DEF AnswerInv, Triage!DecisionIsGrounded, Triage!FakeIsReviewed, Triage!Questions,
                Triage!Uniform, Triage!NoDecision
<1>2. CASE Triage!LoadIdentity \/ Triage!ParseForm \/ Triage!normalizeMessage \/ Triage!AskFails
  <2>1. /\ phase \notin {"write", "end", "decide"} /\ phase' \notin {"end", "decide"}
        /\ UNCHANGED <<provider, message, decision, resp>>
        /\ phase' = "write" => status' # 200
        /\ phase' # "write" => status' = status
    BY <1>2 DEF Triage!LoadIdentity, Triage!ParseForm, Triage!normalizeMessage, Triage!AskFails
  <2>2. QED
    BY <2>1, NoDecisionYet DEF AnswerInv
<1>3. CASE Triage!AskFake
  <2> DEFINE uniform == [id \in DOMAIN Triage!Questions |-> Triage!Uniform(Triage!Questions[id])]
  <2>1. /\ phase = "ask" /\ UNCHANGED <<provider, message, decision>>
        /\ \/ phase' = "write" /\ status' = 500 /\ resp' = resp
           \/ phase' = "decide" /\ status' = status /\ resp' = uniform
    BY <1>3 DEF Triage!AskFake
  <2>2. \A id \in DOMAIN uniform : uniform[id].value \in Int
    BY DEF Triage!Questions, Triage!Uniform
  <2> HIDE DEF uniform
  <2>3. \A id \in DOMAIN resp' : resp'[id].value \in Int
    BY <2>1, <2>2 DEF AnswerInv
  <2>4. QED
    BY <2>1, <2>3, NoDecisionYet DEF uniform
<1>4. CASE Triage!AskTypesafe
  <2>1. /\ phase = "ask" /\ provider = "typesafe" /\ UNCHANGED <<provider, message, decision>>
        /\ \/ phase' = "write" /\ status' = 500 /\ resp' = resp
           \/ /\ phase' = "decide" /\ status' = status
              /\ \E ids \in SUBSET Triage!Ids : resp' \in [ids -> Triage!Answer]
    BY <1>4 DEF Triage!AskTypesafe
  <2>2. \A id \in DOMAIN resp' : resp'[id].value \in Int
    <3>1. \A a \in Triage!Answer : a.value \in Int
      BY DEF Triage!Answer
    <3>2. CASE resp' = resp
      BY <3>2 DEF AnswerInv
    <3>3. ASSUME NEW ids \in SUBSET Triage!Ids, resp' \in [ids -> Triage!Answer]
          PROVE  \A id \in DOMAIN resp' : resp'[id].value \in Int
      BY <3>1, <3>3
    <3>4. QED
      BY <2>1, <3>2, <3>3
  <2>3. QED
    BY <2>1, <2>2, NoDecisionYet
<1>5. CASE Triage!Write
  <2>1. phase' = "end" /\ UNCHANGED <<provider, message, resp, decision, status>>
    BY <1>5 DEF Triage!Write
  <2>2. QED
    BY <2>1 DEF AnswerInv, Triage!DecisionIsGrounded, Triage!FakeIsReviewed, Triage!Questions
<1>6. QED
  BY <1>1, <1>2, <1>3, <1>4, <1>5, DecideStep DEF Triage!Next

\* handleTriage answers before http.Server.WriteTimeout when the pool gives a
\* connection in time, and decide takes only a good answer to its questions.
THEOREM TriageIsSafe ==
  ASSUME InTime, Value \subseteq Int
  PROVE  Triage!Spec => []SafeDecision
<1>1. Triage!Init => ClockInv /\ AnswerInv
  BY DEF InTime, Triage!Init, ClockInv, AnswerInv, Triage!NoAnswers, Triage!DecisionIsGrounded,
         Triage!FakeIsReviewed, Triage!NoDecision
<1>2. ClockInv /\ AnswerInv => SafeDecision
  BY DEF ClockInv, AnswerInv, Triage!DecisionIsGrounded, Triage!FakeIsReviewed, Triage!Questions,
         Triage!Options, Triage!NoDecision, SafeDecision, DecisionIsGrounded, FakeIsReviewed,
         PageArrives, Questions, Options, NoDecision
<1>3. ClockInv /\ AnswerInv /\ [Triage!Next]_Triage!vars => (ClockInv /\ AnswerInv)'
  BY ClockStep, AnswerStep
<1>4. QED
  BY <1>1, <1>2, <1>3, PTL DEF Triage!Spec
-----------------------------------------------------------------------------
(* The types of a triage.                                                  *)

Decisions ==
  [queue : Triage!Options \cup {"review"}, urgent : BOOLEAN, confidence : 0..10, urgency : 0..10]

\* A good answer gives a decision of its type.
LEMMA DecideType ==
  ASSUME Value \subseteq Int, Triage!TypeOK, Triage!ValidTopic(resp), Triage!ValidUrgent(resp)
  PROVE  [queue |-> Triage!QueueOf(resp["topic"]), urgent |-> Triage!GE(resp["urgent"].value, 7),
          confidence |-> resp["topic"].value, urgency |-> resp["urgent"].value] \in Decisions
<1>1. /\ resp["topic"].value \in Int /\ resp["urgent"].value \in Int
      /\ resp["topic"].choice \in Triage!Options
  BY DEF Triage!ValidTopic, Triage!ValidUrgent, Triage!TypeOK, Triage!Answer
<1>2. resp["topic"].value \in 0..10 /\ resp["urgent"].value \in 0..10
  BY <1>1 DEF Triage!ValidTopic, Triage!ValidUrgent, Triage!isProbability, Triage!GE, Triage!LE
<1>3. /\ Triage!QueueOf(resp["topic"]) \in Triage!Options \cup {"review"}
      /\ Triage!GE(resp["urgent"].value, 7) \in BOOLEAN
  BY <1>1 DEF Triage!QueueOf, Triage!GE
<1>4. QED
  BY <1>2, <1>3 DEF Decisions

LEMMA TriageTypeStep ==
  ASSUME Value \subseteq Int, {0, 5} \subseteq Value, Triage!TypeOK, [Triage!Next]_Triage!vars
  PROVE  Triage!TypeOK'
<1> USE DEF Triage!Timeless, Triage!Answered, Triage!Enter
<1>1. CASE Triage!Tick \/ Triage!LoadIdentity \/ Triage!ParseForm \/ Triage!normalizeMessage
           \/ Triage!AskFails \/ UNCHANGED Triage!vars
  <2>1. UNCHANGED <<provider, message, resp, decision, arrived>>
    BY <1>1 DEF Triage!Tick, Triage!LoadIdentity, Triage!ParseForm, Triage!normalizeMessage,
                Triage!AskFails, Triage!vars
  <2>2. /\ phase' \in {"identity", "form", "message", "ask", "decide", "write", "end"}
        /\ spent' \in Nat /\ clock' \in Nat /\ status' \in {0, 200, 400, 422, 500}
    BY <1>1 DEF Triage!Tick, Triage!LoadIdentity, Triage!ParseForm, Triage!normalizeMessage,
                Triage!AskFails, Triage!vars, Triage!TypeOK
  <2>3. QED
    BY <2>1, <2>2 DEF Triage!TypeOK
<1>2. CASE Triage!AskFake \/ Triage!AskTypesafe
  <2> DEFINE uniform == [id \in DOMAIN Triage!Questions |-> Triage!Uniform(Triage!Questions[id])]
  <2>1. /\ phase' \in {"decide", "write"} /\ spent' = 0 /\ status' \in {status, 500}
        /\ UNCHANGED <<clock, provider, message, decision, arrived>>
    BY <1>2 DEF Triage!AskFake, Triage!AskTypesafe
  <2>2. \/ resp' = resp
        \/ resp' = uniform
        \/ \E ids \in SUBSET Triage!Ids : resp' \in [ids -> Triage!Answer]
    BY <1>2 DEF Triage!AskFake, Triage!AskTypesafe
  <2>3. uniform \in [Triage!Ids -> Triage!Answer]
    BY DEF Triage!Questions, Triage!Uniform, Triage!Ids, Triage!Answer, Triage!Types, Triage!Options
  <2> HIDE DEF uniform
  <2>4. DOMAIN resp' \subseteq Triage!Ids /\ \A id \in DOMAIN resp' : resp'[id] \in Triage!Answer
    BY <2>2, <2>3 DEF Triage!TypeOK
  <2>5. QED
    BY <2>1, <2>4 DEF Triage!TypeOK
<1>3. CASE Triage!decide
  <2>1. /\ phase' = "write" /\ spent' = 0 /\ status' \in {200, 500}
        /\ UNCHANGED <<clock, provider, message, resp, arrived>>
    BY <1>3 DEF Triage!decide
  <2>2. decision' = decision \/ decision' \in Decisions
    BY <1>3, DecideType DEF Triage!decide
  <2>3. QED
    BY <2>1, <2>2 DEF Triage!TypeOK, Decisions
<1>4. CASE Triage!Write
  <2>1. /\ phase' = "end" /\ spent' = 0 /\ arrived' \in BOOLEAN
        /\ UNCHANGED <<clock, provider, message, resp, decision, status>>
    BY <1>4 DEF Triage!Write
  <2>2. QED
    BY <2>1 DEF Triage!TypeOK
<1>5. QED
  BY <1>1, <1>2, <1>3, <1>4 DEF Triage!Next

\* decide gives a queue of the form or the review and numbers that are
\* probabilities, whatever numbers a provider answers, and the answers of the
\* fake are ones that the API could give.
THEOREM TriageTypes ==
  ASSUME Value \subseteq Int, {0, 5} \subseteq Value
  PROVE  Triage!Spec => []Triage!TypeOK
<1>1. Triage!Init => Triage!TypeOK
  <2>1. DOMAIN Triage!NoAnswers = {}
    BY DEF Triage!NoAnswers
  <2> SUFFICES ASSUME Triage!Init
               PROVE  Triage!TypeOK
    OBVIOUS
  <2>2. /\ DOMAIN resp = {} /\ decision = Triage!NoDecision
        /\ provider \in {"fake", "typesafe"}
        /\ message \in {"text", "spaced", "blank", "binary", "long"}
    BY <2>1 DEF Triage!Init
  <2>3. /\ phase = "identity" /\ spent \in Nat /\ clock \in Nat /\ status = 0 /\ arrived = FALSE
    BY DEF Triage!Init
  <2>4. QED
    BY <2>2, <2>3 DEF Triage!TypeOK
<1>2. Triage!TypeOK /\ [Triage!Next]_Triage!vars => Triage!TypeOK'
  BY TriageTypeStep
<1>3. QED
  BY <1>1, <1>2, PTL DEF Triage!Spec
=============================================================================
