---------------------------- MODULE TableProofs -----------------------------
(***************************************************************************)
(* Tables with many writers: SlotsIncrease and CacheBehindRow of the rows  *)
(* of the schedules, for every number of workers and schedules, every skew *)
(* of the clocks and every number of faults; CapKept of the session table, *)
(* for every number of logins, of which any number overlap; FaithfulWalk   *)
(* of the pages of the notes, for every number of writers and page size.   *)
(***************************************************************************)
EXTENDS Schedules, SessionTable, NoteWalk, FiniteSetTheorems, SequenceTheorems, TLAPS

-----------------------------------------------------------------------------
(* The slots of the schedules.                                             *)

\* No slot was sent after the one in the row.
SentBelowRow ==
  \A i \in Schedule : \A j \in 1..Len(sent[i]) : sent[i][j] <= row[i]

IInv ==
  /\ TypeOK
  /\ SlotsIncrease
  /\ SentBelowRow
  /\ CacheBehindRow
  /\ \A i \in Schedule : 0 <= row[i]

-----------------------------------------------------------------------------
LEMMA ScheduleType ==
  /\ Schedule = 1..Len(Every)
  /\ Len(Every) \in Nat
  /\ \A i \in Schedule : Every[i] \in Nat \ {0} /\ Offset[i] \in Nat
  BY ScheduleAssumption DEF Schedule

LEMMA SlotType ==
  ASSUME NEW i \in Schedule, NEW now \in Nat
  PROVE  Slot(i, now) \in Int
  <1>1. Every[i] \in Nat /\ Every[i] > 0 /\ Offset[i] \in Nat
    BY ScheduleType
  <1>2. (now - Offset[i]) \div Every[i] \in Int
    BY <1>1
  <1>. QED BY <1>1, <1>2 DEF Slot

\* A slot above the row keeps the sent slots in order and below the row.
LEMMA AppendKeepsOrder ==
  ASSUME NEW s \in Seq(Int), NEW r \in Int, NEW x \in Int, r < x,
         \A j \in 1..Len(s) : s[j] <= r,
         \A j, k \in 1..Len(s) : j < k => s[j] < s[k]
  PROVE  /\ Append(s, x) \in Seq(Int)
         /\ \A j \in 1..Len(Append(s, x)) : Append(s, x)[j] <= x
         /\ \A j, k \in 1..Len(Append(s, x)) :
              j < k => Append(s, x)[j] < Append(s, x)[k]
  <1>1. /\ Append(s, x) \in Seq(Int)
        /\ Len(Append(s, x)) = Len(s) + 1
        /\ \A j \in 1..Len(s) : Append(s, x)[j] = s[j]
        /\ Append(s, x)[Len(s) + 1] = x
    BY AppendProperties
  <1>2. Len(s) \in Nat /\ \A j \in 1..Len(s) : s[j] \in Int
    BY LenProperties, ElementOfSeq
  <1>3. ASSUME NEW j \in 1..(Len(s) + 1) PROVE Append(s, x)[j] <= x
    BY <1>1, <1>2
  <1>4. ASSUME NEW j \in 1..(Len(s) + 1), NEW k \in 1..(Len(s) + 1), j < k
        PROVE  Append(s, x)[j] < Append(s, x)[k]
    <2>1. j \in 1..Len(s) BY <1>2, <1>4
    <2>2. CASE k \in 1..Len(s) BY <2>1, <2>2, <1>1, <1>4
    <2>3. CASE k = Len(s) + 1 BY <2>1, <2>3, <1>1, <1>2
    <2>. QED BY <2>2, <2>3, <1>2
  <1>. QED BY <1>1, <1>3, <1>4

\* What CommitSlot does to the table and the sent slots.
LEMMA CommitKeeps ==
  ASSUME IInv, NEW i \in Schedule, NEW slot \in Int, CommitSlot(i, slot)
  PROVE  /\ row' \in [Schedule -> Int]
         /\ sent' \in [Schedule -> Seq(Int)]
         /\ SlotsIncrease'
         /\ SentBelowRow'
         /\ \A k \in Schedule : row[k] <= row'[k]
         /\ slot <= row'[i]
  <1>. USE DEF IInv, TypeOK
  <1>1. CASE row[i] < slot
    <2>1. /\ row' = [row EXCEPT ![i] = slot]
          /\ sent' = [sent EXCEPT ![i] = Append(@, slot)]
      BY <1>1 DEF CommitSlot
    <2>2. /\ Append(sent[i], slot) \in Seq(Int)
          /\ \A j \in 1..Len(Append(sent[i], slot)) : Append(sent[i], slot)[j] <= slot
          /\ \A j, k \in 1..Len(Append(sent[i], slot)) :
               j < k => Append(sent[i], slot)[j] < Append(sent[i], slot)[k]
      BY <1>1, AppendKeepsOrder DEF SentBelowRow, SlotsIncrease
    <2>3. row'[i] = slot /\ sent'[i] = Append(sent[i], slot)
      BY <2>1
    <2>4. \A k \in Schedule : k # i => row'[k] = row[k] /\ sent'[k] = sent[k]
      BY <2>1
    <2>5. SlotsIncrease'
      BY <2>2, <2>3, <2>4 DEF SlotsIncrease
    <2>6. SentBelowRow'
      BY <2>2, <2>3, <2>4 DEF SentBelowRow
    <2>. QED BY <1>1, <2>1, <2>2, <2>3, <2>4, <2>5, <2>6
  <1>2. CASE ~(row[i] < slot)
    BY <1>2 DEF CommitSlot, SlotsIncrease, SentBelowRow
  <1>. QED BY <1>1, <1>2

LEMMA InitInv == Init => IInv
  <1>. SUFFICES ASSUME Init PROVE IInv OBVIOUS
  <1>1. \A i \in Schedule : sent[i] = << >> /\ Len(sent[i]) = 0
    BY DEF Init
  <1>. QED BY <1>1, ScheduleAssumption
         DEF Init, IInv, TypeOK, SlotsIncrease, SentBelowRow, CacheBehindRow

\* A pass that goes on keeps its type.
LEMMA NextScheduleType ==
  ASSUME IInv, NEW w \in Worker, pass[w] # None, NextSchedule(w)
  PROVE  pass' \in [Worker -> Pass \cup {None}]
  <1>1. pass[w] \in Pass BY DEF IInv, TypeOK
  <1>2. pass[w].i \in 1..Len(Every) /\ pass[w].now \in Nat /\ Len(Every) \in Nat
    BY <1>1, ScheduleType DEF Pass
  <1>3. CASE pass[w].i = Len(Every)
    BY <1>3 DEF NextSchedule, IInv, TypeOK
  <1>4. CASE pass[w].i # Len(Every)
    <2>1. [pass[w] EXCEPT !.i = @ + 1] \in Pass
      BY <1>1, <1>2, <1>4, ScheduleType DEF Pass
    <2>. QED BY <2>1, <1>4 DEF NextSchedule, IInv, TypeOK
  <1>. QED BY <1>3, <1>4

LEMMA NextInv == IInv /\ [Next]_vars => IInv'
  <1>. SUFFICES ASSUME IInv, [Next]_vars PROVE IInv'
    OBVIOUS
  <1>. USE DEF IInv
  <1>1. CASE UNCHANGED vars
    BY <1>1 DEF vars, TypeOK, SlotsIncrease, SentBelowRow, CacheBehindRow
  <1>2. CASE Tick
    BY <1>2 DEF Tick, TypeOK, SlotsIncrease, SentBelowRow, CacheBehindRow
  <1>3. ASSUME NEW w \in Worker, BeginPass(w) PROVE IInv'
    <2>1. PICK now \in (time - Skew)..(time + Skew) :
            now >= 0 /\ pass' = [pass EXCEPT ![w] = [now |-> now, i |-> 1]]
      BY <1>3 DEF BeginPass
    <2>2. now \in Nat BY <2>1, ScheduleAssumption DEF TypeOK
    <2>3. 1 \in Schedule
      BY <1>3, ScheduleType DEF BeginPass
    <2>4. [now |-> now, i |-> 1] \in Pass BY <2>2, <2>3 DEF Pass
    <2>. QED BY <1>3, <2>1, <2>4
           DEF BeginPass, TypeOK, SlotsIncrease, SentBelowRow, CacheBehindRow
  <1>4. ASSUME NEW w \in Worker, Skip(w) PROVE IInv'
    <2>1. pass' \in [Worker -> Pass \cup {None}]
      BY <1>4, NextScheduleType DEF Skip
    <2>. QED BY <1>4, <2>1
           DEF Skip, TypeOK, SlotsIncrease, SentBelowRow, CacheBehindRow
  <1>5. ASSUME NEW w \in Worker, SendSlot(w) PROVE IInv'
    <2>. DEFINE i == pass[w].i
                slot == Slot(i, pass[w].now)
    <2>1. pass[w] \in Pass BY <1>5 DEF SendSlot, TypeOK
    <2>2. i \in Schedule /\ slot \in Int BY <2>1, SlotType DEF Pass
    <2>3. CommitSlot(i, slot) /\ cache' = [cache EXCEPT ![w][i] = slot]
      BY <1>5 DEF SendSlot
    <2>4. pass' \in [Worker -> Pass \cup {None}]
      BY <1>5, NextScheduleType DEF SendSlot
    <2>. HIDE DEF i, slot
    <2>5. /\ row' \in [Schedule -> Int] /\ sent' \in [Schedule -> Seq(Int)]
          /\ SlotsIncrease' /\ SentBelowRow'
          /\ \A k \in Schedule : row[k] <= row'[k]
          /\ slot <= row'[i]
      BY <2>2, <2>3, CommitKeeps
    <2>6. cache' \in [Worker -> [Schedule -> Int]]
      BY <2>2, <2>3 DEF TypeOK
    <2>7. CacheBehindRow'
      <3>. SUFFICES ASSUME NEW v \in Worker, NEW k \in Schedule
                    PROVE  cache'[v][k] <= row'[k]
        BY DEF CacheBehindRow
      <3>1. CASE v = w /\ k = i BY <3>1, <2>2, <2>3, <2>5 DEF TypeOK
      <3>2. CASE ~(v = w /\ k = i)
        <4>1. cache'[v][k] = cache[v][k] BY <3>2, <2>2, <2>3 DEF TypeOK
        <4>2. cache[v][k] \in Int /\ row[k] \in Int /\ row'[k] \in Int
          BY <2>5 DEF TypeOK
        <4>. QED BY <4>1, <4>2, <2>5 DEF CacheBehindRow
      <3>. QED BY <3>1, <3>2
    <2>8. time' = time /\ faults' = faults BY <1>5 DEF SendSlot
    <2>. QED BY <2>4, <2>5, <2>6, <2>7, <2>8 DEF TypeOK
  <1>6. ASSUME NEW w \in Worker, SendFails(w) PROVE IInv'
    <2>. DEFINE i == pass[w].i
                slot == Slot(i, pass[w].now)
    <2>1. pass[w] \in Pass BY <1>6 DEF SendFails, TypeOK
    <2>2. i \in Schedule /\ slot \in Int BY <2>1, SlotType DEF Pass
    <2>3. /\ CommitSlot(i, slot) \/ UNCHANGED <<row, sent>>
          /\ UNCHANGED <<time, cache>>
          /\ pass' = [pass EXCEPT ![w] = None]
          /\ faults' \in 0..MaxFaults
      BY <1>6, ScheduleAssumption DEF SendFails, TypeOK
    <2>. HIDE DEF i, slot
    <2>4. /\ row' \in [Schedule -> Int] /\ sent' \in [Schedule -> Seq(Int)]
          /\ SlotsIncrease' /\ SentBelowRow'
          /\ \A k \in Schedule : row[k] <= row'[k]
      <3>1. CASE CommitSlot(i, slot) BY <3>1, <2>2, CommitKeeps
      <3>2. CASE UNCHANGED <<row, sent>>
        BY <3>2 DEF TypeOK, SlotsIncrease, SentBelowRow
      <3>. QED BY <3>1, <3>2, <2>3
    <2>5. CacheBehindRow'
      <3>. SUFFICES ASSUME NEW v \in Worker, NEW k \in Schedule
                    PROVE  cache'[v][k] <= row'[k]
        BY DEF CacheBehindRow
      <3>1. cache[v][k] \in Int /\ row[k] \in Int /\ row'[k] \in Int
        BY <2>4 DEF TypeOK
      <3>. QED BY <3>1, <2>3, <2>4 DEF CacheBehindRow
    <2>. QED BY <2>3, <2>4, <2>5 DEF TypeOK
  <1>7. ASSUME NEW w \in Worker, Crash(w) PROVE IInv'
    <2>. USE <1>7 DEF Crash
    <2>1. TypeOK' BY ScheduleAssumption DEF TypeOK
    <2>2. SlotsIncrease' /\ SentBelowRow' BY DEF SlotsIncrease, SentBelowRow
    <2>3. CacheBehindRow'
      <3>. SUFFICES ASSUME NEW v \in Worker, NEW k \in Schedule
                    PROVE  cache'[v][k] <= row'[k]
        BY DEF CacheBehindRow
      <3>1. cache'[v][k] = 0 \/ cache'[v][k] = cache[v][k]
        BY DEF TypeOK
      <3>. QED BY <3>1 DEF CacheBehindRow
    <2>. QED BY <2>1, <2>2, <2>3
  <1>. QED BY <1>1, <1>2, <1>3, <1>4, <1>5, <1>6, <1>7 DEF Next, SendSchedules

\* The slots of every schedule are sent in order and at most once, for every
\* number of workers and schedules and whatever the clocks say.
THEOREM SlotsSentOnce == Spec => []SlotsIncrease
  BY InitInv, NextInv, PTL DEF Spec, IInv

\* A cache never suppresses a slot that the table would accept.
THEOREM CacheIsBehind == Spec => []CacheBehindRow
  BY InitInv, NextInv, PTL DEF Spec, IInv

\* The workers, their caches, the row and the queue keep their types, for every
\* list of schedules, skew and number of workers.
THEOREM ScheduleTypes == Spec => []TypeOK
  BY InitInv, NextInv, PTL DEF Spec, IInv

-----------------------------------------------------------------------------
(* The sessions of a user.                                                 *)

CONSTANTS Batch, MaxNow

VARIABLES victims, cleanup, picked

Sessions == INSTANCE Sessions

\* The logins whose DELETE took its snapshot and whose transaction is open,
\* and the logins that came that far.
Found == {t \in Token : pc[t] \in {"deleting", "deleted"}}
Past == {t \in Token : pc[t] \notin {"new", "inserted"}}

Begun == {t \in Token : pc[t] # "new"}

AtMost(S, n) == IsFiniteSet(S) /\ Cardinality(S) <= n

\* Of the sessions S all but Keep - 1 are of logins in A, which overlapped.
Covers(A, S) == AtMost(A, Logins) /\ AtMost(S \ A, Keep - 1)

\* Of two sets of logins one has all the logins of the other that still run.
Nested(A, B) == A \cap Found \subseteq B \/ B \cap Found \subseteq A

SessionTypes ==
  /\ dbTime \in Int
  /\ pc \in [Token -> {"new", "inserted", "deleting", "deleted", "done", "lost", "failed"}]
  /\ at \in [Token -> Int]
  /\ victims \in [Token -> SUBSET Token]
  /\ alone \in [Token -> BOOLEAN]
  /\ IsFiniteSet(Begun)
  /\ rows \subseteq Committed
  /\ \A t \in Found : victims[t] \subseteq Committed
  /\ \A t \in picked : t \in Committed /\ Expired(t)
  /\ AtMost(Sessions!InFlight, Logins)

\* Every login that took its snapshot will leave its own witness: the logins
\* that were open then. The rows have the witness of the login with the last
\* snapshot of those that are in it.
OverlapInv ==
  \E W0 \in SUBSET Past : \E W \in [Token -> SUBSET Past] :
    /\ Covers(W0, rows)
    /\ \A t \in Found : t \in W[t] /\ Covers(W[t], rows \ victims[t]) /\ Nested(W[t], W0)
    /\ \A t, u \in Found : Nested(W[t], W[u])

\* A login that is alone will leave Keep - 1 other sessions.
LoneInv ==
  \A t \in Sessions!InFlight : alone[t] =>
    /\ Sessions!InFlight = {t}
    /\ t \in Found => AtMost(rows \ victims[t], Keep - 1)

\* Keep - 1 other logins committed that are not older than t.
Outnumbered(t) ==
  \E K \in SUBSET (Committed \ {t}) :
    IsFiniteSet(K) /\ Cardinality(K) = Keep - 1 /\ \A k \in K : at[k] >= at[t]

PushInv == \A u \in Found : \A t \in victims[u] : Outnumbered(t)

SessionInv == SessionTypes /\ OverlapInv /\ LoneInv /\ PushInv /\ GoneForAReason

-----------------------------------------------------------------------------
LEMMA FewerAtMost ==
  ASSUME NEW S, NEW T, NEW n \in Int, AtMost(S, n), T \subseteq S
  PROVE  AtMost(T, n)
  <1>1. IsFiniteSet(T) /\ Cardinality(T) <= Cardinality(S)
    BY FS_Subset DEF AtMost
  <1>2. Cardinality(S) \in Int /\ Cardinality(T) \in Int
    BY <1>1, FS_CardinalityType DEF AtMost
  <1>. QED BY <1>1, <1>2 DEF AtMost

LEMMA UnionAtMost ==
  ASSUME NEW S, NEW T, NEW m \in Int, NEW n \in Int, AtMost(S, m), AtMost(T, n)
  PROVE  AtMost(S \cup T, m + n)
  <1>1. IsFiniteSet(S \cup T) /\ Cardinality(S \cup T) = Cardinality(S) + Cardinality(T) - Cardinality(S \cap T)
    BY FS_Union DEF AtMost
  <1>2. IsFiniteSet(S \cap T)
    BY FS_Intersection DEF AtMost
  <1>3. Cardinality(S) \in Nat /\ Cardinality(T) \in Nat /\ Cardinality(S \cap T) \in Nat
    BY <1>2, FS_CardinalityType DEF AtMost
  <1>. QED BY <1>1, <1>3 DEF AtMost

LEMMA FewerCovered ==
  ASSUME NEW A, NEW S, NEW T, Covers(A, S), T \subseteq S \cup A
  PROVE  Covers(A, T)
  <1>1. Keep - 1 \in Int BY SessionAssumption
  <1>2. T \ A \subseteq S \ A OBVIOUS
  <1>. QED BY <1>1, <1>2, FewerAtMost DEF Covers

LEMMA NoneAtMost == ASSUME NEW n \in Nat PROVE AtMost({}, n)
  BY FS_EmptySet DEF AtMost

LEMMA SameCardinality == \A S : Sessions!Cardinality(S) = Cardinality(S)
  BY DEF Sessions!Cardinality, Cardinality, Sessions!IsFiniteSet, IsFiniteSet

LEMMA RowsFinite == ASSUME SessionTypes PROVE IsFiniteSet(Committed) /\ IsFiniteSet(rows)
  <1>1. Committed \subseteq Begun /\ rows \subseteq Begun
    BY DEF SessionTypes, Committed, Begun
  <1>. QED BY <1>1, FS_Subset DEF SessionTypes

\* What the DELETE leaves, when it finds a row at all.
LEMMA EvictedLeaves ==
  ASSUME SessionTypes, NEW t \in Token, t \notin rows, NEW D, Sessions!Evicted(D, t)
  PROVE  /\ D \subseteq rows
         /\ AtMost(rows \ D, Keep - 1)
         /\ \A d \in D : Cardinality(rows \ D) = Keep - 1 /\ \A k \in rows \ D : at[k] >= at[d]
  <1>1. rows \ {t} = rows
    OBVIOUS
  <1>2. /\ D \subseteq rows
        /\ Cardinality(rows \ D) = IF Cardinality(rows) < Keep - 1 THEN Cardinality(rows) ELSE Keep - 1
        /\ \A d \in D, k \in rows \ D : at[d] <= at[k]
    BY <1>1, SameCardinality DEF Sessions!Evicted, Sessions!LeftAfter
  <1>3. /\ IsFiniteSet(rows) /\ IsFiniteSet(rows \ D)
        /\ Cardinality(rows) \in Nat /\ Cardinality(rows \ D) \in Nat
        /\ rows = rows \ D \/ Cardinality(rows) # Cardinality(rows \ D)
    BY RowsFinite, FS_CardinalityType, FS_Subset
  <1>4. \A x \in Token : at[x] \in Int
    BY DEF SessionTypes
  <1>5. rows \subseteq Token
    BY DEF SessionTypes, Committed
  <1>6. AtMost(rows \ D, Keep - 1)
    BY <1>2, <1>3, SessionAssumption DEF AtMost
  <1>7. ASSUME NEW d \in D PROVE Cardinality(rows \ D) = Keep - 1
    <2>1. rows # rows \ D BY <1>2
    <2>. QED BY <2>1, <1>2, <1>3, SessionAssumption
  <1>. QED BY <1>2, <1>4, <1>5, <1>6, <1>7

-----------------------------------------------------------------------------
LEMMA SessionInit == Sessions!Init => SessionInv
  <1>. SUFFICES ASSUME Sessions!Init PROVE SessionInv
    OBVIOUS
  <1>. USE SessionAssumption
  <1>1. /\ dbTime = 0 /\ rows = {} /\ picked = {}
        /\ pc = [t \in Token |-> "new"] /\ at = [t \in Token |-> 0]
        /\ victims = [t \in Token |-> {}] /\ alone = [t \in Token |-> TRUE]
    BY DEF Sessions!Init
  <1>2. Found = {} /\ Begun = {} /\ Sessions!InFlight = {} /\ Past = {}
    BY <1>1 DEF Found, Begun, Past, Sessions!InFlight, Sessions!Running
  <1>3. AtMost({}, Logins) /\ AtMost({}, Keep - 1)
    BY NoneAtMost
  <1>4. SessionTypes
    <2>1. alone \in [Token -> BOOLEAN] BY <1>1
    <2>. QED BY <1>1, <1>2, <1>3, <2>1, FS_EmptySet DEF SessionTypes
  <1>5. OverlapInv
    <2>1. Covers({}, rows) BY <1>1, <1>3 DEF Covers
    <2>2. [t \in Token |-> {}] \in [Token -> SUBSET Past] BY <1>2
    <2>. QED BY <1>2, <2>1, <2>2 DEF OverlapInv
  <1>6. LoneInv BY <1>2 DEF LoneInv
  <1>7. PushInv BY <1>2 DEF PushInv
  <1>8. GoneForAReason BY <1>1 DEF GoneForAReason
  <1>. QED BY <1>4, <1>5, <1>6, <1>7, <1>8 DEF SessionInv

\* OverlapInv of the next state from its witnesses.
LEMMA Primed ==
  ASSUME NEW W0 \in SUBSET Past', NEW W \in [Token -> SUBSET Past'],
         Covers(W0, rows'),
         \A t \in Found' : t \in W[t] /\ Covers(W[t], rows' \ victims'[t]) /\ Nested(W[t], W0)',
         \A t, u \in Found' : Nested(W[t], W[u])'
  PROVE  OverlapInv'
  <1>1. OverlapInv' <=>
    \E V0 \in SUBSET Past' : \E V \in [Token -> SUBSET Past'] :
      /\ Covers(V0, rows')
      /\ \A t \in Found' : t \in V[t] /\ Covers(V[t], rows' \ victims'[t]) /\ Nested(V[t], V0)'
      /\ \A t, u \in Found' : Nested(V[t], V[u])'
    BY DEF OverlapInv, Covers, AtMost
  <1>. QED BY <1>1

\* A step in which no login takes its snapshot, commits, or begins.
LEMMA OverlapShrinks ==
  ASSUME OverlapInv, rows' \subseteq rows,
         Found' \subseteq Found, Past \subseteq Past',
         \A t \in Found' : rows' \ victims'[t] \subseteq rows \ victims[t]
  PROVE  OverlapInv'
  <1>2. PICK W0 \in SUBSET Past, W \in [Token -> SUBSET Past] :
          /\ Covers(W0, rows)
          /\ \A t \in Found : t \in W[t] /\ Covers(W[t], rows \ victims[t]) /\ Nested(W[t], W0)
          /\ \A t, u \in Found : Nested(W[t], W[u])
    BY DEF OverlapInv
  <1>3. W0 \in SUBSET Past' /\ W \in [Token -> SUBSET Past']
    <2>1. W = [t \in Token |-> W[t]] /\ \A t \in Token : W[t] \in SUBSET Past'
      OBVIOUS
    <2>. QED BY <2>1
  <1>4. Covers(W0, rows')
    BY <1>2, FewerCovered
  <1>5. ASSUME NEW t \in Found'
        PROVE  t \in W[t] /\ Covers(W[t], rows' \ victims'[t]) /\ Nested(W[t], W0)'
    BY <1>2, FewerCovered DEF Nested
  <1>6. \A t, u \in Found' : Nested(W[t], W[u])'
    BY <1>2 DEF Nested
  <1>. QED BY <1>3, <1>4, <1>5, <1>6, Primed
\* What is known of a session that committed stays known.
LEMMA OutnumberedStays ==
  ASSUME Committed \subseteq Committed', \A u \in Committed : at'[u] = at[u],
         NEW t \in Committed, Outnumbered(t)
  PROVE  Outnumbered(t)'
  <1>1. PICK K \in SUBSET (Committed \ {t}) :
          IsFiniteSet(K) /\ Cardinality(K) = Keep - 1 /\ \A k \in K : at[k] >= at[t]
    BY DEF Outnumbered
  <1>2. K \in SUBSET (Committed' \ {t}) /\ \A k \in K : at'[k] >= at'[t]
    BY <1>1
  <1>. QED BY <1>1, <1>2 DEF Outnumbered

\* A session that is gone stays gone for its reason.
LEMMA GoneStays ==
  ASSUME GoneForAReason, IsFiniteSet(Committed'), Committed \subseteq Committed',
         \A u \in Committed : at'[u] = at[u] /\ (Expired(u) => Expired(u)'),
         ended \subseteq ended',
         \A t \in Token : pc'[t] = "done" /\ t \notin rows' =>
           \/ pc[t] = "done" /\ t \notin rows
           \/ t \in ended' \/ Expired(t)'
           \/ t \in Committed /\ Outnumbered(t) /\ Committed' # Committed
  PROVE  GoneForAReason'
  <1>. SUFFICES ASSUME NEW t \in Token,
                       pc'[t] = "done", t \notin rows', t \notin ended', ~Expired(t)'
                PROVE  /\ Cardinality(Committed' \ {t}) >= Keep
                       /\ Cardinality({u \in Committed' \ {t} : at'[u] >= at'[t]}) >= Keep - 1
    BY DEF GoneForAReason
  <1>. DEFINE others == Committed' \ {t}
              newer == {u \in others : at'[u] >= at'[t]}
  <1>0. /\ IsFiniteSet(others) /\ IsFiniteSet(newer)
        /\ Cardinality(others) \in Nat /\ Cardinality(newer) \in Nat
    BY FS_Subset, FS_CardinalityType
  <1>1. CASE pc[t] = "done" /\ t \notin rows
    <2>. DEFINE earlier == Committed \ {t}
                kept == {u \in earlier : at[u] >= at[t]}
    <2>1. t \in Committed BY <1>1 DEF Committed
    <2>2. Cardinality(earlier) >= Keep /\ Cardinality(kept) >= Keep - 1
      BY <1>1, <2>1 DEF GoneForAReason
    <2>3. earlier \subseteq others /\ kept \subseteq newer
      BY <2>1
    <2>4. /\ Cardinality(earlier) <= Cardinality(others) /\ Cardinality(earlier) \in Nat
          /\ Cardinality(kept) <= Cardinality(newer) /\ Cardinality(kept) \in Nat
      BY <1>0, <2>3, FS_Subset, FS_CardinalityType
    <2>. QED BY <1>0, <2>2, <2>4, SessionAssumption
  <1>2. CASE t \in Committed /\ Outnumbered(t) /\ Committed' # Committed
    <2>1. PICK K \in SUBSET (Committed \ {t}) :
            IsFiniteSet(K) /\ Cardinality(K) = Keep - 1 /\ \A k \in K : at[k] >= at[t]
      BY <1>2 DEF Outnumbered
    <2>2. PICK u : u \in Committed' /\ u \notin Committed
      BY <1>2
    <2>3. IsFiniteSet(K \cup {u}) /\ Cardinality(K \cup {u}) = Keep
      BY <2>1, <2>2, FS_AddElement, SessionAssumption
    <2>4. K \cup {u} \subseteq others
      BY <1>2, <2>2
    <2>5. Cardinality(others) >= Keep
      BY <1>0, <2>3, <2>4, FS_Subset
    <2>6. K \subseteq newer
      BY <1>2, <2>1
    <2>7. Cardinality(newer) >= Keep - 1
      BY <1>0, <2>1, <2>6, FS_Subset
    <2>. QED BY <2>5, <2>7
  <1>. QED BY <1>1, <1>2
-----------------------------------------------------------------------------
\* The parts that only ask what stays.
LEMMA PushStays ==
  ASSUME SessionTypes, PushInv,
         Committed \subseteq Committed', \A u \in Committed : at'[u] = at[u],
         \A u \in Found' : u \in Found /\ victims'[u] \subseteq victims[u]
  PROVE  PushInv'
  BY OutnumberedStays DEF PushInv, SessionTypes

LEMMA LoneStays ==
  ASSUME LoneInv, rows' \subseteq rows,
         \A t \in Sessions!InFlight' : alone'[t] =>
           /\ t \in Sessions!InFlight /\ alone[t]
           /\ Sessions!InFlight' \subseteq Sessions!InFlight
           /\ t \in Found' => t \in Found /\ rows \ victims'[t] = rows \ victims[t]
  PROVE  LoneInv'
  <1>. SUFFICES ASSUME NEW t \in Sessions!InFlight', alone'[t]
                PROVE  /\ Sessions!InFlight' = {t}
                       /\ t \in Found' => AtMost(rows' \ victims'[t], Keep - 1)
    BY DEF LoneInv, AtMost
  <1>1. Sessions!InFlight' = {t}
    BY DEF LoneInv
  <1>2. ASSUME t \in Found' PROVE AtMost(rows' \ victims'[t], Keep - 1)
    <2>1. AtMost(rows \ victims[t], Keep - 1) /\ rows' \ victims'[t] \subseteq rows \ victims[t]
      BY <1>2 DEF LoneInv
    <2>. QED BY <2>1, FewerAtMost, SessionAssumption
  <1>. QED BY <1>1, <1>2

\* A new login has no witness yet, and ends the solitude of the others.
LEMMA SessionInsert == ASSUME SessionInv, NEW t \in Token, Sessions!Insert(t) PROVE SessionInv'
  <1>. USE DEF SessionInv
  <1>1. /\ pc[t] = "new" /\ Cardinality(Sessions!InFlight) < Logins
        /\ pc' = [pc EXCEPT ![t] = "inserted"] /\ at' = [at EXCEPT ![t] = dbTime]
        /\ alone' = [u \in Token |-> IF u = t THEN Sessions!InFlight = {}
                                     ELSE alone[u] /\ u \notin Sessions!InFlight]
        /\ UNCHANGED <<dbTime, victims, rows, ended, cleanup, picked>>
    BY SameCardinality DEF Sessions!Insert
  <1>2. /\ Found' = Found /\ Past' = Past /\ Committed' = Committed
        /\ Begun' = Begun \cup {t} /\ t \notin Begun
        /\ Sessions!InFlight' = Sessions!InFlight \cup {t} /\ t \notin Sessions!InFlight
    BY <1>1 DEF SessionTypes, Found, Past, Committed, Begun, Sessions!InFlight, Sessions!Running
  <1>3. t \notin Committed /\ t \notin Found
    BY <1>1 DEF Committed, Found
  <1>4. \A u \in Committed : at'[u] = at[u] /\ (Expired(u) => Expired(u)')
    BY <1>1, <1>3 DEF SessionTypes, Expired, Committed
  <1>5. AtMost(Sessions!InFlight', Logins)
    <2>1. IsFiniteSet(Sessions!InFlight) /\ Cardinality(Sessions!InFlight) \in Nat
      BY FS_CardinalityType DEF SessionTypes, AtMost
    <2>2. /\ IsFiniteSet(Sessions!InFlight')
          /\ Cardinality(Sessions!InFlight') = Cardinality(Sessions!InFlight) + 1
      BY <1>2, <2>1, FS_AddElement
    <2>. QED BY <1>1, <2>1, <2>2, SessionAssumption DEF AtMost
  <1>6. SessionTypes'
    <2>1. dbTime' \in Int /\ at' \in [Token -> Int] /\ victims' \in [Token -> SUBSET Token]
      BY <1>1 DEF SessionTypes
    <2>2. pc' \in [Token -> {"new", "inserted", "deleting", "deleted", "done", "lost", "failed"}]
      BY <1>1 DEF SessionTypes
    <2>3. alone' \in [Token -> BOOLEAN]
      BY <1>1 DEF SessionTypes
    <2>4. IsFiniteSet(Begun')
      BY <1>2, FS_AddElement DEF SessionTypes
    <2>5. rows' \subseteq Committed' /\ \A u \in Found' : victims'[u] \subseteq Committed'
      BY <1>1, <1>2 DEF SessionTypes
    <2>6. \A u \in picked' : u \in Committed' /\ Expired(u)'
      BY <1>1, <1>2, <1>4 DEF SessionTypes
    <2>. QED BY <1>5, <2>1, <2>2, <2>3, <2>4, <2>5, <2>6 DEF SessionTypes
  <1>7. OverlapInv' BY <1>1, <1>2, OverlapShrinks
  <1>8. LoneInv'
    <2>1. \A u \in Token : alone'[u] =
            IF u = t THEN Sessions!InFlight = {} ELSE alone[u] /\ u \notin Sessions!InFlight
      BY <1>1
    <2>2. \A u \in Sessions!InFlight' : u \in Token /\ (alone'[u] => u = t /\ Sessions!InFlight = {})
      BY <1>2, <2>1 DEF Sessions!InFlight
    <2>. QED BY <1>2, <1>3, <2>2 DEF LoneInv, AtMost
  <1>9. PushInv' BY <1>1, <1>2, <1>4, PushStays
  <1>10. GoneForAReason'
    <2>1. IsFiniteSet(Committed') BY <1>2, RowsFinite
    <2>2. \A u \in Token : pc'[u] = "done" => pc[u] = "done"
      BY <1>1 DEF SessionTypes
    <2>. QED BY <1>1, <1>2, <1>4, <2>1, <2>2, GoneStays
  <1>. QED BY <1>6, <1>7, <1>8, <1>9, <1>10
\* The snapshot: the logins that are past it are the witness of this login.
LEMMA SessionFindVictims ==
  ASSUME SessionInv, NEW t \in Token, Sessions!FindVictims(t)
  PROVE  SessionInv'
  <1>. USE DEF SessionInv
  <1>1. PICK D \in SUBSET rows :
          Sessions!Evicted(D, t) /\ victims' = [victims EXCEPT ![t] = D]
    BY DEF Sessions!FindVictims
  <1>2. /\ pc[t] = "inserted" /\ pc' = [pc EXCEPT ![t] = "deleting"]
        /\ UNCHANGED <<dbTime, at, alone, rows, ended, cleanup, picked>>
    BY DEF Sessions!FindVictims
  <1>3. /\ Found' = Found \cup {t} /\ t \notin Found /\ Past' = Past \cup {t} /\ t \notin Past
        /\ Committed' = Committed /\ Begun' = Begun /\ t \notin Committed
        /\ Sessions!InFlight' = Sessions!InFlight /\ t \in Sessions!InFlight
        /\ Found' \subseteq Sessions!InFlight /\ Found' \subseteq Past'
    BY <1>2 DEF SessionTypes, Found, Past, Committed, Begun, Sessions!InFlight, Sessions!Running
  <1>4. /\ AtMost(rows \ D, Keep - 1)
        /\ \A d \in D : Cardinality(rows \ D) = Keep - 1 /\ \A k \in rows \ D : at[k] >= at[d]
    BY <1>1, <1>3, EvictedLeaves DEF SessionTypes
  <1>5. /\ victims'[t] = D /\ \A u \in Found : victims'[u] = victims[u]
        /\ \A u \in Token : Expired(u)' = Expired(u)
    BY <1>1, <1>2, <1>3 DEF SessionTypes, Expired, Found
  <1>6. SessionTypes'
    <2>1. pc' \in [Token -> {"new", "inserted", "deleting", "deleted", "done", "lost", "failed"}]
      BY <1>2 DEF SessionTypes
    <2>2. victims' \in [Token -> SUBSET Token]
      BY <1>1 DEF SessionTypes, Committed
    <2>3. \A u \in Found' : victims'[u] \subseteq Committed'
      BY <1>3, <1>5 DEF SessionTypes
    <2>. QED BY <1>2, <1>3, <1>5, <2>1, <2>2, <2>3 DEF SessionTypes, Committed
  <1>7. OverlapInv'
    <2>1. PICK W0 \in SUBSET Past, W \in [Token -> SUBSET Past] :
            /\ Covers(W0, rows)
            /\ \A u \in Found : u \in W[u] /\ Covers(W[u], rows \ victims[u]) /\ Nested(W[u], W0)
            /\ \A u, v \in Found : Nested(W[u], W[v])
      BY DEF OverlapInv
    <2>2. PICK V \in [Token -> SUBSET Past'] : V[t] = Found' /\ \A u \in Found : V[u] = W[u]
      <3>1. \A u \in Token : W[u] \in SUBSET Past'
        BY <1>3
      <3>2. [u \in Token |-> IF u = t THEN Found' ELSE W[u]] \in [Token -> SUBSET Past']
        BY <1>3, <3>1
      <3>. QED BY <1>3, <3>2 DEF Found
    <2>3. W0 \in SUBSET Past' BY <1>3
    <2>4. Covers(V[t], rows' \ victims'[t])
      <3>1. AtMost(Found', Logins)
        BY <1>3, FewerAtMost, SessionAssumption DEF SessionTypes
      <3>2. AtMost((rows \ D) \ Found', Keep - 1)
        BY <1>4, FewerAtMost, SessionAssumption
      <3>. QED BY <1>2, <1>5, <2>2, <3>1, <3>2 DEF Covers
    <2>5. Covers(W0, rows') /\ \A u \in Found : Covers(V[u], rows' \ victims'[u])
      BY <1>2, <1>5, <2>1, <2>2
    <2>6. /\ W0 \cap Found' = W0 \cap Found
          /\ \A u \in Found : V[u] \cap Found' = W[u] \cap Found
      BY <1>3, <2>2 DEF Found
    <2>7. Nested(V[t], W0)'
      BY <2>2, <2>6 DEF Nested
    <2>8. \A u \in Found : Nested(V[u], W0)'
      BY <2>1, <2>2, <2>6 DEF Nested
    <2>9. ASSUME NEW u \in Found', NEW v \in Found' PROVE Nested(V[u], V[v])'
      <3>1. CASE u = t \/ v = t BY <2>2, <3>1 DEF Nested
      <3>2. CASE u \in Found /\ v \in Found
        <4>1. Nested(W[u], W[v]) BY <2>1, <3>2
        <4>. QED BY <2>2, <2>6, <3>2, <4>1 DEF Nested
      <3>. QED BY <1>3, <3>1, <3>2
    <2>10. \A u \in Found' : u \in V[u] /\ Covers(V[u], rows' \ victims'[u]) /\ Nested(V[u], W0)'
      BY <1>3, <2>1, <2>2, <2>4, <2>5, <2>7, <2>8
    <2>. QED BY <2>5, <2>9, <2>10, <2>3, Primed
  <1>8. LoneInv'
    BY <1>2, <1>3, <1>4, <1>5 DEF LoneInv, AtMost
  <1>9. PushInv'
    <2>1. ASSUME NEW d \in D PROVE Outnumbered(d)'
      <3>1. rows \ D \subseteq Committed' \ {d}
        BY <1>3 DEF SessionTypes
      <3>2. IsFiniteSet(rows \ D) /\ Cardinality(rows \ D) = Keep - 1
        BY <1>4, <2>1 DEF AtMost
      <3>3. \A k \in rows \ D : at'[k] >= at'[d]
        BY <1>2, <1>4, <2>1
      <3>. QED BY <3>1, <3>2, <3>3 DEF Outnumbered
    <2>2. ASSUME NEW u \in Found, NEW v \in victims[u] PROVE Outnumbered(v)'
      BY <1>2, <1>3, <2>2, OutnumberedStays DEF PushInv, SessionTypes
    <2>. QED BY <1>3, <1>5, <2>1, <2>2 DEF PushInv
  <1>10. GoneForAReason'
    <2>1. IsFiniteSet(Committed') BY <1>3, RowsFinite
    <2>2. \A u \in Token : pc'[u] = "done" => pc[u] = "done"
      BY <1>2 DEF SessionTypes
    <2>. QED BY <1>2, <1>3, <1>5, <2>1, <2>2, GoneStays DEF Committed
  <1>. QED BY <1>6, <1>7, <1>8, <1>9, <1>10
\* Rows that are gone need no delete, so the witness stays.
LEMMA SessionDeleteVictims ==
  ASSUME SessionInv, NEW t \in Token, Sessions!DeleteVictims(t)
  PROVE  SessionInv'
  <1>. USE DEF SessionInv
  <1>1. /\ pc[t] = "deleting" /\ pc' = [pc EXCEPT ![t] = "deleted"]
        /\ victims' = [victims EXCEPT ![t] = @ \cap rows]
        /\ UNCHANGED <<dbTime, at, alone, rows, ended, cleanup, picked>>
    BY DEF Sessions!DeleteVictims
  <1>2. /\ Found' = Found /\ Past' = Past /\ Committed' = Committed /\ Begun' = Begun
        /\ Sessions!InFlight' = Sessions!InFlight /\ Found \subseteq Token
    BY <1>1 DEF SessionTypes, Found, Past, Committed, Begun, Sessions!InFlight, Sessions!Running
  <1>3. \A u \in Token :
          /\ victims'[u] \subseteq victims[u] /\ rows \ victims'[u] = rows \ victims[u]
          /\ Expired(u)' = Expired(u)
    BY <1>1 DEF SessionTypes, Expired
  <1>4. SessionTypes'
    <2>1. pc' \in [Token -> {"new", "inserted", "deleting", "deleted", "done", "lost", "failed"}]
      BY <1>1 DEF SessionTypes
    <2>2. victims' \in [Token -> SUBSET Token]
      BY <1>1 DEF SessionTypes
    <2>. QED BY <1>1, <1>2, <1>3, <2>1, <2>2 DEF SessionTypes, Committed
  <1>5. OverlapInv' BY <1>1, <1>2, <1>3, OverlapShrinks
  <1>6. LoneInv' BY <1>1, <1>2, <1>3, LoneStays
  <1>7. PushInv' BY <1>1, <1>2, <1>3, PushStays
  <1>8. GoneForAReason'
    <2>1. IsFiniteSet(Committed') BY <1>2, RowsFinite
    <2>2. \A u \in Token : pc'[u] = "done" => pc[u] = "done"
      BY <1>1 DEF SessionTypes
    <2>. QED BY <1>1, <1>2, <1>3, <2>1, <2>2, GoneStays DEF Committed
  <1>. QED BY <1>4, <1>5, <1>6, <1>7, <1>8

\* A rollback: the login has no witness to keep.
LEMMA SessionAbort == ASSUME SessionInv, NEW t \in Token, Sessions!Abort(t) PROVE SessionInv'
  <1>. USE DEF SessionInv
  <1>1. /\ pc[t] \in {"inserted", "deleting", "deleted"} /\ pc' = [pc EXCEPT ![t] = "failed"]
        /\ victims' = [victims EXCEPT ![t] = {}]
        /\ UNCHANGED <<dbTime, at, alone, rows, ended, cleanup, picked>>
    BY DEF Sessions!Abort, Sessions!Running
  <1>2. /\ Found' = Found \ {t} /\ Past' = Past \cup {t} /\ Committed' = Committed /\ Begun' = Begun
        /\ Sessions!InFlight' = Sessions!InFlight \ {t} /\ Found \subseteq Token
    BY <1>1 DEF SessionTypes, Found, Past, Committed, Begun, Sessions!InFlight, Sessions!Running
  <1>3. /\ \A u \in Found' : victims'[u] = victims[u]
        /\ \A u \in Token : Expired(u)' = Expired(u)
    BY <1>1, <1>2 DEF SessionTypes, Expired
  <1>4. SessionTypes'
    <2>1. pc' \in [Token -> {"new", "inserted", "deleting", "deleted", "done", "lost", "failed"}]
      BY <1>1 DEF SessionTypes
    <2>2. victims' \in [Token -> SUBSET Token]
      BY <1>1 DEF SessionTypes
    <2>3. AtMost(Sessions!InFlight', Logins)
      BY <1>2, FewerAtMost, SessionAssumption DEF SessionTypes
    <2>. QED BY <1>1, <1>2, <1>3, <2>1, <2>2, <2>3 DEF SessionTypes, Committed
  <1>5. OverlapInv' BY <1>1, <1>2, <1>3, OverlapShrinks
  <1>6. LoneInv' BY <1>1, <1>2, <1>3, LoneStays
  <1>7. PushInv' BY <1>1, <1>2, <1>3, PushStays
  <1>8. GoneForAReason'
    <2>1. IsFiniteSet(Committed') BY <1>2, RowsFinite
    <2>2. \A u \in Token : pc'[u] = "done" => pc[u] = "done"
      BY <1>1 DEF SessionTypes
    <2>. QED BY <1>1, <1>2, <1>3, <2>1, <2>2, GoneStays DEF Committed
  <1>. QED BY <1>4, <1>5, <1>6, <1>7, <1>8

\* A logout and a cleanup only take rows, the time only makes them older.
LEMMA SessionRest ==
  ASSUME SessionInv, rows' \subseteq rows, ended \subseteq ended', dbTime' \in Int, dbTime <= dbTime',
         UNCHANGED <<pc, at, victims, alone>>,
         \A t \in picked' : t \in Committed /\ Expired(t),
         \A t \in rows \ rows' : t \in ended' \/ Expired(t)
  PROVE  SessionInv'
  <1>. USE DEF SessionInv
  <1>1. /\ Found' = Found /\ Past' = Past /\ Committed' = Committed /\ Begun' = Begun
        /\ Sessions!InFlight' = Sessions!InFlight /\ Committed \subseteq Token
    BY DEF Found, Past, Committed, Begun, Sessions!InFlight
  <1>2. \A u \in Token : Expired(u) => Expired(u)'
    <2>. SUFFICES ASSUME NEW u \in Token, Expired(u) PROVE Expired(u)'
      OBVIOUS
    <2>1. at[u] \in Int /\ dbTime \in Int /\ TTL \in Int
      BY SessionAssumption DEF SessionTypes
    <2>. QED BY <2>1 DEF Expired
  <1>3. SessionTypes' BY <1>1, <1>2 DEF SessionTypes
  <1>4. OverlapInv' BY <1>1, OverlapShrinks
  <1>5. LoneInv' BY <1>1, LoneStays
  <1>6. PushInv' BY <1>1, PushStays
  <1>7. GoneForAReason'
    <2>1. IsFiniteSet(Committed') BY <1>1, RowsFinite
    <2>. QED BY <1>1, <1>2, <2>1, GoneStays
  <1>. QED BY <1>3, <1>4, <1>5, <1>6, <1>7
\* The commit of t. Who has t in its witness keeps it; the others took their
\* snapshot before t and are in the witness of t, which becomes theirs.
LEMMA SessionCommit == ASSUME SessionInv, NEW t \in Token, Sessions!Commit(t) PROVE SessionInv'
  <1>. USE DEF SessionInv
  <1>1. /\ pc[t] = "deleted" /\ \E result \in {"done", "lost"} : pc' = [pc EXCEPT ![t] = result]
        /\ rows' = (rows \ victims[t]) \cup {t} /\ victims' = [victims EXCEPT ![t] = {}]
        /\ UNCHANGED <<dbTime, at, alone, ended, cleanup, picked>>
    BY DEF Sessions!Commit
  <1>2. /\ Found' = Found \ {t} /\ t \in Found /\ Past' = Past /\ Begun' = Begun
        /\ Committed' = Committed \cup {t} /\ t \notin Committed
        /\ Sessions!InFlight' = Sessions!InFlight \ {t} /\ t \in Sessions!InFlight
        /\ Found \subseteq Token /\ Found \subseteq Sessions!InFlight
    BY <1>1 DEF SessionTypes, Found, Past, Committed, Begun, Sessions!InFlight, Sessions!Running
  <1>3. /\ \A u \in Found' : victims'[u] = victims[u]
        /\ \A u \in Token : Expired(u)' = Expired(u)
    BY <1>1, <1>2 DEF SessionTypes, Expired
  <1>4. SessionTypes'
    <2>1. pc' \in [Token -> {"new", "inserted", "deleting", "deleted", "done", "lost", "failed"}]
      BY <1>1 DEF SessionTypes
    <2>2. victims' \in [Token -> SUBSET Token]
      BY <1>1 DEF SessionTypes
    <2>3. AtMost(Sessions!InFlight', Logins)
      BY <1>2, FewerAtMost, SessionAssumption DEF SessionTypes
    <2>4. \A u \in picked' : u \in Committed' /\ Expired(u)'
      BY <1>1, <1>2, <1>3 DEF SessionTypes, Committed
    <2>5. rows' \subseteq Committed' /\ \A u \in Found' : victims'[u] \subseteq Committed'
      BY <1>1, <1>2, <1>3 DEF SessionTypes
    <2>. QED BY <1>1, <1>2, <2>1, <2>2, <2>3, <2>4, <2>5 DEF SessionTypes
  <1>5. OverlapInv'
    <2>1. PICK W0 \in SUBSET Past, W \in [Token -> SUBSET Past] :
            /\ Covers(W0, rows)
            /\ \A u \in Found : u \in W[u] /\ Covers(W[u], rows \ victims[u]) /\ Nested(W[u], W0)
            /\ \A u, v \in Found : Nested(W[u], W[v])
      BY DEF OverlapInv
    <2>2. PICK V0 : V0 = IF t \in W0 THEN W0 ELSE W[t]
      OBVIOUS
    <2>3. PICK V : V = [u \in Token |-> IF t \in W[u] THEN W[u] ELSE W[t]]
      OBVIOUS
    <2>4. V0 \in SUBSET Past' /\ V \in [Token -> SUBSET Past']
      BY <1>2, <2>2, <2>3
    <2>5. t \in W[t] /\ Covers(W[t], rows \ victims[t])
      BY <1>2, <2>1
    <2>6. Covers(V0, rows')
      BY <1>1, <2>1, <2>2, <2>5, FewerCovered
    <2>7. ASSUME NEW u \in Found'
          PROVE  u \in V[u] /\ Covers(V[u], rows' \ victims'[u]) /\ Nested(V[u], V0)'
      <3>1. u \in Found /\ u # t /\ victims'[u] = victims[u] /\ u \in Token
        BY <1>2, <1>3
      <3>2. u \in W[u] /\ Covers(W[u], rows \ victims[u]) /\ Nested(W[u], W[t]) /\ Nested(W[u], W0)
            /\ Nested(W[t], W0)
        BY <1>2, <2>1, <3>1
      <3>3. u \in V[u]
        BY <1>2, <2>3, <2>5, <3>1, <3>2 DEF Nested
      <3>4. Covers(V[u], rows' \ victims'[u])
        <4>1. CASE t \in W[u]
          <5>1. rows' \ victims'[u] \subseteq (rows \ victims[u]) \cup W[u]
            BY <1>1, <3>1, <4>1
          <5>. QED BY <2>3, <3>1, <3>2, <4>1, <5>1, FewerCovered
        <4>2. CASE t \notin W[u]
          <5>1. rows' \ victims'[u] \subseteq (rows \ victims[t]) \cup W[t]
            BY <1>1, <2>5
          <5>. QED BY <2>3, <2>5, <3>1, <4>2, <5>1, FewerCovered
        <4>. QED BY <4>1, <4>2
      <3>5. Nested(V[u], V0)'
        <4>1. V[u] \in {W[u], W[t]} /\ V0 \in {W0, W[t]}
          BY <2>2, <2>3, <3>1
        <4>. QED BY <1>2, <3>2, <4>1 DEF Nested
      <3>. QED BY <3>3, <3>4, <3>5
    <2>8. ASSUME NEW u \in Found', NEW v \in Found' PROVE Nested(V[u], V[v])'
      <3>1. V[u] \in {W[u], W[t]} /\ V[v] \in {W[v], W[t]}
        BY <1>2, <2>3
      <3>2. Nested(W[u], W[v]) /\ Nested(W[u], W[t]) /\ Nested(W[t], W[v])
        BY <1>2, <2>1
      <3>. QED BY <1>2, <3>1, <3>2 DEF Nested
    <2>. QED BY <2>4, <2>6, <2>7, <2>8, Primed
  <1>6. LoneInv'
    <2>1. \A u \in Sessions!InFlight' : ~alone'[u]
      BY <1>1, <1>2 DEF LoneInv
    <2>. QED BY <2>1 DEF LoneInv
  <1>7. PushInv' BY <1>1, <1>2, <1>3, PushStays
  <1>8. GoneForAReason'
    <2>1. IsFiniteSet(Committed') BY <1>2, RowsFinite, FS_AddElement
    <2>2. ASSUME NEW u \in Token, pc'[u] = "done", u \notin rows'
          PROVE  \/ pc[u] = "done" /\ u \notin rows
                 \/ u \in Committed /\ Outnumbered(u) /\ Committed' # Committed
      <3>1. u # t /\ pc[u] = "done" /\ u \in Committed
        BY <1>1, <2>2 DEF SessionTypes, Committed
      <3>2. u \in rows => u \in victims[t]
        BY <1>1, <2>2
      <3>. QED BY <1>2, <3>1, <3>2 DEF PushInv
    <2>3. \A u \in Committed : at'[u] = at[u] /\ (Expired(u) => Expired(u)')
      BY <1>1, <1>3 DEF Committed
    <2>. QED BY <1>1, <1>2, <2>1, <2>2, <2>3, GoneStays
  <1>. QED BY <1>4, <1>5, <1>6, <1>7, <1>8

LEMMA SessionNext == SessionInv /\ [Sessions!Next]_(Sessions!vars) => SessionInv'
  <1>. SUFFICES ASSUME SessionInv, [Sessions!Next]_(Sessions!vars) PROVE SessionInv'
    OBVIOUS
  <1>0. /\ dbTime \in Int /\ \A u \in picked : u \in Committed /\ Expired(u)
        /\ rows \subseteq Committed
    BY DEF SessionInv, SessionTypes
  <1>1. ASSUME NEW t \in Token, Sessions!Login(t) PROVE SessionInv'
    BY <1>1, SessionInsert, SessionFindVictims, SessionDeleteVictims, SessionCommit, SessionAbort
       DEF Sessions!Login
  <1>2. ASSUME NEW t \in Token, Sessions!End(t) PROVE SessionInv'
    BY <1>0, <1>2, SessionRest DEF Sessions!End
  <1>3. CASE Sessions!FindExpired
    <2>1. \A u \in picked' : u \in rows /\ Expired(u)
      BY <1>3 DEF Sessions!FindExpired, Sessions!Expired, Expired
    <2>2. UNCHANGED <<dbTime, pc, at, victims, alone, rows, ended>>
      BY <1>3 DEF Sessions!FindExpired
    <2>. QED BY <1>0, <2>1, <2>2, SessionRest
  <1>4. CASE Sessions!DeleteExpired
    BY <1>0, <1>4, SessionRest DEF Sessions!DeleteExpired
  <1>5. CASE Sessions!Tick
    BY <1>0, <1>5, SessionRest DEF Sessions!Tick
  <1>6. CASE UNCHANGED Sessions!vars
    BY <1>0, <1>6, SessionRest DEF Sessions!vars
  <1>. QED BY <1>1, <1>2, <1>3, <1>4, <1>5, <1>6 DEF Sessions!Next

LEMMA BoundHolds == SessionInv => SessionBound
  <1>. SUFFICES ASSUME SessionInv PROVE SessionBound
    OBVIOUS
  <1>1. PICK W0 : Covers(W0, rows)
    BY DEF SessionInv, OverlapInv
  <1>2. Keep - 1 \in Int /\ Logins \in Int /\ Keep - 1 + Logins \in Int
    BY SessionAssumption
  <1>3. AtMost(rows \ W0, Keep - 1) /\ AtMost(W0, Logins)
    BY <1>1 DEF Covers
  <1>4. AtMost((rows \ W0) \cup W0, Keep - 1 + Logins)
    BY <1>2, <1>3, UnionAtMost
  <1>5. AtMost(rows, Keep - 1 + Logins)
    BY <1>2, <1>4, FewerAtMost
  <1>. QED BY <1>5 DEF SessionBound, AtMost

LEMMA LoneCommit ==
  ASSUME SessionInv, [Sessions!Next]_(Sessions!vars), NEW t \in Token,
         pc[t] = "deleted", pc'[t] \in {"done", "lost"}, alone[t]
  PROVE  Cardinality(rows') <= Keep
  <1>1. Sessions!Commit(t)
    BY DEF Sessions!Next, Sessions!vars, Sessions!Login, Sessions!Insert, Sessions!FindVictims,
           Sessions!DeleteVictims, Sessions!Commit, Sessions!Abort, Sessions!End,
           Sessions!FindExpired, Sessions!DeleteExpired, Sessions!Tick, SessionInv, SessionTypes
  <1>2. rows' = (rows \ victims[t]) \cup {t}
    BY <1>1 DEF Sessions!Commit
  <1>3. AtMost(rows \ victims[t], Keep - 1)
    BY DEF SessionInv, LoneInv, Found, Sessions!InFlight, Sessions!Running
  <1>4. IsFiniteSet({t}) /\ Cardinality({t}) = 1
    BY FS_Singleton
  <1>5. AtMost({t}, 1)
    BY <1>4 DEF AtMost
  <1>6. Keep - 1 \in Int /\ 1 \in Int /\ (Keep - 1) + 1 = Keep
    BY SessionAssumption
  <1>7. AtMost(rows', (Keep - 1) + 1)
    BY <1>2, <1>3, <1>5, <1>6, UnionAtMost
  <1>. QED BY <1>6, <1>7 DEF AtMost

\* The cap as it is kept, for every number of users' logins, any cap, any
\* lifetime and any number of logins that overlap.
THEOREM CapHolds == Sessions!Spec => CapKept
  <1>1. SessionInv => SessionBound /\ GoneForAReason
    BY BoundHolds DEF SessionInv
  <1>2. SessionInv /\ [Sessions!Next]_(Sessions!vars) =>
          [\A t \in Token : pc[t] = "deleted" /\ pc'[t] \in {"done", "lost"} /\ alone[t]
             => Cardinality(rows') <= Keep]_pc
    BY LoneCommit
  <1>. QED BY <1>1, <1>2, SessionInit, SessionNext, PTL DEF Sessions!Spec, CapKept, LoneLoginRestoresCap
LEMMA SessionTypeStep ==
  MaxNow \in Nat /\ Sessions!TypeOK /\ [Sessions!Next]_(Sessions!vars) => Sessions!TypeOK'
  <1>. SUFFICES ASSUME MaxNow \in Nat, Sessions!TypeOK, [Sessions!Next]_(Sessions!vars)
                PROVE  Sessions!TypeOK'
    OBVIOUS
  <1>. USE DEF Sessions!TypeOK, Sessions!Running
  <1>1. ASSUME NEW t \in Token, Sessions!Insert(t) PROVE Sessions!TypeOK'
    <2>1. \A u \in Token : (IF u = t THEN Sessions!InFlight = {}
                            ELSE alone[u] /\ u \notin Sessions!InFlight) \in BOOLEAN
      OBVIOUS
    <2>2. alone' \in [Token -> BOOLEAN]
      BY <1>1, <2>1, Zenon DEF Sessions!Insert
    <2>. QED BY <1>1, <2>2 DEF Sessions!Insert
  <1>2. ASSUME NEW t \in Token, Sessions!FindVictims(t) PROVE Sessions!TypeOK'
    <2>1. PICK D \in SUBSET rows : victims' = [victims EXCEPT ![t] = D]
      BY <1>2 DEF Sessions!FindVictims
    <2>2. victims' \in [Token -> SUBSET Token]
      BY <2>1
    <2>. QED BY <1>2, <2>2 DEF Sessions!FindVictims
  <1>3. ASSUME NEW t \in Token, Sessions!DeleteVictims(t) PROVE Sessions!TypeOK'
    <2>1. victims' \in [Token -> SUBSET Token]
      BY <1>3 DEF Sessions!DeleteVictims
    <2>. QED BY <1>3, <2>1 DEF Sessions!DeleteVictims
  <1>4. ASSUME NEW t \in Token, Sessions!Commit(t) PROVE Sessions!TypeOK'
    <2>1. victims' \in [Token -> SUBSET Token]
      BY <1>4 DEF Sessions!Commit
    <2>. QED BY <1>4, <2>1 DEF Sessions!Commit
  <1>5. ASSUME NEW t \in Token, Sessions!Abort(t) PROVE Sessions!TypeOK'
    <2>1. victims' \in [Token -> SUBSET Token]
      BY <1>5 DEF Sessions!Abort
    <2>. QED BY <1>5, <2>1 DEF Sessions!Abort
  <1>6. ASSUME NEW t \in Token, Sessions!End(t) PROVE Sessions!TypeOK'
    BY <1>6 DEF Sessions!End
  <1>7. CASE Sessions!FindExpired
    <2>1. picked' \subseteq rows
      BY <1>7 DEF Sessions!FindExpired
    <2>. QED BY <1>7, <2>1 DEF Sessions!FindExpired
  <1>8. CASE Sessions!DeleteExpired
    BY <1>8 DEF Sessions!DeleteExpired
  <1>9. CASE Sessions!Tick
    BY <1>9 DEF Sessions!Tick
  <1>10. CASE UNCHANGED Sessions!vars
    BY <1>10 DEF Sessions!vars
  <1>. QED BY <1>1, <1>2, <1>3, <1>4, <1>5, <1>6, <1>7, <1>8, <1>9, <1>10
           DEF Sessions!Next, Sessions!Login

\* The rows, the transactions of the logins and the cleanup keep their types,
\* for every number of logins and every end of the clock.
THEOREM SessionTypesHold == MaxNow \in Nat => (Sessions!Spec => []Sessions!TypeOK)
  <1>. SUFFICES ASSUME MaxNow \in Nat PROVE Sessions!Spec => []Sessions!TypeOK
    OBVIOUS
  <1>1. Sessions!Init => Sessions!TypeOK
    BY DEF Sessions!Init, Sessions!TypeOK, Sessions!Running
  <1>2. Sessions!TypeOK /\ [Sessions!Next]_(Sessions!vars) => Sessions!TypeOK'
    BY SessionTypeStep
  <1>. QED BY <1>1, <1>2, PTL DEF Sessions!Spec

-----------------------------------------------------------------------------
(* The pages of the notes.                                                 *)

CONSTANTS User, LastTime

VARIABLES clock, started, notes, after

Notes == INSTANCE NotePages WITH MaxTime <- LastTime

Entry == [id : NoteId, user : User, created : Nat]
HasKey(n) == n.created \in Nat /\ n.id \in Nat

\* The zero cursor, or the time and the id of a note.
Cursor == {Zero} \cup [created : Nat, id : Nat \ {0}]

\* A set of notes that the table can have.
Table(S) ==
  /\ IsFiniteSet(S) /\ S \subseteq Entry
  /\ \A m, n \in S : m.id = n.id => m = n

\* s lists the notes of S, newest first.
Lists(s, S) ==
  /\ s \in [1..Cardinality(S) -> S]
  /\ \A n \in S : \E i \in 1..Cardinality(S) : s[i] = n
  /\ \A i, j \in 1..Cardinality(S) : i < j => Less(s[j], s[i])

Shown(s, n) == \E i \in 1..Len(s) : s[i] = n
Down(s) == \A i, j \in 1..Len(s) : i < j => Less(s[j], s[i])

\* The owner's notes of the table that are on the page after cursor a or on
\* a later one.
Following(a) == {n \in notes : n.user = Owner /\ (a.id # 0 => Less(n, a))}

\* s is a page after cursor a, and o is the cursor of the next page.
PageAfter(s, a, o) ==
  /\ s \in Seq(Entry) /\ Down(s)
  /\ \A i \in 1..Len(s) : s[i].user = Owner /\ (a.id # 0 => Less(s[i], a))
  /\ o.id # 0 => Len(s) = PageSize /\ s[PageSize].created = o.created /\ s[PageSize].id = o.id

\* s are the pages before cursor a.
PagesBefore(s, a) ==
  /\ s \in Seq(Entry) /\ Down(s)
  /\ \A i \in 1..Len(s) : s[i].user = Owner /\ a.id # 0 /\ ~Less(s[i], a)

-----------------------------------------------------------------------------
LEMMA SameSize == \A S : Notes!Cardinality(S) = Cardinality(S)
  BY DEF Notes!Cardinality, Cardinality, Notes!IsFiniteSet, IsFiniteSet

LEMMA LessOrder ==
  ASSUME NEW a, NEW b, NEW c, HasKey(a), HasKey(b), HasKey(c)
  PROVE  /\ ~Less(a, a)
         /\ Less(a, b) /\ Less(b, c) => Less(a, c)
         /\ Less(a, b) \/ Less(b, a) \/ (a.created = b.created /\ a.id = b.id)
  BY DEF Less, HasKey

\* A finite set of notes has an order by the number of the newer notes.
LEMMA SortedLists ==
  ASSUME NEW S, Table(S)
  PROVE  Lists(Notes!Sorted(S), S)
  <1>. DEFINE Newer(n) == {m \in S : Less(n, m)}
              rank == [n \in S |-> Cardinality(Newer(n)) + 1]
              N == Cardinality(S)
  <1>1. IsFiniteSet(S) /\ N \in Nat /\ \A n \in S : HasKey(n)
    BY FS_CardinalityType, NoteAssumption DEF Table, HasKey, Entry
  <1>2. \A n \in S : IsFiniteSet(Newer(n)) /\ Cardinality(Newer(n)) \in Nat /\ Cardinality(Newer(n)) < N
    <2>. SUFFICES ASSUME NEW n \in S
                  PROVE  IsFiniteSet(Newer(n)) /\ Cardinality(Newer(n)) \in Nat /\ Cardinality(Newer(n)) < N
      OBVIOUS
    <2>1. n \notin Newer(n) /\ Newer(n) \in SUBSET S
      BY <1>1, LessOrder
    <2>. HIDE DEF Newer
    <2>2. IsFiniteSet(Newer(n)) /\ Cardinality(Newer(n)) <= N /\ Cardinality(Newer(n)) # N
      BY <1>1, <2>1, FS_Subset
    <2>. QED BY <1>1, <2>2, FS_CardinalityType
  <1>3. ASSUME NEW m \in S, NEW n \in S, Less(m, n)
        PROVE  Cardinality(Newer(n)) < Cardinality(Newer(m))
    <2>1. Newer(n) \in SUBSET Newer(m) /\ n \in Newer(m) /\ n \notin Newer(n)
      BY <1>1, <1>3, LessOrder
    <2>. HIDE DEF Newer
    <2>2. Cardinality(Newer(n)) <= Cardinality(Newer(m)) /\ Cardinality(Newer(n)) # Cardinality(Newer(m))
      BY <1>2, <2>1, FS_Subset
    <2>. QED BY <1>2, <2>2
  <1>4. \A m, n \in S : rank[m] = rank[n] => m = n
    <2>. SUFFICES ASSUME NEW m \in S, NEW n \in S, m # n PROVE Cardinality(Newer(m)) + 1 # Cardinality(Newer(n)) + 1
      OBVIOUS
    <2>1. Less(m, n) \/ Less(n, m)
      BY <1>1, LessOrder DEF Table, Entry
    <2>. HIDE DEF Newer
    <2>2. Cardinality(Newer(m)) < Cardinality(Newer(n)) \/ Cardinality(Newer(n)) < Cardinality(Newer(m))
      BY <1>3, <2>1
    <2>. QED BY <1>2, <2>2
  <1>5. rank \in [S -> 1..N]
    <2>. HIDE DEF Newer
    <2>1. \A n \in S : Cardinality(Newer(n)) + 1 \in 1..N
      BY <1>1, <1>2
    <2>. QED BY <2>1
  <1>6. rank \in Surjection(S, 1..N)
    <2>1. rank \in Injection(S, 1..N)
      BY <1>4, <1>5 DEF Injection, IsInjective
    <2>2. IsFiniteSet(1..N) /\ Cardinality(1..N) = N
      BY <1>1, FS_Interval
    <2>. HIDE DEF rank
    <2>. QED BY <1>1, <2>1, <2>2, FS_Injection
  <1>7. \A i \in 1..N : \E n \in S : rank[n] = i
    BY <1>6 DEF Surjection
  <1>8. PICK s \in [1..N -> S] : \A i \in 1..N : rank[s[i]] = i
    <2>. HIDE DEF rank
    <2>1. [i \in 1..N |-> CHOOSE n \in S : rank[n] = i] \in [1..N -> S]
      BY <1>7
    <2>. QED BY <1>7, <2>1
  <1>9. \A i, j \in 1..N : i < j => Less(s[j], s[i])
    <2>. SUFFICES ASSUME NEW i \in 1..N, NEW j \in 1..N, i < j PROVE Less(s[j], s[i])
      OBVIOUS
    <2>1. s[i] \in S /\ s[j] \in S
      OBVIOUS
    <2>2. Cardinality(Newer(s[i])) + 1 = i /\ Cardinality(Newer(s[j])) + 1 = j
      BY <1>8, <2>1
    <2>. HIDE DEF Newer
    <2>3. Cardinality(Newer(s[i])) < Cardinality(Newer(s[j]))
      BY <1>2, <2>1, <2>2
    <2>4. s[i] # s[j] /\ ~Less(s[i], s[j])
      BY <1>2, <1>3, <2>1, <2>3
    <2>. QED BY <1>1, <2>1, <2>4, LessOrder DEF Table, Entry
  <1>10. PICK t \in [1..N -> S] : t = Notes!Sorted(S) /\ \A i, j \in 1..N : i < j => Less(t[j], t[i])
    <2>. HIDE DEF rank
    <2>1. \A m, n : Notes!Less(m, n) <=> Less(m, n)
      BY DEF Notes!Less, Less
    <2>2. \E q \in [1..N -> S] : \A i, j \in 1..N : i < j => Notes!Less(q[j], q[i])
      BY <1>8, <1>9, <2>1
    <2>3. Notes!Sorted(S) = CHOOSE q \in [1..N -> S] : \A i, j \in 1..N : i < j => Notes!Less(q[j], q[i])
      BY SameSize, Zenon DEF Notes!Sorted
    <2>. QED BY <2>1, <2>2, <2>3
  <1>11. t \in Surjection(1..N, S)
    <2>1. \A i, j \in 1..N : t[i] = t[j] => i = j
      <3>. SUFFICES ASSUME NEW i \in 1..N, NEW j \in 1..N, i # j PROVE t[i] # t[j]
        OBVIOUS
      <3>1. i < j \/ j < i
        OBVIOUS
      <3>2. t[i] \in S /\ t[j] \in S
        OBVIOUS
      <3>. QED BY <1>1, <1>10, <3>1, <3>2, LessOrder
    <2>2. t \in Injection(1..N, S)
      BY <2>1 DEF Injection, IsInjective
    <2>3. IsFiniteSet(1..N) /\ Cardinality(1..N) = N
      BY <1>1, FS_Interval
    <2>. QED BY <1>1, <2>2, <2>3, FS_Injection
  <1>. QED BY <1>10, <1>11 DEF Lists, Surjection

LEMMA CursorText ==
  ASSUME NEW c \in Cursor
  PROVE  /\ parseCursor(Notes!formatCursor(c)) = c
         /\ Notes!formatCursor(c) = NoText <=> c.id = 0
  <1>1. CASE c = Zero
    BY <1>1 DEF Zero, NoText, parseCursor, Notes!formatCursor, Notes!IsZero, Notes!NoText
  <1>2. CASE c # Zero
    <2>1. c \in [created : Nat, id : Nat \ {0}]
      BY <1>2 DEF Cursor
    <2>2. PICK t : t = c.created
      OBVIOUS
    <2>3. t \in Nat /\ 2 * (t \div 2) + (t % 2) = t
      BY <2>1, <2>2
    <2>4. Notes!formatCursor(c) = [sec |-> t \div 2, frac |-> t % 2, id |-> c.id]
      BY <2>1, <2>2 DEF Notes!formatCursor, Notes!IsZero
    <2>5. Notes!formatCursor(c) # NoText /\ c.id # 0
      BY <2>1, <2>4 DEF NoText
    <2>6. parseCursor(Notes!formatCursor(c)) = [created |-> t, id |-> c.id]
      BY <2>3, <2>4, <2>5 DEF parseCursor
    <2>. QED BY <2>1, <2>2, <2>5, <2>6
  <1>. QED BY <1>1, <1>2

LEMMA Limited ==
  ASSUME NEW T, NEW s \in Seq(T), NEW n \in Nat
  PROVE  /\ Notes!Limit(s, n) \in Seq(T)
         /\ Len(Notes!Limit(s, n)) = (IF Len(s) < n THEN Len(s) ELSE n)
         /\ \A i \in 1..Len(Notes!Limit(s, n)) : i \in 1..Len(s) /\ Notes!Limit(s, n)[i] = s[i]
  <1>1. PICK k : k = IF Len(s) < n THEN Len(s) ELSE n
    OBVIOUS
  <1>2. Len(s) \in Nat /\ k \in Nat /\ k <= Len(s)
    BY <1>1, LenProperties
  <1>3. \A i \in 1..k : s[i] \in T
    BY <1>2, ElementOfSeq
  <1>4. Notes!Limit(s, n) = SubSeq(s, 1, k)
    BY <1>1 DEF Notes!Limit
  <1>5. /\ SubSeq(s, 1, k) \in Seq(T) /\ Len(SubSeq(s, 1, k)) = (IF 1 <= k THEN k - 1 + 1 ELSE 0)
        /\ \A i \in 1..(k - 1 + 1) : SubSeq(s, 1, k)[i] = s[1 + i - 1]
    BY <1>2, <1>3, SubSeqProperties
  <1>6. Len(SubSeq(s, 1, k)) = k /\ \A i \in 1..k : SubSeq(s, 1, k)[i] = s[i]
    BY <1>2, <1>5
  <1>. QED BY <1>1, <1>2, <1>4, <1>5, <1>6

\* A page and the cursor of the next one divide what follows the cursor.
LEMMA PageShows ==
  ASSUME Table(notes), NEW text, parseCursor(text) \in Cursor, Notes!Page(text)
  PROVE  /\ parseCursor(after') = parseCursor(text)
         /\ parseCursor(older') \in Cursor /\ (older' = NoText <=> parseCursor(older').id = 0)
         /\ PageAfter(listed', parseCursor(text), parseCursor(older'))
         /\ \A n \in Following(parseCursor(text)) :
              Shown(listed', n) \/ (parseCursor(older').id # 0 /\ Less(n, parseCursor(older')))
  <1>1. PICK c : c = parseCursor(text)
    OBVIOUS
  <1>2. PICK S : S = Following(c)
    OBVIOUS
  <1>3. PICK s : s = Notes!Sorted(S)
    OBVIOUS
  <1>4. Table(S) /\ S \subseteq Entry
    BY <1>2, FS_Subset DEF Following, Table
  <1>5. Lists(s, S)
    BY <1>3, <1>4, SortedLists
  <1>6. PICK N \in Nat : N = Cardinality(S)
    BY <1>4, FS_CardinalityType DEF Table
  <1>7. s \in Seq(S) /\ Len(s) = N
    BY <1>5, <1>6 DEF Lists
  <1>8. PICK found, page : found = Notes!Limit(s, PageSize + 1) /\ page = Notes!Limit(found, PageSize)
    OBVIOUS
  <1>9. PageSize \in Nat /\ PageSize >= 1 /\ PageSize + 1 \in Nat
    BY NoteAssumption
  <1>10. /\ found \in Seq(S) /\ Len(found) = (IF N < PageSize + 1 THEN N ELSE PageSize + 1)
         /\ \A i \in 1..Len(found) : i \in 1..N /\ found[i] = s[i]
    BY <1>7, <1>8, <1>9, Limited
  <1>11. /\ page \in Seq(S) /\ Len(page) = (IF N < PageSize THEN N ELSE PageSize)
         /\ \A i \in 1..Len(page) : i \in 1..N /\ page[i] = s[i]
    <2>1. /\ page \in Seq(S) /\ Len(page) = (IF Len(found) < PageSize THEN Len(found) ELSE PageSize)
          /\ \A i \in 1..Len(page) : i \in 1..Len(found) /\ page[i] = found[i]
      BY <1>8, <1>9, <1>10, Limited
    <2>. QED BY <1>6, <1>9, <1>10, <2>1
  <1>12. Notes!ListByUser(Owner, c, PageSize + 1) = found
    <2>1. Notes!OlderThan({n \in notes : n.user = Owner}, c) = S
      BY <1>2 DEF Notes!OlderThan, Notes!IsZero, Following, Notes!Less, Less
    <2>. QED BY <1>3, <1>8, <2>1 DEF Notes!ListByUser
  <1>13. PICK o : o = Notes!NextOf(found)
    OBVIOUS
  <1>14. /\ after' = Notes!formatCursor(c) /\ listed' = page /\ older' = Notes!formatCursor(o)
    <2>1. Notes!parseCursor(text) = c
      BY <1>1 DEF Notes!parseCursor, parseCursor, Notes!NoText, NoText, Notes!Zero, Zero
    <2>. QED BY <1>8, <1>12, <1>13, <2>1 DEF Notes!Page
  <1>15. /\ o \in Cursor
         /\ N <= PageSize => o.id = 0
         /\ N > PageSize => o.id # 0 /\ o.created = s[PageSize].created /\ o.id = s[PageSize].id
    <2>1. ASSUME N <= PageSize PROVE o \in Cursor /\ o.id = 0
      <3>1. ~(Len(found) > PageSize)
        BY <1>6, <1>9, <1>10, <2>1
      <3>2. o = Zero
        BY <1>13, <3>1 DEF Notes!NextOf, Notes!Zero, Zero
      <3>. QED BY <3>2 DEF Cursor, Zero
    <2>2. ASSUME N > PageSize
          PROVE  o \in Cursor /\ o.id # 0 /\ o.created = s[PageSize].created /\ o.id = s[PageSize].id
      <3>1. PageSize \in 1..Len(found) /\ Len(found) > PageSize
        BY <1>6, <1>9, <1>10, <2>2
      <3>2. found[PageSize] = s[PageSize] /\ found[PageSize] \in Entry
        BY <1>4, <1>10, <3>1, ElementOfSeq
      <3>3. o = [created |-> s[PageSize].created, id |-> s[PageSize].id]
        BY <1>13, <3>1, <3>2 DEF Notes!NextOf, Notes!CursorOf
      <3>4. s[PageSize].created \in Nat /\ s[PageSize].id \in Nat \ {0}
        BY <3>2, NoteAssumption DEF Entry
      <3>5. o \in Cursor
        BY <3>3, <3>4 DEF Cursor
      <3>. QED BY <3>3, <3>4, <3>5
    <2>3. N <= PageSize \/ N > PageSize
      BY <1>6, <1>9
    <2>4. o \in Cursor
      BY <2>1, <2>2, <2>3
    <2>. QED BY <2>1, <2>2, <2>4
  <1>16. /\ parseCursor(after') = c /\ parseCursor(older') = o /\ (older' = NoText <=> o.id = 0)
    BY <1>1, <1>14, <1>15, CursorText
  <1>17. PageAfter(page, c, o)
    <2>1. page \in Seq(Entry)
      BY <1>4, <1>11, SeqMonotonic
    <2>2. Down(page)
      BY <1>5, <1>6, <1>11 DEF Down, Lists
    <2>3. \A i \in 1..Len(page) : page[i] \in S
      BY <1>11, ElementOfSeq
    <2>4. o.id # 0 => Len(page) = PageSize /\ page[PageSize].created = o.created /\ page[PageSize].id = o.id
      BY <1>6, <1>9, <1>11, <1>15
    <2>. QED BY <1>2, <2>1, <2>2, <2>3, <2>4 DEF PageAfter, Following
  <1>18. \A n \in S : Shown(page, n) \/ (o.id # 0 /\ Less(n, o))
    <2>. SUFFICES ASSUME NEW n \in S PROVE Shown(page, n) \/ (o.id # 0 /\ Less(n, o))
      OBVIOUS
    <2>1. PICK i \in 1..N : s[i] = n
      BY <1>5, <1>6 DEF Lists
    <2>2. CASE i <= Len(page)
      BY <1>11, <2>1, <2>2 DEF Shown
    <2>3. CASE i > Len(page)
      <3>1. N > PageSize /\ PageSize \in 1..N /\ PageSize < i
        BY <1>6, <1>9, <1>11, <2>3
      <3>2. Less(n, s[PageSize])
        BY <1>5, <1>6, <2>1, <3>1 DEF Lists
      <3>. QED BY <1>15, <3>1, <3>2 DEF Less
    <2>4. Len(page) \in Nat
      BY <1>11, LenProperties
    <2>. QED BY <2>2, <2>3, <2>4
  <1>. QED BY <1>1, <1>2, <1>14, <1>15, <1>16, <1>17, <1>18
-----------------------------------------------------------------------------
(* The walk.                                                               *)

Here == parseCursor(after)
Onward == parseCursor(older)

TableInv ==
  /\ clock \in Nat /\ Table(notes \cup started)
  /\ stable \subseteq {n \in notes : n.user = Owner}

PlaceInv ==
  /\ Here \in Cursor /\ Onward \in Cursor /\ (older = NoText <=> Onward.id = 0)
  /\ PagesBefore(before, Here) /\ PageAfter(listed, Here, Onward)

\* What the earlier pages did not show follows the cursor of this one.
LeftInv == \A n \in stable : Shown(before, n) \/ Here.id = 0 \/ Less(n, Here)

ShownInv ==
  ~loading => \A n \in stable : \/ Shown(before, n) \/ Shown(listed, n)
                                \/ Onward.id # 0 /\ Less(n, Onward)

NoteInv == TableInv /\ PlaceInv /\ LeftInv /\ ShownInv

\* What a concatenation of pages shows.
LEMMA Joined ==
  ASSUME NEW T, NEW s \in Seq(T), NEW t \in Seq(T)
  PROVE  /\ s \o t \in Seq(T)
         /\ \A n : Shown(s \o t, n) <=> Shown(s, n) \/ Shown(t, n)
         /\ \A i \in 1..Len(s \o t) :
              \/ i \in 1..Len(s) /\ (s \o t)[i] = s[i]
              \/ i > Len(s) /\ i - Len(s) \in 1..Len(t) /\ (s \o t)[i] = t[i - Len(s)]
  <1>1. PICK k, l, q : k = Len(s) /\ l = Len(t) /\ q = s \o t
    OBVIOUS
  <1>2. k \in Nat /\ l \in Nat
    BY <1>1, LenProperties
  <1>3. /\ q \in Seq(T) /\ Len(q) = k + l
        /\ \A i \in 1..(k + l) : q[i] = IF i <= k THEN s[i] ELSE t[i - k]
    BY <1>1, ConcatProperties
  <1>4. \A i \in 1..(k + l) : \/ i \in 1..k /\ q[i] = s[i]
                              \/ i > k /\ i - k \in 1..l /\ q[i] = t[i - k]
    BY <1>2, <1>3
  <1>5. ASSUME NEW n PROVE Shown(q, n) <=> Shown(s, n) \/ Shown(t, n)
    <2>1. ASSUME NEW i \in 1..k, s[i] = n PROVE i \in 1..(k + l) /\ q[i] = n
      BY <1>2, <1>3, <2>1
    <2>2. ASSUME NEW i \in 1..l, t[i] = n PROVE k + i \in 1..(k + l) /\ q[k + i] = n
      <3>1. k + i \in 1..(k + l) /\ ~(k + i <= k) /\ (k + i) - k = i
        BY <1>2
      <3>. QED BY <1>3, <2>2, <3>1
    <2>3. Shown(q, n) => Shown(s, n) \/ Shown(t, n)
      BY <1>1, <1>3, <1>4 DEF Shown
    <2>4. Shown(s, n) => Shown(q, n)
      BY <1>1, <1>3, <2>1 DEF Shown
    <2>5. Shown(t, n) => Shown(q, n)
      BY <1>1, <1>3, <2>2 DEF Shown
    <2>. QED BY <2>3, <2>4, <2>5
  <1>. QED BY <1>1, <1>3, <1>4, <1>5

\* The pages before a cursor, with the page after it.
LEMMA PagesJoin ==
  ASSUME NEW a \in Cursor, NEW o \in Cursor, NEW s, NEW t, PagesBefore(s, a), PageAfter(t, a, o)
  PROVE  /\ Down(s \o t) /\ \A i \in 1..Len(s \o t) : (s \o t)[i].user = Owner
         /\ o.id # 0 => PagesBefore(s \o t, o)
  <1>1. s \in Seq(Entry) /\ t \in Seq(Entry)
    BY DEF PagesBefore, PageAfter
  <1>2. PICK k, l, q : k = Len(s) /\ l = Len(t) /\ q = s \o t
    OBVIOUS
  <1>3. k \in Nat /\ l \in Nat
    BY <1>1, <1>2, LenProperties
  <1>4. /\ q \in Seq(Entry)
        /\ \A i \in 1..Len(q) : \/ i \in 1..k /\ q[i] = s[i]
                                \/ i > k /\ i - k \in 1..l /\ q[i] = t[i - k]
    BY <1>1, <1>2, Joined
  <1>5. HasKey(a) /\ HasKey(o) /\ \A e \in Entry : HasKey(e)
    <2>1. \A c \in [created : Nat, id : Nat \ {0}] : HasKey(c)
      BY DEF HasKey
    <2>2. HasKey(Zero)
      BY DEF HasKey, Zero
    <2>3. \A e \in Entry : HasKey(e)
      BY NoteAssumption DEF HasKey, Entry
    <2>. QED BY <2>1, <2>2, <2>3 DEF Cursor
  <1>6. (\A i \in 1..k : s[i] \in Entry) /\ (\A i \in 1..l : t[i] \in Entry)
    BY <1>1, <1>2, ElementOfSeq
  <1>7. \A i \in 1..k : s[i].user = Owner /\ a.id # 0 /\ ~Less(s[i], a)
    BY <1>2 DEF PagesBefore
  <1>8. \A i \in 1..l : t[i].user = Owner /\ (a.id # 0 => Less(t[i], a))
    BY <1>2 DEF PageAfter
  <1>9. \A i \in 1..k, j \in 1..l : Less(t[j], s[i])
    <2>. SUFFICES ASSUME NEW i \in 1..k, NEW j \in 1..l PROVE Less(t[j], s[i])
      OBVIOUS
    <2>1. Less(t[j], a) /\ ~Less(s[i], a) /\ s[i] \in Entry /\ t[j] \in Entry
      BY <1>6, <1>7, <1>8
    <2>. QED BY <1>5, <2>1 DEF Less, HasKey
  <1>10. \A i, j \in 1..k : i < j => Less(s[j], s[i])
    BY <1>2 DEF PagesBefore, Down
  <1>11. \A i, j \in 1..l : i < j => Less(t[j], t[i])
    BY <1>2 DEF PageAfter, Down
  <1>12. Down(q)
    <2>. SUFFICES ASSUME NEW i \in 1..Len(q), NEW j \in 1..Len(q), i < j PROVE Less(q[j], q[i])
      BY DEF Down
    <2>1. CASE i \in 1..k /\ q[i] = s[i]
      <3>1. CASE j \in 1..k /\ q[j] = s[j]
        BY <1>10, <2>1, <3>1
      <3>2. CASE j > k /\ j - k \in 1..l /\ q[j] = t[j - k]
        BY <1>9, <2>1, <3>2
      <3>. QED BY <1>4, <3>1, <3>2
    <2>2. CASE i > k /\ i - k \in 1..l /\ q[i] = t[i - k]
      <3>1. j > k /\ i - k < j - k
        BY <1>3, <2>2
      <3>2. j - k \in 1..l /\ q[j] = t[j - k]
        BY <1>3, <1>4, <3>1
      <3>. QED BY <1>11, <2>2, <3>1, <3>2
    <2>. QED BY <1>4, <2>1, <2>2
  <1>13. \A i \in 1..Len(q) : q[i].user = Owner
    BY <1>4, <1>7, <1>8
  <1>14. ASSUME o.id # 0 PROVE PagesBefore(q, o)
    <2>1. l = PageSize /\ l \in 1..l /\ t[l].created = o.created /\ t[l].id = o.id
      BY <1>2, <1>14, NoteAssumption DEF PageAfter
    <2>2. \A e : Less(e, o) <=> Less(e, t[l])
      BY <2>1 DEF Less
    <2>3. \A i \in 1..k : ~Less(s[i], t[l])
      <3>. SUFFICES ASSUME NEW i \in 1..k PROVE ~Less(s[i], t[l])
        OBVIOUS
      <3>1. Less(t[l], s[i]) /\ HasKey(t[l]) /\ HasKey(s[i])
        BY <1>5, <1>6, <1>9, <2>1
      <3>. QED BY <3>1, LessOrder
    <2>4. \A i \in 1..l : ~Less(t[i], t[l])
      <3>. SUFFICES ASSUME NEW i \in 1..l PROVE ~Less(t[i], t[l])
        OBVIOUS
      <3>1. HasKey(t[l]) /\ HasKey(t[i])
        BY <1>5, <1>6, <2>1
      <3>2. i = l \/ Less(t[l], t[i])
        BY <1>11, <2>1
      <3>. QED BY <3>1, <3>2, LessOrder
    <2>5. \A i \in 1..Len(q) : ~Less(q[i], o)
      BY <1>4, <2>2, <2>3, <2>4
    <2>. QED BY <1>4, <1>12, <1>13, <1>14, <2>5 DEF PagesBefore
  <1>. QED BY <1>2, <1>12, <1>13, <1>14

\* A page keeps the invariant when the notes that stay are the shown ones and
\* those that follow its cursor.
LEMMA PageKeeps ==
  ASSUME TableInv, NEW text, NEW c \in Cursor, c = parseCursor(text), Notes!Page(text),
         clock' = clock, notes' = notes, started' = started,
         stable' \subseteq {n \in notes : n.user = Owner}, PagesBefore(before', c),
         \A n \in stable' : Shown(before', n) \/ c.id = 0 \/ Less(n, c)
  PROVE  NoteInv'
  <1>1. Table(notes)
    BY FS_Subset DEF TableInv, Table
  <1>2. /\ Here' = c /\ Onward' \in Cursor /\ (older' = NoText <=> Onward'.id = 0)
        /\ PageAfter(listed', c, Onward')
        /\ \A n \in Following(c) : Shown(listed', n) \/ (Onward'.id # 0 /\ Less(n, Onward'))
    BY <1>1, PageShows DEF Here, Onward
  <1>3. TableInv'
    BY DEF TableInv
  <1>4. PlaceInv'
    BY <1>2 DEF PlaceInv
  <1>5. LeftInv'
    BY <1>2 DEF LeftInv
  <1>6. ShownInv'
    BY <1>2 DEF ShownInv, Following
  <1>. QED BY <1>3, <1>4, <1>5, <1>6 DEF NoteInv

\* A step of the database does not touch what the tab shows.
LEMMA TableStepKeeps ==
  ASSUME NoteInv, TableInv', stable' \subseteq stable, loading => loading',
         before' = before, after' = after, listed' = listed, older' = older
  PROVE  NoteInv'
  BY DEF NoteInv, PlaceInv, LeftInv, ShownInv, Here, Onward

LEMMA WalkInit == Notes!Init => NoteInv
  <1>. SUFFICES ASSUME Notes!Init PROVE NoteInv
    OBVIOUS
  <1>. USE DEF Notes!Init
  <1>1. TableInv
    BY FS_EmptySet DEF TableInv, Table
  <1>2. Here = Zero /\ Onward = Zero /\ older = NoText /\ Zero.id = 0
    BY DEF Here, Onward, parseCursor, NoText, Notes!NoText, Zero
  <1>3. before \in Seq(Entry) /\ listed \in Seq(Entry) /\ Len(before) = 0 /\ Len(listed) = 0
    BY EmptySeq
  <1>4. PlaceInv
    BY <1>2, <1>3 DEF PlaceInv, Cursor, PagesBefore, PageAfter, Down
  <1>. QED BY <1>1, <1>4 DEF NoteInv, LeftInv, ShownInv

LEMMA WalkStep == NoteInv /\ [Notes!Next]_Notes!vars => NoteInv'
  <1>. SUFFICES ASSUME NoteInv, [Notes!Next]_Notes!vars PROVE NoteInv'
    OBVIOUS
  <1>. USE DEF Notes!tab, Notes!table
  <1>0. /\ clock \in Nat /\ Table(notes \cup started) /\ TableInv
        /\ stable \subseteq {n \in notes : n.user = Owner}
    BY DEF NoteInv, TableInv
  <1>1. CASE Notes!Tick
    <2>1. TableInv'
      BY <1>0, <1>1 DEF Notes!Tick, TableInv
    <2>. QED BY <1>1, <2>1, TableStepKeeps DEF Notes!Tick
  <1>2. ASSUME NEW user \in User, NEW id \in NoteId, Notes!InsertNote(user, id) PROVE NoteInv'
    <2>1. PICK e : e = [id |-> id, user |-> user, created |-> clock]
      OBVIOUS
    <2>2. e \in Entry /\ e.id = id
      BY <1>0, <2>1 DEF Entry
    <2>3. \A n \in notes \cup started : n.id # id
      BY <1>2 DEF Notes!InsertNote
    <2>4. notes' \cup started' = (notes \cup started) \cup {e}
      BY <1>2, <2>1 DEF Notes!InsertNote
    <2>5. Table((notes \cup started) \cup {e})
      BY <1>0, <2>2, <2>3, FS_AddElement DEF Table
    <2>6. TableInv'
      BY <1>0, <1>2, <2>4, <2>5 DEF Notes!InsertNote, TableInv
    <2>. QED BY <1>2, <2>6, TableStepKeeps DEF Notes!InsertNote
  <1>3. ASSUME NEW user \in User, NEW id \in NoteId, Notes!DeleteElsewhere(user, id) PROVE NoteInv'
    <2>1. TableInv'
      BY <1>0, <1>3, FS_Subset DEF Notes!DeleteElsewhere, Notes!Delete, Notes!Scope, TableInv, Table
    <2>. QED BY <1>3, <2>1, TableStepKeeps DEF Notes!DeleteElsewhere, Notes!Delete
  <1>4. ASSUME NEW n \in started, Notes!Commit(n) PROVE NoteInv'
    <2>1. notes' \cup started' = notes \cup started /\ notes \subseteq notes'
      BY <1>4 DEF Notes!Commit
    <2>2. TableInv'
      BY <1>0, <1>4, <2>1 DEF Notes!Commit, TableInv
    <2>. QED BY <1>4, <2>2, TableStepKeeps DEF Notes!Commit
  <1>5. ASSUME NEW text, parseCursor(text) \in Cursor, Notes!Open(text) PROVE NoteInv'
    <2>1. PICK c \in Cursor : c = parseCursor(text)
      BY <1>5
    <2>2. Notes!parseCursor(text) = c
      BY <2>1 DEF Notes!parseCursor, parseCursor, Notes!NoText, NoText, Notes!Zero, Zero
    <2>3. stable' = Following(c)
      BY <1>5, <2>2 DEF Notes!Open, Notes!OlderThan, Notes!IsZero, Following, Notes!Less, Less
    <2>4. PagesBefore(before', c)
      <3>1. before' = <<>> /\ <<>> \in Seq(Entry) /\ Len(<<>>) = 0
        BY <1>5, EmptySeq DEF Notes!Open
      <3>. QED BY <3>1 DEF PagesBefore, Down
    <2>5. stable' \subseteq {n \in notes : n.user = Owner} /\ \A n \in stable' : c.id = 0 \/ Less(n, c)
      BY <2>3 DEF Following
    <2>. QED BY <1>0, <1>5, <2>1, <2>4, <2>5, PageKeeps DEF Notes!Open
  <1>6. ASSUME NEW n \in notes \cup stable, Notes!Open(Notes!formatCursor(Notes!CursorOf(n))) PROVE NoteInv'
    <2>1. n \in Entry
      BY <1>0 DEF Table
    <2>2. Notes!CursorOf(n) \in Cursor
      BY <2>1, NoteAssumption DEF Notes!CursorOf, Cursor, Entry
    <2>. QED BY <1>5, <1>6, <2>2, CursorText
  <1>7. CASE Notes!Open(NoText)
    BY <1>5, <1>7 DEF parseCursor, Cursor
  <1>8. CASE Notes!Follow
    <2>1. /\ ~loading /\ older # NoText /\ Notes!Page(older) /\ before' = before \o listed
          /\ clock' = clock /\ notes' = notes /\ started' = started /\ stable' = stable
      BY <1>8 DEF Notes!Follow, Notes!NoText, NoText
    <2>2. PICK o \in Cursor : o = parseCursor(older)
      BY DEF NoteInv, PlaceInv, Onward
    <2>3. o.id # 0 /\ Here \in Cursor /\ PagesBefore(before, Here) /\ PageAfter(listed, Here, o)
      BY <2>1, <2>2 DEF NoteInv, PlaceInv, Onward
    <2>4. PagesBefore(before', o)
      BY <2>1, <2>3, PagesJoin
    <2>5. \A n : Shown(before', n) <=> Shown(before, n) \/ Shown(listed, n)
      BY <2>1, <2>3, Joined DEF PagesBefore, PageAfter
    <2>6. \A n \in stable' : Shown(before', n) \/ o.id = 0 \/ Less(n, o)
      BY <2>1, <2>2, <2>5 DEF NoteInv, ShownInv, Onward
    <2>7. stable' \subseteq {n \in notes : n.user = Owner}
      BY <1>0, <2>1
    <2>. QED BY <1>0, <2>1, <2>2, <2>4, <2>6, <2>7, PageKeeps
  <1>9. CASE Notes!Refresh
    <2>1. /\ Notes!Page(after) /\ before' = before
          /\ clock' = clock /\ notes' = notes /\ started' = started /\ stable' = stable
      BY <1>9 DEF Notes!Refresh
    <2>2. PICK c \in Cursor : c = parseCursor(after)
      BY DEF NoteInv, PlaceInv, Here
    <2>3. PagesBefore(before', c)
      BY <2>1, <2>2 DEF NoteInv, PlaceInv, Here
    <2>4. \A n \in stable' : Shown(before', n) \/ c.id = 0 \/ Less(n, c)
      BY <2>1, <2>2 DEF NoteInv, LeftInv, Here
    <2>5. stable' \subseteq {n \in notes : n.user = Owner}
      BY <1>0, <2>1
    <2>. QED BY <1>0, <2>1, <2>2, <2>3, <2>4, <2>5, PageKeeps
  <1>10. ASSUME NEW i \in 1..Len(listed), Notes!RemoveNote(i) PROVE NoteInv'
    <2>1. TableInv'
      BY <1>0, <1>10, FS_Subset DEF Notes!RemoveNote, Notes!Delete, Notes!Scope, TableInv, Table
    <2>. QED BY <1>10, <2>1, TableStepKeeps DEF Notes!RemoveNote, Notes!Delete
  <1>11. CASE UNCHANGED Notes!vars
    BY <1>11 DEF Notes!vars, NoteInv, TableInv, PlaceInv, LeftInv, ShownInv, Here, Onward
  <1>12. Notes!Open(Notes!NoText) => Notes!Open(NoText)
    BY DEF Notes!NoText, NoText
  <1>. QED BY <1>1, <1>2, <1>3, <1>4, <1>6, <1>7, <1>8, <1>9, <1>10, <1>11, <1>12 DEF Notes!Next

LEMMA WalkFaithful == NoteInv => FaithfulWalk
  <1>. SUFFICES ASSUME NoteInv PROVE FaithfulWalk
    OBVIOUS
  <1>1. PICK q : q = Walked
    OBVIOUS
  <1>2. /\ Down(q) /\ \A i \in 1..Len(q) : q[i].user = Owner
        /\ \A n : Shown(q, n) <=> Shown(before, n) \/ Shown(listed, n)
    BY <1>1, PagesJoin, Joined DEF NoteInv, PlaceInv, PagesBefore, PageAfter, Walked
  <1>3. WalkDescends
    BY <1>1, <1>2 DEF WalkDescends, Down
  <1>4. WalkMissesNothing
    <2>1. ~loading => \A n \in stable : Shown(q, n) \/ (older # NoText /\ Less(n, parseCursor(older)))
      BY <1>2 DEF NoteInv, PlaceInv, ShownInv, Onward
    <2>. QED BY <1>1, <2>1 DEF WalkMissesNothing, Shown
  <1>. QED BY <1>3, <1>4 DEF FaithfulWalk

\* Notes: in every walk of a tab, for every number of users and notes, every
\* page size and every clock, the pages show the owner's notes in one order and
\* none twice, and miss none that was there all the time, whatever is added and
\* removed meanwhile (Repo.ListByUser, parseCursor, formatCursor, loadNotes).
THEOREM WalkHolds == Notes!Spec => []FaithfulWalk
  BY WalkInit, WalkStep, WalkFaithful, PTL DEF Notes!Spec
=============================================================================
