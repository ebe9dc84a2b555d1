----------------------------- MODULE StartProofs -----------------------------
(***************************************************************************)
(* The safety of a start: its migrations beside those of other starts, its *)
(* configuration, and the calls of RunDue on a queue worker.               *)
(*                                                                         *)
(* The migrations come first, for every number of starts and every set of  *)
(* files of each version.  The inductive invariant ties what a start       *)
(* believes to its session: who is past the lock holds it with an open     *)
(* session, a transaction outlives its client only in a broken session     *)
(* that still holds the lock, and under the lock the list is exact.        *)
(***************************************************************************)
EXTENDS Migrations, ServedConfig, DueCall, FiniteSetTheorems, SequenceTheorems, TLAPS

UnderLock ==
  \A p \in Proc :
    /\ pc[p] \in {"list", "apply", "tx", "ok"} => holder = p /\ session[p] = "open"
    /\ cur[p] # None => holder = p /\ (pc[p] # "tx" => session[p] = "broken")
    /\ pc[p] = "tx" => cur[p] # None
    /\ pc[p] \in {"list", "apply", "ok"} => cur[p] = None
    /\ pc[p] \in {"start", "lock"} => cur[p] = None

ExactList ==
  \A p \in Proc : pc[p] \in {"apply", "tx", "ok"} => seen[p] = applied

NextFile ==
  \A p \in Proc : cur[p] # None =>
    /\ cur[p] \in Files[p] /\ cur[p] \notin applied
    /\ \A f \in Files[p] : f < cur[p] => f \in applied

Inv ==
  /\ TypeOK
  /\ UnderLock
  /\ ExactList
  /\ NextFile
  /\ MigratedIsComplete
  /\ PoolHasNoLock

-----------------------------------------------------------------------------
LEMMA InitInv == Init => Inv
  BY MigrationsAssumption
  DEF Init, Inv, TypeOK, UnderLock, ExactList, NextFile, MigratedIsComplete, PoolHasNoLock, None

LEMMA AcquireKeeps == ASSUME Inv, NEW p \in Proc, Acquire(p) PROVE Inv'
  BY DEF Acquire, Goto, Inv, TypeOK, UnderLock, ExactList, NextFile,
         MigratedIsComplete, PoolHasNoLock

LEMMA LockKeeps == ASSUME Inv, NEW p \in Proc, Lock(p) PROVE Inv'
  <1>. USE MigrationsAssumption DEF Lock, Goto, Inv
  <1>1. TypeOK' BY DEF TypeOK
  <1>2. UnderLock' BY DEF UnderLock, TypeOK
  <1>3. ExactList' BY DEF ExactList, TypeOK
  <1>4. NextFile' BY DEF NextFile, TypeOK
  <1>5. MigratedIsComplete' BY DEF MigratedIsComplete, TypeOK
  <1>6. PoolHasNoLock' BY DEF PoolHasNoLock, TypeOK
  <1>. QED BY <1>1, <1>2, <1>3, <1>4, <1>5, <1>6

LEMMA ListKeeps == ASSUME Inv, NEW p \in Proc, List(p) PROVE Inv'
  <1>. USE DEF List, Goto, Inv
  <1>1. TypeOK' BY DEF TypeOK
  <1>2. UnderLock' BY DEF UnderLock, TypeOK
  <1>3. ExactList' BY DEF ExactList, TypeOK
  <1>4. NextFile' BY DEF NextFile, TypeOK
  <1>5. MigratedIsComplete' BY DEF MigratedIsComplete, TypeOK
  <1>6. PoolHasNoLock' BY DEF PoolHasNoLock, TypeOK
  <1>. QED BY <1>1, <1>2, <1>3, <1>4, <1>5, <1>6

\* The next file by the list is the next file by the table.
LEMMA BeginKeeps == ASSUME Inv, NEW p \in Proc, Begin(p) PROVE Inv'
  <1>1. PICK f \in Missing(p) : IsNext(p, f) /\ cur' = [cur EXCEPT ![p] = f]
    BY DEF Begin
  <1>2. /\ pc[p] = "apply" /\ pc' = [pc EXCEPT ![p] = "tx"]
        /\ applied' = applied /\ holder' = holder /\ seen' = seen /\ session' = session
    BY DEF Begin, Goto
  <1>3. seen[p] = applied /\ holder = p /\ session[p] = "open"
    BY <1>2 DEF Inv, UnderLock, ExactList
  <1>4. f \in Files[p] /\ f \notin applied /\ f \in Nat \ {None}
    BY <1>1, <1>3, MigrationsAssumption DEF Missing
  <1>5. \A g \in Files[p] : g < f => g \in applied
    <2>. SUFFICES ASSUME NEW g \in Files[p], g < f, g \notin applied PROVE FALSE
      OBVIOUS
    <2>1. f <= g BY <1>1, <1>3 DEF IsNext, Missing
    <2>2. g \in Nat BY MigrationsAssumption
    <2>. QED BY <2>1, <2>2, <1>4
  <1>6. TypeOK' BY <1>1, <1>2, <1>4 DEF Inv, TypeOK
  <1>7. UnderLock' BY <1>1, <1>2, <1>3, <1>4 DEF Inv, TypeOK, UnderLock
  <1>8. ExactList' BY <1>2, <1>3 DEF Inv, TypeOK, ExactList
  <1>9. NextFile' BY <1>1, <1>2, <1>4, <1>5 DEF Inv, TypeOK, NextFile
  <1>10. MigratedIsComplete' BY <1>2 DEF Inv, TypeOK, MigratedIsComplete
  <1>11. PoolHasNoLock' BY <1>2 DEF Inv, TypeOK, PoolHasNoLock
  <1>. QED BY <1>6, <1>7, <1>8, <1>9, <1>10, <1>11 DEF Inv

\* Only the holder of the lock has a transaction, so no other list gets old.
LEMMA CommitKeeps == ASSUME Inv, NEW p \in Proc, Commit(p) PROVE Inv'
  <1>. USE DEF Commit, Goto, Inv
  <1>1. cur[p] \in Nat \ {None} /\ holder = p /\ seen[p] = applied
    BY DEF TypeOK, UnderLock, ExactList
  <1>2. \A q \in Proc : q # p => cur[q] = None /\ pc[q] \notin {"list", "apply", "tx", "ok"}
    BY <1>1 DEF UnderLock
  <1>3. TypeOK'
    <2>1. applied' \subseteq Nat \ {None} /\ None \in Nat BY <1>1 DEF TypeOK, None
    <2>2. seen' \in [Proc -> SUBSET (Nat \ {None})] BY <1>1 DEF TypeOK
    <2>3. cur' \in [Proc -> Nat] BY <2>1 DEF TypeOK
    <2>. QED BY <2>1, <2>2, <2>3 DEF TypeOK
  <1>4. UnderLock' BY <1>1, <1>2 DEF UnderLock, TypeOK
  <1>5. ExactList' BY <1>1, <1>2 DEF ExactList, TypeOK
  <1>6. NextFile' BY <1>2 DEF NextFile, TypeOK
  <1>7. MigratedIsComplete' BY DEF MigratedIsComplete, TypeOK
  <1>8. PoolHasNoLock' BY DEF PoolHasNoLock, TypeOK
  <1>. QED BY <1>3, <1>4, <1>5, <1>6, <1>7, <1>8

LEMMA FinishKeeps == ASSUME Inv, NEW p \in Proc, Finish(p) PROVE Inv'
  <1>. USE DEF Finish, Goto, Inv
  <1>1. Files[p] \subseteq applied BY DEF AllApplied, Missing, ExactList
  <1>2. TypeOK' BY DEF TypeOK
  <1>3. UnderLock' BY DEF UnderLock, TypeOK
  <1>4. ExactList' BY DEF ExactList, TypeOK
  <1>5. NextFile' BY DEF NextFile, TypeOK
  <1>6. MigratedIsComplete' BY <1>1 DEF MigratedIsComplete, TypeOK
  <1>7. PoolHasNoLock' BY DEF PoolHasNoLock, TypeOK
  <1>. QED BY <1>2, <1>3, <1>4, <1>5, <1>6, <1>7

LEMMA FailKeeps == ASSUME Inv, NEW p \in Proc, Fail(p) PROVE Inv'
  <1>. USE DEF Fail, Goto, Inv
  <1>1. TypeOK' BY DEF TypeOK, None
  <1>2. UnderLock' BY DEF UnderLock, TypeOK
  <1>3. ExactList' BY DEF ExactList, TypeOK
  <1>4. NextFile' BY DEF NextFile, TypeOK
  <1>5. MigratedIsComplete' BY DEF MigratedIsComplete, TypeOK
  <1>6. PoolHasNoLock' BY DEF PoolHasNoLock, TypeOK
  <1>. QED BY <1>1, <1>2, <1>3, <1>4, <1>5, <1>6

LEMMA ReleaseKeeps == ASSUME Inv, NEW p \in Proc, Release(p) PROVE Inv'
  <1>. USE MigrationsAssumption DEF Release, Goto, Inv
  <1>1. TypeOK' BY DEF TypeOK
  <1>2. UnderLock' BY DEF UnderLock, TypeOK
  <1>3. ExactList' BY DEF ExactList, TypeOK
  <1>4. NextFile' BY DEF NextFile, TypeOK
  <1>5. MigratedIsComplete' BY DEF MigratedIsComplete, TypeOK
  <1>6. PoolHasNoLock' BY DEF PoolHasNoLock, TypeOK
  <1>. QED BY <1>1, <1>2, <1>3, <1>4, <1>5, <1>6

LEMMA CrashKeeps == ASSUME Inv, NEW p \in Proc, Crash(p) PROVE Inv'
  <1>. USE DEF Crash, Goto, Inv
  <1>1. TypeOK' BY DEF TypeOK
  <1>2. UnderLock' BY DEF UnderLock, TypeOK
  <1>3. ExactList' BY DEF ExactList, TypeOK
  <1>4. NextFile' BY DEF NextFile, TypeOK
  <1>5. MigratedIsComplete' BY DEF MigratedIsComplete, TypeOK
  <1>6. PoolHasNoLock' BY DEF PoolHasNoLock, TypeOK
  <1>. QED BY <1>1, <1>2, <1>3, <1>4, <1>5, <1>6

\* The end of a broken session can still commit its transaction.
LEMMA DropKeeps == ASSUME Inv, NEW p \in Proc, Drop(p) PROVE Inv'
  <1>. USE MigrationsAssumption DEF Drop, Inv
  <1>0. pc[p] \notin {"list", "apply", "tx", "ok"} BY DEF UnderLock
  <1>1. \/ applied' = applied
        \/ /\ cur[p] # None /\ holder = p /\ applied' = applied \cup {cur[p]}
           /\ \A q \in Proc : q # p =>
                cur[q] = None /\ pc[q] \notin {"list", "apply", "tx", "ok"}
    BY DEF UnderLock
  <1>2. applied \subseteq applied' BY <1>1
  <1>3. TypeOK'
    <2>1. None \in Nat /\ (cur[p] # None => cur[p] \in Nat \ {None}) BY DEF TypeOK, None
    <2>2. applied' \subseteq Nat \ {None} BY <1>1, <2>1 DEF TypeOK
    <2>3. cur' \in [Proc -> Nat] BY <2>1 DEF TypeOK
    <2>4. holder' \in Proc \cup {None} BY DEF TypeOK
    <2>5. session' \in [Proc -> {"none", "open", "broken"}] BY DEF TypeOK
    <2>. QED BY <2>2, <2>3, <2>4, <2>5 DEF TypeOK
  <1>4. UnderLock' BY <1>0 DEF UnderLock, TypeOK
  <1>5. ExactList' BY <1>0, <1>1 DEF ExactList, TypeOK
  <1>6. NextFile'
    <2>. SUFFICES ASSUME NEW q \in Proc, cur'[q] # None
                  PROVE  /\ cur'[q] \in Files[q] /\ cur'[q] \notin applied'
                         /\ \A f \in Files[q] : f < cur'[q] => f \in applied'
      BY DEF NextFile
    <2>1. q # p /\ cur'[q] = cur[q] BY DEF TypeOK
    <2>2. applied' = applied BY <2>1, <1>1
    <2>. QED BY <2>1, <2>2 DEF NextFile
  <1>7. MigratedIsComplete' BY <1>2 DEF MigratedIsComplete, TypeOK
  <1>8. PoolHasNoLock' BY DEF PoolHasNoLock, TypeOK
  <1>. QED BY <1>3, <1>4, <1>5, <1>6, <1>7, <1>8

LEMMA NextInv == Inv /\ [Next]_vars => Inv'
  <1>. SUFFICES ASSUME Inv, [Next]_vars PROVE Inv'
    OBVIOUS
  <1>1. ASSUME NEW p \in Proc, Migrate(p) \/ Fail(p) \/ Crash(p) \/ Drop(p) PROVE Inv'
    BY <1>1, AcquireKeeps, LockKeeps, ListKeeps, BeginKeeps, CommitKeeps,
       FinishKeeps, ReleaseKeeps, FailKeeps, CrashKeeps, DropKeeps DEF Migrate
  <1>2. CASE UNCHANGED vars
    BY <1>2 DEF vars, Inv, TypeOK, UnderLock, ExactList, NextFile,
                MigratedIsComplete, PoolHasNoLock
  <1>. QED BY <1>1, <1>2 DEF Next

\* Each file runs at most once, and one file at a time.
THEOREM FilesRunOnce == Spec => []RunsOnce
  <1>1. Inv => RunsOnce BY DEF Inv, UnderLock, NextFile, RunsOnce
  <1>. QED BY <1>1, InitInv, NextInv, PTL DEF Spec

\* The files of a version run in their order.
THEOREM FilesInOrder == Spec => []InOrder
  <1>1. Inv => InOrder BY DEF Inv, NextFile, InOrder
  <1>. QED BY <1>1, InitInv, NextInv, PTL DEF Spec

\* A start that returned nil has the whole schema of its version, and no
\* connection of a pool holds the lock.
THEOREM ReturnsComplete == Spec => [](MigratedIsComplete /\ PoolHasNoLock)
  <1>1. Inv => MigratedIsComplete /\ PoolHasNoLock BY DEF Inv
  <1>. QED BY <1>1, InitInv, NextInv, PTL DEF Spec

\* The states of the starts, of their sessions and of the table are of their
\* types, and the lock has one holder or none.
THEOREM MigrationTypes == Spec => []TypeOK
  <1>1. Inv => TypeOK BY DEF Inv
  <1>. QED BY <1>1, InitInv, NextInv, PTL DEF Spec

-----------------------------------------------------------------------------
(* The configuration of a start.                                           *)

CONSTANT Environment

VARIABLE models

Startup == INSTANCE Startup

\* The parts of a model reference.
Words ==
  {"", "fake", "echo", "uniform", "mistral", "xai", "local", "anthropic", "bedrock", "typesafe", "m"}

\* Load keeps what the environment says, apart from its defaults.
Loaded ==
  /\ cfg.Env = IF getenv.ENVIRONMENT = "" THEN "production" ELSE getenv.ENVIRONMENT
  /\ cfg.LogLevel = Startup!parseLogLevel(getenv.LOG_LEVEL)
  /\ cfg.logLevelInput = getenv.LOG_LEVEL
  /\ cfg.DatabaseURL =
       IF getenv.DATABASE_URL = "" /\ cfg.Env = "development" THEN "local" ELSE getenv.DATABASE_URL
  /\ cfg.LLMModel \in Seq(Words) /\ cfg.SystemOneModel \in Seq(Words)
  /\ cfg.BedrockRegion = getenv.BEDROCK_REGION
  /\ cfg.keys = getenv.keys
  /\ cfg.keys \subseteq Startup!Keys

\* What a process with this configuration can rely on after Validate.
Validated ==
  /\ Startup!ValidEnvironment(cfg) /\ Startup!ValidLevel(cfg)
  /\ cfg.DebugAddr # Startup!NoAddr => Startup!isLoopback(cfg.DebugAddr)
  /\ "bedrock" \in cfg.keys => Startup!isRegion(cfg.BedrockRegion)

\* The routers of a running server know its references.
Routed ==
  /\ models = [llm |-> Startup!newLLM(cfg), systemone |-> Startup!newSystemOne(cfg)]
  /\ Startup!Resolves(models.llm, cfg.LLMModel)
  /\ Startup!Resolves(models.systemone, cfg.SystemOneModel)

\* A client goes to the host of its provider with the key of that host.
Home(name, client) ==
  \/ name \in {"fake", "local"} /\ client.key = Startup!NoKey
  \/ /\ name \in cfg.keys /\ client.key = name
     /\ client.host = IF name = "bedrock" THEN "amazonaws" ELSE name
     /\ name = "bedrock" => client.region = cfg.BedrockRegion

\* A call went where its reference says.
GoodCall(c) ==
  /\ c.result \in {"sent", "unknown model"}
  /\ c.result = "sent" => c.ref = <<c.ref[1]>> \o c.model /\ Home(c.ref[1], c.to)

StartInv ==
  /\ stage \in {"load", "validate", "models", "serving", "refused"}
  /\ getenv \in Startup!Variables
  /\ stage # "load" => Loaded
  /\ stage \in {"models", "serving"} => Validated
  /\ stage = "serving" => Routed
  /\ stage # "serving" => calls = {}
  /\ \A c \in calls : GoodCall(c)

LEMMA HeadAndTail ==
  ASSUME NEW ref \in Seq(Words), Len(ref) >= 2
  PROVE  ref = <<ref[1]>> \o Startup!ModelOf(ref)
<1>1. ref # <<>> /\ Len(ref) \in Nat
  BY EmptySeq, LenProperties
<1>2. /\ Tail(ref) \in Seq(Words) /\ Len(Tail(ref)) = Len(ref) - 1
      /\ \A i \in 1..Len(Tail(ref)) : Tail(ref)[i] = ref[i + 1]
  BY <1>1, HeadTailProperties
<1>3. <<ref[1]>> \in Seq(Words) /\ Len(<<ref[1]>>) = 1 /\ <<ref[1]>>[1] = ref[1]
  BY <1>1, HeadTailProperties
<1>4. /\ <<ref[1]>> \o Tail(ref) \in Seq(Words)
      /\ Len(<<ref[1]>> \o Tail(ref)) = Len(ref)
      /\ \A i \in 1..Len(ref) : (<<ref[1]>> \o Tail(ref))[i] = ref[i]
  BY <1>1, <1>2, <1>3, ConcatProperties
<1>5. QED
  BY <1>4, SeqEqual DEF Startup!ModelOf

\* Each entry of a router is at home.
LEMMA ProvidersAreHome ==
  ASSUME cfg.keys \subseteq Startup!Keys
  PROVE  /\ \A name \in DOMAIN Startup!newLLM(cfg) : Home(name, Startup!newLLM(cfg)[name])
         /\ \A name \in DOMAIN Startup!newSystemOne(cfg) : Home(name, Startup!newSystemOne(cfg)[name])
<1>1. ASSUME NEW name \in DOMAIN Startup!newLLM(cfg)
      PROVE  Home(name, Startup!newLLM(cfg)[name])
  <2>1. /\ name \in {"fake", "local"} \cup {n \in Startup!Keys \ {"typesafe"} : n \in cfg.keys}
        /\ Startup!newLLM(cfg)[name] =
             CASE name = "fake" -> Startup!Client("none", Startup!Unset, Startup!NoKey)
               [] name = "local" -> Startup!Client(cfg.LocalLLMURL.host, Startup!Unset, Startup!NoKey)
               [] name = "bedrock" -> Startup!Client("amazonaws", cfg.BedrockRegion, name)
               [] OTHER -> Startup!Client(name, Startup!Unset, name)
    BY <1>1 DEF Startup!newLLM
  <2>2. CASE name \in {"fake", "local"}
    BY <2>1, <2>2 DEF Home, Startup!Client
  <2>3. CASE name = "bedrock"
    BY <2>1, <2>3 DEF Home, Startup!Client
  <2>4. CASE name \notin {"fake", "local", "bedrock"}
    BY <2>1, <2>4 DEF Home, Startup!Client
  <2>5. QED
    BY <2>2, <2>3, <2>4
<1>2. ASSUME NEW name \in DOMAIN Startup!newSystemOne(cfg)
      PROVE  Home(name, Startup!newSystemOne(cfg)[name])
  BY <1>2 DEF Startup!newSystemOne, Home, Startup!Client
<1>3. QED
  BY <1>1, <1>2

\* A call of a running server is sent, or a fake does not know its model.
LEMMA RouteStep ==
  ASSUME StartInv, NEW kind \in {"llm", "systemone"}, NEW ref \in Seq(Words), NEW known,
         stage = "serving" => Startup!Resolves(models[kind], ref),
         Startup!Route(kind, ref, known)
  PROVE  StartInv'
<1> DEFINE call ==
      IF ref[1] = "fake" /\ Startup!ModelOf(ref) # known
        THEN [ref |-> ref, result |-> "unknown model"]
        ELSE [ref |-> ref, result |-> "sent", to |-> models[kind][ref[1]], model |-> Startup!ModelOf(ref)]
<1>1. /\ stage = "serving" /\ UNCHANGED <<getenv, stage, cfg, models>>
      /\ Startup!isModelRef(ref) /\ ref[1] \in DOMAIN models[kind]
  BY DEF Startup!Route, Startup!Resolves
<1>2. calls' = calls \cup {call}
  BY <1>1 DEF Startup!Route
<1>3. Home(ref[1], models[kind][ref[1]])
  <2>1. /\ cfg.keys \subseteq Startup!Keys
        /\ models["llm"] = Startup!newLLM(cfg) /\ models["systemone"] = Startup!newSystemOne(cfg)
    <3>1. /\ cfg.keys \subseteq Startup!Keys
          /\ models = [llm |-> Startup!newLLM(cfg), systemone |-> Startup!newSystemOne(cfg)]
      BY <1>1 DEF StartInv, Loaded, Routed
    <3>2. QED
      BY <3>1
  <2>2. CASE kind = "llm"
    BY <1>1, <2>1, <2>2, ProvidersAreHome
  <2>3. CASE kind = "systemone"
    BY <1>1, <2>1, <2>3, ProvidersAreHome
  <2>4. QED
    BY <2>2, <2>3
<1>4. ref = <<ref[1]>> \o Startup!ModelOf(ref)
  BY <1>1, HeadAndTail DEF Startup!isModelRef
<1>5. GoodCall(call)
  <2>1. CASE ref[1] = "fake" /\ Startup!ModelOf(ref) # known
    BY <2>1 DEF GoodCall
  <2>2. CASE ~(ref[1] = "fake" /\ Startup!ModelOf(ref) # known)
    <3>1. /\ call.ref = ref /\ call.result = "sent"
          /\ call.to = models[kind][ref[1]] /\ call.model = Startup!ModelOf(ref)
      BY <2>2
    <3> HIDE DEF call
    <3>2. QED
      BY <1>3, <1>4, <3>1 DEF GoodCall
  <2>3. QED
    BY <2>1, <2>2
<1> HIDE DEF call
<1>6. \A c \in calls' : GoodCall(c)
  BY <1>2, <1>5 DEF StartInv
<1>7. \A c \in calls' : GoodCall(c)'
  BY <1>1, <1>6 DEF GoodCall, Home
<1>8. Loaded' /\ Validated' /\ Routed'
  BY <1>1 DEF StartInv, Loaded, Validated, Routed
<1>9. QED
  BY <1>1, <1>7, <1>8 DEF StartInv

LEMMA LoadStep ==
  ASSUME StartInv, Startup!Load
  PROVE  StartInv'
<1>1. stage = "load" /\ stage' = "validate" /\ UNCHANGED <<getenv, models, calls>>
  BY DEF Startup!Load
<1>2. /\ getenv.keys \subseteq Startup!Keys
      /\ getenv.LLM_MODEL \in Seq(Words) /\ getenv.SYSTEMONE_MODEL \in Seq(Words)
  <2>1. /\ getenv.keys \subseteq Startup!Keys
        /\ getenv.LLM_MODEL \in
             Seq({"", "fake", "echo", "mistral", "xai", "local", "anthropic", "bedrock", "m"})
        /\ getenv.SYSTEMONE_MODEL \in Seq({"", "fake", "uniform", "typesafe", "m"})
    BY DEF StartInv, Startup!Variables
  <2>2. \A S : S \subseteq Words => Seq(S) \subseteq Seq(Words)
    BY SeqMonotonic
  <2>3. /\ {"", "fake", "echo", "mistral", "xai", "local", "anthropic", "bedrock", "m"} \subseteq Words
        /\ {"", "fake", "uniform", "typesafe", "m"} \subseteq Words
    BY DEF Words
  <2>4. QED
    BY <2>1, <2>2, <2>3
<1>3. /\ cfg'.Env = (IF getenv.ENVIRONMENT = "" THEN "production" ELSE getenv.ENVIRONMENT)
      /\ cfg'.LogLevel = Startup!parseLogLevel(getenv.LOG_LEVEL)
      /\ cfg'.logLevelInput = getenv.LOG_LEVEL
      /\ cfg'.DatabaseURL = (IF getenv.DATABASE_URL = "" /\ cfg'.Env = "development" THEN "local"
                             ELSE getenv.DATABASE_URL)
      /\ cfg'.LLMModel = Startup!Or(getenv.LLM_MODEL, <<"fake", "echo">>)
      /\ cfg'.SystemOneModel = Startup!Or(getenv.SYSTEMONE_MODEL, <<"fake", "uniform">>)
      /\ cfg'.keys = getenv.keys
      /\ cfg'.BedrockRegion = getenv.BEDROCK_REGION
  BY DEF Startup!Load, Startup!Development
<1>4. <<"fake", "echo">> \in Seq(Words) /\ <<"fake", "uniform">> \in Seq(Words)
  <2>1. "fake" \in Words /\ "echo" \in Words /\ "uniform" \in Words
    BY DEF Words
  <2>2. QED
    BY ONLY <2>1
<1>5. cfg'.LLMModel \in Seq(Words) /\ cfg'.SystemOneModel \in Seq(Words)
  BY <1>2, <1>3, <1>4 DEF Startup!Or
<1>6. Loaded'
  BY <1>1, <1>2, <1>3, <1>5 DEF Loaded, Startup!parseLogLevel
<1>7. calls' = {}
  BY <1>1 DEF StartInv
<1>8. QED
  BY <1>1, <1>6, <1>7 DEF StartInv

LEMMA StartStep == StartInv /\ [Startup!Next]_Startup!vars => StartInv'
<1> SUFFICES ASSUME StartInv, [Startup!Next]_Startup!vars
             PROVE  StartInv'
  OBVIOUS
<1>1. CASE Startup!Validate
  <2>1. /\ stage = "validate" /\ stage' \in {"models", "refused"}
        /\ UNCHANGED <<getenv, cfg, models, calls>>
    BY <1>1 DEF Startup!Validate
  <2>2. stage' = "models" => Validated
    BY <1>1 DEF Startup!Validate, Startup!validateModels, Validated
  <2>3. Loaded' /\ calls' = {} /\ (Validated => Validated')
    BY <2>1 DEF StartInv, Loaded, Validated
  <2>4. QED
    BY <2>1, <2>2, <2>3 DEF StartInv
<1>2. CASE Startup!NewModels
  <2>1. /\ stage = "models" /\ stage' \in {"serving", "refused"}
        /\ UNCHANGED <<getenv, cfg, calls>>
    BY <1>2 DEF Startup!NewModels
  <2>2. stage' = "serving" =>
          /\ models' = [llm |-> Startup!newLLM(cfg), systemone |-> Startup!newSystemOne(cfg)]
          /\ Startup!Resolves(Startup!newLLM(cfg), cfg.LLMModel)
          /\ Startup!Resolves(Startup!newSystemOne(cfg), cfg.SystemOneModel)
    BY <1>2 DEF Startup!NewModels
  <2>3. stage' = "serving" => Routed'
    BY <2>1, <2>2 DEF Routed
  <2>4. Loaded' /\ Validated' /\ calls' = {}
    BY <2>1 DEF StartInv, Loaded, Validated
  <2>5. QED
    BY <2>1, <2>3, <2>4 DEF StartInv
<1>3. CASE Startup!Stream
  <2>1. stage = "serving" => cfg.LLMModel \in Seq(Words) /\ Startup!Resolves(models["llm"], cfg.LLMModel)
    BY DEF StartInv, Loaded, Routed
  <2>2. QED
    BY <1>3, <2>1, RouteStep DEF Startup!Stream, Startup!Route
<1>4. CASE Startup!Ask
  <2>1. stage = "serving" =>
          cfg.SystemOneModel \in Seq(Words) /\ Startup!Resolves(models["systemone"], cfg.SystemOneModel)
    BY DEF StartInv, Loaded, Routed
  <2>2. QED
    BY <1>4, <2>1, RouteStep DEF Startup!Ask, Startup!Route
<1>5. CASE Startup!Ended \/ UNCHANGED Startup!vars
  <2>1. UNCHANGED <<getenv, stage, cfg, models, calls>>
    BY <1>5 DEF Startup!Ended, Startup!vars
  <2>2. QED
    BY <2>1 DEF StartInv, Loaded, Validated, Routed, GoodCall, Home
<1>6. QED
  BY <1>1, <1>2, <1>3, <1>4, <1>5, LoadStep DEF Startup!Next

\* Load, Validate and NewModels fail closed, and the routers that they leave
\* know every reference and send each key home.
THEOREM StartIsSafe ==
  ASSUME Environment \subseteq Startup!Variables
  PROVE  Startup!Spec => []SafeStart
<1>1. Startup!Init => StartInv
  BY DEF Startup!Init, StartInv
<1>2. ASSUME StartInv
      PROVE  SafeStart
  <2>1. Startup!CallsAreRouted
    BY <1>2 DEF StartInv, GoodCall, Home, Startup!CallsAreRouted
  <2>2. Startup!KeysStayHome
    <3> SUFFICES ASSUME NEW c \in calls, c.result = "sent", c.to.key # Startup!NoKey
                 PROVE  /\ c.to.key \in getenv.keys
                        /\ c.to.host = (IF c.to.key = "bedrock" THEN "amazonaws" ELSE c.to.key)
                        /\ c.to.key = "bedrock" =>
                             \A i \in DOMAIN c.to.region : c.to.region[i] \in {"a", "1"}
      BY DEF Startup!KeysStayHome
    <3>1. Home(c.ref[1], c.to) /\ Loaded /\ Validated
      BY <1>2 DEF StartInv, GoodCall
    <3>2. /\ c.to.key \in cfg.keys
          /\ c.to.host = (IF c.to.key = "bedrock" THEN "amazonaws" ELSE c.to.key)
          /\ c.to.key = "bedrock" => c.to.region = cfg.BedrockRegion
      BY <3>1 DEF Home
    <3>3. "bedrock" \in cfg.keys =>
            \A i \in DOMAIN cfg.BedrockRegion : cfg.BedrockRegion[i] \in {"a", "1"}
      <4>1. getenv.BEDROCK_REGION \in Seq(Startup!Parts) /\ cfg.BedrockRegion = getenv.BEDROCK_REGION
        BY <1>2, <3>1 DEF StartInv, Startup!Variables, Loaded
      <4>2. DOMAIN cfg.BedrockRegion = 1..Len(cfg.BedrockRegion) /\ Len(cfg.BedrockRegion) \in Nat
        BY <4>1, LenProperties
      <4>3. QED
        BY <3>1, <4>2 DEF Validated, Startup!isRegion
    <3>4. QED
      BY <3>1, <3>2, <3>3 DEF Loaded
  <2>3. Startup!FailsClosed
    BY <1>2 DEF StartInv, Loaded, Validated, Startup!FailsClosed, Startup!ValidEnvironment,
                Startup!Development, Startup!isLoopback, Startup!Variables
  <2>4. Startup!LevelIsAsked
    BY <1>2 DEF StartInv, Loaded, Validated, Startup!LevelIsAsked, Startup!ValidLevel,
                Startup!parseLogLevel
  <2>5. QED
    BY <2>1, <2>2, <2>3, <2>4
    DEF SafeStart, CallsAreRouted, KeysStayHome, FailsClosed, LevelIsAsked, NoKey, NoAddr, Development,
        Startup!CallsAreRouted, Startup!KeysStayHome, Startup!FailsClosed, Startup!LevelIsAsked,
        Startup!NoKey, Startup!NoAddr, Startup!Development
<1>3. QED
  BY <1>1, <1>2, StartStep, PTL DEF Startup!Spec

\* The configuration that Load returned stays, and a process that goes on has
\* references to models in it.
THEOREM StartTypes ==
  ASSUME Environment \subseteq Startup!Variables
  PROVE  Startup!Spec => []Startup!TypeOK
<1>1. Startup!Init => Startup!TypeOK
  BY DEF Startup!Init, Startup!TypeOK
<1>2. ASSUME Startup!TypeOK, [Startup!Next]_Startup!vars
      PROVE  Startup!TypeOK'
  <2>1. CASE Startup!Load
    <3>1. cfg' # Startup!Nothing
      <4>1. "Env" \in DOMAIN cfg' /\ "Env" \notin DOMAIN Startup!Nothing
        BY <2>1 DEF Startup!Load, Startup!Nothing
      <4>2. QED
        BY <4>1
    <3>2. QED
      BY <1>2, <2>1, <3>1 DEF Startup!Load, Startup!TypeOK
  <2>2. CASE Startup!Validate
    <3>1. stage' = "models" => Startup!isModelRef(cfg.LLMModel)
      BY <2>2 DEF Startup!Validate, Startup!validateModels
    <3>2. /\ stage = "validate" /\ stage' \in {"models", "refused"}
          /\ UNCHANGED <<getenv, cfg, calls>>
      BY <2>2 DEF Startup!Validate
    <3>3. QED
      BY <1>2, <3>1, <3>2 DEF Startup!TypeOK, Startup!isModelRef, Startup!ModelOf
  <2>3. CASE Startup!NewModels
    <3>1. /\ stage = "models" /\ stage' \in {"serving", "refused"}
          /\ UNCHANGED <<getenv, cfg, calls>>
      BY <2>3 DEF Startup!NewModels
    <3>2. QED
      BY <1>2, <3>1 DEF Startup!TypeOK, Startup!isModelRef, Startup!ModelOf
  <2>4. CASE Startup!Stream \/ Startup!Ask
    <3>1. ASSUME NEW kind, NEW ref, NEW known, Startup!Route(kind, ref, known)
          PROVE  /\ UNCHANGED <<getenv, stage, cfg>>
                 /\ \A c \in calls' :
                      c \in calls \/ c.result \in {"unrouted", "unknown model", "sent"}
      <4> DEFINE unrouted == [ref |-> ref, result |-> "unrouted"]
                 unknown == [ref |-> ref, result |-> "unknown model"]
                 routed == [ref |-> ref, result |-> "sent",
                            to |-> models[kind][ref[1]], model |-> Startup!ModelOf(ref)]
      <4>1. /\ UNCHANGED <<getenv, stage, cfg>>
            /\ \/ calls' = calls \cup {unrouted}
               \/ calls' = calls \cup {unknown}
               \/ calls' = calls \cup {routed}
        BY <3>1 DEF Startup!Route
      <4>2. /\ unrouted.result = "unrouted" /\ unknown.result = "unknown model"
            /\ routed.result = "sent"
        OBVIOUS
      <4>3. QED
        BY ONLY <4>1, <4>2
    <3>2. /\ UNCHANGED <<getenv, stage, cfg>>
          /\ \A c \in calls' : c \in calls \/ c.result \in {"unrouted", "unknown model", "sent"}
      BY <2>4, <3>1 DEF Startup!Stream, Startup!Ask
    <3>3. QED
      BY <1>2, <3>2 DEF Startup!TypeOK, Startup!isModelRef, Startup!ModelOf
  <2>5. CASE Startup!Ended \/ UNCHANGED Startup!vars
    BY <1>2, <2>5 DEF Startup!Ended, Startup!vars, Startup!TypeOK, Startup!isModelRef, Startup!ModelOf
  <2>6. QED
    BY <1>2, <2>1, <2>2, <2>3, <2>4, <2>5 DEF Startup!Next
<1>3. QED
  BY <1>1, <1>2, PTL DEF Startup!Spec

-----------------------------------------------------------------------------
(* A call of RunDue.                                                       *)

CONSTANTS Queue, Name, Subs, Entry, MaxMoved, MaxCalls

VARIABLES handlers, schedules, up, ended, unsent, sent, fresh, due, later, batches, forced, callsLeft

Due == INSTANCE WorkerSetup

\* Message m is in a closed batch of consumer i.
Open(i, m) == \E b \in 1..Len(batches[i]) : m \in batches[i][b]

InBatch == {d \in Ids \X Due!Msg : Open(d[1], d[2])}

\* The messages that are not sent yet: those of the producers, and the slots.
Unborn == ([queue : Queue, n : Number] \ sent) \cup {Due!SlotOf(s) : s \in unsent}

WorkTypes ==
  /\ consumers \in Seq(Due!Consumer) /\ Len(consumers) <= MaxConsumers
  /\ IsFiniteSet(schedules) /\ unsent \subseteq schedules /\ schedules \subseteq Due!Schedule
  /\ fresh \subseteq Ids \X Due!Msg /\ IsFiniteSet(fresh)
  /\ due \subseteq Ids \X Due!Msg /\ IsFiniteSet(due)
  /\ later \subseteq Ids \X Due!Msg /\ IsFiniteSet(later)
  /\ batches \in [1..MaxConsumers -> Seq(SUBSET Due!Msg)]
  /\ \A i \in 1..MaxConsumers : \A b \in 1..Len(batches[i]) : IsFiniteSet(batches[i][b])
  /\ \A i \in (1..MaxConsumers) \ Ids : batches[i] = <<>>

\* A delivery waits in one place only, and only after its message was sent.
OnePlace ==
  /\ fresh \cap due = {} /\ fresh \cap later = {} /\ due \cap later = {}
  /\ InBatch \cap (fresh \cup due \cup later) = {}
  /\ \A i \in Ids : \A m \in Due!Msg : \A b, c \in 1..Len(batches[i]) :
       m \in batches[i][b] /\ m \in batches[i][c] => b = c
  /\ \A d \in fresh \cup due \cup later \cup InBatch : d[2] \notin Unborn

\* Before the start there is no delivery.
NoneYet ==
  phase \in {"register", "panic"} =>
    fresh = {} /\ due = {} /\ later = {} /\ \A i \in 1..MaxConsumers : batches[i] = <<>>

\* The retries that one call can move.
Retries == IF Cardinality(due) <= MaxMoved THEN due ELSE {}

\* Where the work that was there at the call can be, step by step.
OwedWaits ==
  /\ phase \in {"check", "schedules"} =>
       owed \subseteq fresh \cup InBatch \cup Due!Slots(unsent) \cup Retries
  /\ phase = "maintain" => owed \subseteq fresh \cup InBatch \cup Retries
  /\ phase \in {"force", "tick"} => owed \subseteq fresh \cup InBatch
  /\ phase = "tick" => Due!queues \subseteq forced
  /\ phase = "batches" => owed \subseteq ran \cup InBatch

\* The count is of what ran, and that is not in a batch any more.
CountRan ==
  /\ at \in Nat \ {0} /\ handled \in Nat /\ IsFiniteSet(ran)
  /\ phase = "batches" =>
       /\ handled = Cardinality(ran)
       /\ ran \cap InBatch = {}
       /\ \A i \in Ids : i < at => batches[i] = <<>>
  /\ phase \in {"register", "idle", "check", "schedules", "maintain", "force", "tick"} => ran = {}
  /\ phase \in {"check", "schedules", "maintain", "force", "tick"} => handled = 0 /\ at = 1

DueInv == WorkTypes /\ OnePlace /\ NoneYet /\ OwedWaits /\ CountRan

-----------------------------------------------------------------------------
LEMMA SameSize == \A S : Due!Cardinality(S) = Cardinality(S)
  BY DEF Due!Cardinality, Cardinality, Due!IsFiniteSet, IsFiniteSet

LEMMA IdsNat ==
  ASSUME WorkTypes
  PROVE  /\ Len(consumers) \in Nat /\ Ids \subseteq 1..MaxConsumers /\ MaxConsumers \in Nat
         /\ \A i \in 1..MaxConsumers : Len(batches[i]) \in Nat /\ DOMAIN batches[i] = 1..Len(batches[i])
  <1>1. Len(consumers) \in Nat
    BY LenProperties DEF WorkTypes
  <1>2. \A i \in 1..MaxConsumers : batches[i] \in Seq(SUBSET Due!Msg)
    BY DEF WorkTypes
  <1>. QED BY <1>1, <1>2, LenProperties, DueAssumption DEF WorkTypes, Ids

LEMMA SlotsFinite ==
  ASSUME WorkTypes, NEW S \in SUBSET unsent
  PROVE  /\ Due!Slots(S) \subseteq Ids \X Due!Msg /\ IsFiniteSet(Due!Slots(S))
         /\ \A d \in Due!Slots(S) : \E s \in S : d[2] = Due!SlotOf(s)
  <1>1. IsFiniteSet(S) /\ IsFiniteSet(Ids)
    BY FS_Subset, FS_Interval, IdsNat DEF WorkTypes, Ids
  <1>2. IsFiniteSet({Due!SlotOf(s) : s \in S})
    <2>. DEFINE f == [s \in S |-> Due!SlotOf(s)]
    <2>1. f \in Surjection(S, {Due!SlotOf(s) : s \in S})
      BY DEF Surjection
    <2>. QED BY <1>1, <2>1, FS_Surjection
  <1>3. IsFiniteSet(Ids \X {Due!SlotOf(s) : s \in S})
    BY <1>1, <1>2, FS_Product
  <1>4. \A d \in Due!Slots(S) : d \in Ids \X {Due!SlotOf(s) : s \in S}
    BY DEF Due!Slots, Due!DeliveriesOf, Due!Ids, Ids
  <1>5. \A s \in S : Due!SlotOf(s) \in Due!Msg
    BY DEF WorkTypes, Due!SlotOf, Due!Msg, Due!Schedule
  <1>6. Due!Slots(S) \subseteq Ids \X {Due!SlotOf(s) : s \in S}
    BY <1>4
  <1>. QED BY <1>3, <1>4, <1>5, <1>6, FS_Subset

LEMMA InBatchIs == WorkTypes => Due!InBatches \subseteq InBatch
  <1>. SUFFICES ASSUME WorkTypes, NEW d \in Due!InBatches PROVE d \in InBatch
    OBVIOUS
  <1>1. PICK i \in Ids : \E b \in DOMAIN batches[i] : \E m \in batches[i][b] : d = <<i, m>>
    BY DEF Due!InBatches, Due!Ids, Ids
  <1>2. i \in 1..MaxConsumers /\ batches[i] \in Seq(SUBSET Due!Msg)
    BY IdsNat DEF WorkTypes
  <1>3. PICK b \in 1..Len(batches[i]) : \E m \in batches[i][b] : d = <<i, m>>
    BY <1>1, <1>2, IdsNat
  <1>4. batches[i][b] \subseteq Due!Msg
    BY <1>2, <1>3, ElementOfSeq
  <1>. QED BY <1>3, <1>4 DEF InBatch, Open

-----------------------------------------------------------------------------
(* What the steps do to the work.                                          *)

LEMMA InBatchSame ==
  ASSUME UNCHANGED <<consumers, batches>> PROVE InBatch' = InBatch
  BY DEF InBatch, Open, Ids, Due!Msg, Due!Schedule

LEMMA SlotsSame ==
  ASSUME UNCHANGED <<consumers, unsent>> PROVE Due!Slots(unsent)' = Due!Slots(unsent)
  BY DEF Due!Slots, Due!DeliveriesOf, Due!SlotOf, Due!Ids

\* Deliveries move between the places outside the batches, or begin.
LEMMA MovedWork ==
  ASSUME WorkTypes, OnePlace, UNCHANGED <<consumers, schedules, batches>>,
         unsent' \subseteq unsent,
         NEW New \in SUBSET (Ids \X Due!Msg), IsFiniteSet(New),
         \A d \in New : d[2] \in Unborn /\ d[2] \notin Unborn',
         Unborn' \subseteq Unborn,
         fresh' \cup due' \cup later' = fresh \cup due \cup later \cup New,
         fresh' \cap due' = {}, fresh' \cap later' = {}, due' \cap later' = {}
  PROVE  WorkTypes' /\ OnePlace'
  <1>1. InBatch' = InBatch
    BY InBatchSame
  <1>2. Ids' = Ids
    BY DEF Ids
  <1>3. IsFiniteSet((fresh \cup due) \cup (later \cup New))
    BY FS_Union DEF WorkTypes
  <1>4. IsFiniteSet(fresh') /\ IsFiniteSet(due') /\ IsFiniteSet(later')
    BY <1>3, FS_Subset
  <1>5. Due!Msg' = Due!Msg /\ Due!Schedule' = Due!Schedule /\ Due!Consumer' = Due!Consumer
    BY DEF Due!Msg, Due!Schedule, Due!Consumer
  <1>6. WorkTypes'
    BY <1>2, <1>4, <1>5 DEF WorkTypes
  <1>7. InBatch \cap New = {}
    BY DEF OnePlace
  <1>. QED BY <1>1, <1>2, <1>5, <1>6, <1>7 DEF OnePlace

LEMMA MessagesFinite ==
  ASSUME NEW F, IsFiniteSet(F), NEW M, \A m \in M : \E d \in F : d[2] = m
  PROVE  IsFiniteSet(M)
  <1>. DEFINE f == [d \in F |-> d[2]]
  <1>1. f \in Surjection(F, {d[2] : d \in F})
    BY DEF Surjection
  <1>2. IsFiniteSet({d[2] : d \in F})
    BY <1>1, FS_Surjection
  <1>3. M \in SUBSET {d[2] : d \in F}
    OBVIOUS
  <1>. QED BY <1>2, <1>3, FS_Subset

\* What a tick appends: one more batch N[i] for every consumer i in C.
LEMMA AppendedBatches ==
  ASSUME NEW n, NEW T, NEW B \in [1..n -> Seq(T)], NEW C, NEW N \in [1..n -> T],
         NEW B2, B2 = [i \in 1..n |-> IF i \in C THEN Append(B[i], N[i]) ELSE B[i]]
  PROVE  /\ B2 \in [1..n -> Seq(T)]
         /\ \A i \in 1..n : \A b \in 1..Len(B[i]) : b \in 1..Len(B2[i]) /\ B2[i][b] = B[i][b]
         /\ \A i \in 1..n : i \in C => \E b \in 1..Len(B2[i]) : B2[i][b] = N[i]
         /\ \A i \in 1..n : \A b \in 1..Len(B2[i]) :
              \/ b \in 1..Len(B[i]) /\ B2[i][b] = B[i][b]
              \/ i \in C /\ b = Len(B[i]) + 1 /\ B2[i][b] = N[i]
  <1>1. ASSUME NEW i \in 1..n, i \in C
        PROVE  /\ Len(B[i]) \in Nat /\ B2[i] \in Seq(T) /\ Len(B2[i]) = Len(B[i]) + 1
               /\ \A b \in 1..Len(B[i]) : B2[i][b] = B[i][b]
               /\ B2[i][Len(B[i]) + 1] = N[i]
    <2>1. B[i] \in Seq(T) /\ N[i] \in T /\ B2[i] = Append(B[i], N[i])
      BY <1>1
    <2>. QED BY <2>1, AppendProperties, LenProperties
  <1>2. ASSUME NEW i \in 1..n, i \notin C
        PROVE  B2[i] = B[i] /\ B2[i] \in Seq(T)
    BY <1>2
  <1>3. \A i \in 1..n : i \in C =>
          /\ Len(B[i]) \in Nat /\ B2[i] \in Seq(T) /\ Len(B2[i]) = Len(B[i]) + 1
          /\ \A b \in 1..Len(B[i]) : B2[i][b] = B[i][b]
          /\ B2[i][Len(B[i]) + 1] = N[i]
    BY <1>1
  <1>4. \A i \in 1..n : i \notin C => B2[i] = B[i] /\ B2[i] \in Seq(T)
    BY <1>2
  <1>5. B2 \in [1..n -> Seq(T)]
    BY <1>3, <1>4
  <1>. QED BY <1>3, <1>4, <1>5

\* The tick puts the fresh deliveries of the queues Q into batches.
LEMMA ClosedWork ==
  ASSUME WorkTypes, OnePlace, NEW Q, Due!Close(Q),
         UNCHANGED <<consumers, schedules, unsent, sent, due, later>>
  PROVE  /\ WorkTypes' /\ OnePlace'
         /\ InBatch' = InBatch \cup {d \in fresh : consumers[d[1]].queue \in Q}
  <1>1. PICK N : N = [i \in 1..MaxConsumers |-> {m \in Due!Msg : <<i, m>> \in fresh}]
    OBVIOUS
  <1>2. PICK C : C = {i \in Ids : consumers[i].queue \in Q}
    OBVIOUS
  <1>3. \A i \in 1..MaxConsumers : N[i] \in SUBSET Due!Msg /\ IsFiniteSet(N[i])
    <2>. SUFFICES ASSUME NEW i \in 1..MaxConsumers PROVE N[i] \in SUBSET Due!Msg /\ IsFiniteSet(N[i])
      OBVIOUS
    <2>1. \A m \in N[i] : \E d \in fresh : d[2] = m
      BY <1>1
    <2>2. N[i] \in SUBSET Due!Msg
      BY <1>1
    <2>. QED BY <2>1, <2>2, MessagesFinite DEF WorkTypes
  <1>4. PICK B, B2, F : B = batches /\ B2 = batches' /\ F = fresh
    OBVIOUS
  <1>5. B2 = [i \in 1..MaxConsumers |-> IF i \in C THEN Append(B[i], N[i]) ELSE B[i]]
    BY <1>1, <1>2, <1>4 DEF Due!Close, Due!Ids, Ids
  <1>6. B \in [1..MaxConsumers -> Seq(SUBSET Due!Msg)] /\ N \in [1..MaxConsumers -> SUBSET Due!Msg]
    BY <1>1, <1>4 DEF WorkTypes
  <1>7. /\ B2 \in [1..MaxConsumers -> Seq(SUBSET Due!Msg)]
        /\ \A i \in 1..MaxConsumers : \A b \in 1..Len(B[i]) : b \in 1..Len(B2[i]) /\ B2[i][b] = B[i][b]
        /\ \A i \in 1..MaxConsumers : i \in C => \E b \in 1..Len(B2[i]) : B2[i][b] = N[i]
        /\ \A i \in 1..MaxConsumers : \A b \in 1..Len(B2[i]) :
             \/ b \in 1..Len(B[i]) /\ B2[i][b] = B[i][b]
             \/ i \in C /\ b = Len(B[i]) + 1 /\ B2[i][b] = N[i]
    BY <1>5, <1>6, AppendedBatches
  <1>8. Ids' = Ids /\ Due!Msg' = Due!Msg /\ Due!Schedule' = Due!Schedule /\ Due!Consumer' = Due!Consumer
        /\ Unborn' = Unborn
    BY DEF Ids, Due!Msg, Due!Schedule, Due!Consumer, Unborn, Due!SlotOf
  <1>9. fresh' = {d \in fresh : consumers[d[1]].queue \notin Q}
    BY DEF Due!Close
  <1>10. WorkTypes'
    <2>1. \A i \in 1..MaxConsumers : \A b \in 1..Len(B2[i]) : IsFiniteSet(B2[i][b])
      BY <1>3, <1>4, <1>7 DEF WorkTypes
    <2>2. \A i \in (1..MaxConsumers) \ Ids : B2[i] = <<>>
      BY <1>2, <1>4, <1>5 DEF WorkTypes
    <2>3. fresh' \subseteq fresh /\ IsFiniteSet(fresh')
      BY <1>9, FS_Subset DEF WorkTypes
    <2>. QED BY <1>4, <1>7, <1>8, <2>1, <2>2, <2>3 DEF WorkTypes
  <1>11. InBatch' = InBatch \cup {d \in fresh : consumers[d[1]].queue \in Q}
    <2>1. ASSUME NEW d \in Ids \X Due!Msg
          PROVE  (\E b \in 1..Len(B2[d[1]]) : d[2] \in B2[d[1]][b]) <=>
                   \/ \E b \in 1..Len(B[d[1]]) : d[2] \in B[d[1]][b]
                   \/ d \in fresh /\ consumers[d[1]].queue \in Q
      <3>1. d[1] \in Ids /\ d[1] \in 1..MaxConsumers /\ d[2] \in Due!Msg /\ d = <<d[1], d[2]>>
        BY IdsNat
      <3>2. d[2] \in N[d[1]] <=> d \in fresh
        BY <1>1, <3>1
      <3>3. d[1] \in C <=> consumers[d[1]].queue \in Q
        BY <1>2, <3>1
      <3>. QED BY <1>7, <3>1, <3>2, <3>3
    <2>2. /\ InBatch' = {d \in Ids \X Due!Msg : \E b \in 1..Len(B2[d[1]]) : d[2] \in B2[d[1]][b]}
          /\ InBatch = {d \in Ids \X Due!Msg : \E b \in 1..Len(B[d[1]]) : d[2] \in B[d[1]][b]}
      BY <1>4, <1>8 DEF InBatch, Open
    <2>3. fresh \subseteq Ids \X Due!Msg
      BY DEF WorkTypes
    <2>. QED BY <2>1, <2>2, <2>3
  <1>12. \A i \in Ids : \A m \in Due!Msg : \A b, c \in 1..Len(B2[i]) :
          m \in B2[i][b] /\ m \in B2[i][c] => b = c
    <2>. SUFFICES ASSUME NEW i \in Ids, NEW m \in Due!Msg, NEW b \in 1..Len(B2[i]), NEW c \in 1..Len(B2[i]),
                         m \in B2[i][b], m \in B2[i][c]
                  PROVE  b = c
      OBVIOUS
    <2>1. i \in 1..MaxConsumers
      BY IdsNat
    <2>2. m \in N[i] => \A k \in 1..Len(B[i]) : m \notin B[i][k]
      <3>1. m \in N[i] => <<i, m>> \in fresh /\ <<i, m>> \notin InBatch
        BY <1>1, <2>1 DEF OnePlace
      <3>. QED BY <1>4, <3>1 DEF InBatch, Open
    <2>3. \A k, l \in 1..Len(B[i]) : m \in B[i][k] /\ m \in B[i][l] => k = l
      BY <1>4 DEF OnePlace
    <2>. QED BY <1>7, <2>1, <2>2, <2>3
  <1>13. \A i \in Ids : \A m \in Due!Msg : \A b, c \in 1..Len(batches'[i]) :
          m \in batches'[i][b] /\ m \in batches'[i][c] => b = c
    BY <1>4, <1>12
  <1>. QED BY <1>8, <1>9, <1>10, <1>11, <1>13 DEF OnePlace

\* A consumer takes its first batch; what fails waits for a later call.
LEMMA TakenWork ==
  ASSUME WorkTypes, OnePlace, at \in Ids, batches[at] # <<>>,
         batches' = [batches EXCEPT ![at] = Tail(@)],
         UNCHANGED <<consumers, schedules, unsent, sent, fresh, due>>,
         NEW taken, taken = {<<at, m>> : m \in Head(batches[at])}, later' \in {later \cup f : f \in SUBSET taken}
  PROVE  /\ WorkTypes' /\ OnePlace'
         /\ taken \subseteq InBatch /\ InBatch' = InBatch \ taken
         /\ IsFiniteSet(taken) /\ Cardinality(taken) = Cardinality(Head(batches[at]))
  <1>1. PICK B, B2, k, h : B = batches /\ B2 = batches' /\ k = at /\ h = Head(batches[at])
    OBVIOUS
  <1>2. /\ B \in [1..MaxConsumers -> Seq(SUBSET Due!Msg)] /\ k \in Ids /\ k \in 1..MaxConsumers
        /\ B2 = [B EXCEPT ![k] = Tail(B[k])]
    BY <1>1, IdsNat DEF WorkTypes
  <1>3. /\ Len(B[k]) \in Nat \ {0} /\ h = B[k][1] /\ Tail(B[k]) \in Seq(SUBSET Due!Msg)
        /\ Len(Tail(B[k])) = Len(B[k]) - 1
        /\ \A b \in 1..Len(Tail(B[k])) : Tail(B[k])[b] = B[k][b + 1]
    <2>1. B[k] \in Seq(SUBSET Due!Msg) /\ B[k] # <<>> /\ h = Head(B[k])
      BY <1>1, <1>2
    <2>2. Len(B[k]) \in Nat \ {0}
      BY <2>1, EmptySeq
    <2>3. Head(B[k]) = B[k][1]
      BY <2>1
    <2>4. /\ Tail(B[k]) \in Seq(SUBSET Due!Msg) /\ Len(Tail(B[k])) = Len(B[k]) - 1
          /\ \A b \in 1..Len(Tail(B[k])) : Tail(B[k])[b] = B[k][b + 1]
      BY <2>1, HeadTailProperties
    <2>. QED BY <2>1, <2>2, <2>3, <2>4
  <1>4. /\ B2 \in [1..MaxConsumers -> Seq(SUBSET Due!Msg)]
        /\ Len(B2[k]) = Len(B[k]) - 1
        /\ \A b \in 1..Len(B2[k]) : b + 1 \in 1..Len(B[k]) /\ B2[k][b] = B[k][b + 1]
        /\ \A b \in 1..Len(B[k]) : b = 1 \/ (b - 1 \in 1..Len(B2[k]) /\ B2[k][b - 1] = B[k][b])
        /\ \A i \in (1..MaxConsumers) \ {k} : B2[i] = B[i]
    <2>1. PICK tl : tl = Tail(B[k])
      OBVIOUS
    <2>2. B2 \in [1..MaxConsumers -> Seq(SUBSET Due!Msg)] /\ B2[k] = tl
          /\ \A i \in (1..MaxConsumers) \ {k} : B2[i] = B[i]
      BY <1>2, <1>3, <2>1
    <2>3. Len(tl) = Len(B[k]) - 1 /\ \A b \in 1..Len(tl) : tl[b] = B[k][b + 1]
      BY <1>3, <2>1
    <2>4. \A b \in 1..Len(B[k]) : b = 1 \/ (b - 1 \in 1..Len(tl) /\ tl[b - 1] = B[k][b])
      <3>. SUFFICES ASSUME NEW b \in 1..Len(B[k]), b # 1 PROVE b - 1 \in 1..Len(tl) /\ tl[b - 1] = B[k][b]
        OBVIOUS
      <3>1. b - 1 \in 1..Len(tl) /\ (b - 1) + 1 = b
        BY <1>3, <2>3
      <3>. QED BY <2>3, <3>1
    <2>5. \A b \in 1..Len(tl) : b + 1 \in 1..Len(B[k])
      BY <1>3, <2>3
    <2>. QED BY <2>2, <2>3, <2>4, <2>5
  <1>5. Ids' = Ids /\ Due!Msg' = Due!Msg /\ Due!Schedule' = Due!Schedule /\ Due!Consumer' = Due!Consumer
        /\ Unborn' = Unborn
    BY DEF Ids, Due!Msg, Due!Schedule, Due!Consumer, Unborn, Due!SlotOf
  <1>6. \A i \in Ids : \A m \in Due!Msg : \A b, c \in 1..Len(B[i]) :
          m \in B[i][b] /\ m \in B[i][c] => b = c
    BY <1>1 DEF OnePlace
  <1>7. /\ InBatch' = {d \in Ids \X Due!Msg : \E b \in 1..Len(B2[d[1]]) : d[2] \in B2[d[1]][b]}
        /\ InBatch = {d \in Ids \X Due!Msg : \E b \in 1..Len(B[d[1]]) : d[2] \in B[d[1]][b]}
    BY <1>1, <1>5 DEF InBatch, Open
  <1>8. taken \subseteq InBatch /\ \A d \in Ids \X Due!Msg : d \in taken <=> d[1] = k /\ d[2] \in B[k][1]
    <2>1. h \subseteq Due!Msg /\ 1 \in 1..Len(B[k])
      BY <1>2, <1>3, ElementOfSeq
    <2>2. h = B[k][1] /\ taken = {<<k, m>> : m \in h}
      BY <1>1, <1>3
    <2>3. taken \subseteq Ids \X Due!Msg
      BY <1>2, <2>1, <2>2
    <2>4. \A d \in Ids \X Due!Msg : d \in taken <=> d[1] = k /\ d[2] \in h
      BY <2>2
    <2>. QED BY <1>7, <2>1, <2>2, <2>3, <2>4
  <1>9. InBatch' = InBatch \ taken
    <2>1. ASSUME NEW d \in Ids \X Due!Msg
          PROVE  (\E b \in 1..Len(B2[d[1]]) : d[2] \in B2[d[1]][b]) <=>
                   (\E b \in 1..Len(B[d[1]]) : d[2] \in B[d[1]][b]) /\ d \notin taken
      <3>1. d[1] \in Ids /\ d[1] \in 1..MaxConsumers /\ d[2] \in Due!Msg
        BY IdsNat
      <3>2. CASE d[1] # k
        BY <1>4, <1>8, <3>1, <3>2
      <3>3. CASE d[1] = k
        <4>1. 1 \in 1..Len(B[k]) /\ (d \in taken <=> d[2] \in B[k][1])
          BY <1>3, <1>8, <3>3
        <4>2. \A b \in 1..Len(B[k]) : d[2] \in B[k][b] /\ d[2] \in B[k][1] => b = 1
          BY <1>6, <3>1, <3>3, <4>1
        <4>3. ASSUME NEW b \in 1..Len(B2[k]), d[2] \in B2[k][b]
              PROVE  (\E c \in 1..Len(B[k]) : d[2] \in B[k][c]) /\ d[2] \notin B[k][1]
          <5>1. b + 1 \in 1..Len(B[k]) /\ d[2] \in B[k][b + 1] /\ b + 1 # 1
            BY <1>3, <1>4, <4>3
          <5>. QED BY <4>2, <5>1
        <4>4. ASSUME NEW b \in 1..Len(B[k]), d[2] \in B[k][b], d[2] \notin B[k][1]
              PROVE  \E c \in 1..Len(B2[k]) : d[2] \in B2[k][c]
          BY <1>4, <4>4
        <4>. QED BY <3>3, <4>1, <4>3, <4>4
      <3>. QED BY <3>2, <3>3
    <2>. QED BY <1>7, <2>1
  <1>10. IsFiniteSet(taken) /\ Cardinality(taken) = Cardinality(h)
    <2>1. IsFiniteSet(h)
      BY <1>1, <1>2, <1>3 DEF WorkTypes
    <2>2. taken = {k} \X h
      BY <1>1
    <2>3. IsFiniteSet({k}) /\ Cardinality({k}) = 1
      BY FS_Singleton
    <2>4. IsFiniteSet({k} \X h) /\ Cardinality({k} \X h) = 1 * Cardinality(h) /\ Cardinality(h) \in Nat
      BY <2>1, <2>3, FS_Product, FS_CardinalityType
    <2>5. 1 * Cardinality(h) = Cardinality(h)
      BY <2>4
    <2>. QED BY <2>2, <2>4, <2>5, Zenon
  <1>11. WorkTypes'
    <2>1. IsFiniteSet(later') /\ later' \subseteq Ids \X Due!Msg
      <3>1. IsFiniteSet(later \cup taken)
        BY <1>10, FS_Union DEF WorkTypes
      <3>. QED BY <1>7, <1>8, <3>1, FS_Subset DEF WorkTypes
    <2>2. \A i \in 1..MaxConsumers : \A b \in 1..Len(B2[i]) : IsFiniteSet(B2[i][b])
      <3>1. \A i \in 1..MaxConsumers : \A b \in 1..Len(B[i]) : IsFiniteSet(B[i][b])
        BY <1>1 DEF WorkTypes
      <3>2. \A b \in 1..Len(B2[k]) : IsFiniteSet(B2[k][b])
        BY <1>2, <1>4, <3>1
      <3>. QED BY <1>4, <3>1, <3>2
    <2>3. \A i \in (1..MaxConsumers) \ Ids : B2[i] = <<>>
      BY <1>1, <1>2, <1>4 DEF WorkTypes
    <2>. QED BY <1>1, <1>4, <1>5, <2>1, <2>2, <2>3 DEF WorkTypes
  <1>12. \A i \in Ids : \A m \in Due!Msg : \A b, c \in 1..Len(B2[i]) :
          m \in B2[i][b] /\ m \in B2[i][c] => b = c
    <2>. SUFFICES ASSUME NEW i \in Ids, NEW m \in Due!Msg, NEW b \in 1..Len(B2[i]), NEW c \in 1..Len(B2[i]),
                         m \in B2[i][b], m \in B2[i][c]
                  PROVE  b = c
      OBVIOUS
    <2>1. CASE i = k
      <3>1. b + 1 \in 1..Len(B[k]) /\ c + 1 \in 1..Len(B[k]) /\ m \in B[k][b + 1] /\ m \in B[k][c + 1]
        BY <1>4, <2>1
      <3>2. b + 1 = c + 1
        BY <1>2, <1>6, <3>1
      <3>. QED BY <3>2
    <2>2. CASE i # k
      BY <1>4, <1>6, <2>2, IdsNat
    <2>. QED BY <2>1, <2>2
  <1>13. \A i \in Ids : \A m \in Due!Msg : \A b, c \in 1..Len(batches'[i]) :
          m \in batches'[i][b] /\ m \in batches'[i][c] => b = c
    BY <1>1, <1>12
  <1>14. OnePlace'
    BY <1>5, <1>8, <1>9, <1>13 DEF OnePlace
  <1>. QED BY <1>1, <1>8, <1>9, <1>10, <1>11, <1>14

-----------------------------------------------------------------------------
(* The steps.                                                              *)

LEMMA SameWork ==
  ASSUME WorkTypes, OnePlace, UNCHANGED <<consumers, schedules, unsent, sent, fresh, due, later, batches>>
  PROVE  WorkTypes' /\ OnePlace'
  <1>1. /\ InBatch' = InBatch /\ Ids' = Ids /\ Unborn' = Unborn
        /\ Due!Msg' = Due!Msg /\ Due!Schedule' = Due!Schedule /\ Due!Consumer' = Due!Consumer
    BY InBatchSame DEF Ids, Due!Msg, Due!Schedule, Due!Consumer, Unborn, Due!SlotOf
  <1>. QED BY <1>1 DEF WorkTypes, OnePlace

\* A step that does not touch the deliveries and the call.
LEMMA OtherStep ==
  ASSUME DueInv, UNCHANGED <<consumers, schedules, unsent, sent, fresh, due, later, batches, forced, at, handled, owed, ran>>,
         phase' = phase \/ phase' \in {"waitForCheck", "lead", "stopped", "error"}
           \/ (phase = "register" /\ phase' \in {"panic", "idle"})
  PROVE  DueInv'
  <1>1. /\ InBatch' = InBatch /\ Due!Slots(unsent)' = Due!Slots(unsent) /\ Ids' = Ids
        /\ Retries' = Retries /\ Due!queues' = Due!queues
    BY InBatchSame, SlotsSame DEF Ids, Retries, Due!queues, Due!Ids
  <1>2. WorkTypes' /\ OnePlace'
    BY SameWork DEF DueInv
  <1>4. NoneYet'
    BY DEF DueInv, NoneYet
  <1>5. OwedWaits'
    BY <1>1 DEF DueInv, OwedWaits
  <1>6. CountRan'
    BY <1>1 DEF DueInv, CountRan
  <1>. QED BY <1>2, <1>4, <1>5, <1>6 DEF DueInv

LEMMA DueInit == Due!Init => DueInv
  <1>. SUFFICES ASSUME Due!Init PROVE DueInv
    OBVIOUS
  <1>. USE DEF Due!Init
  <1>1. WorkTypes
    BY FS_EmptySet, EmptySeq, DueAssumption DEF WorkTypes, Ids
  <1>2. InBatch = {}
    BY EmptySeq, DueAssumption DEF InBatch, Open, Ids
  <1>3. OnePlace
    BY <1>2, DueAssumption DEF OnePlace, Ids
  <1>4. NoneYet /\ OwedWaits
    BY DEF NoneYet, OwedWaits
  <1>5. CountRan
    BY FS_EmptySet DEF CountRan
  <1>. QED BY <1>1, <1>3, <1>4, <1>5 DEF DueInv

\* The registration: there is no delivery, and no step leaves it with one.
LEMMA Registration ==
  ASSUME DueInv, Due!Register \/ Due!Handle \/ Due!AddSchedule \/ Due!Start
  PROVE  DueInv'
  <1>1. /\ phase = "register" /\ phase' \in {"register", "panic", "waitForCheck", "idle"}
        /\ UNCHANGED <<sent, fresh, due, later, batches, at, handled, owed, ran>>
    BY DEF Due!Register, Due!Handle, Due!AddSchedule, Due!Start, Due!call, Due!work, Due!setup
  <1>2. fresh = {} /\ due = {} /\ later = {} /\ \A i \in 1..MaxConsumers : batches[i] = <<>>
    BY <1>1 DEF DueInv, NoneYet
  <1>3. CASE Due!Start \/ Due!Handle
    <2>1. UNCHANGED <<consumers, schedules, unsent, sent, fresh, due, later, batches, forced, at, handled, owed, ran>>
      BY <1>3 DEF Due!Start, Due!Handle, Due!call, Due!work, Due!setup
    <2>. QED BY <1>1, <2>1, OtherStep
  <1>4. CASE Due!Register \/ Due!AddSchedule
    <2>1. phase' \in {"register", "panic"}
      BY <1>1, <1>4 DEF Due!Register, Due!AddSchedule
    <2>2. consumers' \in Seq(Due!Consumer) /\ Len(consumers') <= MaxConsumers /\ Len(consumers') \in Nat
      <3>1. CASE consumers' = consumers
        BY <3>1, IdsNat DEF DueInv, WorkTypes
      <3>2. ASSUME NEW c \in Due!Consumer, consumers' = Append(consumers, c), Len(consumers) < MaxConsumers
            PROVE  consumers' \in Seq(Due!Consumer) /\ Len(consumers') <= MaxConsumers /\ Len(consumers') \in Nat
        BY <3>2, AppendProperties, IdsNat DEF DueInv, WorkTypes
      <3>. QED BY <1>4, <3>1, <3>2 DEF Due!Register, Due!AddSchedule
    <2>3. IsFiniteSet(schedules') /\ unsent' \subseteq schedules' /\ schedules' \subseteq Due!Schedule
      <3>1. IsFiniteSet(schedules) /\ unsent \subseteq schedules /\ schedules \subseteq Due!Schedule
        BY DEF DueInv, WorkTypes
      <3>2. CASE UNCHANGED <<schedules, unsent>>
        BY <3>1, <3>2
      <3>3. ASSUME NEW s \in Due!Schedule, schedules' = schedules \cup {s}, unsent' = unsent \cup {s}
            PROVE  IsFiniteSet(schedules') /\ unsent' \subseteq schedules' /\ schedules' \subseteq Due!Schedule
        BY <3>1, <3>3, FS_AddElement
      <3>. QED BY <1>4, <3>2, <3>3 DEF Due!Register, Due!AddSchedule, Due!work
    <2>4. WorkTypes'
      <3>1. Len(<<>>) = 0
        BY EmptySeq
      <3>2. /\ batches' \in [1..MaxConsumers -> Seq(SUBSET Due!Msg)]
            /\ \A i \in 1..MaxConsumers : batches'[i] = <<>>
        BY <1>1, <1>2 DEF DueInv, WorkTypes
      <3>3. /\ fresh' = {} /\ due' = {} /\ later' = {} /\ IsFiniteSet({})
            /\ Due!Msg' = Due!Msg /\ Due!Schedule' = Due!Schedule /\ Due!Consumer' = Due!Consumer
        BY <1>1, <1>2, FS_EmptySet DEF Due!Msg, Due!Schedule, Due!Consumer
      <3>4. \A i \in 1..MaxConsumers : \A b \in 1..Len(batches'[i]) : FALSE
        BY <3>1, <3>2
      <3>. QED BY <2>2, <2>3, <3>2, <3>3, <3>4 DEF WorkTypes
    <2>5. InBatch' = {}
      <3>1. \A i \in Ids' : i \in 1..MaxConsumers
        BY <2>2, DueAssumption DEF Ids
      <3>2. \A i \in Ids' : \A b \in 1..Len(batches'[i]) : FALSE
        BY <1>1, <1>2, <3>1, EmptySeq
      <3>. QED BY <3>2 DEF InBatch, Open
    <2>6. OnePlace'
      <3>1. \A i \in Ids' : i \in 1..MaxConsumers
        BY <2>2, DueAssumption DEF Ids
      <3>2. \A i \in Ids' : \A b \in 1..Len(batches'[i]) : FALSE
        BY <1>1, <1>2, <3>1, EmptySeq
      <3>. QED BY <1>1, <1>2, <2>5, <3>2 DEF OnePlace
    <2>7. NoneYet' /\ OwedWaits'
      BY <1>1, <1>2, <2>1 DEF NoneYet, OwedWaits
    <2>8. CountRan'
      BY <1>1, <2>1 DEF DueInv, CountRan
    <2>. QED BY <2>4, <2>6, <2>7, <2>8 DEF DueInv
  <1>. QED BY <1>3, <1>4

\* The call begins with everything that waits, and no batch has run.
LEMMA BeginStep == ASSUME DueInv, Due!Begin PROVE DueInv'
  <1>1. /\ UNCHANGED <<consumers, schedules, unsent, sent, fresh, due, later, batches>>
        /\ phase = "idle" /\ phase' = "check" /\ ran' = {} /\ handled' = 0 /\ at' = 1
        /\ owed' = fresh \cup Due!InBatches \cup Due!Slots(unsent)
             \cup (IF Cardinality(due) <= MaxMoved THEN due ELSE {})
    BY SameSize DEF Due!Begin, Due!work, Due!setup
  <1>2. /\ InBatch' = InBatch /\ Due!Slots(unsent)' = Due!Slots(unsent) /\ Retries' = Retries
    BY <1>1, InBatchSame, SlotsSame DEF Retries
  <1>3. WorkTypes' /\ OnePlace'
    BY <1>1, SameWork DEF DueInv
  <1>4. NoneYet'
    BY <1>1 DEF NoneYet
  <1>5. OwedWaits'
    BY <1>1, <1>2, InBatchIs DEF DueInv, OwedWaits, Retries
  <1>6. CountRan'
    BY <1>1, FS_EmptySet DEF CountRan
  <1>. QED BY <1>3, <1>4, <1>5, <1>6 DEF DueInv

\* A step that fails ends the call.
LEMMA EndOfCall ==
  ASSUME DueInv, WorkTypes', OnePlace', phase' = "idle", ran' = {}, UNCHANGED <<at, handled>>
  PROVE  DueInv'
  BY FS_EmptySet DEF DueInv, NoneYet, OwedWaits, CountRan

LEMMA CheckStep == ASSUME DueInv, Due!CheckDue PROVE DueInv'
  <1>1. UNCHANGED <<consumers, schedules, unsent, sent, fresh, due, later, batches, forced, at, handled>>
    BY DEF Due!CheckDue, Due!Step, Due!Fails, Due!work, Due!setup
  <1>2. WorkTypes' /\ OnePlace'
    BY <1>1, SameWork DEF DueInv
  <1>3. CASE phase' = "idle"
    <2>1. ran' = {}
      BY <1>3 DEF Due!CheckDue, Due!Step, Due!Fails
    <2>. QED BY <1>1, <1>2, <1>3, <2>1, EndOfCall
  <1>4. CASE phase' # "idle"
    <2>1. phase = "check" /\ phase' = "schedules" /\ UNCHANGED <<owed, ran>>
      BY <1>4 DEF Due!CheckDue, Due!Step, Due!Fails
    <2>2. InBatch' = InBatch /\ Due!Slots(unsent)' = Due!Slots(unsent) /\ Retries' = Retries
      BY <1>1, InBatchSame, SlotsSame DEF Retries
    <2>3. NoneYet' /\ OwedWaits' /\ CountRan'
      BY <1>1, <2>1, <2>2 DEF DueInv, NoneYet, OwedWaits, CountRan
    <2>. QED BY <1>2, <2>3 DEF DueInv
  <1>. QED BY <1>3, <1>4

\* A slot is sent once: it is a message of its own.
LEMMA SendSlotsStep == ASSUME DueInv, Due!SendSchedules PROVE DueInv'
  <1>1. PICK U \in SUBSET unsent :
          /\ unsent' = U /\ fresh' = fresh \cup Due!Slots(unsent \ U)
          /\ UNCHANGED <<consumers, schedules, sent, due, later, batches, at, handled>>
    BY DEF Due!SendSchedules, Due!Step, Due!Fails, Due!setup
  <1>2. /\ Due!Slots(unsent \ U) \in SUBSET (Ids \X Due!Msg) /\ IsFiniteSet(Due!Slots(unsent \ U))
        /\ \A d \in Due!Slots(unsent \ U) : \E s \in unsent \ U : d[2] = Due!SlotOf(s)
    BY SlotsFinite DEF DueInv
  <1>3. Unborn' = ([queue : Queue, n : Number] \ sent) \cup {Due!SlotOf(s) : s \in U}
    BY <1>1 DEF Unborn, Due!SlotOf
  <1>4. ASSUME NEW s \in unsent \ U PROVE Due!SlotOf(s) \in Unborn /\ Due!SlotOf(s) \notin Unborn'
    <2>1. s \in [queue : Queue, typ : Typ] /\ \A v \in U : v \in [queue : Queue, typ : Typ] /\ v # s
      BY <1>4 DEF DueInv, WorkTypes, Due!Schedule
    <2>2. Due!SlotOf(s) \notin [queue : Queue, n : Number]
      BY <2>1, DueAssumption DEF Due!SlotOf
    <2>3. \A v \in U : Due!SlotOf(v) # Due!SlotOf(s)
      <3>. SUFFICES ASSUME NEW v \in U, Due!SlotOf(v) = Due!SlotOf(s) PROVE FALSE
        OBVIOUS
      <3>1. v.queue = s.queue /\ v.typ = s.typ
        BY DEF Due!SlotOf
      <3>. QED BY <2>1, <3>1
    <2>. QED BY <1>3, <1>4, <2>2, <2>3 DEF Unborn
  <1>5. \A d \in Due!Slots(unsent \ U) : d[2] \in Unborn /\ d[2] \notin Unborn'
    BY <1>2, <1>4
  <1>6. Unborn' \subseteq Unborn
    BY <1>3 DEF Unborn
  <1>7. WorkTypes' /\ OnePlace'
    <2>1. \A d \in due \cup later : d \notin Due!Slots(unsent \ U)
      BY <1>5 DEF DueInv, OnePlace
    <2>2. fresh' \cap due' = {} /\ fresh' \cap later' = {} /\ due' \cap later' = {}
      BY <1>1, <2>1 DEF DueInv, OnePlace
    <2>. QED BY <1>1, <1>2, <1>5, <1>6, <2>2, MovedWork DEF DueInv
  <1>8. CASE phase' = "idle"
    <2>1. ran' = {}
      BY <1>8 DEF Due!SendSchedules, Due!Step, Due!Fails
    <2>. QED BY <1>1, <1>7, <1>8, <2>1, EndOfCall
  <1>9. CASE phase' # "idle"
    <2>1. phase = "schedules" /\ phase' = "maintain" /\ UNCHANGED <<owed, ran>> /\ U = {}
      BY <1>1, <1>9 DEF Due!SendSchedules, Due!Step, Due!Fails
    <2>2. unsent \ U = unsent
      BY <2>1
    <2>3. InBatch' = InBatch /\ Retries' = Retries /\ fresh' = fresh \cup Due!Slots(unsent)
      BY <1>1, <2>2, InBatchSame DEF Retries
    <2>4. NoneYet' /\ OwedWaits' /\ CountRan'
      BY <1>1, <2>1, <2>3 DEF DueInv, NoneYet, OwedWaits, CountRan
    <2>. QED BY <1>7, <2>4 DEF DueInv
  <1>. QED BY <1>8, <1>9

\* When the retries fit into one call, all of them move.
LEMMA RetriesStep == ASSUME DueInv, Due!MoveRetries PROVE DueInv'
  <1>1. PICK moved \in SUBSET due :
          /\ phase' = "force" => Cardinality(moved) = Cardinality(due) \/ Cardinality(moved) = MaxMoved
          /\ due' = due \ moved /\ fresh' = fresh \cup moved
          /\ UNCHANGED <<consumers, schedules, unsent, sent, later, batches, at, handled>>
    BY SameSize DEF Due!MoveRetries, Due!Step, Due!Fails, Due!setup
  <1>2. WorkTypes' /\ OnePlace'
    <2>1. Unborn' = Unborn
      BY <1>1 DEF Unborn, Due!SlotOf
    <2>2. {} \in SUBSET (Ids \X Due!Msg) /\ IsFiniteSet({})
      BY FS_EmptySet
    <2>3. fresh' \cup due' \cup later' = fresh \cup due \cup later \cup {}
      BY <1>1
    <2>4. fresh' \cap due' = {} /\ fresh' \cap later' = {} /\ due' \cap later' = {}
      BY <1>1 DEF DueInv, OnePlace
    <2>. QED BY <1>1, <2>1, <2>2, <2>3, <2>4, MovedWork DEF DueInv
  <1>3. CASE phase' = "idle"
    <2>1. ran' = {}
      BY <1>3 DEF Due!MoveRetries, Due!Step, Due!Fails
    <2>. QED BY <1>1, <1>2, <1>3, <2>1, EndOfCall
  <1>4. CASE phase' # "idle"
    <2>1. phase = "maintain" /\ phase' = "force" /\ UNCHANGED <<owed, ran>>
      BY <1>4 DEF Due!MoveRetries, Due!Step, Due!Fails
    <2>2. Retries \subseteq moved
      <3>. SUFFICES ASSUME Cardinality(due) <= MaxMoved PROVE due \subseteq moved
        BY DEF Retries
      <3>1. /\ Cardinality(moved) <= Cardinality(due) /\ (Cardinality(due) = Cardinality(moved) => due = moved)
            /\ Cardinality(due) \in Nat /\ Cardinality(moved) \in Nat
        BY FS_Subset, FS_CardinalityType DEF DueInv, WorkTypes
      <3>. QED BY <1>1, <2>1, <3>1
    <2>3. InBatch' = InBatch
      BY <1>1, InBatchSame
    <2>4. NoneYet' /\ OwedWaits' /\ CountRan'
      BY <1>1, <2>1, <2>2, <2>3 DEF DueInv, NoneYet, OwedWaits, CountRan
    <2>. QED BY <1>2, <2>4 DEF DueInv
  <1>. QED BY <1>3, <1>4

LEMMA ForceStep == ASSUME DueInv, Due!forceTick PROVE DueInv'
  <1>1. UNCHANGED <<consumers, schedules, unsent, sent, fresh, due, later, batches, at, handled>>
    BY DEF Due!forceTick, Due!Step, Due!Fails, Due!setup
  <1>2. WorkTypes' /\ OnePlace'
    BY <1>1, SameWork DEF DueInv
  <1>3. CASE phase' = "idle"
    <2>1. ran' = {}
      BY <1>3 DEF Due!forceTick, Due!Step, Due!Fails
    <2>. QED BY <1>1, <1>2, <1>3, <2>1, EndOfCall
  <1>4. CASE phase' # "idle"
    <2>1. phase = "force" /\ phase' = "tick" /\ UNCHANGED <<owed, ran>> /\ forced' = forced \cup Due!queues
      BY <1>4 DEF Due!forceTick, Due!Step, Due!Fails
    <2>2. InBatch' = InBatch /\ Due!queues' = Due!queues
      BY <1>1, InBatchSame DEF Due!queues, Due!Ids
    <2>3. NoneYet' /\ OwedWaits' /\ CountRan'
      BY <1>1, <2>1, <2>2 DEF DueInv, NoneYet, OwedWaits, CountRan
    <2>. QED BY <1>2, <2>3 DEF DueInv
  <1>. QED BY <1>3, <1>4

\* Every queue of a consumer is forced, so the tick closes over all that is
\* fresh.
LEMMA TickStep == ASSUME DueInv, Due!tick PROVE DueInv'
  <1>1. UNCHANGED <<consumers, schedules, unsent, sent, due, later, at, handled>>
    BY DEF Due!tick, Due!Step, Due!Fails, Due!setup
  <1>2. CASE Due!Fails("tick") /\ UNCHANGED <<fresh, batches, forced>>
    <2>1. phase' = "idle" /\ ran' = {}
      BY <1>2 DEF Due!Fails
    <2>2. WorkTypes' /\ OnePlace'
      BY <1>1, <1>2, SameWork DEF DueInv
    <2>. QED BY <1>1, <2>1, <2>2, EndOfCall
  <1>3. CASE Due!Step("tick", "batches") /\ Due!Close(forced)
    <2>1. phase = "tick" /\ phase' = "batches" /\ UNCHANGED <<owed, ran>>
      BY <1>3 DEF Due!Step
    <2>2. /\ WorkTypes' /\ OnePlace'
          /\ InBatch' = InBatch \cup {d \in fresh : consumers[d[1]].queue \in forced}
      BY <1>1, <1>3, ClosedWork DEF DueInv
    <2>3. \A d \in fresh : consumers[d[1]].queue \in forced
      <3>1. \A d \in fresh : d[1] \in Ids
        BY DEF DueInv, WorkTypes
      <3>2. Due!queues \subseteq forced
        BY <2>1 DEF DueInv, OwedWaits
      <3>. QED BY <3>1, <3>2 DEF Due!queues, Due!Ids, Ids
    <2>4. OwedWaits' /\ NoneYet'
      BY <2>1, <2>2, <2>3 DEF DueInv, OwedWaits, NoneYet
    <2>5. CountRan'
      <3>1. ran = {} /\ at = 1 /\ handled = 0
        BY <2>1 DEF DueInv, CountRan
      <3>2. \A i \in Ids' : ~(i < at')
        BY <1>1, <3>1, IdsNat DEF Ids, DueInv
      <3>. QED BY <1>1, <2>1, <3>1, <3>2, FS_EmptySet DEF CountRan
    <2>. QED BY <2>2, <2>4, <2>5 DEF DueInv
  <1>. QED BY <1>2, <1>3 DEF Due!tick

\* A batch that ran leaves the batches and enters the count, both once.
LEMMA HandleStep == ASSUME DueInv, Due!HandleBatch PROVE DueInv'
  <1>1. PICK taken : taken = {<<at, m>> : m \in Head(batches[at])}
    OBVIOUS
  <1>2. /\ phase = "batches" /\ phase' = "batches" /\ at \in Ids /\ batches[at] # <<>>
        /\ handled' = handled + Cardinality(Head(batches[at])) /\ ran' = ran \cup taken
        /\ batches' = [batches EXCEPT ![at] = Tail(@)]
        /\ UNCHANGED <<consumers, schedules, unsent, sent, fresh, due, forced, at, owed>>
    BY <1>1, SameSize DEF Due!HandleBatch, Due!setup, Due!Ids, Ids
  <1>3. later' \in {later \cup f : f \in SUBSET taken}
    <2>1. PICK failed \in SUBSET Head(batches[at]) : later' = later \cup {<<at, m>> : m \in failed}
      BY DEF Due!HandleBatch
    <2>2. {<<at, m>> : m \in failed} \in SUBSET taken
      BY <1>1
    <2>. QED BY <2>1, <2>2
  <1>4. /\ WorkTypes' /\ OnePlace'
        /\ taken \subseteq InBatch /\ InBatch' = InBatch \ taken
        /\ IsFiniteSet(taken) /\ Cardinality(taken) = Cardinality(Head(batches[at]))
    BY <1>1, <1>2, <1>3, TakenWork DEF DueInv
  <1>5. NoneYet' /\ OwedWaits'
    BY <1>2, <1>4 DEF DueInv, NoneYet, OwedWaits
  <1>6. IsFiniteSet(ran') /\ handled' = Cardinality(ran') /\ handled' \in Nat
    <2>1. ran \cap taken = {} /\ IsFiniteSet(ran) /\ handled = Cardinality(ran)
      BY <1>2, <1>4 DEF DueInv, CountRan
    <2>2. Cardinality(ran \cap taken) = 0
      BY <2>1, FS_EmptySet
    <2>3. /\ IsFiniteSet(ran \cup taken)
          /\ Cardinality(ran \cup taken) = Cardinality(ran) + Cardinality(taken) - Cardinality(ran \cap taken)
      BY <1>4, <2>1, FS_Union
    <2>4. Cardinality(ran) \in Nat /\ Cardinality(taken) \in Nat
      BY <1>4, <2>1, FS_CardinalityType
    <2>5. Cardinality(ran \cup taken) = Cardinality(ran) + Cardinality(taken)
      BY <2>2, <2>3, <2>4
    <2>6. handled' = Cardinality(ran) + Cardinality(taken)
      BY <1>2, <1>4, <2>1
    <2>. QED BY <1>2, <2>3, <2>4, <2>5, <2>6
  <1>7. CountRan'
    <2>1. \A i \in Ids' : i < at' => batches'[i] = <<>>
      BY <1>2, IdsNat DEF DueInv, WorkTypes, CountRan, Ids
    <2>2. ran' \cap InBatch' = {}
      BY <1>2, <1>4 DEF DueInv, CountRan
    <2>. QED BY <1>2, <1>6, <2>1, <2>2 DEF DueInv, CountRan
  <1>. QED BY <1>4, <1>5, <1>7 DEF DueInv

LEMMA NoBatchStep == ASSUME DueInv, Due!NoBatch PROVE DueInv'
  <1>1. /\ phase = "batches" /\ at \in Ids /\ batches[at] = <<>> /\ at' = at + 1
        /\ UNCHANGED <<phase, consumers, schedules, unsent, sent, fresh, due, later, batches, forced, handled, owed, ran>>
    BY DEF Due!NoBatch, Due!setup, Due!work, Due!Ids, Ids
  <1>2. WorkTypes' /\ OnePlace' /\ InBatch' = InBatch
    BY <1>1, SameWork, InBatchSame DEF DueInv
  <1>3. \A i \in Ids' : i < at' => batches'[i] = <<>>
    BY <1>1, IdsNat DEF DueInv, CountRan, Ids
  <1>4. NoneYet' /\ OwedWaits' /\ CountRan'
    BY <1>1, <1>2, <1>3 DEF DueInv, NoneYet, OwedWaits, CountRan
  <1>. QED BY <1>2, <1>4 DEF DueInv

LEMMA ReturnStep == ASSUME DueInv, Due!HandleBatchFails \/ Due!ReturnHandled PROVE DueInv'
  <1>1. /\ UNCHANGED <<consumers, schedules, unsent, sent, fresh, due, later, batches, at, handled>>
        /\ phase' = "idle" /\ ran' = {}
    BY DEF Due!HandleBatchFails, Due!ReturnHandled, Due!Fails, Due!setup, Due!work
  <1>2. WorkTypes' /\ OnePlace'
    BY <1>1, SameWork DEF DueInv
  <1>. QED BY <1>1, <1>2, EndOfCall

\* A producer sends while the call runs: that work is not owed.
LEMMA SendStep == ASSUME DueInv, Due!Send PROVE DueInv'
  <1>1. PICK m \in [queue : Queue, n : Number] :
          /\ m \notin sent /\ sent' = sent \cup {m} /\ fresh' = fresh \cup Due!DeliveriesOf(m)
          /\ UNCHANGED <<phase, consumers, schedules, unsent, due, later, batches, forced, at, handled, owed, ran>>
    BY DEF Due!Send, Due!setup, Due!call
  <1>2. /\ Due!DeliveriesOf(m) \in SUBSET (Ids \X Due!Msg) /\ IsFiniteSet(Due!DeliveriesOf(m))
        /\ \A d \in Due!DeliveriesOf(m) : d[2] = m
    <2>1. Due!DeliveriesOf(m) \subseteq Ids \X {m} /\ m \in Due!Msg
      BY DEF Due!DeliveriesOf, Due!Ids, Ids, Due!Msg
    <2>2. IsFiniteSet(Ids \X {m})
      <3>1. IsFiniteSet(Ids)
        BY FS_Interval, IdsNat DEF DueInv, Ids
      <3>2. IsFiniteSet({m})
        BY FS_Singleton
      <3>. QED BY <3>1, <3>2, FS_Product
    <2>. QED BY <2>1, <2>2, FS_Subset
  <1>3. Unborn' = ([queue : Queue, n : Number] \ (sent \cup {m})) \cup {Due!SlotOf(s) : s \in unsent}
    BY <1>1 DEF Unborn, Due!SlotOf
  <1>4. m \in Unborn /\ m \notin Unborn' /\ Unborn' \subseteq Unborn
    <2>1. ASSUME NEW s \in unsent PROVE Due!SlotOf(s) # m
      <3>1. s.typ \in Typ
        BY DEF DueInv, WorkTypes, Due!Schedule
      <3>. QED BY <3>1, DueAssumption DEF Due!SlotOf
    <2>. QED BY <1>1, <1>3, <2>1 DEF Unborn
  <1>5. WorkTypes' /\ OnePlace'
    <2>1. \A d \in due \cup later : d \notin Due!DeliveriesOf(m)
      BY <1>2, <1>4 DEF DueInv, OnePlace
    <2>2. fresh' \cap due' = {} /\ fresh' \cap later' = {} /\ due' \cap later' = {}
      BY <1>1, <2>1 DEF DueInv, OnePlace
    <2>. QED BY <1>1, <1>2, <1>4, <2>2, MovedWork DEF DueInv
  <1>6. NoneYet'
    BY <1>1 DEF Due!Send, Due!DuePhases, NoneYet
  <1>7. /\ InBatch' = InBatch /\ Due!Slots(unsent)' = Due!Slots(unsent) /\ Ids' = Ids
        /\ Retries' = Retries /\ Due!queues' = Due!queues
    BY <1>1, InBatchSame, SlotsSame DEF Ids, Retries, Due!queues, Due!Ids
  <1>8. OwedWaits' /\ CountRan'
    BY <1>1, <1>7 DEF DueInv, OwedWaits, CountRan
  <1>. QED BY <1>5, <1>6, <1>8 DEF DueInv

LEMMA BackoffStep == ASSUME DueInv, Due!BackoffOver PROVE DueInv'
  <1>1. PICK ready \in SUBSET later :
          /\ due' = due \cup ready /\ later' = later \ ready
          /\ phase = "idle"
          /\ UNCHANGED <<phase, consumers, schedules, unsent, sent, fresh, batches, forced, at, handled, owed, ran>>
    BY DEF Due!BackoffOver, Due!setup, Due!call
  <1>2. WorkTypes' /\ OnePlace'
    <2>1. Unborn' = Unborn
      BY <1>1 DEF Unborn, Due!SlotOf
    <2>2. {} \in SUBSET (Ids \X Due!Msg) /\ IsFiniteSet({})
      BY FS_EmptySet
    <2>3. fresh' \cup due' \cup later' = fresh \cup due \cup later \cup {}
      BY <1>1
    <2>4. fresh' \cap due' = {} /\ fresh' \cap later' = {} /\ due' \cap later' = {}
      BY <1>1 DEF DueInv, OnePlace
    <2>. QED BY <1>1, <2>1, <2>2, <2>3, <2>4, MovedWork DEF DueInv
  <1>3. NoneYet' /\ OwedWaits' /\ CountRan'
    BY <1>1 DEF DueInv, NoneYet, OwedWaits, CountRan
  <1>. QED BY <1>2, <1>3 DEF DueInv

LEMMA DueNext == DueInv /\ [Due!Next]_(Due!vars) => DueInv'
  <1>. SUFFICES ASSUME DueInv, [Due!Next]_(Due!vars) PROVE DueInv'
    OBVIOUS
  <1>1. CASE Due!Register \/ Due!Handle \/ Due!AddSchedule \/ Due!Start
    BY <1>1, Registration
  <1>2. CASE Due!CheckFails \/ Due!CheckFinds \/ Due!RunStops \/ Due!Cancel \/ Due!Outage \/ UNCHANGED Due!vars
    <2>1. UNCHANGED <<consumers, schedules, unsent, sent, fresh, due, later, batches, forced, at, handled, owed, ran>>
      BY <1>2 DEF Due!CheckFails, Due!CheckFinds, Due!RunStops, Due!Cancel, Due!Outage, Due!vars,
                  Due!setup, Due!work, Due!call
    <2>2. phase' = phase \/ phase' \in {"waitForCheck", "lead", "stopped", "error"}
      BY <1>2 DEF Due!CheckFails, Due!CheckFinds, Due!RunStops, Due!Cancel, Due!Outage, Due!vars
    <2>. QED BY <2>1, <2>2, OtherStep
  <1>3. CASE Due!Begin BY <1>3, BeginStep
  <1>4. CASE Due!CheckDue BY <1>4, CheckStep
  <1>5. CASE Due!SendSchedules BY <1>5, SendSlotsStep
  <1>6. CASE Due!MoveRetries BY <1>6, RetriesStep
  <1>7. CASE Due!forceTick BY <1>7, ForceStep
  <1>8. CASE Due!tick BY <1>8, TickStep
  <1>9. CASE Due!HandleBatch BY <1>9, HandleStep
  <1>10. CASE Due!NoBatch BY <1>10, NoBatchStep
  <1>11. CASE Due!HandleBatchFails \/ Due!ReturnHandled BY <1>11, ReturnStep
  <1>12. CASE Due!Send BY <1>12, SendStep
  <1>13. CASE Due!BackoffOver BY <1>13, BackoffStep
  <1>. QED BY <1>1, <1>2, <1>3, <1>4, <1>5, <1>6, <1>7, <1>8, <1>9, <1>10, <1>11, <1>12, <1>13 DEF Due!Next

\* RunDue returns without an error only after all that waited at its call ran,
\* and it counts every delivery once, for any number of consumers, schedules
\* and messages and whatever fails before.
THEOREM DueHandled == Due!Spec => []DueIsHandled
  <1>1. DueInv => DueIsHandled
    <2>. SUFFICES ASSUME DueInv, phase = "batches", at \notin Ids
                  PROVE  owed \subseteq ran /\ handled = Cardinality(ran)
      BY DEF DueIsHandled
    <2>1. \A i \in Ids : i \in 1..MaxConsumers /\ batches[i] = <<>>
      BY IdsNat DEF DueInv, CountRan, Ids
    <2>2. InBatch = {}
      BY <2>1, EmptySeq DEF InBatch, Open
    <2>. QED BY <2>2 DEF DueInv, OwedWaits, CountRan
  <1>. QED BY <1>1, DueInit, DueNext, PTL DEF Due!Spec
=============================================================================
