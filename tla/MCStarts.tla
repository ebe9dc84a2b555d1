------------------------------ MODULE MCStarts ------------------------------
(***************************************************************************)
(* What a process does before and beside its requests, in components that  *)
(* share no state, side by side on small instances: the migrations of      *)
(* several starts, the configuration of one start, and the calls of RunDue *)
(* on a queue worker.  In a behaviour one of them runs, which part says,   *)
(* and the others stay in their initial state.                             *)
(***************************************************************************)
EXTENDS Migrations, ServedConfig, DueCall

VARIABLES
  part,  \* the component of this behaviour
  models,
  handlers, schedules, up, ended, unsent, sent, fresh, due, later, batches, forced, callsLeft

start == <<getenv, stage, cfg, models, calls>>
worker ==
  <<phase, consumers, handlers, schedules, up, ended, unsent, sent, fresh, due, later,
    batches, forced, at, handled, owed, ran, callsLeft>>
allVars == <<part, vars, start, worker>>

-----------------------------------------------------------------------------
(* The instances.                                                          *)

\* A start of an old version, which knows the files 1 and 3, and two of a
\* new one that added file 2 on another branch and file 4.
MCProc == {11, 12, 13}
MCFiles == [p \in MCProc |-> IF p = 11 THEN {1, 3} ELSE {1, 2, 3, 4}]

\* Every setting of the process with the default models, and every setting of
\* the models in production.
Unset == <<"">>
Refs == {Unset, <<"fake">>, <<"fake", "">>, <<"", "echo">>, <<"fake", "echo">>, <<"fake", "m">>,
         <<"mistral", "m">>, <<"xai", "m">>, <<"local", "m", "">>, <<"bedrock", "m">>, <<"anthropic", "m">>}
OneRefs == {Unset, <<"typesafe", "m">>, <<"typesafe">>, <<"fake", "m">>, <<"m", "m">>}
Regions == {Unset, <<"a", "a", "1">>, <<"a", "a", "a", "1">>, <<"a", "1">>, <<"a", "", "1">>,
            <<"a", "?", "1">>, <<"?", "a", "1">>, <<"a", "a", "?">>, <<"a", "a", "a">>, <<"a", "a", "">>}
NoURL == [scheme |-> "", host |-> ""]
URLs == {NoURL, [scheme |-> "http", host |-> "localhost"], [scheme |-> "ftp", host |-> "localhost"],
         [scheme |-> "http", host |-> ""]}
Key == {"anthropic", "mistral", "xai", "typesafe", "bedrock"}

ProcessSettings ==
  [ENVIRONMENT : {"", "development", "staging", "production", "prod"}, DATABASE_URL : {"", "given"},
   LOG_LEVEL : {"", "debug", "DEBUG", "info", "INFO+1", "verbose"},
   PORT : {"", "0", "1", "65535", "65536", "http"},
   DEBUG_ADDR : [host : {"", "localhost", "::1", "0.0.0.0", "name"}, port : {"none", "", "6060"}],
   LLM_MODEL : {Unset}, SYSTEMONE_MODEL : {Unset}, keys : {{}}, BEDROCK_REGION : {Unset},
   LOCAL_LLM_URL : {NoURL}]

ModelSettings ==
  [ENVIRONMENT : {""}, DATABASE_URL : {"given"}, LOG_LEVEL : {""}, PORT : {""},
   DEBUG_ADDR : {[host |-> "", port |-> "none"]},
   LLM_MODEL : Refs, SYSTEMONE_MODEL : OneRefs,
   keys : {{}, Key} \cup {{k} : k \in Key} \cup {{"typesafe", k} : k \in Key},
   BEDROCK_REGION : Regions, LOCAL_LLM_URL : URLs]

Default ==
  CHOOSE env \in ModelSettings :
    env.LLM_MODEL = Unset /\ env.SYSTEMONE_MODEL = Unset /\ env.keys = {}
      /\ env.BEDROCK_REGION = Unset /\ env.LOCAL_LLM_URL = NoURL

Startup == INSTANCE Startup WITH
  Environment <- ProcessSettings \cup ModelSettings

\* Two consumers of one queue, two messages (Number) and two calls.
Due == INSTANCE WorkerSetup WITH
  Queue <- {"q"}, Name <- {"a", "b"},
  Subs <- {[queue |-> "q", name |-> "a"], [queue |-> "q", name |-> "b"]},
  Entry <- {"RunDue"}, MaxMoved <- 2, MaxCalls <- 2

-----------------------------------------------------------------------------
Part == {"migrations", "startup", "due"}

StartsInit ==
  /\ part \in Part
  /\ Init /\ Startup!Init /\ Due!Init
  /\ part = "startup" \/ getenv = Default
  /\ part = "due" \/ up

\* All but component p stay.
Only(p) ==
  /\ part = p /\ UNCHANGED part
  /\ IF p = "migrations" THEN TRUE ELSE UNCHANGED vars
  /\ IF p = "startup" THEN TRUE ELSE UNCHANGED start
  /\ IF p = "due" THEN TRUE ELSE UNCHANGED worker

StartsNext ==
  \/ Only("migrations") /\ Next
  \/ Only("startup") /\ Startup!Next
  \/ Only("due") /\ Due!Next

StartsSpec == StartsInit /\ [][StartsNext]_allVars

=============================================================================
