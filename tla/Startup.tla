------------------------------ MODULE Startup ------------------------------
(***************************************************************************)
(* The start of a server process as its configuration decides it: Load,    *)
(* Validate, NewModels, and the model calls that the routers then send.    *)
(* The names of a model reference and of a region are sequences: the parts *)
(* between the slashes of the first, between the dashes of the second.     *)
(***************************************************************************)
EXTENDS Integers, Sequences, ServedConfig

CONSTANTS
  Environment \* the environments of the process: see Variables

VARIABLE models \* the providers of the two routers by name

vars == <<getenv, stage, cfg, models, calls>>

Nothing == [none |-> TRUE]
Unset == <<"">>
Keys == {"anthropic", "mistral", "xai", "typesafe", "bedrock"}

(* The kinds of a part of a region: lowercase letters, digits, anything    *)
(* else, or empty.                                                         *)
Parts == {"a", "1", "?", ""}

Variables ==
  [ENVIRONMENT : {"", "development", "staging", "production", "prod"},
   DATABASE_URL : {"", "given"},
   LOG_LEVEL : {"", "debug", "DEBUG", "info", "INFO+1", "verbose"},
   PORT : {"", "0", "1", "65535", "65536", "http"},
   DEBUG_ADDR : [host : {"", "localhost", "::1", "0.0.0.0", "name"}, port : {"none", "", "6060"}],
   LLM_MODEL : Seq({"", "fake", "echo", "mistral", "xai", "local", "anthropic", "bedrock", "m"}),
   SYSTEMONE_MODEL : Seq({"", "fake", "uniform", "typesafe", "m"}),
   keys : SUBSET Keys,
   BEDROCK_REGION : Seq(Parts),
   LOCAL_LLM_URL : [scheme : {"", "http", "ftp"}, host : {"", "localhost"}]]

Init ==
  /\ getenv \in Environment
  /\ stage = "load" /\ cfg = Nothing
  /\ models = [llm |-> Nothing, systemone |-> Nothing] /\ calls = {}

-----------------------------------------------------------------------------
(* Load.                                                                   *)

\* cmp.Or of a model reference and its default.
Or(ref, default) == IF ref = Unset THEN default ELSE ref

\* slog.Level.UnmarshalText takes any case and an offset; other text is info.
parseLogLevel(s) ==
  CASE s \in {"debug", "DEBUG"} -> "debug"
    [] s = "INFO+1" -> "info+1"
    [] OTHER -> "info"

Load ==
  /\ stage = "load"
  /\ LET env == IF getenv.ENVIRONMENT = "" THEN "production" ELSE getenv.ENVIRONMENT
         url == getenv.DATABASE_URL
     IN cfg' = [Env |-> env,
                LogLevel |-> parseLogLevel(getenv.LOG_LEVEL),
                logLevelInput |-> getenv.LOG_LEVEL,
                Port |-> IF getenv.PORT = "" THEN "8080" ELSE getenv.PORT,
                DatabaseURL |-> IF url = "" /\ Development(env) THEN "local" ELSE url,
                DebugAddr |-> getenv.DEBUG_ADDR,
                LLMModel |-> Or(getenv.LLM_MODEL, <<"fake", "echo">>),
                SystemOneModel |-> Or(getenv.SYSTEMONE_MODEL, <<"fake", "uniform">>),
                keys |-> getenv.keys,
                BedrockRegion |-> getenv.BEDROCK_REGION,
                LocalLLMURL |-> getenv.LOCAL_LLM_URL]
  /\ stage' = "validate"
  /\ UNCHANGED <<getenv, models, calls>>

-----------------------------------------------------------------------------
(* Validate.                                                               *)

NoURL == [scheme |-> "", host |-> ""]

\* An address without a port does not split.
isLoopback(addr) ==
  /\ addr.port \notin {"none", ""}
  /\ addr.host \in {"localhost", "::1"}

\* Mutant of isRegion: the number is looked for in any part.
isAnyRegion(parts) ==
  /\ Len(parts) >= 3
  /\ \E i \in 1..Len(parts) : parts[i] = "1"

isRegion(parts) ==
  /\ Len(parts) >= 3
  /\ \A i \in 1..(Len(parts) - 1) : parts[i] = "a"
  /\ parts[Len(parts)] = "1"

isHTTPURL(u) == u.scheme = "http" /\ u.host # ""

\* What follows the first slash.
ModelOf(ref) == Tail(ref)

isModelRef(ref) == Len(ref) >= 2 /\ ref[1] # "" /\ ModelOf(ref) # Unset

validateModels(c) ==
  /\ isModelRef(c.LLMModel) /\ isModelRef(c.SystemOneModel)
  /\ "bedrock" \in c.keys => isRegion(c.BedrockRegion)
  /\ c.LocalLLMURL # NoURL => isHTTPURL(c.LocalLLMURL)

ValidLevel(c) == c.logLevelInput \in {"", "debug", "DEBUG", "info"}

ValidEnvironment(c) ==
  /\ c.Env \in {"development", "staging", "production"}
  /\ ~Development(c.Env) => c.DatabaseURL # ""

Validate ==
  /\ stage = "validate"
  /\ LET good == /\ ValidEnvironment(cfg) /\ ValidLevel(cfg)
                 /\ cfg.Port \in {"1", "8080", "65535"}
                 /\ cfg.DebugAddr # NoAddr => isLoopback(cfg.DebugAddr)
                 /\ validateModels(cfg)
     IN stage' = IF good THEN "models" ELSE "refused"
  /\ UNCHANGED <<getenv, cfg, models, calls>>

-----------------------------------------------------------------------------
(* NewModels.                                                              *)

\* Where a provider sends its requests and with which key.
Client(host, region, key) == [host |-> host, region |-> region, key |-> key]

newLLM(c) ==
  LET hosted(name) == name \in c.keys
      names == {"fake"} \cup {n \in Keys \ {"typesafe"} : hosted(n)}
                 \cup (IF c.LocalLLMURL = NoURL THEN {} ELSE {"local"})
  IN [n \in names |->
        CASE n = "fake" -> Client("none", Unset, NoKey)
          [] n = "local" -> Client(c.LocalLLMURL.host, Unset, NoKey)
          [] n = "bedrock" -> Client("amazonaws", c.BedrockRegion, n)
          [] OTHER -> Client(n, Unset, n)]

newSystemOne(c) ==
  [n \in {"fake"} \cup (c.keys \cap {"typesafe"}) |->
     IF n = "fake" THEN Client("none", Unset, NoKey) ELSE Client(n, Unset, n)]

\* Router.Resolve.
Resolves(providers, ref) == isModelRef(ref) /\ ref[1] \in DOMAIN providers

NewModels ==
  /\ stage = "models"
  /\ LET llms == newLLM(cfg)
         ones == newSystemOne(cfg)
     IN IF Resolves(llms, cfg.LLMModel) /\ Resolves(ones, cfg.SystemOneModel)
          THEN models' = [llm |-> llms, systemone |-> ones] /\ stage' = "serving"
          ELSE stage' = "refused" /\ UNCHANGED models
  /\ UNCHANGED <<getenv, cfg, calls>>

-----------------------------------------------------------------------------
(* The calls of the running server.                                        *)

\* Router.Stream and Router.Ask, and the model name that a fake accepts.
Route(kind, ref, known) ==
  LET providers == models[kind]
      sent == isModelRef(ref) /\ ref[1] \in DOMAIN providers
  IN /\ stage = "serving"
     /\ calls' = calls \cup
          {IF ~sent THEN [ref |-> ref, result |-> "unrouted"]
           ELSE IF ref[1] = "fake" /\ ModelOf(ref) # known
             THEN [ref |-> ref, result |-> "unknown model"]
           ELSE [ref |-> ref, result |-> "sent", to |-> providers[ref[1]], model |-> ModelOf(ref)]}
     /\ UNCHANGED <<getenv, stage, cfg, models>>

Stream == Route("llm", cfg.LLMModel, <<"echo">>)

Ask == Route("systemone", cfg.SystemOneModel, <<"uniform">>)

\* A process that refused its configuration has ended.
Ended == stage = "refused" /\ UNCHANGED vars

Next == Load \/ Validate \/ NewModels \/ Stream \/ Ask \/ Ended

Spec == Init /\ [][Next]_vars

-----------------------------------------------------------------------------
(* Properties.                                                             *)

TypeOK ==
  /\ getenv \in Variables
  /\ stage \in {"load", "validate", "models", "serving", "refused"}
  /\ cfg = Nothing <=> stage = "load"
  /\ cfg # Nothing => isModelRef(cfg.LLMModel) \/ stage \in {"validate", "refused"}
  /\ \A c \in calls : c.result \in {"unrouted", "unknown model", "sent"}

\* A bad model reference stops the startup: a server that started knows its
\* models (models.go:43). It does not hold: a fake accepts any reference.
StartedServesItsModels == \A c \in calls : c.result # "unknown model"
=============================================================================
