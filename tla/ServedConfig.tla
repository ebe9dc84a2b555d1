---------------------------- MODULE ServedConfig ----------------------------
(***************************************************************************)
(* What a server that was started has of its configuration: where its      *)
(* model calls go, and what a missing variable means.  Startup has the     *)
(* steps.                                                                  *)
(***************************************************************************)
EXTENDS Sequences

VARIABLES
  getenv, \* the environment
  stage,  \* "load", "validate", "models", "serving" or "refused"
  cfg,    \* the configuration of Load, or Nothing
  calls   \* the model calls, sent or failed

NoKey == "no key"
NoAddr == [host |-> "", port |-> "none"]

Development(env) == env = "development"

\* A server that started routes every call to the provider that the
\* configured reference names: no reference fails for the first user.
CallsAreRouted ==
  \A c \in calls :
    /\ c.result # "unrouted"
    /\ c.result = "sent" => c.ref = <<c.ref[1]>> \o c.model /\ c.ref[1] \in {"fake", "local", c.to.key}

\* A key goes only to the host of its own vendor, and a region in a host name
\* holds only letters and digits.
KeysStayHome ==
  \A c \in calls :
    c.result = "sent" /\ c.to.key # NoKey =>
      /\ c.to.key \in getenv.keys
      /\ c.to.host = (IF c.to.key = "bedrock" THEN "amazonaws" ELSE c.to.key)
      /\ c.to.key = "bedrock" => \A i \in DOMAIN c.to.region : c.to.region[i] \in {"a", "1"}

\* A missing variable fails closed: only an explicit "development" relaxes the
\* security of the cookies and gives a database that nobody named.
FailsClosed ==
  stage = "serving" =>
    /\ Development(cfg.Env) => getenv.ENVIRONMENT = "development"
    /\ cfg.DatabaseURL # "given" => cfg.DatabaseURL = "local" /\ Development(cfg.Env)
    /\ cfg.DebugAddr = NoAddr \/ cfg.DebugAddr.host \in {"localhost", "::1"}

\* A typo in LOG_LEVEL never silently means info.
LevelIsAsked ==
  stage = "serving" /\ getenv.LOG_LEVEL # "" =>
    cfg.LogLevel = (IF getenv.LOG_LEVEL = "DEBUG" THEN "debug" ELSE getenv.LOG_LEVEL)

\* A started server routes every call, sends a key only to the host of its own
\* vendor, and does not fail open on a variable that is missing or misspelt.
SafeStart == CallsAreRouted /\ KeysStayHome /\ FailsClosed /\ LevelIsAsked
=============================================================================
