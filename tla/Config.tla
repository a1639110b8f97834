------------------------------- MODULE Config -------------------------------
(***************************************************************************)
(* What the process is started with: the configuration file, overridden by *)
(* the environment, validated, and turned into a set of adapters.          *)
(*                                                                         *)
(* The variable UCPQA_PROVIDER_<alias>_<field> is the pair <<alias in      *)
(* capitals, field>>, UCPQA_<field> the pair <<"", field>>.  An environment *)
(* says the value of every variable that is set and parses, and lists those *)
(* that are set to what does not parse.                                    *)
(***************************************************************************)
EXTENDS Integers

CONSTANTS Upper, Lower,   \* strings.ToUpper of an alias, strings.ToLower of a type or alias
          MinTimeout      \* 30 seconds

ASSUME TimeoutAssumption == MinTimeout \in Nat \ {0}

AdapterTypes == {"kimi", "minimax", "zai", "zhipu", "cpa"}

Override(old, env, scope, field) ==
    IF <<scope, field>> \in DOMAIN env.says THEN env.says[<<scope, field>>] ELSE old

\* cors_enabled takes the result of ParseBool even where that is an error.
ServerField(cfg, env, field) ==
    IF field = "cors_enabled" /\ <<"", field>> \in env.garbled THEN FALSE
    ELSE Override(cfg.server[field], env, "", field)

ProviderField(cfg, env, alias, field) ==
    IF field \in {"type", "name"} THEN cfg.providers[alias][field]
    ELSE Override(cfg.providers[alias][field], env, Upper[alias], field)

ApplyEnvOverrides(cfg, env) ==
    [server |-> [f \in DOMAIN cfg.server |-> ServerField(cfg, env, f)],
     maxStale |-> Override(cfg.maxStale, env, "", "max_stale_duration"),
     providers |-> [a \in DOMAIN cfg.providers |->
                       [f \in DOMAIN cfg.providers[a] |-> ProviderField(cfg, env, a, f)]]]

Valid(cfg) == \A a \in DOMAIN cfg.providers :
                 LET prov == cfg.providers[a]
                 IN  /\ prov.token # ""
                     /\ prov.type = "" \/ Lower[prov.type] \in AdapterTypes

\* The adapter of an alias; one whose type is no adapter's is skipped.
AdapterType(cfg, a) == Lower[IF cfg.providers[a].type = "" THEN a ELSE cfg.providers[a].type]
Polled(cfg) == {a \in DOMAIN cfg.providers : AdapterType(cfg, a) \in AdapterTypes}

ShutdownTimeout(cfg) == IF cfg.maxStale * 2 > MinTimeout THEN cfg.maxStale * 2 ELSE MinTimeout
=============================================================================
