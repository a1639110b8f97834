---------------------------- MODULE MCLifecycle ----------------------------
EXTENDS Lifecycle

Words == {"kimi", "Pool", "CPA", "ollama", "openai"}
MCUpper == [w \in Words |-> CASE w = "kimi" -> "KIMI" [] w = "Pool" -> "POOL" [] OTHER -> "OTHER"]
MCLower == [w \in Words |-> CASE w = "CPA" -> "cpa" [] w = "Pool" -> "pool" [] OTHER -> w]

Provider(type, token) == [type |-> type, name |-> "", token |-> token, interval |-> 60]
File(providers) == [server |-> [api_port |-> 8080, cors_enabled |-> TRUE],
                    maxStale |-> 2, providers |-> providers]

\* A provider without a token in the file, one whose alias is no type, one
\* whose type is unknown
MCFiles == { NoFile,
             File([a \in {"kimi", "Pool"} |-> IF a = "kimi" THEN Provider("", "")
                                              ELSE Provider("CPA", "t")]),
             File([a \in {"kimi", "ollama"} |-> Provider("", "t")]),
             File([a \in {"Pool"} |-> Provider("openai", "t")]) }

\* Nothing set; a token and a longer max_stale_duration
MCEnvs == { [says |-> <<>>, garbled |-> {<<"", "cors_enabled">>}],
            [says |-> [v \in {<<"KIMI", "token">>, <<"", "max_stale_duration">>} |->
                          IF v[1] = "KIMI" THEN "secret" ELSE 5],
             garbled |-> {<<"KIMI", "interval">>}] }
=============================================================================
