------------------------------- MODULE MCArbd -------------------------------
(* Instances of Arbd for TLC: the pipeline's one, and inputs of run that are *)
(* sound or wrong in one place, which is enough to refuse them.              *)
EXTENDS Arbd, MCPipeline

EnvVars == Required \cup Parsed \cup {".env"}
GoodEnv == [v \in EnvVars |-> IF v \in {".env", "LOG_LEVEL"} THEN "unset" ELSE "good"]
MCEnvs == {GoodEnv}
          \cup {[GoodEnv EXCEPT ![v] = "unset"] : v \in Required}
          \cup {[GoodEnv EXCEPT ![v] = "bad"] : v \in Parsed \cup {".env", "ETH_RPC_URL"}}

GoodFile ==
  [readable |-> TRUE, parses |-> TRUE, sizes |-> <<1>>,
   rps |-> [v \in Venues |-> 5], durations |-> [d \in Durations |-> 1]]
ZeroDuration(d) == [GoodFile EXCEPT !.durations[d] = 0]
MCFiles == {GoodFile, [GoodFile EXCEPT !.readable = FALSE],
            [GoodFile EXCEPT !.parses = FALSE], [GoodFile EXCEPT !.sizes = <<>>],
            [GoodFile EXCEPT !.sizes = <<1, 0>>]}
           \cup {[GoodFile EXCEPT !.rps[v] = 0] : v \in Venues}
           \cup {ZeroDuration(d) : d \in Checked}
\* An interval of 0 has a meaning of its own (BreakerConfig).
ZeroFiles == {ZeroDuration(d) : d \in Durations \ {"interval"}}
=============================================================================
