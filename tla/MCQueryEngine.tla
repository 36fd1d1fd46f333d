---------------------------- MODULE MCQueryEngine ---------------------------
(* An instance of QueryEngine for TLC.                                     *)
EXTENDS QueryEngine

(* Every adapter, with and without IDs of the service, with and without    *)
(* Prometheus.                                                             *)
SomeSettings ==
  { [kind |-> "openai", ids |-> TRUE, metrics |-> TRUE],
    [kind |-> "openai", ids |-> FALSE, metrics |-> TRUE],
    [kind |-> "anthropic", ids |-> TRUE, metrics |-> FALSE],
    [kind |-> "ollama", ids |-> FALSE, metrics |-> TRUE] }
=============================================================================
