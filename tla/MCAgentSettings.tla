-------------------------- MODULE MCAgentSettings ---------------------------
(***************************************************************************)
(* Small instances of AgentSettings.tla for TLC: three saves of the        *)
(* Settings page, each of which sends the whole form.                      *)
(***************************************************************************)
EXTENDS AgentSettings

CONSTANTS c1, c2, c3

TwoCallers   == {c1, c2}
ThreeCallers == {c1, c2, c3}
OneCloud     == {"anthropic"}
MCSecrets    == {"key", "hook", "http://hook"}
MCMalformed  == {"http://hook"}

(* The deployment's webhook and Prometheus URL have the wrong form, which  *)
(* nothing checks.                                                         *)
MCDefaults == [provider |-> "ollama", keys |-> [k \in OneCloud |-> Unset],
               hook |-> "http://hook", notify |-> TRUE, monitor |-> TRUE,
               days |-> 2, fine |-> FALSE]

Form == [provider |-> "ollama", key |-> Unset, hook |-> Unset,
         notify |-> FALSE, monitor |-> TRUE, days |-> 0, fine |-> TRUE]

(* Switch to the cloud provider with and without its key; add a webhook;   *)
(* notify, which needs one; turn the reviews off and change the retention; *)
(* forms that fail the check of a single field. The first to be accepted   *)
(* has to replace the deployment's webhook.                                *)
MCUpdates ==
  {[Form EXCEPT !.provider = "anthropic", !.key = "key", !.hook = "hook"],
   [Form EXCEPT !.provider = "anthropic", !.key = "key"],
   [Form EXCEPT !.provider = "anthropic", !.hook = "hook"],
   [Form EXCEPT !.hook = "hook"],
   [Form EXCEPT !.hook = "http://hook"],
   [Form EXCEPT !.notify = TRUE],
   [Form EXCEPT !.monitor = FALSE, !.days = 1, !.hook = "hook"],
   [Form EXCEPT !.fine = FALSE, !.hook = "hook"]}
=============================================================================
