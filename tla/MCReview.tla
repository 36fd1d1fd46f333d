------------------------------ MODULE MCReview ------------------------------
(* An instance of Review for TLC.                                          *)
EXTENDS Review

(* A Discord webhook, the one that replaces it, and a Teams webhook.       *)
SomeWebhooks ==
  {[channel |-> "discord", url |-> "old"], [channel |-> "discord", url |-> "new"],
   [channel |-> "teams", url |-> "only"]}

(* Every choice of webhooks, and all of them gone. Webhooks kept while the *)
(* alerts are off make no difference to Process.                           *)
SomeSaves ==
  {c \in Configs : c.enabled = (c.hooks # {})}

(* Up to two findings, of which a message shows one: the worst, or not.    *)
SomeLists == { <<>>, <<"critical", "warning">>, <<"info", "warning">> }
=============================================================================
