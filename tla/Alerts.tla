------------------------------- MODULE Alerts -------------------------------
(***************************************************************************)
(* Status alerts (internal/agent/notify.go): the review loop hands each    *)
(* finished review to Dispatcher.Process, which compares it with the last  *)
(* status it saw and tells every configured channel of a transition, one   *)
(* channel after the other. Process runs on the loop's goroutine, so the   *)
(* next review waits for the deliveries; settings change and the pod is    *)
(* replaced whenever they like.                                            *)
(***************************************************************************)
EXTENDS Naturals

CONSTANTS
  Webhooks,   (* the URLs ever configured: records of the channel (discord, *)
              (* slack, teams) and the URL itself                           *)
  Saves       (* the notification settings that saves may lead to           *)

Statuses   == {"healthy", "warning", "critical"}
Reviews    == Statuses \cup {"error"}
Severities == {"warning", "critical"}
None       == "none"

severityRank == [s \in Reviews \cup {None} |->
                   CASE s = "critical" -> 2
                     [] s = "warning"  -> 1
                     [] OTHER          -> 0]

VARIABLES
  cfg,      (* the notification settings                                    *)
  last,     (* Dispatcher.last: the last status that was no error           *)
  alert,    (* the delivery under way: its status and the webhooks left     *)
  told,     (* history: the status each webhook was last told               *)
  quiet,    (* history: webhooks to which no other status, and no restart,  *)
            (* happened since that alert                                    *)
  synced,   (* history: webhooks no transition was withheld from            *)
  repeated  (* history: an alert was told again to a quiet webhook          *)

vars == <<cfg, last, alert, told, quiet, synced, repeated>>

(* Each channel has at most one webhook.                                   *)
Hooks == {h \in SUBSET Webhooks :
            \A v, w \in h : v.channel = w.channel => v = w}

Configs == [enabled : BOOLEAN, hooks : Hooks, min : Severities]

ASSUME AlertsAssumption == Saves \subseteq Configs

TypeOK ==
  /\ cfg \in Configs
  /\ last \in Statuses \cup {None}
  /\ alert \in [status : Statuses \cup {None}, todo : SUBSET Webhooks]
  /\ told \in [Webhooks -> Statuses \cup {None}]
  /\ quiet \in SUBSET Webhooks
  /\ synced \in SUBSET Webhooks
  /\ repeated \in BOOLEAN

Idle == [status |-> None, todo |-> {}]

Init ==
  /\ cfg \in Saves
  /\ cfg.enabled => cfg.hooks # {}
  /\ last = None
  /\ alert = Idle
  /\ told = [w \in Webhooks |-> None]
  /\ quiet = {}
  /\ synced = {}
  /\ repeated = FALSE

-----------------------------------------------------------------------------
(* What saves of the Settings page make of the settings: a webhook is new, *)
(* replaced by another URL of its channel, or gone, which no save asks for *)
(* but two that overlap bring about (SecretsNeverDropped). Only a webhook  *)
(* before anything is enabled is certain: validateSettings.                *)
Configure(new) ==
  /\ new.enabled => new.hooks # {}
  /\ cfg' = new
  /\ synced' = IF new.min = cfg.min THEN synced ELSE {}
  /\ UNCHANGED <<last, alert, told, quiet, repeated>>

(* The Dispatcher forgets everything; its deliveries stop half-way.        *)
Restart ==
  /\ last' = None
  /\ alert' = Idle
  /\ synced' = {}
  /\ quiet' = {}
  /\ UNCHANGED <<cfg, told, repeated>>

-----------------------------------------------------------------------------
(* Process.                                                                *)

(* Either side of the transition reaches the threshold.                    *)
Qualifies(previous, status) ==
  \/ severityRank[status] >= severityRank[cfg.min]
  \/ previous # None /\ severityRank[previous] >= severityRank[cfg.min]

Deliverable == cfg.enabled /\ cfg.hooks # {}

Announced(status) == [status |-> status, todo |-> cfg.hooks]

StillQuiet(status) == {w \in quiet : told[w] = status}

(* A transition that qualifies is withheld from every webhook that is not  *)
(* to be told of it.                                                       *)
StillSynced(status) ==
  IF last = status \/ ~Qualifies(last, status) THEN synced
  ELSE IF Deliverable THEN synced \cap cfg.hooks ELSE {}

ProcessErrors(status) ==                                            (* mutant *)
  /\ alert.todo = {}
  /\ last' = status
  /\ alert' = IF last # status /\ Deliverable /\ Qualifies(last, status)
              THEN Announced(status) ELSE Idle
  /\ synced' = StillSynced(status)
  /\ quiet' = StillQuiet(status)
  /\ UNCHANGED <<cfg, told, repeated>>

ProcessAlways(status) ==                                            (* mutant *)
  /\ alert.todo = {}
  /\ status # "error"
  /\ last' = status
  /\ alert' = IF Deliverable /\ Qualifies(last, status)
              THEN Announced(status) ELSE Idle
  /\ synced' = StillSynced(status)
  /\ quiet' = StillQuiet(status)
  /\ UNCHANGED <<cfg, told, repeated>>

(* A review that failed is no status: Process returns at once. A status    *)
(* seen while nothing is deliverable is remembered all the same.           *)
Process(status) ==
  /\ alert.todo = {}
  /\ status # "error"
  /\ last' = status
  /\ alert' = IF last # status /\ Deliverable /\ Qualifies(last, status)
              THEN Announced(status) ELSE Idle
  /\ synced' = StillSynced(status)
  /\ quiet' = StillQuiet(status)
  /\ UNCHANGED <<cfg, told, repeated>>

(* deliver: the webhooks are those read at the transition, whatever is set *)
(* since. One that fails is logged and the next one is tried.              *)
Delivered(w) ==
  /\ w \in alert.todo
  /\ alert' = [alert EXCEPT !.todo = @ \ {w}]
  /\ told' = [told EXCEPT ![w] = alert.status]
  /\ quiet' = quiet \cup {w}
  /\ repeated' = (repeated \/ (w \in quiet /\ told[w] = alert.status))
  /\ synced' = synced \cup {w}
  /\ UNCHANGED <<cfg, last>>

FailedAborts(w) ==                                                  (* mutant *)
  /\ w \in alert.todo
  /\ alert' = Idle
  /\ synced' = synced \ {w}
  /\ UNCHANGED <<cfg, last, told, quiet, repeated>>

Failed(w) ==
  /\ w \in alert.todo
  /\ alert' = [alert EXCEPT !.todo = @ \ {w}]
  /\ synced' = synced \ {w}
  /\ UNCHANGED <<cfg, last, told, quiet, repeated>>

Deliver == \E w \in Webhooks : Delivered(w) \/ Failed(w)

Next ==
  \/ \E new \in Saves : Configure(new)
  \/ Restart
  \/ \E s \in Reviews : Process(s)
  \/ Deliver

Spec == Init /\ [][Next]_vars

-----------------------------------------------------------------------------
AboveThreshold(s) == severityRank[s] >= severityRank[cfg.min]

(* A webhook that no alert failed on, and that was set at each transition  *)
(* that qualified, knows where the cluster stands: if what it was last     *)
(* told, or the present status, reaches the threshold, the two are the     *)
(* same. In particular nobody is left with an incident that is over, and   *)
(* one broken webhook silences no other (deliver).                         *)
AlertsInSync ==
  \A w \in synced \ alert.todo :
    AboveThreshold(last) \/ AboveThreshold(told[w]) => told[w] = last

(* ai-agent.md's "no repeat alerts while the status stays the same", for   *)
(* as long as the pod lives.                                               *)
NoRepeatWithinLife == ~repeated
=============================================================================
