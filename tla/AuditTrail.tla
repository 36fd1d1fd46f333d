----------------------------- MODULE AuditTrail -----------------------------
(***************************************************************************)
(* What the proposals of an assisted deployment promise, with no HTTP      *)
(* handler, no Kubernetes version and no lost call in sight: a proposal is *)
(* submitted, somebody approves it while it is pending, its manifest may   *)
(* then land on the cluster, and one outcome is recorded for ever.         *)
(*                                                                         *)
(* Remediation.tla, the model of the handlers, implements this             *)
(* specification.                                                          *)
(***************************************************************************)
CONSTANT Proposals

VARIABLES
  status,    (* the recorded status of each proposal                        *)
  granted,   (* proposals some approval found pending                       *)
  landed     (* proposals whose manifest the cluster accepted at least once *)

vars == <<status, granted, landed>>

Init ==
  /\ status = [p \in Proposals |-> "absent"]
  /\ granted = {}
  /\ landed = {}

Record(p, from, to) ==
  /\ status[p] = from
  /\ status' = [status EXCEPT ![p] = to]
  /\ UNCHANGED <<granted, landed>>

Submit(p) == Record(p, "absent", "pending")

Reject(p) == Record(p, "pending", "rejected")

Grant(p) ==
  /\ status[p] = "pending"
  /\ granted' = granted \cup {p}
  /\ UNCHANGED <<status, landed>>

(* Nothing reaches the cluster that was not approved while pending. The    *)
(* status at the moment of landing is not constrained: a decision may be   *)
(* recorded while an approval that was already granted is still running.   *)
Land(p) ==
  /\ p \in granted
  /\ landed' = landed \cup {p}
  /\ UNCHANGED <<status, granted>>

RecordApplied(p) == p \in landed /\ Record(p, "pending", "applied")

RecordFailed(p) == p \in granted /\ Record(p, "pending", "failed")

Next ==
  \E p \in Proposals :
    \/ Submit(p)
    \/ Reject(p)
    \/ Grant(p)
    \/ Land(p)
    \/ RecordApplied(p)
    \/ RecordFailed(p)

Spec == Init /\ [][Next]_vars

-----------------------------------------------------------------------------
(* A recorded "applied" is true, and nothing lands without an approval.    *)
Honest ==
  /\ landed \subseteq granted
  /\ \A p \in Proposals : status[p] = "applied" => p \in landed
=============================================================================
