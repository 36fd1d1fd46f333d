----------------------------- MODULE Remediation ----------------------------
(***************************************************************************)
(* Approval-gated changes: the agent's proposals table                     *)
(* (internal/agent/proposal.go), the server's apply handler                *)
(* (internal/server/proposals.go), the manifest editor's handler           *)
(* (internal/server/handlers.go) and the UpdateResource path both share    *)
(* (internal/k8s/resources.go), against a Kubernetes API that other        *)
(* writers use too.                                                        *)
(*                                                                         *)
(* A handler is a sequence of remote calls. Each call is one step, and     *)
(* between two of them any other request, rejection or writer may step in. *)
(* h[r] is the frame of request r: what the Go handler holds in its        *)
(* locals, plus the history fields wrote, late and seen the properties     *)
(* need.                                                                   *)
(***************************************************************************)
EXTENDS Naturals

CONSTANTS
  Proposals,  (* proposal ids the agent may hand out                        *)
  Approvals,  (* POST /proposals/{id}/apply requests                        *)
  Edits,      (* PUT /resources/... requests of the manifest editor         *)
  Targets,    (* addressable objects: kind, namespace and name              *)
  Servers,    (* server processes: the first one and its successors         *)
  NoOne,      (* stands for "no proposal", "no target", "no server"         *)
  Faults,     (* which of loss, disconnect, restart may happen              *)
  MaxRev      (* bound: writers outside Kentinel stop at this revision      *)

Requests == Approvals \cup Edits
Modes    == {"readonly", "assisted"}
Terminal == {"rejected", "applied", "failed"}

(* The content of an object is named after whoever wrote it: a proposal,   *)
(* an edit, or any writer outside Kentinel. A deleted object is "gone".    *)
Writers == Proposals \cup Edits \cup {"external"}
Bodies  == Writers \cup {"gone"}

ASSUME RemediationAssumption ==
  /\ Approvals \cap Edits = {}
  /\ NoOne \notin Proposals \cup Targets \cup Servers
  /\ "external" \notin Proposals \cup Edits
  /\ "gone" \notin Proposals \cup Edits
  /\ Proposals \cap Edits = {}
  /\ Faults \subseteq {"loss", "disconnect", "restart"}
  /\ MaxRev \in Nat

VARIABLES
  servers, (* the KENTINEL_MODE each server runs in, or "down"              *)
  table,   (* the agent's proposals table                                   *)
  obj,     (* the live objects: resourceVersion and content                 *)
  rev,     (* the cluster's revision counter, source of resourceVersions    *)
  h        (* the frame of each request                                     *)

vars == <<servers, table, obj, rev, h>>

(* A manifest states the object it names and the resourceVersion it        *)
(* carries; 0 is a manifest without one.                                   *)
Manifests == [names : Targets \cup {NoOne}, rv : Nat, body : Writers]
NoManifest == [names |-> NoOne, rv |-> 0, body |-> "external"]

Rows == [status   : {"absent", "pending"} \cup Terminal,
         target   : Targets \cup {NoOne},
         manifest : Manifests]

Steps == {"idle", "editing", "fetch", "get", "update", "readback", "resolve",
          "done"}
Busy  == {"fetch", "get", "update", "readback", "resolve"}

(* Replies by their HTTP status; "error" is any failure of UpdateResource, *)
(* whatever status writeError picks for it.                                *)
Replies == {"none", "200", "403", "409", "502", "error"}

Frames == [pc : Steps, server : Servers \cup {NoOne},
           prop : Proposals \cup {NoOne},
           target : Targets \cup {NoOne}, manifest : Manifests,
           base : Nat, err : BOOLEAN, cut : BOOLEAN, reply : Replies,
           wrote : BOOLEAN, late : BOOLEAN, seen : Nat]

IdleFrame == [pc |-> "idle", server |-> NoOne, prop |-> NoOne,
              target |-> NoOne, manifest |-> NoManifest, base |-> 0,
              err |-> FALSE, cut |-> FALSE, reply |-> "none",
              wrote |-> FALSE, late |-> FALSE, seen |-> 0]

TypeOK ==
  /\ servers \in [Servers -> Modes \cup {"down"}]
  /\ table \in [Proposals -> Rows]
  /\ obj \in [Targets -> [rv : Nat, body : Bodies]]
  /\ rev \in Nat
  /\ h \in [Requests -> Frames]

Init ==
  /\ \E first \in Servers, m \in Modes :
       servers = [s \in Servers |-> IF s = first THEN m ELSE "down"]
  /\ table = [p \in Proposals |->
                [status |-> "absent", target |-> NoOne, manifest |-> NoManifest]]
  /\ obj = [t \in Targets |-> [rv |-> 1, body |-> "external"]]
  /\ rev = 1
  /\ h = [r \in Requests |-> IdleFrame]

-----------------------------------------------------------------------------
(* The Kubernetes API, as UpdateResource uses it.                          *)

Exists(t) == obj[t].body # "gone"

(* An update is accepted when the object exists at the stated version.     *)
Accepts(r) ==
  LET m == h[r].manifest
  IN  Exists(m.names) /\ obj[m.names].rv = h[r].base

(* Writing what is already there leaves the resourceVersion alone.         *)
Store(t, body) ==
  IF obj[t].body = body
  THEN UNCHANGED <<obj, rev>>
  ELSE /\ rev' = rev + 1
       /\ obj' = [obj EXCEPT ![t] = [rv |-> rev + 1, body |-> body]]

(* Controllers, kubectl and other users change, delete and recreate the    *)
(* same objects.                                                           *)
ExternalWrite(t) ==
  /\ rev < MaxRev
  /\ rev' = rev + 1
  /\ obj' = [obj EXCEPT ![t] = [rv |-> rev + 1, body |-> "external"]]
  /\ UNCHANGED <<servers, table, h>>

ExternalDelete(t) ==
  /\ Exists(t)
  /\ rev < MaxRev
  /\ rev' = rev + 1
  /\ obj' = [obj EXCEPT ![t] = [rv |-> rev + 1, body |-> "gone"]]
  /\ UNCHANGED <<servers, table, h>>

-----------------------------------------------------------------------------
(* Calls. A request whose client went away has a cancelled context: every  *)
(* later call it makes fails unsent. A lossy network may drop the call or  *)
(* its answer.                                                             *)

Answered(r) == ~h[r].cut
MayFail(r)  == h[r].cut \/ "loss" \in Faults

(* The handler ends, and its locals with it; what it had copied and        *)
(* written stays on record.                                                *)
Over(frame) ==
  [IdleFrame EXCEPT !.pc = "done", !.prop = frame.prop,
                    !.target = frame.target, !.wrote = frame.wrote,
                    !.late = frame.late]

(* A client that went away reads no reply.                                 *)
Ended(r, frame, code) ==
  [Over(frame) EXCEPT !.reply = IF h[r].cut THEN "none" ELSE code]

End(r, code) == h' = [h EXCEPT ![r] = Ended(r, @, code)]

(* The client closes its connection: net/http cancels r.Context().         *)
Disconnect(r) ==
  /\ "disconnect" \in Faults
  /\ h[r].pc \in Busy
  /\ ~h[r].cut
  /\ h' = [h EXCEPT ![r].cut = TRUE]
  /\ UNCHANGED <<servers, table, obj, rev>>

Running(s) == servers[s] # "down"

(* A rolling update starts the successor, perhaps in another mode, before  *)
(* it ends the server that runs. The agent's restart loses no more than    *)
(* the calls being made to it: its table is on disk.                       *)
Deploy(s, m) ==
  /\ "restart" \in Faults
  /\ ~Running(s)
  /\ servers' = [servers EXCEPT ![s] = m]
  /\ UNCHANGED <<table, obj, rev, h>>

(* From SIGTERM on a server takes no new request, and httpServer.Shutdown  *)
(* lets those in flight run on with live contexts: until it ends it is a   *)
(* running server that no further request reaches. It ends drained, after  *)
(* the ten seconds Shutdown waits, or killed, and the requests it still    *)
(* has die with it.                                                        *)
ServerEnds(s) ==
  /\ "restart" \in Faults
  /\ Running(s)
  /\ servers' = [servers EXCEPT ![s] = "down"]
  /\ h' = [r \in Requests |-> IF h[r].server = s THEN Over(h[r]) ELSE h[r]]
  /\ UNCHANGED <<table, obj, rev>>

-----------------------------------------------------------------------------
(* The agent: propose_change, reject and resolve.                          *)

MatchesAnything(target, m) == TRUE                                  (* mutant *)

(* ValidateManifestTarget: the manifest must name the addressed object.    *)
Matches(target, m) == m.names = target

(* runProposeChange. The manifest the model was shown has no               *)
(* resourceVersion; the one it writes may state the object's nevertheless. *)
(* A call that fails the validation or cannot read the object records      *)
(* nothing. The agent offers the tool in assisted mode only, but runs it   *)
(* whenever a model calls it.                                              *)
Propose(p, t, names, pinned) ==
  LET m == [names |-> names, rv |-> IF pinned THEN obj[t].rv ELSE 0, body |-> p]
  IN  /\ table[p].status = "absent"
      /\ Matches(t, m)
      /\ Exists(t)
      /\ table' = [table EXCEPT ![p] =
                     [status |-> "pending", target |-> t, manifest |-> m]]
      /\ UNCHANGED <<servers, obj, rev, h>>

decideAnyway(p, outcome) ==                                         (* mutant *)
  [table EXCEPT ![p].status = outcome]

(* The UPDATE ... WHERE status = 'pending' of decideProposal: a row that   *)
(* is not pending is left as it is.                                        *)
decideProposal(p, outcome) ==
  IF table[p].status = "pending"
  THEN [table EXCEPT ![p].status = outcome]
  ELSE table

Reject(p) ==
  /\ table' = decideProposal(p, "rejected")
  /\ UNCHANGED <<servers, obj, rev, h>>

-----------------------------------------------------------------------------
(* UpdateResource, for the request r whose frame holds target and manifest *)

(* Its return: the apply handler goes on to record the outcome, the        *)
(* editor's handler answers.                                               *)
Returned(r, frame, err) ==
  IF r \in Approvals
  THEN [frame EXCEPT !.pc = "resolve", !.err = err]
  ELSE Ended(r, frame, IF err THEN "error" ELSE "200")

Return(r, err) == h' = [h EXCEPT ![r] = Returned(r, @, err)]

GetCurrentAlways(r) ==                                              (* mutant *)
  LET t == h[r].target
  IN  /\ h[r].pc = "get"
      /\ \/ ~Matches(t, h[r].manifest) /\ Return(r, TRUE)
         \/ /\ Matches(t, h[r].manifest) /\ Answered(r) /\ Exists(t)
            /\ h' = [h EXCEPT ![r].pc = "update", ![r].base = obj[t].rv]
      /\ UNCHANGED <<servers, table, obj, rev>>

(* Validation, then the version the update will carry: the manifest's own  *)
(* when it states one, else that of the live object, fetched now.          *)
GetCurrent(r) ==
  LET m == h[r].manifest
      t == h[r].target
  IN  /\ h[r].pc = "get"
      /\ \/ ~Matches(t, m) /\ Return(r, TRUE)
         \/ /\ Matches(t, m)
            /\ m.rv # 0
            /\ h' = [h EXCEPT ![r].pc = "update", ![r].base = m.rv]
         \/ /\ Matches(t, m)
            /\ m.rv = 0
            /\ \/ /\ Answered(r) /\ Exists(t)
                  /\ h' = [h EXCEPT ![r].pc = "update", ![r].base = obj[t].rv]
               \/ /\ MayFail(r) \/ ~Exists(t)
                  /\ Return(r, TRUE)
      /\ UNCHANGED <<servers, table, obj, rev>>

(* The write. It may be accepted, refused, or fail on the way: before the  *)
(* API server saw it, or after it was committed.                           *)
UpdateAccepted(r) ==
  /\ h[r].pc = "update"
  /\ Answered(r)
  /\ Accepts(r)
  /\ Store(h[r].manifest.names, h[r].manifest.body)
  /\ \/ h' = [h EXCEPT ![r].pc = "readback", ![r].wrote = TRUE]
     \/ /\ MayFail(r)
        /\ h' = [h EXCEPT ![r] = Returned(r, [@ EXCEPT !.wrote = TRUE], TRUE)]
  /\ UNCHANGED <<servers, table>>

UpdateFailedQuietly(r) ==                                           (* mutant *)
  /\ h[r].pc = "update"
  /\ ~Accepts(r)
  /\ Return(r, FALSE)
  /\ UNCHANGED <<servers, table, obj, rev>>

UpdateFailed(r) ==
  /\ h[r].pc = "update"
  /\ ~Accepts(r) \/ MayFail(r)
  /\ Return(r, TRUE)
  /\ UNCHANGED <<servers, table, obj, rev>>

(* The trailing GetResource: its error is UpdateResource's error, although *)
(* the write is done.                                                      *)
ReadBack(r) ==
  /\ h[r].pc = "readback"
  /\ \/ Answered(r) /\ Exists(h[r].target) /\ Return(r, FALSE)
     \/ (MayFail(r) \/ ~Exists(h[r].target)) /\ Return(r, TRUE)
  /\ UNCHANGED <<servers, table, obj, rev>>

-----------------------------------------------------------------------------
(* handleApplyProposal.                                                    *)

requireNothing(s) == TRUE                                           (* mutant *)

requireAssisted(s) == servers[s] = "assisted"

(* Any server that runs may get the request, whichever mode it is in.      *)
ApproveArrives(a, p, s) ==
  /\ Running(s)
  /\ h[a].pc = "idle"
  /\ IF requireAssisted(s)
     THEN h' = [h EXCEPT ![a].pc = "fetch", ![a].server = s, ![a].prop = p,
                         ![a].late = table[p].status \in Terminal]
     ELSE End(a, "403")
  /\ UNCHANGED <<servers, table, obj, rev>>

FetchUnchecked(a) ==                                                (* mutant *)
  LET row == table[h[a].prop]
  IN  /\ h[a].pc = "fetch"
      /\ row.status # "absent"
      /\ h' = [h EXCEPT ![a].pc = "get", ![a].target = row.target,
                        ![a].manifest = row.manifest]
      /\ UNCHANGED <<servers, table, obj, rev>>

(* fetchProposal and the test of its status. An unknown id and an          *)
(* unreachable agent are both 502.                                         *)
FetchProposal(a) ==
  LET row == table[h[a].prop]
  IN  /\ h[a].pc = "fetch"
      /\ \/ /\ Answered(a)
            /\ row.status = "pending"
            /\ h' = [h EXCEPT ![a].pc = "get", ![a].target = row.target,
                              ![a].manifest = row.manifest]
         \/ Answered(a) /\ row.status \in Terminal /\ End(a, "409")
         \/ (MayFail(a) \/ row.status = "absent") /\ End(a, "502")
      /\ UNCHANGED <<servers, table, obj, rev>>

OutcomeMessage(a) == IF h[a].err THEN "error" ELSE "applied"        (* mutant *)

(* resolveProposal: the outcome reaches the agent, or the call is lost and *)
(* only logged. The reply depends on the apply alone.                      *)
Outcome(a) == IF h[a].err THEN "failed" ELSE "applied"

ResolveSuccess(a) ==                                                (* mutant *)
  /\ h[a].pc = "resolve"
  /\ \/ /\ Answered(a) /\ ~h[a].err
        /\ table' = decideProposal(h[a].prop, Outcome(a))
     \/ (MayFail(a) \/ h[a].err) /\ UNCHANGED table
  /\ End(a, IF h[a].err THEN "error" ELSE "200")
  /\ UNCHANGED <<servers, obj, rev>>

ResolveProposal(a) ==
  /\ h[a].pc = "resolve"
  /\ \/ Answered(a) /\ table' = decideProposal(h[a].prop, Outcome(a))
     \/ MayFail(a) /\ UNCHANGED table
  /\ End(a, IF h[a].err THEN "error" ELSE "200")
  /\ UNCHANGED <<servers, obj, rev>>

-----------------------------------------------------------------------------
(* handleUpdateResource, from the page that loads the object to the PUT.   *)

OpenEditor(e, t) ==
  /\ h[e].pc = "idle"
  /\ Exists(t)
  /\ h' = [h EXCEPT ![e].pc = "editing", ![e].target = t, ![e].seen = obj[t].rv]
  /\ UNCHANGED <<servers, table, obj, rev>>

(* The page shows the manifest without its resourceVersion; a user may     *)
(* type the one the object had, and may rename the object.                 *)
SaveEdit(e, names, pinned, s) ==
  LET m == [names |-> names, rv |-> IF pinned THEN h[e].seen ELSE 0, body |-> e]
  IN  /\ Running(s)
      /\ h[e].pc = "editing"
      /\ IF requireAssisted(s)
         THEN h' = [h EXCEPT ![e].pc = "get", ![e].server = s, ![e].manifest = m]
         ELSE End(e, "403")
      /\ UNCHANGED <<servers, table, obj, rev>>

-----------------------------------------------------------------------------
UpdateResource(r) ==
  GetCurrent(r) \/ UpdateAccepted(r) \/ UpdateFailed(r) \/ ReadBack(r)

HandlerStep(r) ==
  \/ UpdateResource(r)
  \/ r \in Approvals /\ (FetchProposal(r) \/ ResolveProposal(r))

Environment ==
  \/ \E t \in Targets : ExternalWrite(t) \/ ExternalDelete(t)
  \/ \E r \in Requests : Disconnect(r)
  \/ \E s \in Servers :
       (\E m \in Modes : Deploy(s, m)) \/ ServerEnds(s)

Users ==
  \/ \E p \in Proposals, t, names \in Targets, pinned \in BOOLEAN :
       Propose(p, t, names, pinned)
  \/ \E p \in Proposals : Reject(p)
  \/ \E a \in Approvals, p \in Proposals, s \in Servers : ApproveArrives(a, p, s)
  \/ \E e \in Edits, t \in Targets : OpenEditor(e, t)
  \/ \E e \in Edits, names \in Targets, pinned \in BOOLEAN, s \in Servers :
       SaveEdit(e, names, pinned, s)

Next == Users \/ Environment \/ \E r \in Requests : HandlerStep(r)

Spec == Init /\ [][Next]_vars

(* A handler that has begun is run to its end by the Go scheduler, and     *)
(* every call it makes is answered or fails. Nobody has to approve, reject *)
(* or edit anything, and no fault has to happen.                           *)
FairSpec == Spec /\ \A r \in Requests : WF_vars(HandlerStep(r))

-----------------------------------------------------------------------------
(* What the handlers implement: see AuditTrail.tla. A proposal is granted  *)
(* once an approval copied it while pending, and has landed once the API   *)
(* server accepted the write of one of its approvals.                      *)

granted == {p \in Proposals :
              \E a \in Approvals : h[a].prop = p /\ h[a].target # NoOne}
landed  == {p \in Proposals : \E a \in Approvals : h[a].prop = p /\ h[a].wrote}

Audit == INSTANCE AuditTrail WITH
           status <- [p \in Proposals |-> table[p].status]

(* Every interleaving of handlers, rejections, faults and other writers is *)
(* a behaviour of the audit trail: no write without an approval that found *)
(* the proposal pending, no "applied" without a write, one decision.       *)
ImplementsAuditTrail == Audit!Spec

(* A recorded "applied" is true (decideProposal is told the outcome by     *)
(* handleApplyProposal), however calls are lost and handlers killed.       *)
AppliedMeansWritten == Audit!Honest

(* The first decision stands: approvals, rejections and late outcomes      *)
(* racing each other never move a decided proposal (decideProposal).       *)
DecisionFinal ==
  [][\A p \in Proposals :
       table[p].status \in Terminal => table'[p].status = table[p].status]_vars

(* An approval that arrives after the decision never writes to the         *)
(* cluster: the fetch of handleApplyProposal finds it decided.             *)
LateApprovalNeverWrites ==
  \A a \in Approvals : h[a].late => ~h[a].wrote

(* What the user is told: success only if the write was accepted, and the  *)
(* refusals 403, 409 and 502 only if nothing was written.                  *)
ReplyHonest ==
  \A r \in Requests :
    /\ h[r].reply = "200" => h[r].wrote
    /\ h[r].reply \in {"403", "409", "502"} => ~h[r].wrote

(* Content only ever reaches the object it was reviewed or opened for,     *)
(* although manifests name their own object (ValidateManifestTarget).      *)
WritesStayOnTarget ==
  \A t \in Targets :
    /\ obj[t].body \in Proposals => table[obj[t].body].target = t
    /\ obj[t].body \in Edits => h[obj[t].body].target = t

(* An edit whose manifest states the version its page was loaded at never  *)
(* overwrites a later change (UpdateResource keeps a stated version).      *)
PinnedEditSafe ==
  [][\A e \in Edits :
       h'[e].wrote /\ ~h[e].wrote /\ h[e].manifest.rv # 0
         => obj[h[e].target].rv = h[e].seen]_vars

(* Every write is made for a request that a server running in assisted     *)
(* mode let in (requireAssisted on both write paths): a readonly server    *)
(* writes nothing, whichever it serves next to. The requests of an         *)
(* assisted predecessor go on until it has drained.                        *)
ReadonlyNeverWrites ==
  [][\A r \in Requests :
       h'[r].wrote /\ ~h[r].wrote
         => servers[h[r].server] = "assisted"]_vars

(* When calls are answered and the server lives, an approval that found    *)
(* its proposal pending leads to a recorded decision, whoever else decides *)
(* meanwhile; only its client's going away excuses it.                     *)
ApprovalGetsDecided ==
  \A a \in Approvals :
    h[a].pc = "get" ~> \/ h[a].cut
                       \/ \E p \in Proposals :
                            h[a].prop = p /\ table[p].status \in Terminal

-----------------------------------------------------------------------------
(* What the repository says and the handlers do not keep.                  *)

(* proposal.go:186-188: "a proposal can't be applied twice or applied      *)
(* after rejection". The write would have to find the proposal pending.    *)
OnlyPendingIsWritten ==
  [][\A a \in Approvals :
       h'[a].wrote /\ ~h[a].wrote => table[h[a].prop].status = "pending"]_vars

(* proposals.go:84-86: the outcome is recorded "regardless of success, so  *)
(* the audit trail reflects reality". Once its approvals have ended, a     *)
(* proposal that was written would not still be pending.                   *)
AuditReflectsReality ==
  \A p \in landed :
    (\A a \in Approvals : h[a].prop = p => h[a].pc \notin Busy)
      => table[p].status # "pending"

(* resources.go:150-152: the "same optimistic-concurrency window as        *)
(* kubectl edit", which refuses to save over a change made since the       *)
(* object was opened.                                                      *)
EditKeepsConcurrentChange ==
  [][\A e \in Edits :
       h'[e].wrote /\ ~h[e].wrote
         => obj[h[e].target].rv = h[e].seen]_vars
=============================================================================
