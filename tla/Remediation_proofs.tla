------------------------ MODULE Remediation_proofs -------------------------
(***************************************************************************)
(* Proofs about Remediation.tla, for every number of proposals, requests,  *)
(* objects and revisions, and every combination of faults.                 *)
(***************************************************************************)
EXTENDS Remediation, TLAPS

-----------------------------------------------------------------------------
(* The shape of reachable states: what a frame and a row hold in each      *)
(* phase of their lives. By itself no property survives a step; together   *)
(* with these facts all of them do.                                        *)

Addressed == {"editing", "get", "update", "readback", "resolve"}
Unwritten == {"idle", "editing", "fetch", "get", "update"}

FrameOK(r) ==
  /\ h[r].pc \in Addressed \/ h[r].wrote => h[r].target \in Targets
  /\ h[r].pc = "update" => h[r].manifest.names = h[r].target
  /\ h[r].pc \in Unwritten => ~h[r].wrote
  /\ h[r].pc = "readback" => h[r].wrote
  /\ h[r].pc = "resolve" /\ ~h[r].err => h[r].wrote
  /\ h[r].pc # "done" => h[r].reply = "none"
  /\ h[r].reply = "200" => h[r].wrote
  /\ h[r].reply \in {"403", "409", "502"} => ~h[r].wrote

ApprovalOK(a) ==
  /\ h[a].pc # "editing"
  /\ h[a].pc \in {"idle", "fetch"} => h[a].target = NoOne
  /\ h[a].pc \in Busy \/ h[a].target # NoOne => h[a].prop \in Proposals

EditOK(e) == h[e].pc \notin {"fetch", "resolve"}

RowOK(p) ==
  table[p].status # "absent" =>
    /\ table[p].target \in Targets
    /\ table[p].manifest.body = p

FramesOK ==
  /\ \A r \in Requests : FrameOK(r)
  /\ \A a \in Approvals : ApprovalOK(a)
  /\ \A e \in Edits : EditOK(e)

Shape ==
  /\ TypeOK
  /\ FramesOK
  /\ \A p \in Proposals : RowOK(p)

-----------------------------------------------------------------------------
(* Frames and rows keep their types.                                       *)

LEMMA IdleType == IdleFrame \in Frames
BY DEF IdleFrame, Frames, Steps, Manifests, NoManifest, Replies, Writers

(* What is left of a frame when its handler is over.                       *)
LEMMA OverFrame ==
  ASSUME NEW f \in Frames
  PROVE  /\ Over(f) \in Frames
         /\ Over(f).pc = "done" /\ Over(f).server = NoOne
         /\ Over(f).reply = "none"
         /\ Over(f).prop = f.prop /\ Over(f).target = f.target
         /\ Over(f).wrote = f.wrote /\ Over(f).late = f.late
<1>1. IdleFrame.reply = "none" /\ IdleFrame.server = NoOne
  BY DEF IdleFrame
<1>2. IdleFrame \in Frames
  BY IdleType
<1> QED BY <1>1, <1>2 DEF Over, Frames, Steps

LEMMA EndedFrame ==
  ASSUME NEW r \in Requests, NEW f \in Frames, NEW code \in Replies
  PROVE  /\ Ended(r, f, code) \in Frames
         /\ Ended(r, f, code).pc = "done"
         /\ Ended(r, f, code).server = NoOne
         /\ Ended(r, f, code).reply = IF h[r].cut THEN "none" ELSE code
         /\ Ended(r, f, code).prop = f.prop
         /\ Ended(r, f, code).target = f.target
         /\ Ended(r, f, code).wrote = f.wrote
         /\ Ended(r, f, code).late = f.late
<1> DEFINE o == Over(f)
<1>1. /\ o \in Frames /\ o.pc = "done" /\ o.server = NoOne
      /\ o.prop = f.prop /\ o.target = f.target
      /\ o.wrote = f.wrote /\ o.late = f.late
  BY OverFrame
<1>2. Ended(r, f, code)
        = [o EXCEPT !.reply = IF h[r].cut THEN "none" ELSE code]
  BY DEF Ended
<1>3. (IF h[r].cut THEN "none" ELSE code) \in Replies
  BY DEF Replies
<1> HIDE DEF o
<1> QED BY <1>1, <1>2, <1>3 DEF Frames

LEMMA EndedType ==
  ASSUME TypeOK, NEW r \in Requests, NEW f \in Frames, NEW code \in Replies
  PROVE  Ended(r, f, code) \in Frames
BY EndedFrame

LEMMA ReturnedType ==
  ASSUME TypeOK, NEW r \in Requests, NEW f \in Frames, NEW err \in BOOLEAN
  PROVE  Returned(r, f, err) \in Frames
<1>1. [f EXCEPT !.pc = "resolve", !.err = err] \in Frames
  BY DEF Frames, Steps
<1>2. Ended(r, f, IF err THEN "error" ELSE "200") \in Frames
  BY EndedType DEF Replies
<1> QED BY <1>1, <1>2 DEF Returned

LEMMA EndType ==
  ASSUME TypeOK, NEW r \in Requests, NEW code \in Replies, End(r, code)
  PROVE  h' \in [Requests -> Frames]
BY EndedType DEF TypeOK, End

LEMMA ReturnType ==
  ASSUME TypeOK, NEW r \in Requests, NEW err \in BOOLEAN, Return(r, err)
  PROVE  h' \in [Requests -> Frames]
BY ReturnedType DEF TypeOK, Return

LEMMA DecideType ==
  ASSUME TypeOK, NEW p \in Proposals, NEW outcome \in Terminal
  PROVE  decideProposal(p, outcome) \in [Proposals -> Rows]
BY DEF TypeOK, decideProposal, Rows, Terminal

LEMMA StoreType ==
  ASSUME TypeOK, NEW t \in Targets, NEW body \in Writers, Store(t, body)
  PROVE  /\ obj' \in [Targets -> [rv : Nat, body : Bodies]]
         /\ rev' \in Nat
BY DEF TypeOK, Store, Bodies

LEMMA InitShape == Init => Shape
<1>1. IdleFrame \in Frames
  BY IdleType
<1>2. [status |-> "absent", target |-> NoOne, manifest |-> NoManifest] \in Rows
  BY DEF Rows, Manifests, NoManifest, Writers
<1>3. Init => TypeOK
  BY <1>1, <1>2 DEF Init, TypeOK, Bodies, Writers
<1>4. Init => \A r \in Requests : h[r] = IdleFrame
  BY DEF Init
<1>5. Init => FramesOK
  BY <1>4, RemediationAssumption
     DEF FramesOK, FrameOK, ApprovalOK, EditOK, IdleFrame, Requests,
         Addressed, Busy
<1>6. Init => \A p \in Proposals : RowOK(p)
  BY DEF Init, RowOK
<1> QED BY <1>3, <1>5, <1>6 DEF Shape

(* A step that changes one frame keeps the others as they are.             *)
LEMMA OneFrame ==
  ASSUME TypeOK, FramesOK, NEW r \in Requests, NEW f \in Frames,
         h' = [h EXCEPT ![r] = f],
         FrameOK(r)', r \in Approvals => ApprovalOK(r)', r \in Edits => EditOK(r)'
  PROVE  FramesOK' /\ h' \in [Requests -> Frames]
<1>1. \A s \in Requests : s # r => h'[s] = h[s]
  BY DEF TypeOK
<1>2. \A s \in Requests : FrameOK(s)'
  BY <1>1 DEF FramesOK, FrameOK
<1>3. \A a \in Approvals : ApprovalOK(a)'
  BY <1>1 DEF FramesOK, ApprovalOK, Requests
<1>4. \A e \in Edits : EditOK(e)'
  BY <1>1 DEF FramesOK, EditOK, Requests
<1> QED BY <1>2, <1>3, <1>4 DEF FramesOK, TypeOK

(* The ends of a handler, and the returns of UpdateResource.               *)
LEMMA EndShape ==
  ASSUME TypeOK, FramesOK, NEW r \in Requests, NEW code \in Replies,
         code = "200" => h[r].wrote,
         code \in {"403", "409", "502"} => ~h[r].wrote,
         h[r].pc # "done", End(r, code)
  PROVE  FramesOK' /\ h' \in [Requests -> Frames]
<1> DEFINE f == Ended(r, h[r], code)
<1>1. f \in Frames
  BY EndedType DEF TypeOK
<1>2. h' = [h EXCEPT ![r] = f] /\ h'[r] = f
  BY DEF End, TypeOK
<1>3. /\ f.pc = "done"
      /\ f.reply = IF h[r].cut THEN "none" ELSE code
      /\ f.wrote = h[r].wrote
      /\ f.target = h[r].target
      /\ f.prop = h[r].prop
  BY EndedFrame DEF TypeOK
<1>4. FrameOK(r)'
  BY <1>2, <1>3 DEF FramesOK, FrameOK, Addressed, Unwritten
<1>5. /\ r \in Approvals => ApprovalOK(r)'
      /\ r \in Edits => EditOK(r)'
  BY <1>2, <1>3 DEF FramesOK, ApprovalOK, EditOK, Busy
<1> HIDE DEF f
<1> QED BY <1>1, <1>2, <1>4, <1>5, OneFrame

LEMMA ReturnShape ==
  ASSUME TypeOK, FramesOK, NEW r \in Requests, NEW err \in BOOLEAN,
         ~err => h[r].wrote,
         h[r].pc \in {"get", "update", "readback"}, Return(r, err)
  PROVE  FramesOK' /\ h' \in [Requests -> Frames]
<1> DEFINE f == Returned(r, h[r], err)
<1>1. f \in Frames
  BY ReturnedType DEF TypeOK
<1>2. h' = [h EXCEPT ![r] = f] /\ h'[r] = f
  BY DEF Return, TypeOK
<1>3. CASE r \in Approvals
  <2>1. /\ f.pc = "resolve"
        /\ f.err = err
        /\ f.reply = h[r].reply
        /\ f.wrote = h[r].wrote
        /\ f.target = h[r].target
        /\ f.prop = h[r].prop
    BY <1>3 DEF Returned, TypeOK, Frames
  <2>2. FrameOK(r)' /\ ApprovalOK(r)' /\ r \notin Edits
    BY <1>2, <1>3, <2>1, RemediationAssumption
       DEF FramesOK, FrameOK, ApprovalOK, Addressed, Unwritten, Busy
  <2> HIDE DEF f
  <2> QED BY <1>1, <1>2, <2>2, OneFrame
<1>4. CASE r \notin Approvals
  <2>1. End(r, IF err THEN "error" ELSE "200")
    BY <1>4 DEF Return, Returned, End
  <2> QED BY <2>1, EndShape DEF Replies
<1> QED BY <1>3, <1>4

-----------------------------------------------------------------------------
(* Every step keeps the shape.                                             *)

LEMMA DecideRows ==
  ASSUME Shape, NEW p \in Proposals, NEW outcome \in Terminal,
         table' = decideProposal(p, outcome)
  PROVE  /\ table' \in [Proposals -> Rows]
         /\ \A q \in Proposals : RowOK(q)'
<1>1. table' \in [Proposals -> Rows]
  BY DecideType DEF Shape
<1>2. \A q \in Proposals : /\ table'[q].target = table[q].target
                           /\ table'[q].manifest = table[q].manifest
                           /\ table'[q].status # "absent"
                                => table[q].status # "absent"
  BY DEF Shape, TypeOK, decideProposal, Rows
<1> QED BY <1>1, <1>2 DEF Shape, RowOK

LEMMA EnvironmentShape ==
  ASSUME Shape, Environment
  PROVE  Shape'
<1> USE DEF Shape
<1>1. ASSUME NEW t \in Targets, ExternalWrite(t) \/ ExternalDelete(t)
      PROVE  Shape'
  <2>1. TypeOK'
    BY <1>1 DEF ExternalWrite, ExternalDelete, TypeOK, Bodies, Writers
  <2>2. UNCHANGED <<table, h>>
    BY <1>1 DEF ExternalWrite, ExternalDelete
  <2> QED BY <2>1, <2>2 DEF FramesOK, FrameOK, ApprovalOK, EditOK, RowOK
<1>2. ASSUME NEW r \in Requests, Disconnect(r)
      PROVE  Shape'
  <2> DEFINE f == [h[r] EXCEPT !.cut = TRUE]
  <2>1. h' = [h EXCEPT ![r] = f] /\ UNCHANGED <<servers, table, obj, rev>>
    BY <1>2 DEF Disconnect
  <2>2. /\ f \in Frames
        /\ f.pc = h[r].pc /\ f.prop = h[r].prop /\ f.target = h[r].target
        /\ f.manifest = h[r].manifest /\ f.err = h[r].err
        /\ f.reply = h[r].reply /\ f.wrote = h[r].wrote
    <3>1. h[r] \in Frames
      BY DEF TypeOK
    <3> QED BY ONLY <3>1 DEF Frames
  <2>3. h'[r] = f
    BY <2>1 DEF TypeOK
  <2> HIDE DEF f
  <2>4. FrameOK(r)'
    BY <2>2, <2>3 DEF FramesOK, FrameOK
  <2>5. r \in Approvals => ApprovalOK(r)'
    BY <2>2, <2>3 DEF FramesOK, ApprovalOK
  <2>6. r \in Edits => EditOK(r)'
    BY <2>2, <2>3 DEF FramesOK, EditOK
  <2>7. FramesOK' /\ h' \in [Requests -> Frames]
    BY <2>1, <2>2, <2>4, <2>5, <2>6, OneFrame
  <2> QED BY <2>1, <2>7 DEF TypeOK, RowOK
<1>3. ASSUME NEW s \in Servers, NEW m \in Modes, Deploy(s, m)
      PROVE  Shape'
  <2>1. UNCHANGED <<table, obj, rev, h>>
    BY <1>3 DEF Deploy
  <2>2. TypeOK'
    BY <1>3, <2>1 DEF Deploy, TypeOK
  <2> QED BY <2>1, <2>2 DEF FramesOK, FrameOK, ApprovalOK, EditOK, RowOK
<1>4. ASSUME NEW s \in Servers, ServerEnds(s)
      PROVE  Shape'
  <2>1. ASSUME NEW r \in Requests
        PROVE  /\ h'[r] \in Frames
               /\ \/ h'[r] = h[r]
                  \/ /\ h'[r].pc = "done"
                     /\ h'[r].prop = h[r].prop
                     /\ h'[r].target = h[r].target
                     /\ h'[r].reply = "none"
                     /\ h'[r].wrote = h[r].wrote
    <3>1. h'[r] = h[r] \/ h'[r] = Over(h[r])
      BY <1>4 DEF ServerEnds
    <3>2. h[r] \in Frames
      BY DEF TypeOK
    <3> QED BY <3>1, <3>2, OverFrame
  <2>2. h' \in [Requests -> Frames]
    <3>1. h' = [r \in Requests |-> h'[r]]
      BY <1>4 DEF ServerEnds
    <3> QED BY <2>1, <3>1
  <2>3. \A r \in Requests : FrameOK(r)'
    BY <2>1 DEF FramesOK, FrameOK, Addressed, Unwritten
  <2>4. \A a \in Approvals : ApprovalOK(a)'
    BY <2>1 DEF FramesOK, ApprovalOK, Requests, Busy
  <2>5. \A e \in Edits : EditOK(e)'
    BY <2>1 DEF FramesOK, EditOK, Requests
  <2>6. TypeOK' /\ \A p \in Proposals : RowOK(p)'
    BY <1>4, <2>2 DEF ServerEnds, TypeOK, RowOK
  <2> QED BY <2>3, <2>4, <2>5, <2>6 DEF FramesOK
<1> QED BY <1>1, <1>2, <1>3, <1>4 DEF Environment

LEMMA UsersShape ==
  ASSUME Shape, Users
  PROVE  Shape'
<1> USE DEF Shape
<1>1. ASSUME NEW p \in Proposals, NEW t \in Targets, NEW names \in Targets,
             NEW pinned \in BOOLEAN, Propose(p, t, names, pinned)
      PROVE  Shape'
  <2> DEFINE rv == IF pinned THEN obj[t].rv ELSE 0
             row == [status |-> "pending", target |-> t,
                     manifest |-> [names |-> names, rv |-> rv, body |-> p]]
  <2>1. table' = [table EXCEPT ![p] = row] /\ UNCHANGED <<servers, obj, rev, h>>
    BY <1>1 DEF Propose
  <2>2. row \in Rows
    <3>1. rv \in Nat
      BY DEF TypeOK
    <3> HIDE DEF rv
    <3> QED BY <3>1 DEF Rows, Manifests, Writers
  <2>3. RowOK(p)'
    BY <2>1 DEF RowOK, TypeOK
  <2> HIDE DEF row
  <2>4. TypeOK'
    BY <2>1, <2>2 DEF TypeOK
  <2>5. \A q \in Proposals : q # p => table'[q] = table[q]
    BY <2>1 DEF TypeOK
  <2>6. \A q \in Proposals : RowOK(q)'
    BY <2>3, <2>5 DEF RowOK
  <2>7. FramesOK'
    BY <2>1 DEF FramesOK, FrameOK, ApprovalOK, EditOK
  <2> QED BY <2>4, <2>6, <2>7
<1>2. ASSUME NEW p \in Proposals, Reject(p)
      PROVE  Shape'
  <2>1. /\ table' \in [Proposals -> Rows]
        /\ \A q \in Proposals : RowOK(q)'
    BY <1>2, DecideRows DEF Reject, Terminal
  <2> QED BY <1>2, <2>1
          DEF Reject, TypeOK, FramesOK, FrameOK, ApprovalOK, EditOK
<1>3. ASSUME NEW a \in Approvals, NEW p \in Proposals, NEW x \in Servers,
             ApproveArrives(a, p, x)
      PROVE  Shape'
  <2>1. a \in Requests /\ a \notin Edits
    BY RemediationAssumption DEF Requests
  <2>2. FramesOK' /\ h' \in [Requests -> Frames]
    <3>1. CASE End(a, "403")
      BY <1>3, <2>1, <3>1, EndShape
         DEF ApproveArrives, FramesOK, FrameOK, Unwritten, Replies
    <3>2. CASE h' = [h EXCEPT ![a].pc = "fetch", ![a].server = x, ![a].prop = p,
                             ![a].late = table[p].status \in Terminal]
      <4> DEFINE late == table[p].status \in Terminal
                 f == [h[a] EXCEPT !.pc = "fetch", !.server = x, !.prop = p,
                               !.late = late]
      <4>1. f \in Frames
        <5>1. late \in BOOLEAN
          OBVIOUS
        <5> HIDE DEF late
        <5>2. h[a] \in Frames /\ p \in Proposals
          BY <2>1 DEF TypeOK
        <5> QED BY ONLY <5>1, <5>2 DEF Frames, Steps
      <4>2. h' = [h EXCEPT ![a] = f] /\ h'[a] = f
        BY <2>1, <3>2 DEF TypeOK
      <4>3. /\ f.pc = "fetch" /\ f.prop = p
            /\ f.target = h[a].target /\ f.wrote = h[a].wrote
            /\ f.reply = h[a].reply
        BY <2>1 DEF TypeOK, Frames
      <4>4. FrameOK(a)' /\ ApprovalOK(a)'
        BY <1>3, <2>1, <4>2, <4>3
           DEF ApproveArrives, FramesOK, FrameOK, ApprovalOK, Addressed,
               Unwritten
      <4> HIDE DEF f
      <4> QED BY <2>1, <4>1, <4>2, <4>4, OneFrame
    <3> QED BY <1>3, <3>1, <3>2 DEF ApproveArrives
  <2> QED BY <1>3, <2>2 DEF ApproveArrives, TypeOK, RowOK
<1>4. ASSUME NEW e \in Edits, NEW t \in Targets, OpenEditor(e, t)
      PROVE  Shape'
  <2> DEFINE f == [h[e] EXCEPT !.pc = "editing", !.target = t,
                               !.seen = obj[t].rv]
  <2>1. e \in Requests /\ e \notin Approvals
    BY RemediationAssumption DEF Requests
  <2>2. f \in Frames
    <3>1. h[e] \in Frames /\ t \in Targets /\ obj[t].rv \in Nat
      BY <2>1 DEF TypeOK
    <3> QED BY ONLY <3>1 DEF Frames, Steps
  <2>3. h' = [h EXCEPT ![e] = f] /\ h'[e] = f
    BY <1>4, <2>1 DEF OpenEditor, TypeOK
  <2>4. /\ f.pc = "editing" /\ f.target = t
        /\ f.wrote = h[e].wrote /\ f.reply = h[e].reply
    BY <2>1 DEF TypeOK, Frames
  <2>5. FrameOK(e)' /\ EditOK(e)'
    <3>1. h[e].pc = "idle" /\ FrameOK(e)
      BY <1>4, <2>1 DEF OpenEditor, FramesOK
    <3> HIDE DEF f
    <3> QED BY <2>3, <2>4, <3>1 DEF FrameOK, EditOK, Addressed, Unwritten
  <2> HIDE DEF f
  <2>6. FramesOK' /\ h' \in [Requests -> Frames]
    BY <2>1, <2>2, <2>3, <2>5, OneFrame
  <2> QED BY <1>4, <2>6 DEF OpenEditor, TypeOK, RowOK
<1>5. ASSUME NEW e \in Edits, NEW names \in Targets, NEW pinned \in BOOLEAN,
             NEW x \in Servers, SaveEdit(e, names, pinned, x)
      PROVE  Shape'
  <2> DEFINE m == [names |-> names, rv |-> IF pinned THEN h[e].seen ELSE 0,
                   body |-> e]
             f == [h[e] EXCEPT !.pc = "get", !.server = x, !.manifest = m]
  <2>1. e \in Requests /\ e \notin Approvals
    BY RemediationAssumption DEF Requests
  <2>2. FramesOK' /\ h' \in [Requests -> Frames]
    <3>1. CASE End(e, "403")
      BY <1>5, <2>1, <3>1, EndShape
         DEF SaveEdit, FramesOK, FrameOK, Unwritten, Replies
    <3>2. CASE h' = [h EXCEPT ![e].pc = "get", ![e].server = x, ![e].manifest = m]
      <4>1. m \in Manifests
        <5>1. h[e].seen \in Nat
          BY <2>1 DEF TypeOK, Frames
        <5> QED BY <5>1 DEF Manifests, Writers
      <4> HIDE DEF m
      <4>2. f \in Frames
        <5>1. h[e] \in Frames
          BY <2>1 DEF TypeOK
        <5> QED BY ONLY <4>1, <5>1 DEF Frames, Steps
      <4>3. h' = [h EXCEPT ![e] = f] /\ h'[e] = f
        BY <2>1, <3>2 DEF TypeOK
      <4>4. /\ f.pc = "get" /\ f.target = h[e].target
            /\ f.wrote = h[e].wrote /\ f.reply = h[e].reply
        BY <2>1 DEF TypeOK, Frames
      <4>5. FrameOK(e)' /\ EditOK(e)'
        BY <1>5, <2>1, <4>3, <4>4
           DEF SaveEdit, FramesOK, FrameOK, EditOK, Addressed, Unwritten
      <4> HIDE DEF f
      <4> QED BY <2>1, <4>2, <4>3, <4>5, OneFrame
    <3> QED BY <1>5, <3>1, <3>2 DEF SaveEdit
  <2> QED BY <1>5, <2>2 DEF SaveEdit, TypeOK, RowOK
<1> QED BY <1>1, <1>2, <1>3, <1>4, <1>5 DEF Users

LEMMA HandlerShape ==
  ASSUME Shape, NEW r \in Requests, HandlerStep(r)
  PROVE  Shape'
<1> USE DEF Shape
<1>1. CASE GetCurrent(r)
  <2> DEFINE t == h[r].target
             m == h[r].manifest
  <2>1. /\ h[r].pc = "get" /\ t \in Targets /\ m \in Manifests
        /\ UNCHANGED <<servers, table, obj, rev>>
    BY <1>1 DEF GetCurrent, FramesOK, FrameOK, Addressed, TypeOK, Frames
  <2>2. FramesOK' /\ h' \in [Requests -> Frames]
    <3>1. CASE Return(r, TRUE)
      BY <2>1, <3>1, ReturnShape
    <3>2. ASSUME NEW base \in Nat, Matches(t, m),
                 h' = [h EXCEPT ![r].pc = "update", ![r].base = base]
          PROVE  FramesOK' /\ h' \in [Requests -> Frames]
      <4> DEFINE f == [h[r] EXCEPT !.pc = "update", !.base = base]
      <4>1. f \in Frames
        <5>1. h[r] \in Frames
          BY DEF TypeOK
        <5> QED BY ONLY base \in Nat, <5>1 DEF Frames, Steps
      <4>2. h' = [h EXCEPT ![r] = f] /\ h'[r] = f
        BY <3>2 DEF TypeOK
      <4>3. /\ f.pc = "update" /\ f.target = t /\ f.manifest = m
            /\ f.prop = h[r].prop /\ f.wrote = h[r].wrote
            /\ f.reply = h[r].reply
        BY DEF TypeOK, Frames
      <4>4. /\ FrameOK(r)'
            /\ r \in Approvals => ApprovalOK(r)'
            /\ r \in Edits => EditOK(r)'
        <5>1. FrameOK(r)'
          BY <2>1, <3>2, <4>2, <4>3 DEF FramesOK, FrameOK, Matches, Addressed, Unwritten
        <5>2. ASSUME r \in Approvals PROVE ApprovalOK(r)'
          BY <2>1, <4>2, <4>3, <5>2 DEF FramesOK, ApprovalOK, Busy
        <5>3. ASSUME r \in Edits PROVE EditOK(r)'
          BY <2>1, <4>2, <4>3, <5>3 DEF FramesOK, EditOK, Busy
        <5> QED BY <5>1, <5>2, <5>3
      <4> HIDE DEF f
      <4> QED BY <4>1, <4>2, <4>4, OneFrame
    <3>3. m.rv \in Nat /\ obj[t].rv \in Nat
      BY <2>1 DEF Manifests, TypeOK
    <3>4. \/ Return(r, TRUE)
          \/ /\ Matches(t, m)
             /\ \/ h' = [h EXCEPT ![r].pc = "update", ![r].base = m.rv]
                \/ h' = [h EXCEPT ![r].pc = "update", ![r].base = obj[t].rv]
      BY <1>1 DEF GetCurrent
    <3> QED BY <3>1, <3>2, <3>3, <3>4
  <2> QED BY <2>1, <2>2 DEF TypeOK, RowOK
<1>2. CASE UpdateAccepted(r)
  <2> DEFINE t == h[r].manifest.names
             f == [h[r] EXCEPT !.pc = "readback", !.wrote = TRUE]
             g == [h[r] EXCEPT !.wrote = TRUE]
  <2>1. /\ h[r].pc = "update" /\ t = h[r].target /\ t \in Targets
        /\ h[r].manifest.body \in Writers
        /\ Store(t, h[r].manifest.body)
        /\ UNCHANGED <<servers, table>>
    BY <1>2 DEF UpdateAccepted, FramesOK, FrameOK, Addressed, TypeOK, Frames,
                Manifests
  <2>2. f \in Frames /\ g \in Frames
    <3>1. h[r] \in Frames
      BY DEF TypeOK
    <3> QED BY ONLY <3>1 DEF Frames, Steps
  <2>3. /\ f.pc = "readback" /\ f.wrote /\ f.target = t
        /\ f.reply = h[r].reply /\ f.prop = h[r].prop
    BY <2>1 DEF TypeOK, Frames
  <2>4. /\ g.pc = "update" /\ g.wrote /\ g.target = t
        /\ g.reply = h[r].reply /\ g.prop = h[r].prop
        /\ g.cut = h[r].cut
    BY <2>1 DEF TypeOK, Frames
  <2>5. FramesOK' /\ h' \in [Requests -> Frames]
    <3>1. CASE h' = [h EXCEPT ![r].pc = "readback", ![r].wrote = TRUE]
      <4>1. h' = [h EXCEPT ![r] = f] /\ h'[r] = f
        BY <3>1 DEF TypeOK
      <4>2. /\ FrameOK(r)'
            /\ r \in Approvals => ApprovalOK(r)'
            /\ r \in Edits => EditOK(r)'
        BY <2>1, <2>3, <4>1
           DEF FramesOK, FrameOK, ApprovalOK, EditOK, Unwritten, Busy
      <4> HIDE DEF f
      <4> QED BY <2>2, <4>1, <4>2, OneFrame
    <3>2. CASE h' = [h EXCEPT ![r] = Returned(r, g, TRUE)]
      <4> DEFINE k == Returned(r, g, TRUE)
      <4>1. k \in Frames
        BY <2>2, ReturnedType
      <4>2. h' = [h EXCEPT ![r] = k] /\ h'[r] = k
        BY <3>2 DEF TypeOK
      <4>3. /\ k.pc = IF r \in Approvals THEN "resolve" ELSE "done"
            /\ r \in Approvals => k.err /\ k.reply = g.reply
            /\ r \notin Approvals => k.reply \in {"none", "error"}
            /\ k.wrote /\ k.target = t /\ k.prop = h[r].prop
        <5> HIDE DEF g
        <5>1. CASE r \in Approvals
          <6>1. k = [g EXCEPT !.pc = "resolve", !.err = TRUE]
            BY <5>1 DEF Returned
          <6> HIDE DEF k
          <6>2. g \in Frames
            BY <2>2
          <6>3. /\ k.pc = "resolve" /\ k.err /\ k.reply = g.reply
                /\ k.wrote = g.wrote /\ k.target = g.target
                /\ k.prop = g.prop
            BY ONLY <6>1, <6>2 DEF Frames
          <6> QED BY ONLY <2>4, <5>1, <6>3
        <5>2. CASE r \notin Approvals
          <6> DEFINE e == Ended(r, g, "error")
          <6>1. k = e
            BY <5>2 DEF Returned
          <6>2. "error" \in Replies
            BY DEF Replies
          <6>3. /\ e.pc = "done" /\ e.prop = g.prop /\ e.target = g.target
                /\ e.wrote = g.wrote /\ e.reply \in {"none", "error"}
            BY <2>2, <6>2, EndedFrame
          <6> HIDE DEF k, e
          <6> QED BY <2>4, <5>2, <6>1, <6>3
        <5> QED BY <5>1, <5>2
      <4>4. /\ FrameOK(r)'
            /\ r \in Approvals => ApprovalOK(r)'
            /\ r \in Edits => EditOK(r)'
        <5>1. r \in Approvals => r \notin Edits
          BY RemediationAssumption
        <5>2. r \in Approvals \/ r \in Edits
          BY DEF Requests
        <5> HIDE DEF k, g
        <5> QED BY <5>1, <5>2, <2>1, <2>4, <4>2, <4>3
            DEF FramesOK, FrameOK, ApprovalOK, EditOK, Addressed, Unwritten,
                Busy
      <4> HIDE DEF k
      <4> QED BY <4>1, <4>2, <4>4, OneFrame
    <3> QED BY <1>2, <3>1, <3>2 DEF UpdateAccepted
  <2>6. TypeOK'
    BY <2>1, <2>5, StoreType DEF TypeOK
  <2> QED BY <2>1, <2>5, <2>6 DEF RowOK
<1>3. CASE UpdateFailed(r)
  <2>1. FramesOK' /\ h' \in [Requests -> Frames]
    BY <1>3, ReturnShape DEF UpdateFailed
  <2> QED BY <1>3, <2>1 DEF UpdateFailed, TypeOK, RowOK
<1>4. CASE ReadBack(r)
  <2>1. h[r].pc = "readback" /\ h[r].wrote
    BY <1>4 DEF ReadBack, FramesOK, FrameOK
  <2>2. FramesOK' /\ h' \in [Requests -> Frames]
    BY <1>4, <2>1, ReturnShape DEF ReadBack
  <2> QED BY <1>4, <2>2 DEF ReadBack, TypeOK, RowOK
<1>5. CASE r \in Approvals /\ FetchProposal(r)
  <2> DEFINE row == table[h[r].prop]
             f == [h[r] EXCEPT !.pc = "get", !.target = row.target,
                               !.manifest = row.manifest]
  <2>1. /\ h[r].pc = "fetch" /\ ~h[r].wrote /\ h[r].prop \in Proposals
        /\ UNCHANGED <<servers, table, obj, rev>>
    BY <1>5 DEF FetchProposal, FramesOK, FrameOK, ApprovalOK, Unwritten, Busy
  <2>2. FramesOK' /\ h' \in [Requests -> Frames]
    <3>1. ASSUME NEW code \in {"409", "502"}, End(r, code)
          PROVE  FramesOK' /\ h' \in [Requests -> Frames]
      BY <2>1, <3>1, EndShape DEF Replies
    <3>2. CASE /\ row.status = "pending"
               /\ h' = [h EXCEPT ![r].pc = "get", ![r].target = row.target,
                                 ![r].manifest = row.manifest]
      <4>1. row.target \in Targets /\ row.manifest \in Manifests
        BY <2>1, <3>2 DEF RowOK, TypeOK, Rows
      <4> HIDE DEF row
      <4>2. f \in Frames
        <5>1. h[r] \in Frames
          BY DEF TypeOK
        <5> QED BY ONLY <4>1, <5>1 DEF Frames, Steps
      <4>3. h' = [h EXCEPT ![r] = f] /\ h'[r] = f
        BY <3>2 DEF TypeOK
      <4>4. /\ f.pc = "get" /\ f.target = row.target
            /\ f.prop = h[r].prop /\ f.wrote = h[r].wrote
            /\ f.reply = h[r].reply
        BY DEF TypeOK, Frames
      <4>5. FrameOK(r)' /\ ApprovalOK(r)' /\ r \notin Edits
        BY <1>5, <2>1, <4>1, <4>3, <4>4, RemediationAssumption
           DEF FramesOK, FrameOK, ApprovalOK, Addressed, Unwritten, Busy
      <4> HIDE DEF f
      <4> QED BY <4>2, <4>3, <4>5, OneFrame
    <3> QED BY <1>5, <3>1, <3>2 DEF FetchProposal
  <2> QED BY <2>1, <2>2 DEF TypeOK, RowOK
<1>6. CASE r \in Approvals /\ ResolveProposal(r)
  <2>1. /\ h[r].pc = "resolve" /\ h[r].prop \in Proposals
        /\ ~h[r].err => h[r].wrote
        /\ End(r, IF h[r].err THEN "error" ELSE "200")
        /\ UNCHANGED <<servers, obj, rev>>
    BY <1>6 DEF ResolveProposal, FramesOK, FrameOK, ApprovalOK, Busy
  <2>2. FramesOK' /\ h' \in [Requests -> Frames]
    BY <2>1, EndShape DEF Replies
  <2>3. Outcome(r) \in Terminal
    BY DEF Outcome, Terminal
  <2>4. /\ table' \in [Proposals -> Rows]
        /\ \A p \in Proposals : RowOK(p)'
    <3>1. CASE UNCHANGED table
      BY <3>1 DEF TypeOK, RowOK
    <3>2. CASE table' = decideProposal(h[r].prop, Outcome(r))
      BY <2>1, <2>3, <3>2, DecideRows
    <3> QED BY <1>6, <3>1, <3>2 DEF ResolveProposal
  <2> QED BY <2>1, <2>2, <2>4 DEF TypeOK
<1> QED BY <1>1, <1>2, <1>3, <1>4, <1>5, <1>6
        DEF HandlerStep, UpdateResource

LEMMA ShapeNext ==
  ASSUME Shape, [Next]_vars
  PROVE  Shape'
<1>1. ASSUME UNCHANGED vars PROVE Shape'
  BY <1>1 DEF vars, Shape, TypeOK, FramesOK, FrameOK, ApprovalOK, EditOK, RowOK
<1> QED BY <1>1, UsersShape, EnvironmentShape, HandlerShape DEF Next

LEMMA ShapeInvariant == Spec => []Shape
BY InitShape, ShapeNext, PTL DEF Spec

(* Every variable keeps its type, whatever faults happen.                  *)
THEOREM TypeCorrect == Spec => []TypeOK
<1>1. Shape => TypeOK
  BY DEF Shape
<1> QED BY <1>1, ShapeInvariant, PTL

(* A reply of success is only given for a write the API server accepted,   *)
(* and a refusal only when nothing was written (handleApplyProposal,       *)
(* handleUpdateResource).                                                  *)
THEOREM RepliesAreHonest == Spec => []ReplyHonest
<1>1. Shape => ReplyHonest
  BY DEF Shape, FramesOK, FrameOK, ReplyHonest
<1> QED BY <1>1, ShapeInvariant, PTL

-----------------------------------------------------------------------------
(* The handlers implement the audit trail: proof of the refinement stated  *)
(* in Remediation.tla, step by step. Then who writes what, and when: the   *)
(* remaining safety properties. Every step is first described by what it   *)
(* does to any one frame; the invariants are then preserved frame step by  *)
(* frame step.                                                             *)

(* A frame that keeps its record, and one that keeps its locals too.       *)
Kept(s) ==
  /\ h'[s].prop = h[s].prop
  /\ h'[s].target = h[s].target
  /\ h'[s].wrote = h[s].wrote
  /\ h'[s].late = h[s].late

Held(s) ==
  /\ h'[s].server = h[s].server
  /\ h'[s].manifest = h[s].manifest
  /\ h'[s].base = h[s].base
  /\ h'[s].seen = h[s].seen

LEMMA EndEffect ==
  ASSUME TypeOK, NEW r \in Requests, NEW code \in Replies, End(r, code)
  PROVE  /\ \A s \in Requests : s # r => h'[s] = h[s]
         /\ Kept(r)
         /\ h'[r].pc = "done"
<1>1. h'[r] = Ended(r, h[r], code) /\ \A s \in Requests : s # r => h'[s] = h[s]
  BY DEF End, TypeOK
<1>2. h[r] \in Frames
  BY DEF TypeOK
<1> QED BY <1>1, <1>2, EndedFrame DEF Kept

LEMMA ReturnEffect ==
  ASSUME TypeOK, NEW r \in Requests, NEW err \in BOOLEAN, Return(r, err)
  PROVE  /\ \A s \in Requests : s # r => h'[s] = h[s]
         /\ Kept(r)
         /\ h'[r].pc = IF r \in Approvals THEN "resolve" ELSE "done"
         /\ r \in Approvals => Held(r)
<1>1. /\ h'[r] = Returned(r, h[r], err)
      /\ \A s \in Requests : s # r => h'[s] = h[s]
  BY DEF Return, TypeOK
<1>2. h[r] \in Frames
  BY DEF TypeOK
<1>3. CASE r \in Approvals
  BY <1>1, <1>2, <1>3 DEF Kept, Held, Returned, Frames
<1>4. CASE r \notin Approvals
  <2>1. h'[r] = Ended(r, h[r], IF err THEN "error" ELSE "200")
    BY <1>1, <1>4 DEF Returned
  <2> QED BY <1>1, <1>2, <1>4, <2>1, EndedFrame DEF Kept, Replies
<1> QED BY <1>3, <1>4

LEMMA ServerEndsEffect ==
  ASSUME TypeOK, NEW x \in Servers, ServerEnds(x)
  PROVE  \A r \in Requests :
           /\ Kept(r)
           /\ \/ h'[r] = h[r] /\ h[r].server # x
              \/ h'[r].pc = "done"
<1> SUFFICES ASSUME NEW r \in Requests
             PROVE  /\ Kept(r)
                    /\ \/ h'[r] = h[r] /\ h[r].server # x
                       \/ h'[r].pc = "done"
  OBVIOUS
<1>1. h'[r] = IF h[r].server = x THEN Over(h[r]) ELSE h[r]
  BY DEF ServerEnds
<1>2. h[r] \in Frames
  BY DEF TypeOK
<1> QED BY <1>1, <1>2, OverFrame DEF Kept

LEMMA DisconnectEffect ==
  ASSUME TypeOK, NEW r \in Requests, Disconnect(r)
  PROVE  \A s \in Requests : Kept(s) /\ Held(s) /\ h'[s].pc = h[s].pc
<1> SUFFICES ASSUME NEW s \in Requests
             PROVE  Kept(s) /\ Held(s) /\ h'[s].pc = h[s].pc
  OBVIOUS
<1>1. h'[s] = IF s = r THEN [h[s] EXCEPT !.cut = TRUE] ELSE h[s]
  BY DEF Disconnect, TypeOK
<1>2. h[s] \in Frames
  BY DEF TypeOK
<1> QED BY <1>1, <1>2 DEF Kept, Held, Frames

LEMMA AcceptedEffect ==
  ASSUME TypeOK, NEW r \in Requests, UpdateAccepted(r)
  PROVE  /\ \A s \in Requests : s # r => h'[s] = h[s]
         /\ h'[r].wrote
         /\ h'[r].prop = h[r].prop
         /\ h'[r].target = h[r].target
         /\ h'[r].late = h[r].late
         /\ h'[r].pc = "done" \/ (h'[r].pc \in {"readback", "resolve"} /\ Held(r))
<1> DEFINE g == [h[r] EXCEPT !.wrote = TRUE]
<1>1. h[r] \in Frames
  BY DEF TypeOK
<1>2. /\ g \in Frames /\ g.wrote
      /\ g.prop = h[r].prop /\ g.target = h[r].target
      /\ g.manifest = h[r].manifest /\ g.base = h[r].base
      /\ g.late = h[r].late /\ g.seen = h[r].seen
      /\ g.server = h[r].server
  BY <1>1 DEF Frames
<1>3. CASE h' = [h EXCEPT ![r].pc = "readback", ![r].wrote = TRUE]
  BY <1>1, <1>3 DEF TypeOK, Frames, Held
<1>4. CASE h' = [h EXCEPT ![r] = Returned(r, g, TRUE)]
  <2>1. /\ h'[r] = Returned(r, g, TRUE)
        /\ \A s \in Requests : s # r => h'[s] = h[s]
    BY <1>4 DEF TypeOK
  <2> HIDE DEF g
  <2>2. CASE r \in Approvals
    <3>1. h'[r] = [g EXCEPT !.pc = "resolve", !.err = TRUE]
      BY <2>1, <2>2 DEF Returned
    <3> QED BY <1>2, <2>1, <3>1 DEF Frames, Held
  <2>3. CASE r \notin Approvals
    <3> DEFINE k == Ended(r, g, "error")
    <3>1. h'[r] = k
      BY <2>1, <2>3 DEF Returned
    <3>2. "error" \in Replies
      BY DEF Replies
    <3>3. /\ k.pc = "done" /\ k.prop = g.prop
          /\ k.target = g.target /\ k.wrote = g.wrote
          /\ k.late = g.late
      BY <1>2, <3>2, EndedFrame
    <3> HIDE DEF k
    <3> QED BY <1>2, <2>1, <3>1, <3>3
  <2> QED BY <2>2, <2>3
<1> QED BY <1>3, <1>4 DEF UpdateAccepted

(* Nothing is granted and nothing lands while every approval keeps the     *)
(* proposal it copied and what it wrote.                                   *)
LEMMA SameTrail ==
  ASSUME \A a \in Approvals :
           /\ h'[a].target = h[a].target
           /\ h'[a].wrote = h[a].wrote
           /\ h[a].target # NoOne \/ h[a].wrote => h'[a].prop = h[a].prop
  PROVE  UNCHANGED <<granted, landed>>
BY DEF granted, landed

(* An outcome moves a pending proposal, and nothing else.                  *)
LEMMA DecideEffect ==
  ASSUME TypeOK, NEW p \in Proposals, NEW outcome \in Terminal,
         table' = decideProposal(p, outcome), UNCHANGED <<granted, landed>>
  PROVE  \/ UNCHANGED Audit!vars
         \/ Audit!Record(p, "pending", outcome)
<1>1. CASE table[p].status = "pending"
  <2>1. table' = [table EXCEPT ![p].status = outcome]
    BY <1>1 DEF decideProposal
  <2>2. [q \in Proposals |-> table'[q].status] =
          [[q \in Proposals |-> table[q].status] EXCEPT ![p] = outcome]
    <3> DEFINE old == [q \in Proposals |-> table[q].status]
    <3>1. \A q \in Proposals : table'[q].status = IF q = p THEN outcome ELSE table[q].status
      BY <2>1 DEF TypeOK, Rows
    <3>2. \A q \in Proposals : [old EXCEPT ![p] = outcome][q]
                                = IF q = p THEN outcome ELSE table[q].status
      OBVIOUS
    <3> QED BY <3>1, <3>2
  <2> QED BY <1>1, <2>2 DEF Audit!Record
<1>2. CASE table[p].status # "pending"
  BY <1>2 DEF decideProposal, Audit!vars
<1> QED BY <1>1, <1>2

-----------------------------------------------------------------------------
LEMMA InitTrail == Init => Audit!Init
<1>1. ASSUME Init PROVE granted = {} /\ landed = {}
  <2>1. \A a \in Approvals : h[a].target = NoOne /\ ~h[a].wrote
    BY <1>1 DEF Init, Requests, IdleFrame
  <2> QED BY <2>1 DEF granted, landed
<1>2. Init => [p \in Proposals |-> table[p].status] = [p \in Proposals |-> "absent"]
  BY DEF Init
<1> QED BY <1>1, <1>2 DEF Audit!Init

LEMMA EnvironmentTrail ==
  ASSUME Shape, Environment
  PROVE  UNCHANGED Audit!vars
<1>1. CASE \E t \in Targets : ExternalWrite(t) \/ ExternalDelete(t)
  BY <1>1 DEF ExternalWrite, ExternalDelete, Audit!vars, granted, landed
<1>2. ASSUME NEW r \in Requests, Disconnect(r)
      PROVE  UNCHANGED Audit!vars
  <2>1. UNCHANGED <<granted, landed>>
    BY <1>2, DisconnectEffect, SameTrail DEF Shape, Kept, Requests
  <2> QED BY <1>2, <2>1 DEF Disconnect, Audit!vars
<1>3. ASSUME NEW x \in Servers, ServerEnds(x)
      PROVE  UNCHANGED Audit!vars
  <2>1. UNCHANGED <<granted, landed>>
    BY <1>3, ServerEndsEffect, SameTrail DEF Shape, Kept, Requests
  <2> QED BY <1>3, <2>1 DEF ServerEnds, Audit!vars
<1>4. ASSUME NEW x \in Servers, NEW m \in Modes, Deploy(x, m)
      PROVE  UNCHANGED Audit!vars
  BY <1>4 DEF Deploy, Audit!vars, granted, landed
<1> QED BY <1>1, <1>2, <1>3, <1>4 DEF Environment

LEMMA UsersTrail ==
  ASSUME Shape, Users
  PROVE  [Audit!Next]_(Audit!vars)
<1> USE DEF Shape
<1>1. ASSUME NEW p \in Proposals, NEW t \in Targets, NEW names \in Targets,
             NEW pinned \in BOOLEAN, Propose(p, t, names, pinned)
      PROVE  Audit!Submit(p)
  <2>1. UNCHANGED <<granted, landed>>
    BY <1>1 DEF Propose, granted, landed
  <2>2. [q \in Proposals |-> table'[q].status] =
          [[q \in Proposals |-> table[q].status] EXCEPT ![p] = "pending"]
    BY <1>1 DEF Propose, TypeOK
  <2> QED BY <1>1, <2>1, <2>2 DEF Propose, Audit!Submit, Audit!Record
<1>2. ASSUME NEW p \in Proposals, Reject(p)
      PROVE  UNCHANGED Audit!vars \/ Audit!Reject(p)
  BY <1>2, DecideEffect
     DEF Reject, Terminal, granted, landed, Audit!Reject
<1>3. ASSUME NEW a \in Approvals, NEW p \in Proposals, NEW x \in Servers,
             ApproveArrives(a, p, x)
      PROVE  UNCHANGED Audit!vars
  <2>1. a \in Requests
    BY DEF Requests
  <2>2. h[a].target = NoOne /\ ~h[a].wrote
    BY <1>3, <2>1
       DEF ApproveArrives, FramesOK, FrameOK, ApprovalOK, Unwritten
  <2>3. /\ \A s \in Requests : s # a => h'[s] = h[s]
        /\ h'[a].target = h[a].target /\ h'[a].wrote = h[a].wrote
    <3>1. CASE End(a, "403")
      BY <2>1, <3>1, EndEffect DEF Kept, Replies
    <3>2. CASE h' = [h EXCEPT ![a].pc = "fetch", ![a].server = x, ![a].prop = p,
                             ![a].late = table[p].status \in Terminal]
      BY <2>1, <3>2 DEF TypeOK, Frames
    <3> QED BY <1>3, <3>1, <3>2 DEF ApproveArrives
  <2>4. UNCHANGED <<granted, landed>>
    BY <2>2, <2>3, SameTrail DEF Requests
  <2> QED BY <1>3, <2>4 DEF ApproveArrives, Audit!vars
<1>4. ASSUME NEW e \in Edits, \A s \in Requests : s # e => h'[s] = h[s],
             UNCHANGED table
      PROVE  UNCHANGED Audit!vars
  <2>1. \A a \in Approvals : h'[a] = h[a]
    BY <1>4, RemediationAssumption DEF Requests
  <2> QED BY <1>4, <2>1, SameTrail DEF Audit!vars
<1>5. ASSUME NEW e \in Edits, NEW t \in Targets, OpenEditor(e, t)
      PROVE  UNCHANGED Audit!vars
  <2>1. \A s \in Requests : s # e => h'[s] = h[s]
    BY <1>5 DEF OpenEditor, TypeOK
  <2> QED BY <1>4, <1>5, <2>1 DEF OpenEditor
<1>6. ASSUME NEW e \in Edits, NEW names \in Targets, NEW pinned \in BOOLEAN,
             NEW x \in Servers, SaveEdit(e, names, pinned, x)
      PROVE  UNCHANGED Audit!vars
  <2>1. \A s \in Requests : s # e => h'[s] = h[s]
    BY <1>6 DEF SaveEdit, TypeOK, End
  <2> QED BY <1>4, <1>6, <2>1 DEF SaveEdit
<1> QED BY <1>1, <1>2, <1>3, <1>5, <1>6 DEF Users, Audit!Next

LEMMA HandlerTrail ==
  ASSUME Shape, NEW r \in Requests, HandlerStep(r)
  PROVE  [Audit!Next]_(Audit!vars)
<1> USE DEF Shape
<1>1. ASSUME UNCHANGED table, NEW err \in BOOLEAN, Return(r, err)
      PROVE  UNCHANGED Audit!vars
  <2>1. UNCHANGED <<granted, landed>>
    BY <1>1, ReturnEffect, SameTrail DEF Kept, Requests
  <2> QED BY <1>1, <2>1 DEF Audit!vars
<1>2. CASE GetCurrent(r)
  <2>1. ASSUME NEW base, h' = [h EXCEPT ![r].pc = "update", ![r].base = base]
        PROVE  UNCHANGED Audit!vars
    <3>1. \A s \in Requests : /\ h'[s].target = h[s].target
                              /\ h'[s].wrote = h[s].wrote
                              /\ h'[s].prop = h[s].prop
      BY <2>1 DEF TypeOK, Frames
    <3>2. UNCHANGED <<granted, landed>>
      BY <3>1, SameTrail DEF Requests
    <3> QED BY <1>2, <3>2 DEF GetCurrent, Audit!vars
  <2> QED BY <1>1, <1>2, <2>1 DEF GetCurrent
<1>3. CASE UpdateFailed(r)
  BY <1>1, <1>3 DEF UpdateFailed
<1>4. CASE ReadBack(r)
  BY <1>1, <1>4 DEF ReadBack
<1>5. CASE UpdateAccepted(r)
  <2>1. UNCHANGED table
    BY <1>5 DEF UpdateAccepted
  <2>2. /\ \A s \in Requests : s # r => h'[s] = h[s]
        /\ h'[r].target = h[r].target /\ h'[r].prop = h[r].prop
        /\ h'[r].wrote
    BY <1>5, AcceptedEffect
  <2>3. CASE r \in Approvals
    <3> DEFINE p == h[r].prop
    <3>1. p \in Proposals /\ h[r].target # NoOne
      BY <1>5, <2>3, RemediationAssumption
         DEF UpdateAccepted, FramesOK, FrameOK, ApprovalOK, Addressed, Busy
    <3>2. p \in granted
      BY <2>3, <3>1 DEF granted
    <3>3. granted' = granted
      BY <2>2, <2>3 DEF granted, Requests
    <3>4. landed' = landed \cup {p}
      BY <2>2, <2>3, <3>1 DEF landed, Requests
    <3>5. Audit!Land(p)
      BY <2>1, <3>2, <3>3, <3>4 DEF Audit!Land
    <3> QED BY <3>1, <3>5 DEF Audit!Next
  <2>4. CASE r \notin Approvals
    BY <2>1, <2>2, <2>4, SameTrail DEF Audit!vars, Requests
  <2> QED BY <2>3, <2>4
<1>6. CASE r \in Approvals /\ FetchProposal(r)
  <2>1. UNCHANGED table
    BY <1>6 DEF FetchProposal
  <2>2. ASSUME NEW code \in {"409", "502"}, End(r, code)
        PROVE  UNCHANGED Audit!vars
    <3>1. UNCHANGED <<granted, landed>>
      BY <2>2, EndEffect, SameTrail DEF Kept, Requests, Replies
    <3> QED BY <2>1, <3>1 DEF Audit!vars
  <2>3. ASSUME table[h[r].prop].status = "pending",
               h' = [h EXCEPT ![r].pc = "get",
                              ![r].target = table[h[r].prop].target,
                              ![r].manifest = table[h[r].prop].manifest]
        PROVE  Audit!Next
    <3> DEFINE p == h[r].prop
    <3>1. /\ h[r].target = NoOne /\ ~h[r].wrote /\ p \in Proposals
      BY <1>6 DEF FetchProposal, FramesOK, FrameOK, ApprovalOK, Busy, Unwritten
    <3>2. table[p].target # NoOne
      BY <2>3, <3>1, RemediationAssumption DEF RowOK
    <3>3. /\ \A s \in Requests : s # r => h'[s] = h[s]
          /\ h'[r].target = table[p].target /\ h'[r].prop = p
          /\ h'[r].wrote = h[r].wrote
      BY <2>3 DEF TypeOK, Frames
    <3>4. granted' = granted \cup {p}
      BY <1>6, <3>1, <3>2, <3>3 DEF granted, Requests
    <3>5. landed' = landed
      BY <1>6, <3>1, <3>3 DEF landed, Requests
    <3>6. Audit!Grant(p)
      BY <2>1, <2>3, <3>1, <3>4, <3>5 DEF Audit!Grant
    <3> QED BY <3>1, <3>6 DEF Audit!Next
  <2> QED BY <1>6, <2>2, <2>3 DEF FetchProposal
<1>7. CASE r \in Approvals /\ ResolveProposal(r)
  <2> DEFINE p == h[r].prop
  <2>1. /\ p \in Proposals /\ h[r].target # NoOne
        /\ ~h[r].err => h[r].wrote
    BY <1>7, RemediationAssumption
       DEF ResolveProposal, FramesOK, FrameOK, ApprovalOK, Busy, Addressed
  <2>2. UNCHANGED <<granted, landed>>
    BY <1>7, EndEffect, SameTrail DEF ResolveProposal, Kept, Requests, Replies
  <2>3. CASE UNCHANGED table
    BY <2>2, <2>3 DEF Audit!vars
  <2>4. CASE table' = decideProposal(p, Outcome(r))
    <3>1. CASE h[r].err
      <4>1. p \in granted /\ table' = decideProposal(p, "failed")
        BY <1>7, <2>1, <2>4, <3>1 DEF Outcome, granted
      <4>2. UNCHANGED Audit!vars \/ Audit!Record(p, "pending", "failed")
        BY <2>1, <2>2, <4>1, DecideEffect DEF Terminal
      <4> QED BY <2>1, <4>1, <4>2 DEF Audit!Next, Audit!RecordFailed
    <3>2. CASE ~h[r].err
      <4>1. p \in landed /\ table' = decideProposal(p, "applied")
        BY <1>7, <2>1, <2>4, <3>2 DEF Outcome, landed
      <4>2. UNCHANGED Audit!vars \/ Audit!Record(p, "pending", "applied")
        BY <2>1, <2>2, <4>1, DecideEffect DEF Terminal
      <4> QED BY <2>1, <4>1, <4>2 DEF Audit!Next, Audit!RecordApplied
    <3> QED BY <3>1, <3>2
  <2> QED BY <1>7, <2>3, <2>4 DEF ResolveProposal
<1> QED BY <1>2, <1>3, <1>4, <1>5, <1>6, <1>7 DEF HandlerStep, UpdateResource

(* The handlers of proposal.go, proposals.go, handlers.go and resources.go *)
(* implement the audit trail.                                              *)
THEOREM TrailImplemented == Spec => ImplementsAuditTrail
<1>1. Shape /\ [Next]_vars => [Audit!Next]_(Audit!vars)
  <2>1. ASSUME UNCHANGED vars PROVE UNCHANGED Audit!vars
    BY <2>1 DEF vars, Audit!vars, granted, landed
  <2> QED BY <2>1, UsersTrail, EnvironmentTrail, HandlerTrail DEF Next
<1> QED BY <1>1, InitTrail, ShapeInvariant, PTL
        DEF Spec, ImplementsAuditTrail, Audit!Spec

(* A proposal recorded as applied has been written to the cluster, and     *)
(* nothing has been written that was not approved while pending.           *)
THEOREM AppliedIsWritten == Spec => []AppliedMeansWritten
<1>1. Audit!Init => Audit!Honest
  BY DEF Audit!Init, Audit!Honest
<1>2. ASSUME Shape, Audit!Honest, [Audit!Next]_(Audit!vars)
      PROVE  Audit!Honest'
  <2>1. ASSUME NEW p \in Proposals, NEW from, NEW to,
               Audit!Record(p, from, to), to = "applied" => p \in landed
        PROVE  Audit!Honest'
    <3>1. \A q \in Proposals :
            table'[q].status = IF q = p THEN to ELSE table[q].status
      BY <2>1 DEF Audit!Record
    <3> QED BY <1>2, <2>1, <3>1 DEF Audit!Honest, Audit!Record
  <2>2. ASSUME NEW p \in Proposals,
               \/ Audit!Submit(p) \/ Audit!Reject(p)
               \/ Audit!RecordApplied(p) \/ Audit!RecordFailed(p)
        PROVE  Audit!Honest'
    BY <2>1, <2>2
       DEF Audit!Submit, Audit!Reject, Audit!RecordApplied, Audit!RecordFailed
  <2>3. ASSUME NEW p \in Proposals, Audit!Grant(p) \/ Audit!Land(p)
        PROVE  Audit!Honest'
    <3>1. \A q \in Proposals : table'[q].status = table[q].status
      BY <2>3 DEF Audit!Grant, Audit!Land
    <3> QED BY <1>2, <2>3, <3>1 DEF Audit!Honest, Audit!Grant, Audit!Land
  <2>4. ASSUME UNCHANGED Audit!vars
        PROVE  Audit!Honest'
    <3>1. \A q \in Proposals : table'[q].status = table[q].status
      BY <2>4 DEF Audit!vars
    <3> QED BY <1>2, <2>4, <3>1 DEF Audit!Honest, Audit!vars
  <2> QED BY <1>2, <2>2, <2>3, <2>4 DEF Audit!Next
<1> QED BY <1>1, <1>2, TrailImplemented, ShapeInvariant, PTL
        DEF AppliedMeansWritten, ImplementsAuditTrail, Audit!Spec

-----------------------------------------------------------------------------
(* What a step does to one frame.                                          *)

Rests(s) ==
  /\ Kept(s) /\ Held(s)
  /\ h'[s].pc = h[s].pc

Leaves(s) ==
  /\ Kept(s)
  /\ \/ h'[s].pc = "done"
     \/ /\ h'[s].pc = "resolve" /\ h[s].pc \in {"get", "update", "readback"}
        /\ Held(s)

(* The server that let the request in.                                     *)
LetIn(s) ==
  /\ h'[s].server \in Servers
  /\ servers[h'[s].server] = "assisted" /\ UNCHANGED servers

Arrives(s) ==
  /\ s \in Approvals
  /\ h[s].pc = "idle" /\ h'[s].pc = "fetch"
  /\ LetIn(s) /\ UNCHANGED table
  /\ h'[s].prop \in Proposals
  /\ h'[s].late => table[h'[s].prop].status \in Terminal
  /\ h'[s].wrote = h[s].wrote

Copies(s) ==
  /\ s \in Approvals
  /\ h[s].pc = "fetch" /\ h'[s].pc = "get"
  /\ table[h[s].prop].status = "pending" /\ UNCHANGED table
  /\ h'[s].target = table[h[s].prop].target
  /\ h'[s].manifest = table[h[s].prop].manifest
  /\ h'[s].prop = h[s].prop /\ h'[s].server = h[s].server
  /\ h'[s].wrote = h[s].wrote /\ h'[s].late = h[s].late

Versions(s) ==
  /\ h[s].pc = "get" /\ h'[s].pc = "update" /\ UNCHANGED table
  /\ h[s].manifest.rv # 0 => h'[s].base = h[s].manifest.rv
  /\ Kept(s) /\ h'[s].server = h[s].server
  /\ h'[s].manifest = h[s].manifest /\ h'[s].seen = h[s].seen

Writes(s) ==
  /\ h[s].pc = "update" /\ Accepts(s) /\ UNCHANGED table
  /\ h'[s].pc = "done" \/ (h'[s].pc \in {"readback", "resolve"} /\ Held(s))
  /\ h'[s].prop = h[s].prop
  /\ h'[s].target = h[s].target
  /\ h'[s].late = h[s].late

Opens(s) ==
  /\ s \in Edits
  /\ h[s].pc = "idle" /\ h'[s].pc = "editing" /\ UNCHANGED table
  /\ h'[s].wrote = h[s].wrote

Saves(s) ==
  /\ s \in Edits
  /\ h[s].pc = "editing" /\ h'[s].pc = "get"
  /\ LetIn(s) /\ UNCHANGED table
  /\ h'[s].manifest.body = s
  /\ h'[s].manifest.rv \in {0, h[s].seen}
  /\ h'[s].target = h[s].target /\ h'[s].seen = h[s].seen
  /\ h'[s].wrote = h[s].wrote

FrameStep(s) ==
  \/ Rests(s) \/ Leaves(s) \/ Arrives(s) \/ Copies(s)
  \/ Versions(s) \/ Writes(s) \/ Opens(s) \/ Saves(s)

LEMMA Resting ==
  ASSUME NEW s \in Requests, h'[s] = h[s]
  PROVE  FrameStep(s)
BY DEF FrameStep, Rests, Kept, Held

LEMMA EnvironmentFrames ==
  ASSUME Shape, Environment, NEW s \in Requests
  PROVE  FrameStep(s)
<1>1. CASE \E t \in Targets : ExternalWrite(t) \/ ExternalDelete(t)
  BY <1>1, Resting DEF ExternalWrite, ExternalDelete
<1>2. ASSUME NEW r \in Requests, Disconnect(r)
      PROVE  FrameStep(s)
  BY <1>2, DisconnectEffect DEF Disconnect, Shape, FrameStep, Rests
<1>3. ASSUME NEW x \in Servers, ServerEnds(x)
      PROVE  FrameStep(s)
  <2>1. Kept(s) /\ (h'[s] = h[s] \/ h'[s].pc = "done")
    BY <1>3, ServerEndsEffect DEF Shape
  <2> QED BY <2>1, Resting DEF FrameStep, Leaves
<1>4. ASSUME NEW x \in Servers, NEW m \in Modes, Deploy(x, m)
      PROVE  FrameStep(s)
  BY <1>4, Resting DEF Deploy
<1> QED BY <1>1, <1>2, <1>3, <1>4 DEF Environment

LEMMA UsersFrames ==
  ASSUME Shape, Users, NEW s \in Requests
  PROVE  FrameStep(s)
<1> USE DEF Shape
<1>2. CASE UNCHANGED h
  BY <1>2, Resting
<1>3. ASSUME NEW a \in Approvals, NEW p \in Proposals, NEW x \in Servers,
             ApproveArrives(a, p, x)
      PROVE  FrameStep(s)
  <2>1. a \in Requests
    BY DEF Requests
  <2>2. CASE requireAssisted(x)
    <3>1. /\ h[a].pc = "idle"
          /\ h' = [h EXCEPT ![a].pc = "fetch", ![a].server = x, ![a].prop = p,
                            ![a].late = table[p].status \in Terminal]
      BY <1>3, <2>2 DEF ApproveArrives
    <3>2. CASE s = a
      <4>1. h[a] \in Frames /\ h \in [Requests -> Frames]
        BY <2>1 DEF TypeOK
      <4>2. /\ h'[a].pc = "fetch" /\ h'[a].server = x /\ h'[a].prop = p
            /\ h'[a].late => table[p].status \in Terminal
            /\ h'[a].wrote = h[a].wrote
        BY <2>1, <3>1, <4>1 DEF Frames
      <4> QED BY <1>3, <2>2, <3>1, <3>2, <4>2
              DEF ApproveArrives, requireAssisted, FrameStep, Arrives, LetIn
    <3>3. CASE s # a
      BY <3>1, <3>3, Resting DEF TypeOK
    <3> QED BY <3>2, <3>3
  <2>3. CASE ~requireAssisted(x)
    <3>1. End(a, "403")
      BY <1>3, <2>3 DEF ApproveArrives
    <3> QED BY <2>1, <3>1, EndEffect, Resting
            DEF FrameStep, Leaves, Replies
  <2> QED BY <2>2, <2>3
<1>4. ASSUME NEW e \in Edits, NEW t \in Targets, OpenEditor(e, t)
      PROVE  FrameStep(s)
  <2>1. e \in Requests
    BY DEF Requests
  <2>2. CASE s = e
    <3>1. h'[e].pc = "editing" /\ h'[e].wrote = h[e].wrote
      BY <1>4, <2>1 DEF OpenEditor, TypeOK, Frames
    <3> QED BY <1>4, <2>2, <3>1 DEF OpenEditor, FrameStep, Opens
  <2>3. CASE s # e
    BY <1>4, <2>3, Resting DEF OpenEditor, TypeOK
  <2> QED BY <2>2, <2>3
<1>5. ASSUME NEW e \in Edits, NEW names \in Targets, NEW pinned \in BOOLEAN,
             NEW x \in Servers, SaveEdit(e, names, pinned, x)
      PROVE  FrameStep(s)
  <2> DEFINE m == [names |-> names, rv |-> IF pinned THEN h[e].seen ELSE 0,
                   body |-> e]
  <2>1. e \in Requests
    BY DEF Requests
  <2>2. CASE requireAssisted(x)
    <3>1. h[e].pc = "editing" /\ h' = [h EXCEPT ![e].pc = "get", ![e].server = x, ![e].manifest = m]
      BY <1>5, <2>2 DEF SaveEdit
    <3>2. CASE s = e
      <4>1. m.body = e /\ m.rv \in {0, h[e].seen}
        OBVIOUS
      <4> HIDE DEF m
      <4>2. /\ h'[e].pc = "get" /\ h'[e].server = x /\ h'[e].manifest = m
            /\ h'[e].target = h[e].target /\ h'[e].seen = h[e].seen
            /\ h'[e].wrote = h[e].wrote
        BY <2>1, <3>1 DEF TypeOK, Frames
      <4> QED BY <1>5, <2>2, <3>1, <3>2, <4>1, <4>2
              DEF SaveEdit, requireAssisted, FrameStep, Saves, LetIn
    <3>3. CASE s # e
      BY <3>1, <3>3, Resting DEF TypeOK
    <3> QED BY <3>2, <3>3
  <2>3. CASE ~requireAssisted(x)
    <3>1. End(e, "403")
      BY <1>5, <2>3 DEF SaveEdit
    <3> QED BY <2>1, <3>1, EndEffect, Resting
            DEF FrameStep, Leaves, Replies
  <2> QED BY <2>2, <2>3
<1>6. CASE \E p \in Proposals : Reject(p) \/ 
                                   \E t, names \in Targets, pinned \in BOOLEAN :
                                     Propose(p, t, names, pinned)
  BY <1>2, <1>6 DEF Reject, Propose
<1> QED BY <1>3, <1>4, <1>5, <1>6 DEF Users

LEMMA HandlerFrames ==
  ASSUME Shape, NEW r \in Requests, HandlerStep(r), NEW s \in Requests
  PROVE  FrameStep(s)
<1> USE DEF Shape
<1>2. ASSUME h[r].pc \in {"get", "update", "readback"}, NEW err \in BOOLEAN, Return(r, err)
      PROVE  FrameStep(s)
  BY <1>2, ReturnEffect, Resting DEF FrameStep, Leaves
<1>3. ASSUME NEW code \in Replies, End(r, code)
      PROVE  FrameStep(s)
  BY <1>3, EndEffect, Resting DEF FrameStep, Leaves
<1>4. CASE GetCurrent(r)
  <2>1. ASSUME NEW base, h[r].manifest.rv # 0 => base = h[r].manifest.rv,
               h' = [h EXCEPT ![r].pc = "update", ![r].base = base]
        PROVE  FrameStep(s)
    <3>1. CASE s = r
      <4>1. /\ h'[r].pc = "update" /\ h'[r].base = base
            /\ Kept(r) /\ h'[r].server = h[r].server
            /\ h'[r].manifest = h[r].manifest /\ h'[r].seen = h[r].seen
        BY <2>1 DEF TypeOK, Frames, Kept
      <4> QED BY <1>4, <2>1, <3>1, <4>1 DEF GetCurrent, FrameStep, Versions
    <3>2. CASE s # r
      BY <2>1, <3>2, Resting DEF TypeOK
    <3> QED BY <3>1, <3>2
  <2> QED BY <1>2, <1>4, <2>1 DEF GetCurrent
<1>5. CASE UpdateAccepted(r)
  <2>1. CASE s = r
    <3> QED BY <1>5, <2>1, AcceptedEffect DEF UpdateAccepted, FrameStep, Writes
  <2>2. CASE s # r
    BY <1>5, <2>2, AcceptedEffect, Resting
  <2> QED BY <2>1, <2>2
<1>6. CASE UpdateFailed(r)
  BY <1>2, <1>6 DEF UpdateFailed
<1>7. CASE ReadBack(r)
  BY <1>2, <1>7 DEF ReadBack
<1>8. CASE r \in Approvals /\ FetchProposal(r)
  <2>1. ASSUME table[h[r].prop].status = "pending",
               h' = [h EXCEPT ![r].pc = "get",
                              ![r].target = table[h[r].prop].target,
                              ![r].manifest = table[h[r].prop].manifest]
        PROVE  FrameStep(s)
    <3>1. CASE s = r
      <4>1. /\ h'[r].pc = "get"
            /\ h'[r].target = table[h[r].prop].target
            /\ h'[r].manifest = table[h[r].prop].manifest
            /\ h'[r].prop = h[r].prop /\ h'[r].server = h[r].server
            /\ h'[r].wrote = h[r].wrote /\ h'[r].late = h[r].late
        BY <2>1 DEF TypeOK, Frames
      <4> QED BY <1>8, <2>1, <3>1, <4>1 DEF FetchProposal, FrameStep, Copies
    <3>2. CASE s # r
      BY <2>1, <3>2, Resting DEF TypeOK
    <3> QED BY <3>1, <3>2
  <2> QED BY <1>3, <1>8, <2>1 DEF FetchProposal, Replies
<1>9. CASE ResolveProposal(r)
  BY <1>3, <1>9 DEF ResolveProposal, Replies
<1> QED BY <1>4, <1>5, <1>6, <1>7, <1>8, <1>9 DEF HandlerStep, UpdateResource

LEMMA AllFrames ==
  ASSUME Shape, [Next]_vars, NEW s \in Requests
  PROVE  FrameStep(s)
<1>1. CASE UNCHANGED vars
  BY <1>1, Resting DEF vars
<1> QED BY <1>1, UsersFrames, EnvironmentFrames, HandlerFrames DEF Next

-----------------------------------------------------------------------------
(* What a step does to a row, and to an object.                            *)

RowStep(p) ==
  /\ table[p].status \in Terminal => table'[p].status = table[p].status
  /\ table[p].status # "absent" =>
       /\ table'[p].status # "absent"
       /\ table'[p].target = table[p].target
       /\ table'[p].manifest = table[p].manifest

LEMMA DecidedRow ==
  ASSUME TypeOK, NEW p \in Proposals, NEW q \in Proposals,
         NEW outcome \in Terminal, table' = decideProposal(q, outcome)
  PROVE  RowStep(p)
<1>1. table[p] \in Rows
  BY DEF TypeOK
<1>2. \/ table'[p] = table[p]
      \/ /\ table[p].status = "pending"
         /\ table'[p] = [table[p] EXCEPT !.status = outcome]
  BY DEF decideProposal, TypeOK
<1> QED BY <1>1, <1>2 DEF RowStep, Rows, Terminal

LEMMA AllRows ==
  ASSUME Shape, [Next]_vars, NEW p \in Proposals
  PROVE  RowStep(p)
<1> USE DEF Shape
<1>1. CASE UNCHANGED table
  BY <1>1 DEF RowStep
<1>2. ASSUME NEW q \in Proposals, NEW t \in Targets, NEW names \in Targets,
             NEW pinned \in BOOLEAN, Propose(q, t, names, pinned)
      PROVE  RowStep(p)
  <2>1. table[q].status = "absent" /\ (p # q => table'[p] = table[p])
    BY <1>2 DEF Propose, TypeOK
  <2> QED BY <2>1 DEF RowStep, Terminal
<1>3. ASSUME NEW q \in Proposals, Reject(q)
      PROVE  RowStep(p)
  BY <1>3, DecidedRow DEF Reject, Terminal
<1>4. ASSUME NEW r \in Requests, r \in Approvals, ResolveProposal(r)
      PROVE  RowStep(p)
  <2>1. h[r].prop \in Proposals
    BY <1>4 DEF ResolveProposal, FramesOK, ApprovalOK, Busy
  <2>2. Outcome(r) \in Terminal
    BY DEF Outcome, Terminal
  <2>3. \/ UNCHANGED table
        \/ table' = decideProposal(h[r].prop, Outcome(r))
    BY <1>4 DEF ResolveProposal
  <2> HIDE DEF Outcome
  <2> QED BY <1>1, <2>1, <2>2, <2>3, DecidedRow
<1>5. CASE UNCHANGED vars
  BY <1>1, <1>5 DEF vars
<1>6. CASE Environment
  BY <1>1, <1>6 DEF Environment, ExternalWrite, ExternalDelete, Disconnect,
                    Deploy, ServerEnds
<1>7. CASE Users
  BY <1>1, <1>2, <1>3, <1>7 DEF Users, ApproveArrives, OpenEditor, SaveEdit
<1>8. ASSUME NEW r \in Requests, HandlerStep(r)
      PROVE  RowStep(p)
  BY <1>1, <1>4, <1>8
     DEF HandlerStep, UpdateResource, GetCurrent, UpdateAccepted, UpdateFailed,
         ReadBack, FetchProposal
<1> QED BY <1>5, <1>6, <1>7, <1>8 DEF Next

ObjectStep(t) ==
  \/ obj'[t].body = obj[t].body
  \/ obj'[t].body \in {"external", "gone"}
  \/ \E r \in Requests : /\ Writes(r)
                         /\ h[r].manifest.names = t
                         /\ obj'[t].body = h[r].manifest.body

LEMMA AllObjects ==
  ASSUME Shape, [Next]_vars, NEW t \in Targets
  PROVE  ObjectStep(t)
<1> USE DEF Shape
<1>1. CASE UNCHANGED obj
  BY <1>1 DEF ObjectStep
<1>2. ASSUME NEW u \in Targets, ExternalWrite(u) \/ ExternalDelete(u)
      PROVE  ObjectStep(t)
  BY <1>2 DEF ExternalWrite, ExternalDelete, ObjectStep, TypeOK
<1>3. ASSUME NEW r \in Requests, UpdateAccepted(r)
      PROVE  ObjectStep(t)
  <2>1. Writes(r)
    BY <1>3, AcceptedEffect DEF UpdateAccepted, Writes
  <2>2. \/ obj'[t] = obj[t]
        \/ h[r].manifest.names = t /\ obj'[t].body = h[r].manifest.body
    BY <1>3 DEF UpdateAccepted, Store, TypeOK
  <2> QED BY <2>1, <2>2 DEF ObjectStep
<1>4. CASE Users \/ UNCHANGED vars
  BY <1>1, <1>4 DEF Users, Propose, Reject, ApproveArrives, OpenEditor,
                    SaveEdit, vars
<1>5. CASE Environment
  BY <1>1, <1>2, <1>5 DEF Environment, Disconnect, Deploy, ServerEnds
<1>6. ASSUME NEW r \in Requests, HandlerStep(r)
      PROVE  ObjectStep(t)
  BY <1>1, <1>3, <1>6
     DEF HandlerStep, UpdateResource, GetCurrent, UpdateFailed, ReadBack,
         FetchProposal, ResolveProposal
<1> QED BY <1>4, <1>5, <1>6 DEF Next

-----------------------------------------------------------------------------
(* The invariants.                                                         *)

(* An approval on its way to the write carries the row it was granted.     *)
CopyOK(a) ==
  h[a].pc \in {"get", "update"} =>
    /\ h[a].prop \in Proposals
    /\ table[h[a].prop].status # "absent"
    /\ h[a].target = table[h[a].prop].target
    /\ h[a].manifest = table[h[a].prop].manifest

(* An edit carries its own manifest, at no version or the one seen.        *)
DraftOK(e) ==
  h[e].pc \in {"get", "update"} =>
    /\ h[e].manifest.body = e
    /\ h[e].manifest.rv \in {0, h[e].seen}

(* An approval that arrived late finds a decision that stands.             *)
LateOK(a) ==
  h[a].late =>
    /\ ~h[a].wrote
    /\ h[a].pc \in {"fetch", "done"}
    /\ h[a].pc = "fetch" => table[h[a].prop].status \in Terminal

VersionOK(r) ==
  h[r].pc = "update" /\ h[r].manifest.rv # 0 => h[r].base = h[r].manifest.rv

(* A request in progress is one that a server in assisted mode let in, and *)
(* that server runs still.                                                 *)
ModeOK(r) ==
  h[r].pc \in Busy =>
    h[r].server \in Servers /\ servers[h[r].server] = "assisted"

ContentOK(t) ==
  /\ obj[t].body \in Proposals =>
       /\ table[obj[t].body].status # "absent"
       /\ table[obj[t].body].target = t
  /\ obj[t].body \in Edits =>
       /\ h[obj[t].body].pc \notin {"idle", "editing"}
       /\ h[obj[t].body].target = t

Inv ==
  /\ Shape
  /\ \A a \in Approvals : CopyOK(a) /\ LateOK(a)
  /\ \A e \in Edits : DraftOK(e)
  /\ \A r \in Requests : VersionOK(r) /\ ModeOK(r)
  /\ \A t \in Targets : ContentOK(t)

LEMMA InitInv == Init => Inv
<1> SUFFICES ASSUME Init PROVE Inv
  OBVIOUS
<1>1. \A r \in Requests : h[r].pc = "idle" /\ ~h[r].late
  BY DEF Init, IdleFrame
<1>2. \A t \in Targets : obj[t].body = "external"
  BY DEF Init
<1>3. Shape
  BY InitShape
<1> QED BY <1>1, <1>2, <1>3, RemediationAssumption
        DEF Inv, CopyOK, LateOK, DraftOK, VersionOK, ModeOK, ContentOK,
            Requests, Busy

(* A server stays in its mode while one of its requests goes on.           *)
LEMMA ServerStays ==
  ASSUME Shape, [Next]_vars, NEW r \in Requests,
         h[r].server \in Servers, servers[h[r].server] = "assisted",
         h'[r].pc \in Busy
  PROVE  servers'[h[r].server] = "assisted"
<1> USE DEF Shape
<1>1. ASSUME NEW x \in Servers, NEW m \in Modes, Deploy(x, m)
      PROVE  servers'[h[r].server] = "assisted"
  BY <1>1 DEF Deploy, Running, TypeOK
<1>2. ASSUME NEW x \in Servers, ServerEnds(x)
      PROVE  servers'[h[r].server] = "assisted"
  <2>1. h[r].server # x
    BY <1>2, ServerEndsEffect DEF Busy
  <2> QED BY <1>2, <2>1 DEF ServerEnds, TypeOK
<1>3. CASE UNCHANGED servers
  BY <1>3
<1>4. CASE Environment
  BY <1>1, <1>2, <1>3, <1>4
     DEF Environment, ExternalWrite, ExternalDelete, Disconnect
<1>5. CASE Users \/ UNCHANGED vars
  BY <1>3, <1>5 DEF Users, Propose, Reject, ApproveArrives, OpenEditor,
                    SaveEdit, vars
<1>6. ASSUME NEW q \in Requests, HandlerStep(q)
      PROVE  UNCHANGED servers
  BY <1>6 DEF HandlerStep, UpdateResource, GetCurrent, UpdateAccepted,
              UpdateFailed, ReadBack, FetchProposal, ResolveProposal
<1> QED BY <1>3, <1>4, <1>5, <1>6 DEF Next

LEMMA InvNext ==
  ASSUME Inv, [Next]_vars
  PROVE  Inv'
<1> USE DEF Inv
<1>1. Shape'
  BY ShapeNext
<1>2. ASSUME NEW a \in Approvals
      PROVE  CopyOK(a)'
  <2>1. a \in Requests /\ a \notin Edits
    BY RemediationAssumption DEF Requests
  <2>2. FrameStep(a)
    BY <2>1, AllFrames
  <2>3. h[a].prop \in Proposals => RowStep(h[a].prop)
    BY AllRows
  <2>4. h[a].pc = "fetch" => h[a].prop \in Proposals
    BY DEF Shape, FramesOK, ApprovalOK, Busy
  <2>5. CASE Rests(a) \/ Versions(a)
    BY <2>3, <2>5 DEF Rests, Versions, Kept, Held, CopyOK, RowStep
  <2>6. CASE Copies(a)
    BY <2>4, <2>6 DEF Copies, CopyOK
  <2>7. CASE Leaves(a) \/ Arrives(a) \/ Writes(a)
    BY <2>7 DEF Leaves, Arrives, Writes, CopyOK
  <2> QED BY <2>1, <2>2, <2>5, <2>6, <2>7 DEF FrameStep, Opens, Saves
<1>3. ASSUME NEW a \in Approvals
      PROVE  LateOK(a)'
  <2>1. a \in Requests /\ a \notin Edits
    BY RemediationAssumption DEF Requests
  <2>2. FrameStep(a)
    BY <2>1, AllFrames
  <2>3. h[a].pc = "fetch" => h[a].prop \in Proposals /\ RowStep(h[a].prop)
    BY AllRows DEF Shape, FramesOK, ApprovalOK, Busy
  <2>4. h[a].pc \in {"idle", "fetch"} => ~h[a].wrote
    BY <2>1 DEF Shape, FramesOK, FrameOK, Unwritten
  <2>5. CASE Rests(a)
    BY <2>3, <2>5 DEF Rests, Kept, LateOK, RowStep
  <2>6. CASE Leaves(a)
    BY <2>6 DEF Leaves, Kept, LateOK
  <2>7. CASE Arrives(a)
    BY <2>4, <2>7 DEF Arrives, LateOK
  <2>8. CASE Copies(a)
    BY <2>8 DEF Copies, LateOK, Terminal
  <2>9. CASE Versions(a) \/ Writes(a)
    BY <2>9 DEF Versions, Writes, Kept, LateOK
  <2> QED BY <2>1, <2>2, <2>5, <2>6, <2>7, <2>8, <2>9
          DEF FrameStep, Opens, Saves
<1>4. ASSUME NEW e \in Edits
      PROVE  DraftOK(e)'
  <2>1. e \in Requests /\ e \notin Approvals
    BY RemediationAssumption DEF Requests
  <2>2. FrameStep(e)
    BY <2>1, AllFrames
  <2> QED BY <2>1, <2>2
          DEF FrameStep, Rests, Leaves, Arrives, Copies, Versions, Writes,
              Opens, Saves, Kept, Held, DraftOK
<1>5. ASSUME NEW r \in Requests
      PROVE  VersionOK(r)' /\ ModeOK(r)'
  <2>1. FrameStep(r)
    BY AllFrames
  <2>2. VersionOK(r)'
    BY <2>1
       DEF FrameStep, Rests, Leaves, Arrives, Copies, Versions, Writes,
           Opens, Saves, Kept, Held, VersionOK
  <2>3. ModeOK(r)'
    <3>1. CASE h'[r].pc \notin Busy
      BY <3>1 DEF ModeOK
    <3>2. CASE Arrives(r) \/ Saves(r)
      BY <3>2 DEF Arrives, Saves, LetIn, ModeOK
    <3>3. CASE h[r].pc \in Busy /\ h'[r].pc \in Busy /\ h'[r].server = h[r].server
      BY <3>3, ServerStays DEF ModeOK
    <3> QED BY <2>1, <3>1, <3>2, <3>3
         DEF FrameStep, Rests, Leaves, Copies, Versions, Writes, Opens,
             Held, Busy
  <2> QED BY <2>2, <2>3
<1>6. ASSUME NEW t \in Targets
      PROVE  ContentOK(t)'
  <2>1. ObjectStep(t)
    BY AllObjects
  <2>2. CASE obj'[t].body = obj[t].body
    <3>1. obj[t].body \in Proposals => RowStep(obj[t].body)
      BY AllRows
    <3>2. ASSUME NEW e \in Edits, h[e].pc \notin {"idle", "editing"}
          PROVE  h'[e].pc \notin {"idle", "editing"} /\ h'[e].target = h[e].target
      <4>1. FrameStep(e) /\ e \notin Approvals
        BY AllFrames, RemediationAssumption DEF Requests
      <4> QED BY <3>2, <4>1
              DEF FrameStep, Rests, Leaves, Arrives, Copies, Versions, Writes,
                  Opens, Saves, Kept
    <3> QED BY <2>2, <3>1, <3>2 DEF ContentOK, RowStep
  <2>3. CASE obj'[t].body \in {"external", "gone"}
    BY <2>3, RemediationAssumption DEF ContentOK
  <2>4. ASSUME NEW r \in Requests, Writes(r), h[r].manifest.names = t,
               obj'[t].body = h[r].manifest.body
        PROVE  ContentOK(t)'
    <3>1. h[r].pc = "update" /\ h[r].target = t
      BY <2>4 DEF Writes, Shape, FramesOK, FrameOK
    <3>2. CASE r \in Approvals
      <4>1. /\ h[r].prop \in Proposals
            /\ table[h[r].prop].status # "absent"
            /\ table[h[r].prop].target = t
            /\ h[r].manifest.body = h[r].prop
        BY <3>1, <3>2 DEF CopyOK, Shape, RowOK
      <4>2. h[r].prop \notin Edits
        BY <4>1, RemediationAssumption
      <4> QED BY <2>4, <4>1, <4>2 DEF Writes, ContentOK
    <3>3. CASE r \in Edits
      <4>1. h[r].manifest.body = r /\ r \notin Proposals
        BY <3>1, <3>3, RemediationAssumption DEF DraftOK
      <4>2. h'[r].pc \notin {"idle", "editing"} /\ h'[r].target = t
        BY <2>4, <3>1 DEF Writes
      <4> QED BY <2>4, <4>1, <4>2 DEF ContentOK
    <3> QED BY <3>2, <3>3 DEF Requests
  <2> QED BY <2>1, <2>2, <2>3, <2>4 DEF ObjectStep
<1> QED BY <1>1, <1>2, <1>3, <1>4, <1>5, <1>6

LEMMA InvHolds == Spec => []Inv
BY InitInv, InvNext, PTL DEF Spec

-----------------------------------------------------------------------------
(* The first decision on a proposal stands (decideProposal).               *)
THEOREM DecisionsAreFinal == Spec => DecisionFinal
<1>1. ASSUME Shape, [Next]_vars
      PROVE  [\A p \in Proposals : table[p].status \in Terminal
                => table'[p].status = table[p].status]_vars
  BY <1>1, AllRows DEF RowStep
<1> QED BY <1>1, ShapeInvariant, PTL DEF Spec, DecisionFinal

(* An approval that arrived after the decision writes nothing              *)
(* (handleApplyProposal).                                                  *)
THEOREM LateApprovalsNeverWrite == Spec => []LateApprovalNeverWrites
<1>1. Inv => LateApprovalNeverWrites
  BY DEF Inv, LateOK, LateApprovalNeverWrites
<1> QED BY <1>1, InvHolds, PTL

(* Content reaches only the object it was reviewed or opened for           *)
(* (ValidateManifestTarget, UpdateResource).                               *)
THEOREM WritesReachTheirTarget == Spec => []WritesStayOnTarget
<1>1. Inv => WritesStayOnTarget
  BY DEF Inv, ContentOK, WritesStayOnTarget
<1> QED BY <1>1, InvHolds, PTL

(* An edit pinned to the version its page was loaded at never overwrites a *)
(* later change (UpdateResource).                                          *)
THEOREM PinnedEditsAreSafe == Spec => PinnedEditSafe
<1>1. ASSUME Inv, [Next]_vars, NEW e \in Edits,
             h'[e].wrote, ~h[e].wrote, h[e].manifest.rv # 0
      PROVE  obj[h[e].target].rv = h[e].seen
  <2>1. e \in Requests
    BY DEF Requests
  <2>2. Writes(e)
    BY <1>1, <2>1, AllFrames, RemediationAssumption
       DEF Inv, FrameStep, Rests, Leaves, Arrives, Copies, Versions, Opens,
           Saves, Kept
  <2>3. /\ h[e].manifest.names = h[e].target
        /\ h[e].base = h[e].manifest.rv
        /\ h[e].manifest.rv = h[e].seen
    BY <1>1, <2>1, <2>2
       DEF Writes, Inv, Shape, FramesOK, FrameOK, VersionOK, DraftOK
  <2> QED BY <2>2, <2>3 DEF Writes, Accepts
<1>2. Inv /\ [Next]_vars
        => [\A e \in Edits :
              h'[e].wrote /\ ~h[e].wrote /\ h[e].manifest.rv # 0
                => obj[h[e].target].rv = h[e].seen]_vars
  BY <1>1
<1> QED BY <1>2, InvHolds, PTL DEF Spec, PinnedEditSafe

(* Every write is made for a request that a server in assisted mode let    *)
(* in, whichever servers serve next to it (requireAssisted).               *)
THEOREM ReadonlyServerNeverWrites == Spec => ReadonlyNeverWrites
<1>1. ASSUME Inv, [Next]_vars, NEW r \in Requests, h'[r].wrote, ~h[r].wrote
      PROVE  servers[h[r].server] = "assisted"
  <2>1. h[r].pc = "update"
    BY <1>1, AllFrames
       DEF Inv, FrameStep, Rests, Leaves, Arrives, Copies, Versions, Writes,
           Opens, Saves, Kept
  <2> QED BY <1>1, <2>1 DEF Inv, ModeOK, Busy
<1>2. Inv /\ [Next]_vars
        => [\A r \in Requests :
              h'[r].wrote /\ ~h[r].wrote
                => servers[h[r].server] = "assisted"]_vars
  BY <1>1
<1> QED BY <1>2, InvHolds, PTL DEF Spec, ReadonlyNeverWrites
=============================================================================
