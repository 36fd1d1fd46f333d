---------------------------- MODULE Review_proofs ---------------------------
(***************************************************************************)
(* Proofs about Alerts.tla and Review.tla, for every set of webhooks, any  *)
(* number of settings changes, restarts and failed deliveries, every cut   *)
(* and every list of findings. First the Dispatcher on its own; then each  *)
(* step of the loop is one of Alerts.tla or leaves it alone, so that what  *)
(* is proved there holds here; and the page agrees with the channels.      *)
(***************************************************************************)
EXTENDS Review, Lists_proofs

-----------------------------------------------------------------------------
(* The Dispatcher (Alerts.tla).                                            *)

(* What makes AlertsInSync survive a step, whatever the threshold: a       *)
(* webhook still to be told is told the present status, and one that was   *)
(* withheld nothing and lags behind does so below the threshold.           *)
PendingIsLast == alert.todo # {} => alert.status = last

(* What makes NoRepeatWithinLife survive one: a webhook about to be told   *)
(* was told something else, or something has happened since.               *)
PendingIsNews == \A w \in alert.todo \cap quiet : told[w] # alert.status

(* A webhook nothing happened to since its last alert was told the present *)
(* status.                                                                 *)
QuietIsLast == \A w \in quiet : told[w] = last

Inv ==
  /\ TypeOK
  /\ PendingIsLast
  /\ PendingIsNews
  /\ QuietIsLast
  /\ AlertsInSync
  /\ NoRepeatWithinLife

-----------------------------------------------------------------------------
LEMMA Ranks ==
  /\ severityRank[None] = 0
  /\ \A m \in Severities : severityRank[m] \in {1, 2}
  /\ \A s \in Statuses : severityRank[s] \in {0, 1, 2}
BY DEF severityRank, None, Severities, Statuses, Reviews

LEMMA InitInv == Init => Inv
<1> SUFFICES ASSUME Init PROVE Inv
  OBVIOUS
<1>1. TypeOK
  BY AlertsAssumption DEF Init, TypeOK, Idle
<1>2. PendingIsLast /\ PendingIsNews /\ QuietIsLast
  BY DEF Init, Idle, PendingIsLast, PendingIsNews, QuietIsLast
<1>3. AlertsInSync /\ NoRepeatWithinLife
  BY DEF Init, AlertsInSync, NoRepeatWithinLife
<1> QED BY <1>1, <1>2, <1>3 DEF Inv

LEMMA ConfigureInv ==
  ASSUME Inv, NEW new \in Saves, Configure(new)
  PROVE  Inv'
<1> USE DEF Inv
<1>1. TypeOK'
  BY AlertsAssumption DEF Configure, TypeOK
<1>2. PendingIsLast' /\ PendingIsNews' /\ QuietIsLast' /\ NoRepeatWithinLife'
  BY DEF Configure, PendingIsLast, PendingIsNews, QuietIsLast,
         NoRepeatWithinLife
<1>3. AlertsInSync'
  <2>1. CASE new.min = cfg.min
    BY <2>1 DEF Configure, AlertsInSync, AboveThreshold
  <2>2. CASE new.min # cfg.min
    BY <2>2 DEF Configure, AlertsInSync
  <2> QED BY <2>1, <2>2
<1> QED BY <1>1, <1>2, <1>3

LEMMA RestartInv ==
  ASSUME Inv, Restart
  PROVE  Inv'
<1> USE DEF Inv
<1>1. TypeOK'
  BY DEF Restart, TypeOK, Idle
<1>2. PendingIsLast' /\ PendingIsNews' /\ QuietIsLast'
  BY DEF Restart, Idle, PendingIsLast, PendingIsNews, QuietIsLast
<1>3. AlertsInSync' /\ NoRepeatWithinLife'
  BY DEF Restart, AlertsInSync, NoRepeatWithinLife
<1> QED BY <1>1, <1>2, <1>3

LEMMA ProcessInv ==
  ASSUME Inv, NEW s \in Reviews, Process(s)
  PROVE  Inv'
<1> USE DEF Inv
<1> DEFINE announces == last # s /\ Deliverable /\ Qualifies(last, s)
<1>1. /\ s \in Statuses /\ s # None /\ last' = s /\ alert.todo = {}
      /\ UNCHANGED <<cfg, told, repeated>>
      /\ alert' = IF announces THEN [status |-> s, todo |-> cfg.hooks] ELSE Idle
      /\ quiet' = {w \in quiet : told[w] = s}
  BY DEF Process, Reviews, Statuses, None, Announced, StillQuiet
<1>2. synced' = IF last = s \/ ~Qualifies(last, s) THEN synced
                ELSE IF Deliverable THEN synced \cap cfg.hooks ELSE {}
  BY DEF Process, StillSynced
<1>3. TypeOK'
  <2>1. cfg.hooks \subseteq Webhooks
    BY DEF TypeOK, Configs, Hooks
  <2>2. alert' \in [status : Statuses \cup {None}, todo : SUBSET Webhooks]
    BY <1>1, <2>1 DEF Idle
  <2>3. quiet' \in SUBSET Webhooks /\ synced' \in SUBSET Webhooks
    BY <1>1, <1>2 DEF TypeOK
  <2> QED BY <1>1, <2>2, <2>3 DEF TypeOK
<1>4. PendingIsLast'
  BY <1>1 DEF PendingIsLast, Idle
<1>5. QuietIsLast'
  BY <1>1 DEF QuietIsLast
<1>6. PendingIsNews'
  <2> SUFFICES ASSUME NEW w \in alert'.todo, w \in quiet'
               PROVE  FALSE
    BY DEF PendingIsNews
  <2>1. last # s
    BY <1>1 DEF Idle
  <2>2. told[w] = s /\ told[w] = last
    BY <1>1 DEF QuietIsLast
  <2> QED BY <2>1, <2>2
<1>7. AlertsInSync'
  <2> SUFFICES ASSUME NEW w \in synced' \ alert'.todo
               PROVE  /\ AboveThreshold(s) => told[w] = s
                      /\ AboveThreshold(told[w]) => told[w] = s
    BY <1>1 DEF AlertsInSync, AboveThreshold
  <2>1. w \in synced \ alert.todo /\ (last = s \/ ~Qualifies(last, s))
    BY <1>1, <1>2
  <2>2. AboveThreshold(last) \/ AboveThreshold(told[w]) => told[w] = last
    BY <2>1 DEF AlertsInSync
  <2>3. CASE last = s
    BY <2>2, <2>3
  <2>4. CASE ~Qualifies(last, s)
    <3>1. ~AboveThreshold(s) /\ (last # None => ~AboveThreshold(last))
      BY <2>4 DEF Qualifies, AboveThreshold
    <3>2. last = None => ~AboveThreshold(last)
      BY Ranks DEF AboveThreshold, TypeOK, Configs
    <3> QED BY <2>2, <3>1, <3>2
  <2> QED BY <2>1, <2>3, <2>4
<1>8. NoRepeatWithinLife'
  BY <1>1 DEF NoRepeatWithinLife
<1> QED BY <1>3, <1>4, <1>5, <1>6, <1>7, <1>8

LEMMA DeliveredInv ==
  ASSUME Inv, NEW w \in Webhooks, Delivered(w)
  PROVE  Inv'
<1> USE DEF Inv
<1>1. /\ w \in alert.todo /\ alert.status = last
      /\ alert'.status = alert.status /\ alert'.todo = alert.todo \ {w}
      /\ synced' = synced \cup {w} /\ quiet' = quiet \cup {w}
      /\ UNCHANGED <<cfg, last>>
  BY DEF Delivered, TypeOK, PendingIsLast
<1>2. \A v \in Webhooks : told'[v] = IF v = w THEN last ELSE told[v]
  BY <1>1 DEF Delivered, TypeOK
<1>4. TypeOK'
  BY DEF Delivered, TypeOK
<1>5. PendingIsLast'
  BY <1>1 DEF PendingIsLast
<1>6. PendingIsNews'
  <2>1. alert.todo \subseteq Webhooks
    BY DEF TypeOK
  <2> QED BY <1>1, <1>2, <2>1 DEF PendingIsNews
<1>7. AlertsInSync'
  <2>1. synced \subseteq Webhooks
    BY DEF TypeOK
  <2> QED BY <1>1, <1>2, <2>1 DEF AlertsInSync, AboveThreshold
<1>8. NoRepeatWithinLife'
  BY <1>1 DEF Delivered, NoRepeatWithinLife, PendingIsNews
<1>9. QuietIsLast'
  <2>1. quiet \subseteq Webhooks
    BY DEF TypeOK
  <2> QED BY <1>1, <1>2, <2>1 DEF QuietIsLast
<1> QED BY <1>4, <1>5, <1>6, <1>7, <1>8, <1>9

LEMMA FailedInv ==
  ASSUME Inv, NEW w \in Webhooks, Failed(w)
  PROVE  Inv'
<1> USE DEF Inv
<1>1. /\ alert'.status = alert.status /\ alert'.todo = alert.todo \ {w}
      /\ synced' = synced \ {w}
      /\ UNCHANGED <<cfg, last, told, quiet, repeated>>
  BY DEF Failed, TypeOK
<1>2. TypeOK'
  BY DEF Failed, TypeOK
<1>3. PendingIsLast' /\ PendingIsNews' /\ QuietIsLast'
  BY <1>1 DEF Failed, PendingIsLast, PendingIsNews, QuietIsLast
<1>4. AlertsInSync' /\ NoRepeatWithinLife'
  BY <1>1 DEF AlertsInSync, AboveThreshold, NoRepeatWithinLife
<1> QED BY <1>2, <1>3, <1>4

LEMMA InvHolds == Spec => []Inv
<1>1. ASSUME Inv, UNCHANGED vars
      PROVE  Inv'
  BY <1>1 DEF vars, Inv, TypeOK, PendingIsLast, PendingIsNews, QuietIsLast,
              AlertsInSync, AboveThreshold, NoRepeatWithinLife
<1>2. Inv /\ [Next]_vars => Inv'
  BY <1>1, ConfigureInv, RestartInv, ProcessInv, DeliveredInv, FailedInv
     DEF Next, Deliver
<1> QED BY <1>2, InitInv, PTL DEF Spec

(* Settings, the Dispatcher's memory and the delivery keep their types; in *)
(* particular a failed review is never remembered as a status.             *)
THEOREM TypeCorrect == Spec => []TypeOK
<1>1. Inv => TypeOK
  BY DEF Inv
<1> QED BY <1>1, InvHolds, PTL

(* A webhook nothing was withheld from knows the present status whenever   *)
(* it matters to it, recoveries included, whatever webhooks are set,       *)
(* replaced and dropped meanwhile (Process, deliver).                      *)
THEOREM ChannelsInSync == Spec => []AlertsInSync
<1>1. Inv => AlertsInSync
  BY DEF Inv
<1> QED BY <1>1, InvHolds, PTL

(* While the pod lives, a webhook is never told the same status twice with *)
(* nothing in between (Process).                                           *)
THEOREM NeverRepeats == Spec => []NoRepeatWithinLife
<1>1. Inv => NoRepeatWithinLife
  BY DEF Inv
<1> QED BY <1>1, InvHolds, PTL

-----------------------------------------------------------------------------
(* The loop around it (Review.tla).                                        *)

(* What the Dispatcher is handed is a review; what the page shows is that  *)
(* review, and after Process the Dispatcher's own last status.             *)
HandsOn ==
  /\ pc # "wait" => insight.status \in Reviews
  /\ pc = "process" => latest = insight.status

Agree == pc # "process" /\ latest \in Statuses /\ last # None => last = latest

(* Deliveries end before the loop waits.                                   *)
Rest == pc = "wait" => alert.todo = {}

(* Before a life's first status nobody counts as in sync, and no delivery  *)
(* is under way.                                                           *)
Unseen == last = None => synced = {} /\ alert.todo = {}

(* No finding is worse than the status it is reported under; what is being *)
(* delivered is the review the loop is about.                              *)
Worst(i) ==
  \A k \in DOMAIN i.findings : i.findings[k] \in Severities =>
     severityRank[i.findings[k]] <= severityRank[i.status]

Titled ==
  /\ DOMAIN alert = {"status", "todo"}
  /\ pc # "wait" => Worst(insight)
  /\ alert.todo # {} => pc = "deliver" /\ alert.status = insight.status

LoopInv == HandsOn /\ Agree /\ Rest /\ Unseen /\ Titled

-----------------------------------------------------------------------------
(* A step of the loop is a step of the Dispatcher, or none.                *)
LEMMA StepImplements == HandsOn /\ [ReviewNext]_all => [Next]_vars
<1> SUFFICES ASSUME HandsOn, [ReviewNext]_all PROVE [Next]_vars
  OBVIOUS
<1>1. CASE Settle
  BY <1>1 DEF Settle, Next
<1>2. CASE Crash
  BY <1>2 DEF Crash, Next
<1>3. CASE reviewOnce
  BY <1>3 DEF reviewOnce, Add
<1>4. CASE ProcessReview
  BY <1>4 DEF ProcessReview, HandsOn, Next
<1>5. CASE DeliverNext
  BY <1>5 DEF DeliverNext, Next
<1>6. CASE Return
  BY <1>6 DEF Return
<1>7. CASE UNCHANGED all
  BY <1>7 DEF all
<1> QED BY <1>1, <1>2, <1>3, <1>4, <1>5, <1>6, <1>7 DEF ReviewNext

(* The findings are the ground truth (escalate): the status given is a     *)
(* status, and no finding is worse.                                        *)
LEMMA EscalateIsWorst ==
  ASSUME NEW status \in Statuses, NEW findings \in Seq(Severities \cup {"info"})
  PROVE  /\ escalate(status, findings) \in Statuses
         /\ severityRank[escalate(status, findings)] >= severityRank[status]
         /\ \A i \in DOMAIN findings : findings[i] \in Severities =>
              severityRank[findings[i]] <= severityRank[escalate(status, findings)]
<1> DEFINE worse == {s \in Severities :
                       /\ \E i \in DOMAIN findings : findings[i] = s
                       /\ severityRank[s] > severityRank[status]}
<1>1. /\ severityRank["healthy"] = 0 /\ severityRank["warning"] = 1
      /\ severityRank["critical"] = 2
  BY DEF severityRank, Reviews, Statuses
<1>2. CASE worse = {}
  <2>1. escalate(status, findings) = status
    BY <1>2 DEF escalate
  <2>2. \A s \in Severities : severityRank[s] \in Nat /\ severityRank[status] \in Nat
    BY <1>1 DEF Severities, Statuses
  <2>3. ASSUME NEW i \in DOMAIN findings, findings[i] \in Severities
        PROVE  severityRank[findings[i]] <= severityRank[status]
    <3>1. findings[i] \notin worse
      BY <1>2
    <3>2. ~ (severityRank[findings[i]] > severityRank[status])
      BY <2>3, <3>1
    <3> QED BY <2>2, <2>3, <3>2
  <2>4. severityRank[status] >= severityRank[status]
    BY <1>1 DEF Statuses
  <2> QED BY <2>1, <2>3, <2>4
<1>3. CASE worse # {}
  <2>1. \E s \in worse : \A t \in worse : severityRank[t] <= severityRank[s]
    <3>1. CASE "critical" \in worse
      BY <3>1, <1>1 DEF Severities
    <3>2. CASE "critical" \notin worse
      BY <3>2, <1>3, <1>1 DEF Severities
    <3> QED BY <3>1, <3>2
  <2>2. /\ escalate(status, findings) \in worse
        /\ \A t \in worse : severityRank[t] <= severityRank[escalate(status, findings)]
    BY <1>3, <2>1 DEF escalate
  <2>3. \A s \in Severities : severityRank[s] \in Nat /\ severityRank[status] \in Nat
    BY <1>1 DEF Severities, Statuses
  <2>4. escalate(status, findings) \in Statuses
    BY <2>2 DEF Severities, Statuses
  <2>5. ASSUME NEW i \in DOMAIN findings, findings[i] \in Severities
        PROVE  severityRank[findings[i]] <= severityRank[escalate(status, findings)]
    <3>1. CASE findings[i] \in worse
      BY <3>1, <2>2
    <3>2. CASE findings[i] \notin worse
      BY <3>2, <2>2, <2>3, <2>5
    <3> QED BY <3>1, <3>2
  <2> QED BY <2>2, <2>3, <2>4, <2>5
<1> QED BY <1>2, <1>3

LEMMA ParseGivesReview ==
  ASSUME NEW a \in Answers
  PROVE  /\ parseInsight(a).status \in Reviews
         /\ parseInsight(a).findings \in Lists \cup {<<>>}
         /\ Worst(parseInsight(a))
<1>1. CASE a.status = "unreadable"
  BY <1>1 DEF parseInsight, Failure, Reviews, Worst
<1>2. CASE a.status # "unreadable"
  <2>1. a.status \in Statuses /\ a.findings \in Lists
    BY <1>2 DEF Answers
  <2>2. a.findings \in Seq(Severities \cup {"info"})
    BY <2>1, ReviewAssumption
  <2>3. /\ escalate(a.status, a.findings) \in Statuses
        /\ \A i \in DOMAIN a.findings : a.findings[i] \in Severities =>
             severityRank[a.findings[i]] <= severityRank[escalate(a.status, a.findings)]
    BY <2>1, <2>2, EscalateIsWorst
  <2> QED BY <1>2, <2>1, <2>3 DEF parseInsight, Reviews, Worst
<1> QED BY <1>1, <1>2

-----------------------------------------------------------------------------
LEMMA ReviewInitInv == ReviewInit => LoopInv
BY DEF ReviewInit, Init, Idle, LoopInv, HandsOn, Agree, Rest, Unseen, Titled

LEMMA ReviewStepInv ==
  ASSUME LoopInv, [ReviewNext]_all
  PROVE  LoopInv'
<1> USE DEF LoopInv
<1>1. CASE Settle
  <2>1. UNCHANGED <<pc, insight, latest, last, alert>> /\ synced' \subseteq synced
    BY <1>1 DEF Settle, Configure, loop
  <2> QED BY <2>1 DEF HandsOn, Agree, Rest, Unseen, Titled, Worst
<1>2. CASE Crash
  BY <1>2 DEF Crash, Restart, Idle, HandsOn, Agree, Rest, Unseen, Titled
<1>3. CASE reviewOnce
  <2>1. PICK found : found.status \in Reviews /\ Worst(found) /\ Add(found)
    BY <1>3, ParseGivesReview DEF reviewOnce, Failure, Reviews, Worst
  <2>2. HandsOn' /\ Agree' /\ Rest' /\ Unseen'
    BY <2>1 DEF Add, vars, HandsOn, Agree, Rest, Unseen
  <2>3. Titled'
    BY <2>1 DEF Add, vars, Rest, Titled, Worst
  <2> QED BY <2>2, <2>3
<1>4. CASE ProcessReview
  <2>1. CASE insight.status = "error" /\ UNCHANGED <<vars, previous>>
    BY <1>4, <2>1 DEF ProcessReview, vars, HandsOn, Agree, Rest, Unseen, Statuses, Titled, Worst
  <2>2. CASE Process(insight.status)
    <3>1. insight.status \in Statuses /\ insight.status # None
      BY <1>4, <2>2 DEF ProcessReview, Process, HandsOn, Reviews, Statuses, None
    <3>2. HandsOn' /\ Agree' /\ Rest' /\ Unseen'
      BY <1>4, <2>2, <3>1 DEF ProcessReview, Process, HandsOn, Agree, Rest, Unseen
    <3>3. Titled'
      BY <1>4, <2>2 DEF ProcessReview, Process, Announced, Idle, Titled, Worst
    <3> QED BY <3>2, <3>3
  <2> QED BY <1>4, <2>1, <2>2 DEF ProcessReview
<1>5. CASE DeliverNext
  <2>1. PICK w \in Webhooks : Delivered(w) \/ Failed(w)
    BY <1>5 DEF DeliverNext, Deliver
  <2>2. w \in alert.todo /\ last' = last /\ UNCHANGED <<pc, insight, previous, latest>>
    BY <1>5, <2>1 DEF DeliverNext, Delivered, Failed, loop
  <2>3. alert'.status = alert.status /\ alert.todo # {}
    BY <2>1, <2>2 DEF Delivered, Failed, Titled
  <2>4. DOMAIN alert' = DOMAIN alert
    BY <2>1 DEF Delivered, Failed
  <2> QED BY <2>2, <2>3, <2>4 DEF HandsOn, Agree, Rest, Unseen, Titled, Worst
<1>6. CASE Return
  BY <1>6 DEF Return, vars, HandsOn, Agree, Rest, Unseen, Titled
<1>7. CASE UNCHANGED all
  BY <1>7 DEF all, vars, loop, HandsOn, Agree, Rest, Unseen, Titled, Worst
<1> QED BY <1>1, <1>2, <1>3, <1>4, <1>5, <1>6, <1>7 DEF ReviewNext

LEMMA LoopInvHolds == ReviewSpec => []LoopInv
<1>1. LoopInv /\ [ReviewNext]_all => LoopInv'
  BY ReviewStepInv
<1> QED BY <1>1, ReviewInitInv, PTL DEF ReviewSpec

-----------------------------------------------------------------------------
(* The loop drives the Dispatcher as Alerts.tla lets it be driven          *)
(* (reviewOnce, Process): what holds of that module holds of the loop.     *)
THEOREM ImplementsAlerts == ReviewSpec => Spec
<1>1. ReviewInit => Init
  BY DEF ReviewInit
<1>2. LoopInv /\ [ReviewNext]_all => [Next]_vars
  BY StepImplements DEF LoopInv
<1> QED BY <1>1, <1>2, LoopInvHolds, PTL DEF ReviewSpec, Spec

(* Types of the loop, on top of those of the Dispatcher.                   *)
LEMMA TypesStep ==
  ASSUME ReviewTypeOK, [ReviewNext]_all, TypeOK'
  PROVE  ReviewTypeOK'
<1> USE DEF ReviewTypeOK
<1>1. CASE Settle
  BY <1>1 DEF Settle, loop
<1>2. CASE Crash
  BY <1>2 DEF Crash, NoInsight
<1>3. CASE reviewOnce
  <2>1. PICK found : Add(found) /\ (found = Failure
                                     \/ \E a \in Answers : found = parseInsight(a))
    BY <1>3 DEF reviewOnce
  <2>2. found \in [status : Reviews \cup {None}, findings : Lists \cup {<<>>}]
    <3>1. CASE found = Failure
      BY <3>1 DEF Failure, Reviews
    <3>2. ASSUME NEW a \in Answers, found = parseInsight(a)
          PROVE  found \in [status : Reviews, findings : Lists \cup {<<>>}]
      BY <3>2, ParseGivesReview DEF parseInsight, Failure
    <3> QED BY <2>1, <3>1, <3>2
  <2> QED BY <2>1, <2>2 DEF Add
<1>4. CASE ProcessReview
  BY <1>4 DEF ProcessReview, TypeOK
<1>5. CASE DeliverNext
  BY <1>5 DEF DeliverNext, loop
<1>6. CASE Return
  BY <1>6 DEF Return, NoInsight
<1>7. CASE UNCHANGED all
  BY <1>7 DEF all, loop
<1> QED BY <1>1, <1>2, <1>3, <1>4, <1>5, <1>6, <1>7 DEF ReviewNext

(* A review handed on is one the store and the Dispatcher know how to      *)
(* read, and a failed one is never remembered as the last status.          *)
THEOREM LoopTyped == ReviewSpec => []ReviewTypeOK
<1>1. ReviewInit /\ TypeOK => ReviewTypeOK
  BY DEF ReviewInit, ReviewTypeOK, NoInsight
<1>2. ReviewTypeOK /\ [ReviewNext]_all /\ TypeOK' => ReviewTypeOK'
  BY TypesStep
<1> QED BY <1>1, <1>2, ImplementsAlerts, TypeCorrect, PTL DEF ReviewSpec

(* Between reviews a webhook nothing was withheld from and the page say    *)
(* the same (reviewOnce, Process).                                         *)
THEOREM PageFollowed == ReviewSpec => []PageAgrees
<1>1. Inv /\ LoopInv => PageAgrees
  <2> SUFFICES ASSUME Inv, LoopInv, pc = "wait", latest \in Statuses,
                      NEW w \in synced,
                      AboveThreshold(latest) \/ AboveThreshold(told[w])
               PROVE  told[w] = latest
    BY DEF PageAgrees
  <2>1. last = latest
    BY DEF LoopInv, Unseen, Agree
  <2>2. w \in synced \ alert.todo
    BY DEF LoopInv, Rest
  <2> QED BY <2>1, <2>2 DEF Inv, AlertsInSync
<1> QED BY <1>1, LoopInvHolds, ImplementsAlerts, InvHolds, PTL

(* No message of an alert carries a finding worse than its title           *)
(* (escalate, Process).                                                    *)
TitleSaysTheWorst ==
  alert.todo # {} => Worst([insight EXCEPT !.status = alert.status])

THEOREM TitlesSayTheWorst == ReviewSpec => []TitleSaysTheWorst
<1>1. LoopInv /\ ReviewTypeOK => TitleSaysTheWorst
  BY DEF LoopInv, Titled, Worst, TitleSaysTheWorst, ReviewTypeOK
<1> QED BY <1>1, LoopInvHolds, LoopTyped, PTL

-----------------------------------------------------------------------------
(* What a reader takes from a message (Notifications.tla). The fields and  *)
(* blocks that are left of a message without its title:                    *)
Texts  == Statuses \cup {"info", "none", "reviews", "changes", ""} \cup Nat
Names  == {"finding", "more", "section", "previous", "summary", "detail", "lines"}
Fields == [name : Names, value : Texts]

Asked == {"finding", "more", "section", "previous"}

LEMMA FieldIs ==
  ASSUME NEW name \in Names, NEW value \in Texts
  PROVE  /\ Field(name, value) \in Fields
         /\ Field(name, value).name = name /\ Field(name, value).value = value
BY DEF Field, Fields

ValueOf(f, name) == IF f.name = name THEN << f.value >> ELSE <<>>

ListsOf(bs, name) == [i \in 1 .. Len(bs) |-> ValueOf(bs[i], name)]

LEMMA ValueType == \A f \in Fields : \A name : ValueOf(f, name) \in Seq(Texts)
<1> SUFFICES ASSUME NEW f \in Fields, NEW name PROVE ValueOf(f, name) \in Seq(Texts)
  OBVIOUS
<1>1. f.value \in Texts
  BY DEF Fields
<1>2. << f.value >> \in Seq(Texts) /\ <<>> \in Seq(Texts)
  BY <1>1, EmptySeq
<1> QED BY <1>2 DEF ValueOf

LEMMA ValueLists ==
  ASSUME NEW bs \in Seq(Fields), NEW name, NEW lists, lists = ListsOf(bs, name)
  PROVE  /\ lists \in Seq(Seq(Texts)) /\ Len(lists) = Len(bs)
         /\ \A i \in 1 .. Len(bs) : lists[i] = ValueOf(bs[i], name)
         /\ Values(bs, name) = FlattenSeq(lists) /\ Values(bs, name) \in Seq(Texts)
<1>1. Len(bs) \in Nat /\ DOMAIN bs = 1 .. Len(bs) /\ \A i \in 1 .. Len(bs) : bs[i] \in Fields
  OBVIOUS
<1>2. \A f \in Fields : ValueOf(f, name) \in Seq(Texts)
  BY ValueType
<1>3. lists \in [1 .. Len(bs) -> Seq(Texts)]
  BY <1>1, <1>2 DEF ListsOf
<1>4. lists \in Seq(Seq(Texts)) /\ Len(lists) = Len(bs)
  BY <1>1, <1>3, ListOf
<1>5. \A i \in 1 .. Len(bs) : lists[i] = ValueOf(bs[i], name)
  BY DEF ListsOf
<1>6. Values(bs, name) = FlattenSeq(lists)
  <2>1. lists = [i \in DOMAIN bs |->
                   IF bs[i].name = name THEN << bs[i].value >> ELSE <<>>]
    BY <1>1 DEF ValueOf, ListsOf
  <2> QED BY <2>1 DEF Values
<1>7. FlattenSeq(lists) \in Seq(Texts)
  BY <1>4, FlattenAppend, EmptySeq
<1> QED BY <1>4, <1>5, <1>6, <1>7

LEMMA ValuesConcat ==
  ASSUME NEW v \in Seq(Fields), NEW w \in Seq(Fields), NEW name
  PROVE  Values(v \o w, name) = Values(v, name) \o Values(w, name)
<1> DEFINE lists(s) == ListsOf(s, name)
           vw == v \o w
<1>1. /\ vw \in Seq(Fields) /\ Len(vw) = Len(v) + Len(w)
      /\ \A i \in 1 .. Len(v) + Len(w) : vw[i] = IF i <= Len(v) THEN v[i] ELSE w[i - Len(v)]
  BY ConcatProperties
<1>2. Len(v) \in Nat /\ Len(w) \in Nat
  OBVIOUS
<1> HIDE DEF vw
<1>3. \A s \in Seq(Fields) :
        /\ lists(s) \in Seq(Seq(Texts)) /\ Len(lists(s)) = Len(s)
        /\ \A i \in 1 .. Len(s) : lists(s)[i] = ValueOf(s[i], name)
        /\ Values(s, name) = FlattenSeq(lists(s))
  BY ValueLists
<1> HIDE DEF lists
<1>4. lists(vw) = lists(v) \o lists(w)
  <2> DEFINE both == lists(v) \o lists(w)
  <2>1. /\ both \in Seq(Seq(Texts)) /\ Len(both) = Len(v) + Len(w)
        /\ \A i \in 1 .. Len(v) + Len(w) :
             both[i] = IF i <= Len(v) THEN lists(v)[i] ELSE lists(w)[i - Len(v)]
    <3> DEFINE lv == lists(v)
               lw == lists(w)
    <3>1. /\ lv \in Seq(Seq(Texts)) /\ Len(lv) = Len(v)
          /\ lw \in Seq(Seq(Texts)) /\ Len(lw) = Len(w)
      BY <1>3
    <3> HIDE DEF lv, lw
    <3>2. Joins(Seq(Seq(Texts)))
      BY Joining
    <3>3. /\ lv \o lw \in Seq(Seq(Texts)) /\ Len(lv \o lw) = Len(lv) + Len(lw)
          /\ \A i \in 1 .. Len(lv) + Len(lw) :
               (lv \o lw)[i] = IF i <= Len(lv) THEN lv[i] ELSE lw[i - Len(lv)]
      BY ONLY <3>1, <3>2 DEF Joins
    <3> QED BY ONLY <3>1, <3>3 DEF both, lv, lw
  <2> HIDE DEF both
  <2>2. ASSUME NEW i \in 1 .. Len(v) + Len(w)
        PROVE  lists(vw)[i] = both[i]
    <3>1. lists(vw)[i] = ValueOf(vw[i], name)
      BY <1>1, <1>3
    <3>2. CASE i <= Len(v)
      <4>1. i \in 1 .. Len(v)
        BY <1>2, <3>2
      <4> QED BY <1>1, <1>3, <2>1, <3>1, <3>2, <4>1
    <3>3. CASE ~ (i <= Len(v))
      <4>1. i - Len(v) \in 1 .. Len(w)
        BY <1>2, <3>3
      <4> QED BY <1>1, <1>3, <2>1, <3>1, <3>3, <4>1
    <3> QED BY <3>2, <3>3
  <2>3. lists(vw) \in Seq(Seq(Texts)) /\ Len(lists(vw)) = Len(v) + Len(w)
    BY <1>1, <1>3
  <2>4. lists(vw) = both
    BY <1>2, <2>1, <2>2, <2>3, SeqEqual
  <2> QED BY <2>4 DEF both
<1>5. FlattenSeq(lists(v) \o lists(w)) = FlattenSeq(lists(v)) \o FlattenSeq(lists(w))
  BY <1>3, FlattenConcat
<1> QED BY <1>1, <1>3, <1>4, <1>5 DEF vw

LEMMA ValuesOne ==
  ASSUME NEW f \in Fields, NEW name
  PROVE  << f >> \in Seq(Fields) /\ Values(<< f >>, name) = ValueOf(f, name)
<1> DEFINE one == << f >>
           lists == ListsOf(one, name)
<1>1. one \in Seq(Fields) /\ Len(one) = 1 /\ one[1] = f
  OBVIOUS
<1> HIDE DEF one
<1>2. /\ lists \in Seq(Seq(Texts)) /\ Len(lists) = 1 /\ lists[1] = ValueOf(f, name)
      /\ Values(one, name) = FlattenSeq(lists)
  BY <1>1, ValueLists
<1> HIDE DEF lists
<1>3. ValueOf(f, name) \in Seq(Texts)
  BY ValueType
<1>4. << ValueOf(f, name) >> \in Seq(Seq(Texts)) /\ Len(<< ValueOf(f, name) >>) = 1
      /\ << ValueOf(f, name) >>[1] = ValueOf(f, name)
  BY <1>3
<1>5. \A i \in 1 .. 1 : lists[i] = << ValueOf(f, name) >>[i]
  BY <1>2, <1>4
<1>6. lists = << ValueOf(f, name) >>
  BY <1>2, <1>4, <1>5, SeqEqual
<1> QED BY <1>1, <1>2, <1>3, <1>6, FlattenOne DEF one

LEMMA ValuesNone ==
  ASSUME NEW bs \in Seq(Fields), NEW name, \A i \in DOMAIN bs : bs[i].name # name
  PROVE  Values(bs, name) = <<>>
<1> DEFINE lists == ListsOf(bs, name)
<1>1. /\ lists \in Seq(Seq(Texts)) /\ Len(lists) = Len(bs)
      /\ \A i \in 1 .. Len(bs) : lists[i] = ValueOf(bs[i], name)
      /\ Values(bs, name) = FlattenSeq(lists)
  BY ValueLists
<1> HIDE DEF lists
<1>2. \A i \in DOMAIN lists : lists[i] = <<>>
  <2>1. DOMAIN lists = 1 .. Len(bs) /\ DOMAIN bs = 1 .. Len(bs)
    BY <1>1
  <2> QED BY <1>1, <2>1 DEF ValueOf
<1> QED BY <1>1, <1>2, FlattenEmpties

LEMMA ValuesAll ==
  ASSUME NEW bs \in Seq(Fields), NEW name, \A i \in DOMAIN bs : bs[i].name = name
  PROVE  /\ Values(bs, name) \in Seq(Texts) /\ Len(Values(bs, name)) = Len(bs)
         /\ \A i \in 1 .. Len(bs) : Values(bs, name)[i] = bs[i].value
<1> DEFINE lists == ListsOf(bs, name)
<1>1. /\ lists \in Seq(Seq(Texts)) /\ Len(lists) = Len(bs)
      /\ \A i \in 1 .. Len(bs) : lists[i] = ValueOf(bs[i], name)
      /\ Values(bs, name) = FlattenSeq(lists) /\ Values(bs, name) \in Seq(Texts)
  BY ValueLists
<1> HIDE DEF lists
<1>2. DOMAIN lists = 1 .. Len(bs) /\ DOMAIN bs = 1 .. Len(bs)
  BY <1>1
<1>3. \A i \in 1 .. Len(bs) : lists[i] = << bs[i].value >>
  BY <1>1, <1>2 DEF ValueOf
<1>4. \A t : Len(<< t >>) = 1 /\ << t >>[1] = t
  OBVIOUS
<1>5. \A i \in DOMAIN lists : Len(lists[i]) = 1 /\ lists[i][1] = bs[i].value
  BY <1>2, <1>3, <1>4
<1>6. /\ Len(FlattenSeq(lists)) = Len(lists)
      /\ \A i \in DOMAIN lists : FlattenSeq(lists)[i] = lists[i][1]
  BY <1>1, <1>5, FlattenSingles
<1> QED BY <1>1, <1>2, <1>5, <1>6

(* A card that is laid out as several blocks (sendTeams).                  *)
EachOf(cards, name) == [i \in 1 .. Len(cards) |-> Values(cards[i], name)]

LEMMA EachIs ==
  ASSUME NEW cards \in Seq(Seq(Fields)), NEW name
  PROVE  /\ EachOf(cards, name) \in Seq(Seq(Texts))
         /\ Len(EachOf(cards, name)) = Len(cards)
         /\ \A i \in 1 .. Len(cards) : EachOf(cards, name)[i] = Values(cards[i], name)
<1>1. Len(cards) \in Nat /\ \A i \in 1 .. Len(cards) : cards[i] \in Seq(Fields)
  OBVIOUS
<1>2. \A bs \in Seq(Fields) : Values(bs, name) \in Seq(Texts)
  BY ValueLists
<1>3. EachOf(cards, name) \in [1 .. Len(cards) -> Seq(Texts)]
  BY <1>1, <1>2 DEF EachOf
<1>4. \A i \in 1 .. Len(cards) : EachOf(cards, name)[i] = Values(cards[i], name)
  BY DEF EachOf
<1> QED BY <1>1, <1>3, <1>4, ListOf

LEMMA ValuesFlat ==
  ASSUME NEW name
  PROVE  \A cards \in Seq(Seq(Fields)) :
           Values(FlattenSeq(cards), name) = FlattenSeq(EachOf(cards, name))
<1> DEFINE T == {cards \in Seq(Seq(Fields)) :
                   Values(FlattenSeq(cards), name) = FlattenSeq(EachOf(cards, name))}
<1>1. <<>> \in T
  <2>1. <<>> \in Seq(Seq(Fields)) /\ FlattenSeq(<<>>) = <<>> /\ <<>> \in Seq(Fields)
        /\ Len(<<>>) = 0
    BY EmptySeq, FlattenNone
  <2>2. Values(<<>>, name) = <<>>
    <3>1. \A i \in DOMAIN <<>> : <<>>[i].name # name
      OBVIOUS
    <3> QED BY <2>1, <3>1, ValuesNone
  <2>3. FlattenSeq(EachOf(<<>>, name)) = <<>>
    <3>1. EachOf(<<>>, name) \in Seq(Seq(Texts)) /\ Len(EachOf(<<>>, name)) = 0
      BY <2>1, EachIs
    <3>2. EachOf(<<>>, name) = <<>>
      BY <3>1, EmptySeq
    <3> QED BY <3>2, FlattenNone, <2>1
  <2> QED BY <2>1, <2>2, <2>3
<1>2. ASSUME NEW cards \in Seq(Seq(Fields)), NEW bs \in Seq(Fields), cards \in T
      PROVE  Append(cards, bs) \in T
  <2> DEFINE more == Append(cards, bs)
             each == EachOf(cards, name)
  <2>1. /\ more \in Seq(Seq(Fields)) /\ Len(more) = Len(cards) + 1 /\ Len(cards) \in Nat
        /\ more[Len(cards) + 1] = bs /\ \A i \in 1 .. Len(cards) : more[i] = cards[i]
    BY AppendProperties
  <2>2. FlattenSeq(cards) \in Seq(Fields) /\ FlattenSeq(more) = FlattenSeq(cards) \o bs
    BY FlattenAppend
  <2> HIDE DEF more
  <2>3. Values(FlattenSeq(more), name) = Values(FlattenSeq(cards), name) \o Values(bs, name)
    BY <2>2, ValuesConcat
  <2>4. /\ each \in Seq(Seq(Texts)) /\ Len(each) = Len(cards)
        /\ \A i \in 1 .. Len(cards) : each[i] = Values(cards[i], name)
    BY EachIs
  <2>5. /\ EachOf(more, name) \in Seq(Seq(Texts))
        /\ Len(EachOf(more, name)) = Len(cards) + 1
        /\ \A i \in 1 .. Len(cards) + 1 : EachOf(more, name)[i] = Values(more[i], name)
    BY <2>1, EachIs
  <2>6. Values(bs, name) \in Seq(Texts)
    BY ValueLists
  <2> HIDE DEF each
  <2>7. /\ Append(each, Values(bs, name)) \in Seq(Seq(Texts))
        /\ Len(Append(each, Values(bs, name))) = Len(cards) + 1
        /\ \A i \in 1 .. Len(cards) : Append(each, Values(bs, name))[i] = each[i]
        /\ Append(each, Values(bs, name))[Len(cards) + 1] = Values(bs, name)
    <3>1. \A e \in Seq(Seq(Texts)), t \in Seq(Texts) :
            /\ Append(e, t) \in Seq(Seq(Texts)) /\ Len(Append(e, t)) = Len(e) + 1
            /\ \A i \in 1 .. Len(e) : Append(e, t)[i] = e[i]
            /\ Append(e, t)[Len(e) + 1] = t
      BY AppendProperties
    <3> QED BY ONLY <2>4, <2>6, <3>1
  <2>8. EachOf(more, name) = Append(each, Values(bs, name))
    <3>1. ASSUME NEW i \in 1 .. Len(cards) + 1
          PROVE  EachOf(more, name)[i] = Append(each, Values(bs, name))[i]
      <4>1. CASE i \in 1 .. Len(cards)
        BY <2>1, <2>4, <2>5, <2>7, <4>1
      <4>2. CASE i = Len(cards) + 1
        BY <2>1, <2>5, <2>7, <4>2
      <4>3. i \in 1 .. Len(cards) \/ i = Len(cards) + 1
        BY <2>1
      <4> QED BY <4>1, <4>2, <4>3
    <3> QED BY <2>5, <2>7, <3>1, SeqEqual
  <2>9. FlattenSeq(Append(each, Values(bs, name))) = FlattenSeq(each) \o Values(bs, name)
    BY <2>4, <2>6, FlattenAppend
  <2> QED BY <1>2, <2>1, <2>3, <2>8, <2>9 DEF more, each
<1> HIDE DEF T
<1>3. Seq(Seq(Fields)) \subseteq T
  BY <1>1, <1>2, ListInduction
<1> QED BY <1>3 DEF T

(* Blocks beside the one a name is asked of do not count.                  *)
LEMMA CardsSay ==
  ASSUME NEW bs \in Seq(Fields), NEW cards \in Seq(Seq(Fields)), Len(cards) = Len(bs),
         NEW name, \A i \in 1 .. Len(bs) : Values(cards[i], name) = ValueOf(bs[i], name)
  PROVE  Values(FlattenSeq(cards), name) = Values(bs, name)
<1>1. /\ ListsOf(bs, name) \in Seq(Seq(Texts)) /\ Len(ListsOf(bs, name)) = Len(bs)
      /\ \A i \in 1 .. Len(bs) : ListsOf(bs, name)[i] = ValueOf(bs[i], name)
      /\ Values(bs, name) = FlattenSeq(ListsOf(bs, name))
  BY ValueLists
<1>2. /\ EachOf(cards, name) \in Seq(Seq(Texts)) /\ Len(EachOf(cards, name)) = Len(bs)
      /\ \A i \in 1 .. Len(bs) : EachOf(cards, name)[i] = Values(cards[i], name)
  BY EachIs
<1>3. EachOf(cards, name) = ListsOf(bs, name)
  BY <1>1, <1>2, SeqEqual
<1> QED BY <1>1, <1>3, ValuesFlat

-----------------------------------------------------------------------------
(* What each layout shows of the findings, the sections and the status     *)
(* before.                                                                 *)
Notified == Seq(Severities \cup {"info"})

Shown(findings) == IF Len(findings) <= MaxShown THEN Len(findings) ELSE MaxShown

FirstOf(findings) == [i \in 1 .. Shown(findings) |-> Field("finding", findings[i])]

CountOf(findings) ==
  IF Len(findings) > MaxShown THEN << Field("more", Len(findings) - MaxShown) >> ELSE <<>>

LEMMA FirstSays ==
  ASSUME NEW findings \in Notified
  PROVE  /\ FirstOf(findings) \in Seq(Fields)
         /\ Len(Values(FirstOf(findings), "finding")) = Shown(findings)
         /\ \A i \in 1 .. Shown(findings) :
              Values(FirstOf(findings), "finding")[i] = findings[i]
         /\ \A name \in Asked \ {"finding"} : Values(FirstOf(findings), name) = <<>>
<1> DEFINE k == Shown(findings)
           bs == FirstOf(findings)
<1>1. k \in Nat /\ \A i \in 1 .. k : findings[i] \in Texts
  <2>1. /\ Len(findings) \in Nat
        /\ \A i \in 1 .. Len(findings) : findings[i] \in Severities \cup {"info"}
    BY DEF Notified
  <2>2. k \in Nat /\ k <= Len(findings)
    BY <2>1, NotificationsAssumption DEF Shown
  <2> HIDE DEF k
  <2>3. \A i \in 1 .. k : i \in 1 .. Len(findings)
    BY <2>1, <2>2
  <2>4. Severities \cup {"info"} \subseteq Texts
    BY DEF Severities, Statuses, Texts
  <2> QED BY <2>1, <2>2, <2>3, <2>4
<1> HIDE DEF k
<1>2. \A i \in 1 .. k : /\ Field("finding", findings[i]) \in Fields
                        /\ Field("finding", findings[i]).name = "finding"
                        /\ Field("finding", findings[i]).value = findings[i]
  BY <1>1, FieldIs DEF Names
<1>3. bs = [i \in 1 .. k |-> Field("finding", findings[i])]
  BY DEF FirstOf, k
<1>4. bs \in [1 .. k -> Fields]
  BY <1>2, <1>3
<1>5. bs \in Seq(Fields) /\ Len(bs) = k /\ DOMAIN bs = 1 .. k
  BY <1>1, <1>4, ListOf
<1>6. \A i \in DOMAIN bs : bs[i].name = "finding" /\ bs[i].value = findings[i]
  BY <1>2, <1>3, <1>5
<1> HIDE DEF bs
<1>7. /\ Len(Values(bs, "finding")) = k
      /\ \A i \in 1 .. k : Values(bs, "finding")[i] = bs[i].value
  BY <1>5, <1>6, ValuesAll
<1>8. \A name \in Asked \ {"finding"} : Values(bs, name) = <<>>
  BY <1>5, <1>6, ValuesNone
<1> QED BY <1>5, <1>6, <1>7, <1>8 DEF bs, k

LEMMA CountSays ==
  ASSUME NEW findings \in Notified
  PROVE  /\ CountOf(findings) \in Seq(Fields)
         /\ Values(CountOf(findings), "more")
              = IF Len(findings) > MaxShown THEN << Len(findings) - MaxShown >> ELSE <<>>
         /\ \A name \in Asked \ {"more"} : Values(CountOf(findings), name) = <<>>
<1> DEFINE f == Field("more", Len(findings) - MaxShown)
<1>1. CASE Len(findings) > MaxShown
  <2>1. Len(findings) - MaxShown \in Texts
    <3>1. Len(findings) \in Nat
      BY DEF Notified
    <3>2. Len(findings) - MaxShown \in Nat
      BY <1>1, <3>1, NotificationsAssumption
    <3> QED BY <3>2 DEF Texts
  <2>2. f \in Fields /\ f.name = "more" /\ f.value = Len(findings) - MaxShown
    BY <2>1, FieldIs DEF Names
  <2> HIDE DEF f
  <2>3. /\ << f >> \in Seq(Fields)
        /\ \A name : Values(<< f >>, name) = ValueOf(f, name)
    BY <2>2, ValuesOne
  <2>4. CountOf(findings) = << f >>
    BY <1>1 DEF CountOf, f
  <2>5. /\ ValueOf(f, "more") = << Len(findings) - MaxShown >>
        /\ \A name \in Asked \ {"more"} : ValueOf(f, name) = <<>>
    BY <2>2 DEF ValueOf
  <2> QED BY <1>1, <2>3, <2>4, <2>5
<1>2. CASE ~ (Len(findings) > MaxShown)
  <2>1. CountOf(findings) = <<>>
    BY <1>2 DEF CountOf
  <2>2. <<>> \in Seq(Fields) /\ \A i \in DOMAIN <<>> : FALSE
    BY EmptySeq
  <2>3. \A name : Values(<<>>, name) = <<>>
    BY <2>2, ValuesNone
  <2> QED BY <1>2, <2>1, <2>2, <2>3
<1> QED BY <1>1, <1>2

LEMMA ListedSays ==
  ASSUME NEW findings \in Notified
  PROVE  /\ Listed(findings) \in Seq(Fields)
         /\ Len(Values(Listed(findings), "finding")) = Shown(findings)
         /\ \A i \in 1 .. Shown(findings) :
              Values(Listed(findings), "finding")[i] = findings[i]
         /\ Values(Listed(findings), "more")
              = IF Len(findings) > MaxShown THEN << Len(findings) - MaxShown >> ELSE <<>>
         /\ Values(Listed(findings), "previous") = <<>>
         /\ Values(Listed(findings), "section") = <<>>
<1> DEFINE first == FirstOf(findings)
           count == CountOf(findings)
<1>1. Listed(findings) = first \o count
  BY DEF Listed, FirstOf, CountOf, Shown
<1>2. /\ first \in Seq(Fields)
      /\ Len(Values(first, "finding")) = Shown(findings)
      /\ \A i \in 1 .. Shown(findings) : Values(first, "finding")[i] = findings[i]
      /\ \A name \in Asked \ {"finding"} : Values(first, name) = <<>>
  BY FirstSays
<1>3. /\ count \in Seq(Fields)
      /\ Values(count, "more")
           = IF Len(findings) > MaxShown THEN << Len(findings) - MaxShown >> ELSE <<>>
      /\ \A name \in Asked \ {"more"} : Values(count, name) = <<>>
  BY CountSays
<1> HIDE DEF first, count
<1>4. first \o count \in Seq(Fields)
  BY <1>2, <1>3, ConcatProperties
<1>5. \A name : Values(first \o count, name) = Values(first, name) \o Values(count, name)
  BY <1>2, <1>3, ValuesConcat
<1>6. \A name : Values(first, name) \in Seq(Texts) /\ Values(count, name) \in Seq(Texts)
  BY <1>2, <1>3, ValueLists
<1>7. Values(first \o count, "finding") = Values(first, "finding")
  BY <1>3, <1>5, <1>6, ConcatEmptySeq DEF Asked
<1>8. Values(first \o count, "more") = Values(count, "more")
  BY <1>2, <1>5, <1>6, ConcatEmptySeq DEF Asked
<1>9. \A name \in {"previous", "section"} : Values(first \o count, name) = <<>>
  BY <1>2, <1>3, <1>5, <1>6, ConcatEmptySeq DEF Asked
<1> QED BY <1>1, <1>2, <1>3, <1>4, <1>7, <1>8, <1>9

LEMMA SectionsSay ==
  ASSUME NEW n, n.sections \in Seq(Texts)
  PROVE  /\ Sections(n) \in Seq(Fields) /\ Len(Sections(n)) = Len(n.sections)
         /\ \A i \in 1 .. Len(n.sections) : Sections(n)[i].name = "section"
         /\ Values(Sections(n), "section") = n.sections
         /\ \A name \in Asked \ {"section"} : Values(Sections(n), name) = <<>>
<1> DEFINE bs == Sections(n)
           k  == Len(n.sections)
<1>1. /\ k \in Nat /\ DOMAIN n.sections = 1 .. k
      /\ \A i \in 1 .. k : n.sections[i] \in Texts
  OBVIOUS
<1>2. \A i \in 1 .. k : /\ Field("section", n.sections[i]) \in Fields
                        /\ Field("section", n.sections[i]).name = "section"
                        /\ Field("section", n.sections[i]).value = n.sections[i]
  BY <1>1, FieldIs DEF Names
<1>3. bs = [i \in 1 .. k |-> Field("section", n.sections[i])]
  BY <1>1 DEF Sections
<1> HIDE DEF bs
<1>4. bs \in [1 .. k -> Fields]
  BY <1>2, <1>3
<1>5. bs \in Seq(Fields) /\ Len(bs) = k /\ DOMAIN bs = 1 .. k
  BY <1>1, <1>4, ListOf
<1>6. \A i \in DOMAIN bs : bs[i].name = "section" /\ bs[i].value = n.sections[i]
  BY <1>2, <1>3, <1>5
<1>7. /\ Values(bs, "section") \in Seq(Texts) /\ Len(Values(bs, "section")) = k
      /\ \A i \in 1 .. k : Values(bs, "section")[i] = bs[i].value
  BY <1>5, <1>6, ValuesAll
<1>8. Values(bs, "section") = n.sections
  <2>1. \A i \in 1 .. k : Values(bs, "section")[i] = n.sections[i]
    BY <1>5, <1>6, <1>7
  <2> QED BY <1>7, <2>1, SeqEqual
<1>9. \A name \in Asked \ {"section"} : Values(bs, name) = <<>>
  BY <1>5, <1>6, ValuesNone
<1> QED BY <1>5, <1>6, <1>8, <1>9 DEF bs

LEMMA BeforeSays ==
  ASSUME NEW n, n.previous \in Statuses \cup {None}
  PROVE  /\ Before(n) \in Seq(Fields)
         /\ Values(Before(n), "previous")
              = IF n.previous = None THEN <<>> ELSE << n.previous >>
         /\ \A name \in Asked \ {"previous"} : Values(Before(n), name) = <<>>
<1> DEFINE f == Field("previous", n.previous)
<1>1. f \in Fields /\ f.name = "previous" /\ f.value = n.previous
  BY FieldIs DEF Names, Texts, None
<1> HIDE DEF f
<1>2. /\ << f >> \in Seq(Fields)
      /\ \A name : Values(<< f >>, name) = ValueOf(f, name)
  BY <1>1, ValuesOne
<1>3. /\ <<>> \in Seq(Fields)
      /\ \A name : Values(<<>>, name) = <<>>
  <2>1. <<>> \in Seq(Fields) /\ \A i \in DOMAIN <<>> : FALSE
    BY EmptySeq
  <2> QED BY <2>1, ValuesNone
<1>4. Before(n) = IF n.previous = None THEN <<>> ELSE << f >>
  BY DEF Before, f, None, NoStatus
<1>5. /\ ValueOf(f, "previous") = << n.previous >>
      /\ \A name \in Asked \ {"previous"} : ValueOf(f, name) = <<>>
  BY <1>1 DEF ValueOf
<1> QED BY <1>2, <1>3, <1>4, <1>5

(* What a message says under a name is what its three parts say, whatever  *)
(* the layout (sendDiscord, sendSlack, sendTeams).                         *)
Parts(n, name) ==
  Values(Before(n), name) \o (Values(Listed(n.findings), name) \o Values(Sections(n), name))

LEMMA EmbedSays ==
  ASSUME NEW n, n.findings \in Notified, n.sections \in Seq(Texts),
         n.previous \in Statuses \cup {None}
  PROVE  \A channel \in {"discord", "slack"} :
           /\ Seen(channel, n).title = embedStyle(n)
           /\ \A name : Values(Seen(channel, n).blocks, name) = Parts(n, name)
<1> DEFINE b == Before(n)
           l == Listed(n.findings)
           s == Sections(n)
<1>1. b \in Seq(Fields) /\ l \in Seq(Fields) /\ s \in Seq(Fields)
  BY BeforeSays, ListedSays, SectionsSay
<1>2. ASSUME NEW channel \in {"discord", "slack"}
      PROVE  Seen(channel, n) = [title |-> embedStyle(n), blocks |-> b \o (l \o s)]
  BY DEF Seen, sendDiscord, sendSlack
<1> HIDE DEF b, l, s
<1>3. l \o s \in Seq(Fields)
  BY <1>1, ConcatProperties
<1>4. ASSUME NEW name
      PROVE  Values(b \o (l \o s), name)
               = Values(b, name) \o (Values(l, name) \o Values(s, name))
  <2>1. Values(b \o (l \o s), name) = Values(b, name) \o Values(l \o s, name)
    <3> DEFINE w == l \o s
    <3>1. b \in Seq(Fields) /\ w \in Seq(Fields)
      BY <1>1, <1>3
    <3> HIDE DEF w
    <3>2. Values(b \o w, name) = Values(b, name) \o Values(w, name)
      BY ONLY <3>1, ValuesConcat
    <3> QED BY <3>2 DEF w
  <2>2. Values(l \o s, name) = Values(l, name) \o Values(s, name)
    BY <1>1, ValuesConcat
  <2> QED BY <2>1, <2>2
<1>5. ASSUME NEW channel \in {"discord", "slack"}
      PROVE  /\ Seen(channel, n).title = embedStyle(n)
             /\ \A name : Values(Seen(channel, n).blocks, name) = Parts(n, name)
  <2>1. /\ Seen(channel, n).title = embedStyle(n)
        /\ Seen(channel, n).blocks = b \o (l \o s)
    BY <1>2
  <2>2. \A name : Parts(n, name) = Values(b, name) \o (Values(l, name) \o Values(s, name))
    BY DEF Parts, b, l, s
  <2> QED BY <1>4, <2>1, <2>2
<1> QED BY <1>5

(* A Teams card, whose title and summary stand before everything else.     *)
CardOf(f) == IF f.name = "finding" THEN << f, Field("detail", "") >> ELSE << f >>

FindingCards(n) == [i \in DOMAIN Listed(n.findings) |-> CardOf(Listed(n.findings)[i])]

SectionCards(n) == [i \in DOMAIN Sections(n) |-> << Sections(n)[i], Field("lines", "") >>]

LEMMA TwoSay ==
  ASSUME NEW f \in Fields, NEW g \in Fields, NEW name, g.name # name
  PROVE  << f, g >> \in Seq(Fields) /\ Values(<< f, g >>, name) = ValueOf(f, name)
<1>1. /\ << f >> \in Seq(Fields) /\ << g >> \in Seq(Fields) /\ << f, g >> \in Seq(Fields)
      /\ << f, g >> = << f >> \o << g >>
  <2>1. << f >> \in Seq(Fields) /\ << g >> \in Seq(Fields) /\ << f, g >> \in Seq(Fields)
    OBVIOUS
  <2>2. /\ Len(<< f >>) = 1 /\ Len(<< g >>) = 1 /\ Len(<< f, g >>) = 2
        /\ << f >>[1] = f /\ << g >>[1] = g /\ << f, g >>[1] = f /\ << f, g >>[2] = g
    OBVIOUS
  <2>3. /\ << f >> \o << g >> \in Seq(Fields) /\ Len(<< f >> \o << g >>) = 2
        /\ (<< f >> \o << g >>)[1] = f /\ (<< f >> \o << g >>)[2] = g
    BY <2>1, <2>2, ConcatProperties
  <2>4. \A i \in 1 .. 2 : << f, g >>[i] = (<< f >> \o << g >>)[i]
    <3>1. \A i \in 1 .. 2 : i = 1 \/ i = 2
      OBVIOUS
    <3> QED BY <2>2, <2>3, <3>1
  <2> QED BY <2>1, <2>2, <2>3, <2>4, SeqEqual
<1>2. Values(<< f >>, name) = ValueOf(f, name) /\ Values(<< g >>, name) = ValueOf(g, name)
  BY ValuesOne
<1>3. ValueOf(g, name) = <<>>
  BY DEF ValueOf
<1>4. Values(<< f >> \o << g >>, name) = Values(<< f >>, name) \o Values(<< g >>, name)
  BY <1>1, ValuesConcat
<1>5. ValueOf(f, name) \in Seq(Texts)
  BY ValueType
<1>6. ValueOf(f, name) \o <<>> = ValueOf(f, name)
  BY <1>5, ConcatEmptySeq
<1> QED BY <1>1, <1>2, <1>3, <1>4, <1>6

LEMMA CardsShow ==
  ASSUME NEW bs \in Seq(Fields), NEW rest \in Fields, rest.name \notin Asked,
         NEW cards \in [DOMAIN bs -> Seq(Fields)],
         \A i \in DOMAIN bs : cards[i] = << bs[i], rest >> \/ cards[i] = << bs[i] >>
  PROVE  /\ FlattenSeq(cards) \in Seq(Fields)
         /\ \A name \in Asked : Values(FlattenSeq(cards), name) = Values(bs, name)
<1>1. /\ Len(bs) \in Nat /\ DOMAIN bs = 1 .. Len(bs)
      /\ \A i \in 1 .. Len(bs) : bs[i] \in Fields
  OBVIOUS
<1>2. \A i \in 1 .. Len(bs) : cards[i] = << bs[i], rest >> \/ cards[i] = << bs[i] >>
  BY <1>1
<1>3. \A f \in Fields : \A name \in Asked :
        /\ << f, rest >> \in Seq(Fields) /\ Values(<< f, rest >>, name) = ValueOf(f, name)
        /\ << f >> \in Seq(Fields) /\ Values(<< f >>, name) = ValueOf(f, name)
  BY TwoSay, ValuesOne
<1>4. \A i \in 1 .. Len(bs) :
        cards[i] \in Seq(Fields) /\ \A name \in Asked : Values(cards[i], name) = ValueOf(bs[i], name)
  BY <1>1, <1>2, <1>3
<1>5. cards \in [1 .. Len(bs) -> Seq(Fields)]
  BY <1>1, <1>4
<1>6. cards \in Seq(Seq(Fields)) /\ Len(cards) = Len(bs)
  BY <1>1, <1>5, ListOf
<1>7. FlattenSeq(cards) \in Seq(Fields)
  BY <1>6, FlattenAppend, EmptySeq
<1>8. \A name \in Asked : Values(FlattenSeq(cards), name) = Values(bs, name)
  BY <1>4, <1>6, CardsSay
<1> QED BY <1>7, <1>8

LEMMA TailAfter ==
  ASSUME NEW S, NEW s \in Seq(S), s # <<>>, NEW t \in Seq(S)
  PROVE  /\ (s \o t)[1] = s[1] /\ s \o t \in Seq(S) /\ s \o t # <<>>
         /\ Tail(s \o t) = Tail(s) \o t
<1> DEFINE both == s \o t
<1>1. /\ both \in Seq(S) /\ Len(both) = Len(s) + Len(t)
      /\ \A i \in 1 .. Len(s) + Len(t) :
           both[i] = IF i <= Len(s) THEN s[i] ELSE t[i - Len(s)]
  BY ConcatProperties
<1>2. Len(s) \in Nat \ {0} /\ Len(t) \in Nat
  BY EmptySeq
<1> HIDE DEF both
<1>3. both # <<>> /\ both[1] = s[1]
  BY <1>1, <1>2
<1>4. /\ Tail(both) \in Seq(S) /\ Len(Tail(both)) = Len(s) - 1 + Len(t)
      /\ \A i \in 1 .. Len(s) - 1 + Len(t) : Tail(both)[i] = both[i + 1]
  BY <1>1, <1>2, <1>3, HeadTailProperties
<1>5. /\ Tail(s) \in Seq(S) /\ Len(Tail(s)) = Len(s) - 1
      /\ \A i \in 1 .. Len(s) - 1 : Tail(s)[i] = s[i + 1]
  BY HeadTailProperties
<1> DEFINE last1 == Tail(s)
           other == last1 \o t
<1> HIDE DEF last1
<1>6. /\ other \in Seq(S) /\ Len(other) = Len(last1) + Len(t)
      /\ \A i \in 1 .. Len(last1) + Len(t) :
           other[i] = IF i <= Len(last1) THEN last1[i] ELSE t[i - Len(last1)]
  <2>1. last1 \in Seq(S)
    BY <1>5 DEF last1
  <2> QED BY <2>1, ConcatProperties
<1> HIDE DEF other
<1>7. Len(last1) = Len(s) - 1 /\ \A i \in 1 .. Len(s) - 1 : last1[i] = s[i + 1]
  BY <1>5 DEF last1
<1>8. ASSUME NEW i \in 1 .. Len(s) - 1 + Len(t)
      PROVE  Tail(both)[i] = other[i]
  <2>1. /\ Tail(both)[i] = both[i + 1]
        /\ both[i + 1] = IF i + 1 <= Len(s) THEN s[i + 1] ELSE t[i + 1 - Len(s)]
    BY <1>1, <1>2, <1>4
  <2>2. other[i] = IF i <= Len(s) - 1 THEN last1[i] ELSE t[i - (Len(s) - 1)]
    BY <1>2, <1>6, <1>7
  <2>3. CASE i <= Len(s) - 1
    <3>1. i \in 1 .. Len(s) - 1 /\ i + 1 <= Len(s)
      BY <1>2, <2>3
    <3>2. last1[i] = s[i + 1]
      BY <1>7, <3>1
    <3> QED BY <2>1, <2>2, <2>3, <3>1, <3>2
  <2>4. CASE ~ (i <= Len(s) - 1)
    <3>1. i + 1 - Len(s) = i - (Len(s) - 1) /\ ~ (i + 1 <= Len(s))
      BY <1>2, <2>4
    <3> QED BY <2>1, <2>2, <2>4, <3>1
  <2> QED BY <2>3, <2>4
<1>9. Tail(both) = other
  BY <1>2, <1>4, <1>6, <1>7, <1>8, SeqEqual
<1> QED BY <1>1, <1>3, <1>9 DEF both, other, last1

LEMMA TeamsSays ==
  ASSUME NEW n, n.findings \in Notified, n.sections \in Seq(Texts),
         n.previous \in Statuses \cup {None}
  PROVE  /\ Seen("teams", n).title = embedStyle(n)
         /\ \A name \in Asked : Values(Seen("teams", n).blocks, name) = Parts(n, name)
<1> DEFINE head == Field("title", embedStyle(n))
           under == Field("summary", "")
           Block == Fields \cup {head}
           b == Before(n)
           l == Listed(n.findings)
           s == Sections(n)
           lc == FlattenSeq(FindingCards(n))
           sc == FlattenSeq(SectionCards(n))
           only == << under >>
           start == << head, under >>
<1>1. b \in Seq(Fields) /\ l \in Seq(Fields) /\ s \in Seq(Fields)
  BY BeforeSays, ListedSays, SectionsSay
<1>2. under \in Fields /\ under.name = "summary"
  BY FieldIs DEF Names, Texts
<1>3. head.value = embedStyle(n)
  BY DEF Field
<1>4. sendTeams(n) = ((start \o b) \o lc) \o sc
  BY DEF sendTeams, FindingCards, SectionCards, CardOf
<1>5. lc \in Seq(Fields) /\ \A name \in Asked : Values(lc, name) = Values(l, name)
  <2> DEFINE rest == Field("detail", "")
  <2>1. rest \in Fields /\ rest.name \notin Asked
    BY FieldIs DEF Names, Texts, Asked
  <2> HIDE DEF rest, l
  <2>2. \A f \in Fields : << f, rest >> \in Seq(Fields) /\ << f >> \in Seq(Fields)
    BY <2>1
  <2>3. FindingCards(n) = [i \in DOMAIN l |->
                             IF l[i].name = "finding" THEN << l[i], rest >> ELSE << l[i] >>]
    BY DEF FindingCards, CardOf, rest, l
  <2>4. \A i \in DOMAIN l : l[i] \in Fields
    BY <1>1
  <2>5. /\ FindingCards(n) \in [DOMAIN l -> Seq(Fields)]
        /\ \A i \in DOMAIN l : \/ FindingCards(n)[i] = << l[i], rest >>
                               \/ FindingCards(n)[i] = << l[i] >>
    BY <2>2, <2>3, <2>4
  <2> QED BY <1>1, <2>1, <2>5, CardsShow
<1>6. sc \in Seq(Fields) /\ \A name \in Asked : Values(sc, name) = Values(s, name)
  <2> DEFINE rest == Field("lines", "")
  <2>1. rest \in Fields /\ rest.name \notin Asked
    BY FieldIs DEF Names, Texts, Asked
  <2> HIDE DEF rest, s
  <2>2. \A f \in Fields : << f, rest >> \in Seq(Fields)
    BY <2>1
  <2>3. SectionCards(n) = [i \in DOMAIN s |-> << s[i], rest >>]
    BY DEF SectionCards, rest, s
  <2>4. \A i \in DOMAIN s : s[i] \in Fields
    BY <1>1
  <2>5. /\ SectionCards(n) \in [DOMAIN s -> Seq(Fields)]
        /\ \A i \in DOMAIN s : SectionCards(n)[i] = << s[i], rest >>
    BY <2>2, <2>3, <2>4
  <2> QED BY <1>1, <2>1, <2>5, CardsShow
<1> HIDE DEF head, under, b, l, s, lc, sc
<1>7. /\ start \in Seq(Block) /\ start # <<>> /\ start[1] = head /\ Tail(start) = only
      /\ b \in Seq(Block) /\ lc \in Seq(Block) /\ sc \in Seq(Block)
  BY <1>1, <1>2, <1>5, <1>6
<1> HIDE DEF start, Block, only
<1>8. \A x \in Seq(Block), y \in Seq(Block) : x # <<>> =>
        /\ (x \o y)[1] = x[1] /\ x \o y \in Seq(Block) /\ x \o y # <<>>
        /\ Tail(x \o y) = Tail(x) \o y
  BY TailAfter
<1> DEFINE one == start \o b
           two == one \o lc
           oneTail == only \o b
           twoTail == oneTail \o lc
<1>9. one \in Seq(Block) /\ one # <<>> /\ one[1] = head /\ Tail(one) = oneTail
  BY <1>7, <1>8
<1> HIDE DEF one, oneTail
<1>10. two \in Seq(Block) /\ two # <<>> /\ two[1] = head /\ Tail(two) = twoTail
  BY <1>7, <1>9, <1>8
<1> HIDE DEF two, twoTail
<1>11. /\ sendTeams(n)[1] = head
       /\ Tail(sendTeams(n)) = ((only \o b) \o lc) \o sc
  <2>1. (two \o sc)[1] = head /\ Tail(two \o sc) = twoTail \o sc
    BY <1>7, <1>10, <1>8
  <2> QED BY <1>4, <2>1 DEF one, two, oneTail, twoTail
<1>12. /\ only \in Seq(Fields) /\ only \o b \in Seq(Fields)
       /\ (only \o b) \o lc \in Seq(Fields)
  BY <1>1, <1>2, <1>5 DEF only
<1>13. ASSUME NEW name \in Asked
       PROVE  Values(Tail(sendTeams(n)), name) = Parts(n, name)
  <2> DEFINE v(bs) == Values(bs, name)
  <2>1. v(only) = <<>>
    BY <1>2, ValuesOne DEF ValueOf, Asked, only
  <2>2. v(b) \in Seq(Texts) /\ v(l) \in Seq(Texts) /\ v(s) \in Seq(Texts)
    BY <1>1, ValueLists
  <2>3. v(only \o b) = v(only) \o v(b)
    <3>1. \A x \in Seq(Fields), y \in Seq(Fields) : v(x \o y) = v(x) \o v(y)
      BY ValuesConcat
    <3> QED BY ONLY <1>1, <1>12, <3>1
  <2>4. v((only \o b) \o lc) = v(only \o b) \o v(lc)
    BY <1>5, <1>12, ValuesConcat
  <2>5. v(((only \o b) \o lc) \o sc) = v((only \o b) \o lc) \o v(sc)
    BY <1>6, <1>12, ValuesConcat
  <2>6. v(lc) = v(l) /\ v(sc) = v(s)
    BY <1>5, <1>6
  <2>7. Parts(n, name) = v(b) \o (v(l) \o v(s))
    BY DEF Parts, b, l, s
  <2> HIDE DEF v
  <2>8. v(Tail(sendTeams(n))) = (v(b) \o v(l)) \o v(s)
    BY <1>11, <2>1, <2>2, <2>3, <2>4, <2>5, <2>6, ConcatEmptySeq
  <2>9. (v(b) \o v(l)) \o v(s) = v(b) \o (v(l) \o v(s))
    <3>1. Associative(Seq(Texts))
      BY Regroup
    <3> QED BY <2>2, <3>1 DEF Associative
  <2> QED BY <2>7, <2>8, <2>9 DEF v
<1>14. /\ Seen("teams", n).title = sendTeams(n)[1].value
       /\ Seen("teams", n).blocks = Tail(sendTeams(n))
  BY DEF Seen
<1> QED BY <1>3, <1>11, <1>13, <1>14

-----------------------------------------------------------------------------
(* A notification whose findings are no worse than it says is honest in    *)
(* every layout.                                                           *)
LEMMA SeenSays ==
  ASSUME NEW channel \in {"discord", "slack", "teams"}, NEW n,
         n.findings \in Notified, n.sections \in Seq(Texts),
         n.previous \in Statuses \cup {None}
  PROVE  /\ Seen(channel, n).title = embedStyle(n)
         /\ \A name \in Asked : Values(Seen(channel, n).blocks, name) = Parts(n, name)
<1>1. CASE channel \in {"discord", "slack"}
  BY <1>1, EmbedSays
<1>2. CASE channel = "teams"
  BY <1>2, TeamsSays
<1> QED BY <1>1, <1>2

LEMMA PartsSay ==
  ASSUME NEW n, n.findings \in Notified, n.sections \in Seq(Texts),
         n.previous \in Statuses \cup {None}
  PROVE  /\ Parts(n, "finding") = Values(Listed(n.findings), "finding")
         /\ Parts(n, "more") = Values(Listed(n.findings), "more")
         /\ Parts(n, "previous") = Values(Before(n), "previous")
         /\ Parts(n, "section") = n.sections
<1>1. /\ Values(Listed(n.findings), "previous") = <<>>
      /\ Values(Listed(n.findings), "section") = <<>>
      /\ Listed(n.findings) \in Seq(Fields)
  BY ListedSays
<1>2. /\ Values(Sections(n), "section") = n.sections /\ Sections(n) \in Seq(Fields)
      /\ \A name \in Asked \ {"section"} : Values(Sections(n), name) = <<>>
  BY SectionsSay
<1>3. /\ \A name \in Asked \ {"previous"} : Values(Before(n), name) = <<>>
      /\ Before(n) \in Seq(Fields)
  BY BeforeSays
<1>4. \A name : /\ Values(Before(n), name) \in Seq(Texts)
                /\ Values(Listed(n.findings), name) \in Seq(Texts)
                /\ Values(Sections(n), name) \in Seq(Texts)
  BY <1>1, <1>2, <1>3, ValueLists
<1>5. \A t \in Seq(Texts) : /\ <<>> \o (t \o <<>>) = t /\ <<>> \o (<<>> \o t) = t
                            /\ t \o (<<>> \o <<>>) = t
  BY EmptySeq, ConcatEmptySeq
<1>6. \A name \in {"finding", "more"} : Parts(n, name) = Values(Listed(n.findings), name)
  <2>1. \A name \in {"finding", "more"} :
          Values(Before(n), name) = <<>> /\ Values(Sections(n), name) = <<>>
    BY <1>2, <1>3 DEF Asked
  <2> QED BY <1>4, <1>5, <2>1 DEF Parts
<1>7. Parts(n, "previous") = Values(Before(n), "previous")
  <2>1. Values(Sections(n), "previous") = <<>>
    BY <1>2 DEF Asked
  <2> QED BY <1>1, <1>4, <1>5, <2>1 DEF Parts
<1>8. Parts(n, "section") = n.sections
  <2>1. Values(Before(n), "section") = <<>>
    BY <1>3 DEF Asked
  <2> QED BY <1>1, <1>2, <1>4, <1>5, <2>1 DEF Parts
<1> QED BY <1>6, <1>7, <1>8

LEMMA HonestWhenWorst ==
  ASSUME NEW channel \in {"discord", "slack", "teams"}, NEW n,
         n.findings \in Notified, n.sections \in Seq(Texts),
         n.previous \in Statuses \cup {None},
         n.report \in BOOLEAN, n.report => n.previous = None,
         \A i \in DOMAIN n.findings : n.findings[i] \in Severities =>
           severityRank[n.findings[i]] <= severityRank[n.status]
  PROVE  Honest(channel, n)
<1> DEFINE m     == Seen(channel, n)
           shown == Values(m.blocks, "finding")
           more  == Values(m.blocks, "more")
<1>1. m.title = embedStyle(n) /\ \A name \in Asked : Values(m.blocks, name) = Parts(n, name)
  BY SeenSays
<1>2. /\ shown = Values(Listed(n.findings), "finding")
      /\ more = Values(Listed(n.findings), "more")
      /\ Values(m.blocks, "previous") = Values(Before(n), "previous")
      /\ Values(m.blocks, "section") = n.sections
  BY <1>1, PartsSay DEF Asked
<1>3. /\ shown \in Seq(Texts) /\ Len(shown) = Shown(n.findings)
      /\ \A i \in 1 .. Shown(n.findings) : shown[i] = n.findings[i]
      /\ more = IF Len(n.findings) > MaxShown THEN << Len(n.findings) - MaxShown >> ELSE <<>>
  BY <1>2, ListedSays, ValueLists
<1>4. /\ m.title.test = n.test /\ m.title.status = n.status
      /\ (m.title.about = "report") = n.report
      /\ (m.title.about = "recovery") = (n.status = "healthy" /\ n.previous # None)
  BY <1>1 DEF embedStyle, None, NoStatus
<1>5. Values(m.blocks, "previous") = (IF n.previous = None THEN <<>> ELSE <<n.previous>>)
  BY <1>2, BeforeSays
<1> HIDE DEF m, shown, more
<1>6. /\ Len(n.findings) \in Nat /\ DOMAIN n.findings = 1 .. Len(n.findings)
      /\ Shown(n.findings) \in Nat /\ Shown(n.findings) <= Len(n.findings)
  <2>1. Len(n.findings) \in Nat /\ DOMAIN n.findings = 1 .. Len(n.findings)
    BY DEF Notified
  <2> QED BY <2>1, NotificationsAssumption DEF Shown
<1>7. \A i \in DOMAIN shown : shown[i] \in Severities =>
        severityRank[shown[i]] <= severityRank[m.title.status]
  <2>1. DOMAIN shown = 1 .. Shown(n.findings)
    BY <1>3
  <2>2. \A i \in 1 .. Shown(n.findings) : i \in DOMAIN n.findings
    BY <1>6
  <2> QED BY <1>3, <1>4, <2>1, <2>2
<1>8. Len(shown) + (IF more = <<>> THEN 0 ELSE more[1]) = Len(n.findings)
  <2>1. CASE Len(n.findings) > MaxShown
    <3>1. Len(shown) = MaxShown /\ MaxShown \in Nat
      BY <1>3, <1>6, <2>1, NotificationsAssumption DEF Shown
    <3>2. more # <<>> /\ more[1] = Len(n.findings) - MaxShown
      BY <1>3, <2>1
    <3> QED BY <1>6, <3>1, <3>2
  <2>2. CASE ~ (Len(n.findings) > MaxShown)
    <3>1. Len(shown) = Len(n.findings) /\ more = <<>>
      BY <1>3, <1>6, <2>2, NotificationsAssumption DEF Shown
    <3> QED BY <1>6, <3>1
  <2> QED BY <2>1, <2>2
<1> QED BY <1>2, <1>4, <1>5, <1>7, <1>8 DEF Honest, m, shown, more

(* An alert, a test and a report each say what they are about (Process,    *)
(* SendTest, Reporter.Send; sendDiscord, sendSlack, sendTeams).            *)
THEOREM MessagesAreHonest == ReviewSpec => []MessageHonest
<1>1. ReviewTypeOK /\ LoopInv => MessageHonest
  <2> SUFFICES ASSUME ReviewTypeOK, LoopInv, NEW w \in alert.todo
               PROVE  /\ Honest(w.channel, StatusAlert(alert.status, previous, insight.findings))
                      /\ Honest(w.channel, SendTest)
                      /\ Honest(w.channel, Report(last, <<"reviews", "changes">>))
    BY DEF MessageHonest
  <2>1. w.channel \in {"discord", "slack", "teams"}
    BY ReviewAssumption DEF ReviewTypeOK, TypeOK
  <2>2. <<>> \in Seq(Texts) /\ <<>> \in Notified
    BY EmptySeq DEF Notified
  <2>3. Honest(w.channel, StatusAlert(alert.status, previous, insight.findings))
    <3> DEFINE n == StatusAlert(alert.status, previous, insight.findings)
    <3>1. /\ n.findings = insight.findings /\ n.status = alert.status
          /\ n.sections = <<>> /\ n.previous = previous /\ n.report = FALSE
      BY DEF StatusAlert
    <3>2. insight.findings \in Notified
      BY <2>2, ReviewAssumption DEF ReviewTypeOK, Notified
    <3>3. alert.status = insight.status /\ Worst(insight)
      BY DEF LoopInv, Titled
    <3>4. previous \in Statuses \cup {None}
      BY DEF ReviewTypeOK
    <3> HIDE DEF n
    <3>5. \A i \in DOMAIN n.findings : n.findings[i] \in Severities =>
            severityRank[n.findings[i]] <= severityRank[n.status]
      BY <3>1, <3>3 DEF Worst
    <3>6. Honest(w.channel, n)
      BY <2>1, <2>2, <3>1, <3>2, <3>4, <3>5, HonestWhenWorst
    <3> QED BY <3>6 DEF n
  <2>4. Honest(w.channel, SendTest)
    <3>1. /\ SendTest.findings = <<"warning">> /\ SendTest.status = "warning"
          /\ SendTest.sections = <<>> /\ SendTest.previous = None /\ SendTest.report = FALSE
      BY DEF SendTest, NoStatus, None
    <3>2. <<"warning">> \in Notified
      BY DEF Notified, Severities
    <3>3. severityRank["warning"] = 1
      BY DEF severityRank, Reviews, Statuses
    <3>4. \A i \in DOMAIN SendTest.findings : SendTest.findings[i] \in Severities =>
            severityRank[SendTest.findings[i]] <= severityRank[SendTest.status]
      BY <3>1, <3>3
    <3> QED BY <2>1, <2>2, <3>1, <3>2, <3>4, HonestWhenWorst
  <2>5. Honest(w.channel, Report(last, <<"reviews", "changes">>))
    <3> DEFINE n == Report(last, <<"reviews", "changes">>)
    <3>1. /\ n.findings = <<>> /\ n.sections = <<"reviews", "changes">>
          /\ n.previous = None /\ n.report = TRUE
      BY DEF Report, NoStatus, None
    <3>2. <<"reviews", "changes">> \in Seq(Texts)
      BY DEF Texts
    <3> HIDE DEF n
    <3>3. \A i \in DOMAIN n.findings : FALSE
      BY <3>1
    <3>4. Honest(w.channel, n)
      BY <2>1, <2>2, <3>1, <3>2, <3>3, HonestWhenWorst
    <3> QED BY <3>4 DEF n
  <2> QED BY <2>3, <2>4, <2>5
<1> QED BY <1>1, LoopInvHolds, LoopTyped, PTL
=============================================================================
