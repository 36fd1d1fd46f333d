------------------------------- MODULE Review -------------------------------
(***************************************************************************)
(* A review from the model's answer to the channels: Monitor.reviewOnce    *)
(* and review (internal/agent/monitor.go), parseInsight (insight.go), and  *)
(* around Alerts.tla what Dispatcher.Process is given and what it sends.   *)
(* One goroutine does all of it; when it starts is in AgentSettings.tla,   *)
(* where the insights go in InsightStore.tla.                              *)
(***************************************************************************)
EXTENDS Alerts, Notifications

CONSTANT Lists      (* bound: the findings a model may list, as sequences   *)
                    (* of severities                                        *)

ASSUME ReviewAssumption ==
  /\ \A w \in Webhooks : w.channel \in {"discord", "slack", "teams"}
  /\ Lists \subseteq Seq(Severities \cup {"info"})

VARIABLES
  pc,       (* what the loop does: wait, hand the review on, deliver        *)
  insight,  (* the review it is about                                       *)
  previous, (* the status before it, as Process read it                     *)
  latest    (* the status on the page, of the newest review in the store    *)

loop  == <<pc, insight, previous, latest>>
all   == <<vars, loop>>

NoInsight == [status |-> None, findings |-> <<>>]

ReviewTypeOK ==
  /\ TypeOK
  /\ pc \in {"wait", "process", "deliver"}
  /\ insight \in [status : Reviews \cup {None}, findings : Lists \cup {<<>>}]
  /\ previous \in Statuses \cup {None}
  /\ latest \in Reviews \cup {None}

ReviewInit ==
  /\ Init
  /\ pc = "wait" /\ insight = NoInsight /\ previous = None
  /\ latest \in Reviews \cup {None}

-----------------------------------------------------------------------------
escalateNever(status, findings) == status                           (* mutant *)

(* The findings are the ground truth: the status is never better than the  *)
(* worst of them.                                                          *)
escalate(status, findings) ==
  LET worse == {s \in Severities :
                  /\ \E i \in DOMAIN findings : findings[i] = s
                  /\ severityRank[s] > severityRank[status]}
  IN IF worse = {} THEN status
     ELSE CHOOSE s \in worse : \A t \in worse : severityRank[t] <= severityRank[s]

(* What the model may answer; "unreadable" is an answer without an object, *)
(* with a broken one, with an unknown status or without a summary.         *)
Answers == [status : Statuses \cup {"unreadable"}, findings : Lists]

Failure == [status |-> "error", findings |-> <<>>]

parseInsight(answer) ==
  IF answer.status = "unreadable" THEN Failure
  ELSE [status |-> escalate(answer.status, answer.findings), findings |-> answer.findings]

(* review: the lists of the snapshot or the call of the model may fail,    *)
(* and a metrics query that fails is only a note to the model. The insight *)
(* is in the store, and on the page, before the Dispatcher hears of it.    *)
Add(found) ==
  /\ pc = "wait"
  /\ insight' = found
  /\ latest' = found.status
  /\ pc' = "process"
  /\ UNCHANGED <<vars, previous>>

reviewOnce == Add(Failure) \/ \E a \in Answers : Add(parseInsight(a))

-----------------------------------------------------------------------------
ProcessAsync ==                                                     (* mutant *)
  /\ pc = "process"
  /\ \/ /\ insight.status = "error"
        /\ UNCHANGED <<vars, previous>>
     \/ /\ Process(insight.status)
        /\ previous' = last
  /\ pc' = "wait"
  /\ UNCHANGED <<insight, latest>>

(* Process, which returns at once when the review failed.                  *)
ProcessReview ==
  /\ pc = "process"
  /\ \/ /\ insight.status = "error"
        /\ UNCHANGED <<vars, previous>>
     \/ /\ Process(insight.status)
        /\ previous' = last
  /\ pc' = "deliver"
  /\ UNCHANGED <<insight, latest>>

(* deliver, one webhook after the other.                                   *)
DeliverNext == Deliver /\ UNCHANGED loop

ReturnAfterAlert ==                                                 (* mutant *)
  /\ pc = "deliver" /\ alert.todo = {} /\ alert.status # None
  /\ pc' = "wait" /\ insight' = NoInsight /\ previous' = None
  /\ UNCHANGED <<vars, latest>>

(* All webhooks were tried, or none was to be told; the next review may    *)
(* start.                                                                  *)
Return ==
  /\ pc = "deliver" /\ alert.todo = {}
  /\ pc' = "wait" /\ insight' = NoInsight /\ previous' = None
  /\ UNCHANGED <<vars, latest>>

-----------------------------------------------------------------------------
Settle == \E new \in Saves : Configure(new) /\ UNCHANGED loop

(* The pod is replaced: what is on the page then is up to the table.       *)
Crash ==
  /\ Restart
  /\ pc' = "wait" /\ insight' = NoInsight /\ previous' = None
  /\ latest' \in Reviews \cup {None}

ReviewNext ==
  \/ Settle \/ Crash
  \/ reviewOnce \/ ProcessReview \/ DeliverNext \/ Return

(* Each send has a deadline of 15 seconds.                                 *)
ReviewSpec ==
  /\ ReviewInit /\ [][ReviewNext]_all
  /\ WF_all(ProcessReview \/ DeliverNext \/ Return)

-----------------------------------------------------------------------------
(* Between reviews a webhook that nothing was withheld from and the page   *)
(* say the same: where either reaches the threshold, the webhook was last  *)
(* told the status the page shows, unless that is a review that failed.    *)
(* It takes the order of reviewOnce, and that Process delivers before the  *)
(* next review may start.                                                  *)
PageAgrees ==
  pc = "wait" /\ latest \in Statuses =>
    \A w \in synced :
      AboveThreshold(latest) \/ AboveThreshold(told[w]) => told[w] = latest

(* A message says what it is about: its title is that of an alert, a       *)
(* recovery, a test or a report and no other, no finding it shows is worse *)
(* than its title, and the findings it shows and counts are all there are. *)
(* It is what escalate and the cut after five findings are for             *)
(* (insight.go, sendDiscord, sendSlack, sendTeams).                        *)
Honest(channel, n) ==
  LET m     == Seen(channel, n)
      shown == Values(m.blocks, "finding")
      more  == Values(m.blocks, "more")
  IN /\ m.title.test = n.test /\ m.title.status = n.status
     /\ (m.title.about = "report") = n.report
     /\ (m.title.about = "recovery") = (n.status = "healthy" /\ n.previous # None)
     /\ Values(m.blocks, "previous") = (IF n.previous = None THEN <<>> ELSE <<n.previous>>)
     /\ Values(m.blocks, "section") = n.sections
     /\ \A i \in DOMAIN shown : shown[i] \in Severities =>
          severityRank[shown[i]] <= severityRank[m.title.status]
     /\ Len(shown) + (IF more = <<>> THEN 0 ELSE more[1]) = Len(n.findings)

MessageHonest ==
  \A w \in alert.todo :
    /\ Honest(w.channel, StatusAlert(alert.status, previous, insight.findings))
    /\ Honest(w.channel, SendTest)
    /\ Honest(w.channel, Report(last, <<"reviews", "changes">>))

(* No webhook, broken or slow, holds the review loop for good.             *)
ReviewsGoOn == pc # "wait" ~> pc = "wait"
=============================================================================
