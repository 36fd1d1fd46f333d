---------------------------- MODULE DailyReport -----------------------------
(***************************************************************************)
(* The daily report (internal/agent/report.go) over the store of reviews:  *)
(* a ticker looks once a minute whether the minute of the schedule has     *)
(* come, and sends one digest of the last 24 hours per UTC day. The day    *)
(* last sent is kept in memory.                                            *)
(***************************************************************************)
EXTENDS InsightStore

CONSTANTS
  Minute,     (* instants in a minute                                       *)
  Horizon     (* bound: the clock stops there                               *)

ASSUME ReportAssumption ==
  /\ Minute \in Nat /\ Minute >= Second /\ Minute % Second = 0
  /\ Day >= Minute /\ Day % Minute = 0
  /\ Horizon \in Nat

VARIABLES
  schedule,   (* ReportEnabled and ReportTime                               *)
  ticked,     (* the minute of the last tick, or of the start               *)
  lastSent,   (* Reporter.lastSent; -1 is the empty string                  *)
  sends,      (* history: scheduled reports of this day in this life        *)
  steady      (* history: neither restarted nor rescheduled since midnight  *)

reporterVars == <<schedule, ticked, lastSent, sends, steady>>
vars == <<now, storeVars, reporterVars>>

MinuteOf(t) == t \div Minute
DayOf(t)    == t \div Day
Schedules   == [enabled : BOOLEAN, minute : 0 .. (Day \div Minute) - 1]

TypeOK ==
  /\ StoreTypeOK
  /\ schedule \in Schedules
  /\ ticked \in Nat
  /\ lastSent \in Nat \cup {-1}
  /\ sends \in Nat
  /\ steady \in BOOLEAN

Init ==
  /\ StoreInit
  /\ schedule \in Schedules
  /\ ticked = MinuteOf(now)
  /\ lastSent = -1
  /\ sends = 0
  /\ steady = FALSE

-----------------------------------------------------------------------------
(* Time passes. The reporter keeps up with its ticker: three channels with *)
(* 15 seconds each delay it by less than a minute.                         *)
Advance ==
  /\ now < Horizon
  /\ MinuteOf(now + 1) # MinuteOf(now) => ticked = MinuteOf(now)
  /\ now' = now + 1
  /\ IF DayOf(now') # DayOf(now)
     THEN sends' = 0 /\ steady' = TRUE
     ELSE UNCHANGED <<sends, steady>>
  /\ UNCHANGED <<storeVars, schedule, ticked, lastSent>>

(* The pod is replaced. The new ticker first ticks a minute after.         *)
Restart ==
  /\ Reopen
  /\ ticked' = MinuteOf(now)
  /\ lastSent' = -1
  /\ sends' = 0
  /\ steady' = FALSE
  /\ UNCHANGED schedule

Reschedule(new) ==
  /\ schedule' = new
  /\ steady' = FALSE
  /\ UNCHANGED <<now, storeVars, ticked, lastSent, sends>>

DueAnyDay ==                                                        (* mutant *)
  /\ schedule.enabled
  /\ MinuteOf(now % Day) = schedule.minute

DueOnce ==                                                          (* mutant *)
  /\ schedule.enabled
  /\ MinuteOf(now % Day) = schedule.minute
  /\ lastSent = -1

Due ==
  /\ schedule.enabled
  /\ MinuteOf(now % Day) = schedule.minute
  /\ lastSent # DayOf(now)

(* build: the digest counts the reviews of the last 24 hours.              *)
Counted == Timeline(Day)

(* A tick. The day is marked as sent, then Send builds the digest and      *)
(* delivers it; a failure of the delivery is only logged.                  *)
Tick ==
  /\ ticked # MinuteOf(now)
  /\ ticked' = MinuteOf(now)
  /\ IF Due
     THEN /\ lastSent' = DayOf(now)
          /\ sends' = sends + 1
     ELSE UNCHANGED <<lastSent, sends>>
  /\ UNCHANGED <<now, storeVars, schedule, steady>>

Next ==
  \/ StoreNext /\ UNCHANGED reporterVars
  \/ Advance
  \/ Restart
  \/ \E new \in Schedules : Reschedule(new)
  \/ Tick

Spec == Init /\ [][Next]_vars

-----------------------------------------------------------------------------
(* docs/ai-agent.md:234, within the life of one pod: at most one scheduled *)
(* report per UTC day, however the send time is moved (Reporter.Run).      *)
OneReportPerDay == sends <= 1

(* docs/ai-agent.md:234, no day is skipped: a pod that lived through it    *)
(* with the report on and its time unchanged has tried to send it, at its  *)
(* minute, so no tick of that minute is lost (Reporter.Run).               *)
NoDaySkipped ==
  [][DayOf(now') # DayOf(now) /\ steady /\ schedule.enabled
       => sends = 1]_vars

(* The digest counts every stored review of its 24 hours (give or take the *)
(* second at the far end), whatever the ring has dropped, retention was    *)
(* set to and rows have been pruned: build, Timeline, Add.                 *)
ReportCountsDay ==
  [][sends' > sends /\ db
       => \A t \in inserted :
            SecondOf(t) > SecondOf(now - Day) => t \in Counted]_vars
=============================================================================
