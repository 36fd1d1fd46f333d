------------------------- MODULE DailyReport_proofs -------------------------
(***************************************************************************)
(* Proofs about the daily report: at most one a day, no day skipped, every *)
(* review of the day counted, for any ring, retention and length of a day. *)
(***************************************************************************)
EXTENDS DailyReport, FiniteSetTheorems, Lists_proofs

MinutesPerDay == Day \div Minute

-----------------------------------------------------------------------------
(* Division, as the clock needs it.                                        *)
LEMMA Division ==
  ASSUME NEW a \in Int, NEW b \in Nat \ {0}
  PROVE  /\ a \div b \in Int /\ a % b \in 0 .. b - 1
         /\ a = b * (a \div b) + (a % b)
  OBVIOUS

(* The quotient is the only one that leaves such a remainder.              *)
LEMMA Quotient ==
  ASSUME NEW a \in Int, NEW b \in Nat \ {0}, NEW q \in Int, NEW r \in 0 .. b - 1,
         a = b * q + r
  PROVE  a \div b = q /\ a % b = r
  OBVIOUS

LEMMA DivisionMonotone ==
  ASSUME NEW a \in Int, NEW c \in Int, a <= c, NEW b \in Nat \ {0}
  PROVE  a \div b <= c \div b
  OBVIOUS

(* The quotient is bounded as the dividend is.                             *)
LEMMA QuotientBounds ==
  ASSUME NEW b \in Nat \ {0}, NEW q \in Int, NEW r \in 0 .. b - 1,
         NEW d \in Int
  PROVE  /\ b * q + r >= 0 => q >= 0
         /\ b * q + r < b * d => q < d
<1>1. ASSUME b * q + r >= 0, q < 0 PROVE FALSE
  <2>1. b * q <= b * (-1)
    BY <1>1
  <2> QED BY <1>1, <2>1
<1>2. ASSUME b * q + r < b * d, ~ (q < d) PROVE FALSE
  <2>1. b * q >= b * d
    BY <1>2
  <2> QED BY <1>2, <2>1
<1> QED BY <1>1, <1>2

LEMMA TimesAssociative ==
  ASSUME NEW a \in Int, NEW b \in Int, NEW c \in Int
  PROVE  (a * b) * c = a * (b * c)
  OBVIOUS

LEMMA Distributive ==
  ASSUME NEW a \in Int, NEW b \in Int, NEW c \in Int
  PROVE  a * (b + c) = a * b + a * c
  OBVIOUS

(* The next instant is in the same unit or in the one after.               *)
LEMMA NextUnit ==
  ASSUME NEW a \in Int, NEW b \in Nat \ {0}
  PROVE  (a + 1) \div b \in {a \div b, a \div b + 1}
  OBVIOUS

(* A day is a whole number of minutes: the minute of the instant is the    *)
(* first minute of its day and the minute within the day.                  *)
LEMMA MinutesOfDay ==
  ASSUME NEW t \in Nat
  PROVE  /\ MinuteOf(t) \in Nat /\ DayOf(t) \in Nat
         /\ MinutesPerDay \in Nat \ {0} /\ MinutesPerDay * DayOf(t) \in Nat
         /\ MinuteOf(t) = MinutesPerDay * DayOf(t) + MinuteOf(t % Day)
         /\ MinuteOf(t % Day) \in 0 .. MinutesPerDay - 1
<1> DEFINE D == MinutesPerDay
           q == DayOf(t)
           r == t % Day
<1>1. /\ Minute \in Nat \ {0} /\ Day \in Nat \ {0}
      /\ D \in Int /\ Day = Minute * D
  <2>1. Minute \in Nat \ {0} /\ Day \in Nat \ {0} /\ Day % Minute = 0
    BY StoreAssumption, ReportAssumption
  <2>2. Day = Minute * (Day \div Minute) + (Day % Minute)
        /\ Day \div Minute \in Int
    BY <2>1, Division
  <2> QED BY <2>1, <2>2 DEF MinutesPerDay
<1>2. D > 0
  BY <1>1
<1>3. q \in Int /\ r \in 0 .. Day - 1 /\ t = Day * q + r
  <2>1. Day \in Nat \ {0} /\ t \in Int
    BY <1>1
  <2>2. /\ t \div Day \in Int /\ t % Day \in 0 .. Day - 1
        /\ t = Day * (t \div Day) + (t % Day)
    BY <2>1, Division
  <2> QED BY <2>2 DEF DayOf
<1> HIDE DEF D, q, r
<1>4. q >= 0
  <2>1. Day * q + r >= 0
    BY <1>3
  <2> QED BY <1>1, <1>3, <2>1, QuotientBounds
<1>5. /\ r \div Minute \in Int /\ r % Minute \in 0 .. Minute - 1
      /\ r = Minute * (r \div Minute) + (r % Minute)
  BY <1>1, <1>3, Division
<1>6. r \div Minute >= 0 /\ r \div Minute < D
  <2> DEFINE x == r \div Minute
             y == r % Minute
  <2> HIDE DEF x, y
  <2>1. /\ x \in Int /\ y \in 0 .. Minute - 1
        /\ Minute * x + y >= 0 /\ Minute * x + y < Minute * D
    BY <1>1, <1>3, <1>5 DEF x, y
  <2>2. x >= 0 /\ x < D
    BY <1>1, <2>1, QuotientBounds
  <2> QED BY <2>2 DEF x
<1>7. t \div Minute = D * q + (r \div Minute)
  <2> DEFINE m == D * q + (r \div Minute)
  <2>1. m \in Int
    BY <1>2, <1>1, <1>3, <1>5 DEF m
  <2>2. t = Minute * m + (r % Minute)
    <3>1. Day * q = Minute * (D * q)
      <4>1. Minute \in Int /\ D \in Int /\ q \in Int
        BY <1>1, <1>3
      <4>2. (Minute * D) * q = Minute * (D * q)
        BY <4>1, TimesAssociative
      <4> QED BY ONLY <1>1, <4>2
    <3>2. Minute * m = Minute * (D * q) + Minute * (r \div Minute)
      <4>1. D * q \in Int
        BY <1>1, <1>3
      <4> QED BY <1>1, <1>5, <4>1, Distributive
    <3> QED BY <1>3, <1>5, <3>1, <3>2, <1>1
  <2> DEFINE y == r % Minute
  <2> HIDE DEF m, y
  <2>3. t = Minute * m + y /\ y \in 0 .. Minute - 1
    BY <1>5, <2>2 DEF m, y
  <2>4. t \div Minute = m
    BY <1>1, <2>1, <2>3, Quotient
  <2> QED BY <2>4 DEF m
<1>8. D * q \in Nat
  BY <1>1, <1>2, <1>3, <1>4
<1> QED BY <1>1, <1>2, <1>3, <1>4, <1>5, <1>6, <1>7, <1>8 DEF D, q, r, MinuteOf

(* Midnight is also a change of minute, after the last minute of the day.  *)
LEMMA Midnight ==
  ASSUME NEW t \in Nat
  PROVE  /\ DayOf(t + 1) \in {DayOf(t), DayOf(t) + 1}
         /\ MinuteOf(t + 1) \in {MinuteOf(t), MinuteOf(t) + 1}
         /\ DayOf(t + 1) # DayOf(t) =>
              /\ MinuteOf(t + 1) # MinuteOf(t)
              /\ MinuteOf(t) = MinutesPerDay * DayOf(t) + MinutesPerDay - 1
              /\ MinuteOf(t) < MinutesPerDay * DayOf(t + 1)
<1>1. Minute \in Nat \ {0} /\ Day \in Nat \ {0}
  BY StoreAssumption, ReportAssumption
<1>2. /\ DayOf(t + 1) \in {DayOf(t), DayOf(t) + 1}
      /\ MinuteOf(t + 1) \in {MinuteOf(t), MinuteOf(t) + 1}
  BY <1>1, NextUnit DEF DayOf, MinuteOf
<1>3. ASSUME DayOf(t + 1) # DayOf(t)
      PROVE  /\ MinuteOf(t + 1) # MinuteOf(t)
             /\ MinuteOf(t) = MinutesPerDay * DayOf(t) + MinutesPerDay - 1
             /\ MinuteOf(t) < MinutesPerDay * DayOf(t + 1)
  <2>1. /\ MinuteOf(t) \in Nat /\ DayOf(t) \in Nat /\ MinutesPerDay \in Nat
        /\ MinutesPerDay * DayOf(t) \in Nat
        /\ MinuteOf(t) < MinutesPerDay * DayOf(t) + MinutesPerDay
    BY MinutesOfDay
  <2>2. /\ MinuteOf(t + 1) \in Nat
        /\ MinutesPerDay * DayOf(t + 1) \in Nat
        /\ MinuteOf(t + 1) >= MinutesPerDay * DayOf(t + 1)
    BY MinutesOfDay, t + 1 \in Nat
  <2>3. MinutesPerDay * DayOf(t + 1)
          = MinutesPerDay * DayOf(t) + MinutesPerDay
    BY <1>2, <1>3, <2>1
  <2> QED BY <1>2, <2>1, <2>2, <2>3
<1> QED BY <1>2, <1>3

(* Whatever lies in a later second sorts after everything of this one.     *)
LEMMA LaterText ==
  ASSUME NEW t \in Int, NEW u \in Int, SecondOf(t) > SecondOf(u)
  PROVE  Text(t) >= Text(u)
<1> DEFINE S == Second
<1>1. S \in Nat \ {0}
  BY StoreAssumption
<1>2. /\ SecondOf(t) \in Int /\ t % S \in 0 .. S - 1
      /\ t = S * SecondOf(t) + (t % S)
  BY <1>1, Division DEF SecondOf
<1>3. /\ SecondOf(u) \in Int /\ u % S \in 0 .. S - 1
      /\ u = S * SecondOf(u) + (u % S)
  BY <1>1, Division DEF SecondOf
<1>4. S * SecondOf(t) >= S * SecondOf(u) + S
  BY <1>1, <1>2, <1>3
<1>5. t >= S * SecondOf(u) + S
  BY <1>1, <1>2, <1>3, <1>4
<1>6. Text(t) >= t
  BY <1>1 DEF Text
<1>7. Text(u) <= S * SecondOf(u) + S
  <2>1. CASE u % S = 0
    BY <1>1, <1>3, <2>1 DEF Text
  <2>2. CASE u % S # 0
    BY <1>1, <1>3, <2>2 DEF Text
  <2> QED BY <2>1, <2>2
<1>8. Text(t) \in Int /\ Text(u) \in Int
  BY <1>1 DEF Text
<1> QED BY <1>1, <1>3, <1>5, <1>6, <1>7, <1>8

-----------------------------------------------------------------------------
(* The clock and the schedule: the reporter is at most a minute behind, the *)
(* day it remembers is not in the future and is today exactly when today's *)
(* report is out, and while nothing disturbs the day it goes out no later  *)
(* than the minute of the schedule.                                        *)
ClockOK ==
  /\ now \in Nat
  /\ schedule \in Schedules
  /\ ticked \in Nat
  /\ ticked <= MinuteOf(now) /\ MinuteOf(now) <= ticked + 1

SentOK ==
  /\ lastSent \in Int /\ lastSent <= DayOf(now)
  /\ sends = IF lastSent = DayOf(now) THEN 1 ELSE 0

PunctualOK ==
  steady /\ schedule.enabled
         /\ ticked >= MinutesPerDay * DayOf(now) + schedule.minute
    => lastSent = DayOf(now)

Inv == ClockOK /\ SentOK /\ PunctualOK

LEMMA InitInv == Init => Inv
<1> SUFFICES ASSUME Init PROVE Inv
  OBVIOUS
<1>1. now = 0 /\ ticked = MinuteOf(now) /\ lastSent = -1 /\ sends = 0
      /\ ~ steady /\ schedule \in Schedules
  BY Zenon DEF Init, StoreInit
<1>2. MinuteOf(now) \in Nat /\ DayOf(now) \in Nat
  BY <1>1, MinutesOfDay
<1> QED BY <1>1, <1>2 DEF Inv, ClockOK, SentOK, PunctualOK

(* A tick in the minute of the schedule finds the report due or sent.      *)
LEMMA TickInv == Inv /\ Tick => Inv'
<1> SUFFICES ASSUME Inv, Tick PROVE Inv'
  OBVIOUS
<1> DEFINE m == MinuteOf(now)
           d == DayOf(now)
           first == MinutesPerDay * DayOf(now)
<1>1. /\ m \in Nat /\ d \in Nat /\ first \in Nat /\ m = first + MinuteOf(now % Day)
      /\ MinuteOf(now % Day) \in Nat
  BY MinutesOfDay DEF Inv, ClockOK
<1>2. /\ ticked # m /\ ticked' = m /\ now' = now /\ schedule' = schedule
      /\ steady' = steady
  BY DEF Tick
<1>3. ticked = m - 1
  BY <1>1, <1>2 DEF Inv, ClockOK
<1>4. MinuteOf(now)' = m /\ DayOf(now)' = d /\ (MinutesPerDay * DayOf(now))' = first
  BY <1>2 DEF MinuteOf, DayOf, MinutesPerDay
<1>5. ClockOK'
  BY <1>1, <1>2, <1>4 DEF Inv, ClockOK
<1> HIDE DEF m, d, first
<1>6. SentOK'
  <2>1. CASE Due
    BY <2>1, <1>1, <1>4 DEF Tick, Due, Inv, SentOK, d
  <2>2. CASE ~ Due
    BY <2>2, <1>1, <1>4 DEF Tick, Inv, SentOK, d
  <2> QED BY <2>1, <2>2
<1>7. PunctualOK'
  <2> SUFFICES ASSUME steady, schedule.enabled, m >= first + schedule.minute
               PROVE  lastSent' = d
    BY <1>2, <1>4 DEF PunctualOK
  <2>1. schedule.minute \in Nat
    BY DEF Inv, ClockOK, Schedules
  <2>2. CASE m = first + schedule.minute
    <3>1. MinuteOf(now % Day) = schedule.minute
      BY <1>1, <2>1, <2>2
    <3> QED BY <3>1, <1>2 DEF Tick, Due, d
  <2>3. CASE m > first + schedule.minute
    <3>1. lastSent = d
      BY <1>1, <1>2, <1>3, <2>1, <2>3 DEF Inv, PunctualOK, d, first
    <3> QED BY <3>1 DEF Tick, Due, d
  <2> QED BY <1>1, <2>1, <2>2, <2>3
<1> QED BY <1>5, <1>6, <1>7 DEF Inv

LEMMA AdvanceInv == Inv /\ Advance => Inv'
<1> SUFFICES ASSUME Inv, Advance PROVE Inv'
  OBVIOUS
<1> DEFINE m == MinuteOf(now)
           d == DayOf(now)
<1>1. now \in Nat /\ now + 1 \in Nat /\ now' = now + 1
  BY DEF Inv, ClockOK, Advance
<1>2. /\ MinuteOf(now)' = MinuteOf(now + 1) /\ DayOf(now)' = DayOf(now + 1)
      /\ (MinutesPerDay * DayOf(now))' = MinutesPerDay * DayOf(now + 1)
  BY <1>1 DEF MinuteOf, DayOf, MinutesPerDay
<1>3. /\ m \in Nat /\ d \in Nat /\ MinutesPerDay * DayOf(now + 1) \in Nat
  BY <1>1, MinutesOfDay
<1>4. /\ DayOf(now + 1) \in {d, d + 1} /\ MinuteOf(now + 1) \in {m, m + 1}
      /\ DayOf(now + 1) # d => m < MinutesPerDay * DayOf(now + 1)
  BY <1>1, Midnight
<1>5. /\ MinuteOf(now + 1) # m => ticked = m
      /\ schedule' = schedule /\ ticked' = ticked /\ lastSent' = lastSent
  BY DEF Advance
<1>6. ClockOK'
  BY <1>1, <1>2, <1>3, <1>4, <1>5 DEF Inv, ClockOK
<1>7. CASE DayOf(now + 1) = d
  <2>1. sends' = sends /\ steady' = steady
    BY <1>1, <1>7 DEF Advance
  <2>2. SentOK' /\ PunctualOK'
    BY <1>2, <1>5, <1>7, <2>1 DEF Inv, SentOK, PunctualOK
  <2> QED BY <1>6, <2>2 DEF Inv
<1>8. CASE DayOf(now + 1) # d
  <2>1. sends' = 0
    BY <1>1, <1>8 DEF Advance
  <2>2. SentOK'
    BY <1>2, <1>3, <1>4, <1>5, <1>8, <2>1 DEF Inv, SentOK
  <2>3. ~ (ticked' >= (MinutesPerDay * DayOf(now))' + schedule'.minute)
    <3>1. ticked <= m /\ ticked \in Nat /\ schedule.minute \in Nat
      BY DEF Inv, ClockOK, Schedules
    <3> QED BY <3>1, <1>2, <1>3, <1>4, <1>5, <1>8
  <2>4. PunctualOK'
    BY <2>3 DEF PunctualOK
  <2> QED BY <1>6, <2>2, <2>4 DEF Inv
<1> QED BY <1>7, <1>8

LEMMA RestartInv == Inv /\ Restart => Inv'
<1> SUFFICES ASSUME Inv, Restart PROVE Inv'
  OBVIOUS
<1>1. now \in Nat /\ MinuteOf(now) \in Nat /\ DayOf(now) \in Nat
  BY MinutesOfDay DEF Inv, ClockOK
<1>2. now' = now /\ schedule' = schedule /\ ticked' = MinuteOf(now)
      /\ lastSent' = -1 /\ sends' = 0 /\ ~ steady'
  BY Zenon DEF Restart, Reopen
<1> QED BY <1>1, <1>2 DEF Inv, ClockOK, SentOK, PunctualOK, MinuteOf, DayOf

LEMMA RescheduleInv ==
  ASSUME Inv, NEW new \in Schedules, Reschedule(new)
  PROVE  Inv'
  BY DEF Reschedule, Inv, ClockOK, SentOK, PunctualOK, MinuteOf, DayOf

LEMMA StoreInv == Inv /\ StoreNext /\ UNCHANGED reporterVars => Inv'
<1> SUFFICES ASSUME Inv, StoreNext, UNCHANGED reporterVars PROVE Inv'
  OBVIOUS
<1>1. now' = now
  BY Zenon DEF StoreNext, Cache, Insert, Prune, SetRetentionDays
<1> QED
  BY <1>1 DEF reporterVars, Inv, ClockOK, SentOK, PunctualOK, MinuteOf, DayOf,
              MinutesPerDay

(* The reporter's invariant holds for every length of a day and a minute.  *)
THEOREM Punctual == Spec => []Inv
<1>1. Inv /\ [Next]_vars => Inv'
  <2> SUFFICES ASSUME Inv, [Next]_vars PROVE Inv'
    OBVIOUS
  <2>1. CASE StoreNext /\ UNCHANGED reporterVars
    BY <2>1, StoreInv
  <2>2. CASE Advance
    BY <2>2, AdvanceInv
  <2>3. CASE Restart
    BY <2>3, RestartInv
  <2>4. CASE \E new \in Schedules : Reschedule(new)
    BY <2>4, RescheduleInv
  <2>5. CASE Tick
    BY <2>5, TickInv
  <2>6. CASE UNCHANGED vars
    BY <2>6 DEF vars, reporterVars, Inv, ClockOK, SentOK, PunctualOK,
                MinuteOf, DayOf, MinutesPerDay
  <2> QED BY <2>1, <2>2, <2>3, <2>4, <2>5, <2>6 DEF Next
<1> QED BY InitInv, <1>1, PTL DEF Spec

(* Within one life of the pod at most one scheduled report goes out per    *)
(* UTC day, however the schedule is moved (Reporter.Run).                  *)
THEOREM OneReport == Spec => []OneReportPerDay
<1>1. Inv => OneReportPerDay
  BY DEF Inv, SentOK, OneReportPerDay
<1> QED BY Punctual, <1>1, PTL

(* An undisturbed day does not end without its report (Reporter.Run).      *)
THEOREM EveryDayReported == Spec => NoDaySkipped
<1>1. Inv /\ [Next]_vars =>
        [DayOf(now') # DayOf(now) /\ steady /\ schedule.enabled => sends = 1]_vars
  <2> SUFFICES ASSUME Inv, [Next]_vars, DayOf(now') # DayOf(now), steady,
                      schedule.enabled
               PROVE  sends = 1
    BY DEF vars
  <2>1. Advance
    <3>1. now' # now
      OBVIOUS
    <3>2. ~ StoreNext
      BY <3>1, Zenon DEF StoreNext, Cache, Insert, Prune, SetRetentionDays
    <3>3. ~ Restart /\ ~ Tick /\ ~ \E new \in Schedules : Reschedule(new)
      BY <3>1, Zenon DEF Restart, Reopen, Tick, Reschedule
    <3> QED BY <3>1, <3>2, <3>3, Zenon DEF Next, vars
  <2>2. /\ now' = now + 1
        /\ MinuteOf(now + 1) # MinuteOf(now) => ticked = MinuteOf(now)
    BY <2>1 DEF Advance
  <2>3. ticked = MinutesPerDay * DayOf(now) + MinutesPerDay - 1
    BY <2>2, Midnight DEF Inv, ClockOK
  <2>4. /\ MinutesPerDay \in Nat /\ MinutesPerDay * DayOf(now) \in Nat
        /\ schedule.minute \in 0 .. MinutesPerDay - 1
    BY MinutesOfDay DEF Inv, ClockOK, Schedules, MinutesPerDay
  <2>5. lastSent = DayOf(now)
    BY <2>3, <2>4 DEF Inv, PunctualOK
  <2> QED BY <2>5 DEF Inv, SentOK
<1> QED BY Punctual, <1>1, PTL DEF Spec, NoDaySkipped

-----------------------------------------------------------------------------
(* The rows of the last 24 hours stay: pruning never reaches into a day.   *)
StoredOK ==
  /\ now \in Nat
  /\ retention \in Retentions
  /\ add \in [pc : {"idle", "insert", "prune"}, at : Nat]
  /\ inserted \in SUBSET Nat
  /\ \A t \in inserted : SecondOf(t) > SecondOf(now - Day) => t \in table

(* A cutoff of whole days is no later than the start of the report's day.  *)
LEMMA CutoffBeforeDay ==
  ASSUME NEW n \in Nat, NEW days \in Retentions, NEW t \in Nat,
         SecondOf(t) > SecondOf(n - Day)
  PROVE  Text(t) >= Text(n - days * Day)
<1>1. days \in Nat \ {0} /\ Day \in Nat /\ Second \in Nat \ {0}
  BY StoreAssumption DEF Retentions
<1>2. days * Day \in Int /\ days * Day >= Day
  BY <1>1
<1>3. SecondOf(n - days * Day) <= SecondOf(n - Day)
  <2>1. n - days * Day \in Int /\ n - Day \in Int /\ n - days * Day <= n - Day
    BY <1>1, <1>2
  <2> QED BY <2>1, <1>1, DivisionMonotone DEF SecondOf
<1>4. /\ SecondOf(t) \in Int /\ SecondOf(n - Day) \in Int
      /\ SecondOf(n - days * Day) \in Int
  <2>1. t \in Int /\ n - Day \in Int /\ n - days * Day \in Int
    BY <1>1, <1>2
  <2> QED BY <2>1, <1>1, Division DEF SecondOf
<1>5. SecondOf(t) > SecondOf(n - days * Day)
  BY <1>3, <1>4
<1> QED BY <1>1, <1>2, <1>5, LaterText

LEMMA StoredInv == StoredOK /\ [Next]_vars => StoredOK'
<1> SUFFICES ASSUME StoredOK, [Next]_vars PROVE StoredOK'
  OBVIOUS
<1>1. Second \in Nat \ {0} /\ Day \in Nat
  BY StoreAssumption
<1>2. CASE UNCHANGED <<now, retention, add, inserted, table>>
  BY <1>2 DEF StoredOK, SecondOf
<1>3. CASE Advance
  <2>1. /\ now' = now + 1
        /\ UNCHANGED <<retention, add, inserted, table>>
    BY <1>3, Zenon DEF Advance, storeVars
  <2>2. SecondOf(now - Day) <= SecondOf(now + 1 - Day)
    BY <1>1, DivisionMonotone DEF StoredOK, SecondOf
  <2>3. /\ SecondOf(now - Day) \in Int /\ SecondOf(now + 1 - Day) \in Int
        /\ \A t \in inserted : SecondOf(t) \in Int
    BY <1>1, Division DEF StoredOK, SecondOf
  <2>4. \A t \in inserted :
           SecondOf(t) > SecondOf(now + 1 - Day) => t \in table
    BY <2>2, <2>3 DEF StoredOK
  <2>5. SecondOf(now - Day)' = SecondOf(now + 1 - Day)
    <3>1. now' - Day = now + 1 - Day
      BY <1>1, <2>1 DEF StoredOK
    <3> QED BY <3>1 DEF SecondOf
  <2>6. \A t \in inserted' : (SecondOf(t) > SecondOf(now - Day))' => t \in table'
    BY <2>1, <2>4, <2>5 DEF SecondOf
  <2> QED BY <2>1, <2>6 DEF StoredOK
<1>4. CASE Reopen
  <2>1. /\ now' = now /\ inserted' = inserted /\ table' = table
        /\ retention' \in Retentions /\ add' = [add EXCEPT !.pc = "idle"]
    BY <1>4 DEF Reopen
  <2> QED BY <2>1 DEF StoredOK, SecondOf
<1>5. CASE Cache
  BY <1>5 DEF Cache, StoredOK, SecondOf
<1>6. CASE Insert
  <2>1. now' = now /\ retention' = retention
    BY <1>6 DEF Insert
  <2>2. add' \in [pc : {"idle", "insert", "prune"}, at : Nat] /\ add.at \in Nat
    BY <1>6 DEF Insert, StoredOK
  <2>3. \/ inserted' = inserted \cup {add.at} /\ table' = table \cup {add.at}
        \/ inserted' = inserted /\ table' = table
    BY <1>6 DEF Insert
  <2> QED BY <2>1, <2>2, <2>3 DEF StoredOK, SecondOf
<1>7. CASE Prune
  <2>1. /\ now' = now /\ inserted' = inserted /\ retention' = retention
        /\ add' = [add EXCEPT !.pc = "idle"]
        /\ table' = {t \in table : Text(t) >= Text(now - retention * Day)}
             \/ table' = table
    BY <1>7 DEF Prune
  <2>2. \A t \in inserted : SecondOf(t) > SecondOf(now - Day) =>
           Text(t) >= Text(now - retention * Day)
    BY CutoffBeforeDay DEF StoredOK
  <2> QED BY <2>1, <2>2 DEF StoredOK, SecondOf
<1>8. CASE \E days \in Retentions : SetRetentionDays(days)
  BY <1>8 DEF SetRetentionDays, StoredOK, SecondOf
<1>9. \/ UNCHANGED <<now, retention, add, inserted, table>>
      \/ Advance \/ Reopen \/ StoreNext
  BY Zenon DEF Next, Restart, Reschedule, Tick, vars, storeVars
<1> QED BY <1>2, <1>3, <1>4, <1>5, <1>6, <1>7, <1>8, <1>9, Zenon DEF StoreNext

(* The digest counts every stored review of its day, whatever has been     *)
(* pruned under whatever retention (build, Timeline, Add).                 *)
THEOREM DayIsCounted == Spec => ReportCountsDay
<1>1. Init => StoredOK
  BY DEF Init, StoreInit, StoredOK
<1>2. StoredOK =>
        (db => \A t \in inserted :
                 SecondOf(t) > SecondOf(now - Day) => t \in Counted)
  <2> SUFFICES ASSUME StoredOK, db, NEW t \in inserted,
                      SecondOf(t) > SecondOf(now - Day)
               PROVE  t \in Counted
    OBVIOUS
  <2>1. t \in Int /\ now - Day \in Int
    BY StoreAssumption DEF StoredOK
  <2>2. Text(t) >= Text(now - Day)
    BY <2>1, LaterText
  <2>3. t \in table
    BY DEF StoredOK
  <2> QED BY <2>2, <2>3 DEF Counted, Timeline
<1>3. StoredOK =>
        [sends' > sends /\ db
           => \A t \in inserted :
                SecondOf(t) > SecondOf(now - Day) => t \in Counted]_vars
  BY <1>2
<1> QED BY <1>1, <1>3, StoredInv, PTL DEF Spec, ReportCountsDay

-----------------------------------------------------------------------------
(* The order of the table. Its texts tell rows apart and never contradict  *)
(* their seconds, so the rows have ranks and Newest takes the first.       *)

LEMMA TextType ==
  ASSUME NEW t \in Nat
  PROVE  Text(t) \in Nat /\ Text(t) <= t + Second /\ SecondOf(t) \in Int
BY StoreAssumption, Division DEF Text, SecondOf

LEMMA TextInjective ==
  ASSUME NEW t \in Nat, NEW u \in Nat, Text(t) = Text(u)
  PROVE  t = u
<1> DEFINE S == Second
<1>1. S \in Nat \ {0}
  BY StoreAssumption
<1>2. ASSUME NEW a \in Nat PROVE (a + S) % S = a % S
  <2>1. a \div S \in Int /\ a % S \in 0 .. S - 1 /\ a = S * (a \div S) + (a % S)
    BY <1>1, Division
  <2> DEFINE q == a \div S
             rem == a % S
  <2>2. S * (q + 1) = S * q + S
    BY <1>1, <2>1
  <2> HIDE DEF q, rem
  <2>3. a + S = S * (q + 1) + rem /\ a + S \in Int /\ q + 1 \in Int
    BY <1>1, <2>1, <2>2 DEF q, rem
  <2>4. rem \in 0 .. S - 1
    BY <2>1 DEF rem
  <2> QED BY <1>1, <2>3, <2>4, Quotient DEF rem
<1>3. (Text(t) % S = 0 <=> t % S = 0) /\ (Text(u) % S = 0 <=> u % S = 0)
  BY <1>1, <1>2 DEF Text
<1> QED BY <1>1, <1>3 DEF Text

LEMMA TextSecond ==
  ASSUME NEW t \in Nat, NEW u \in Nat, Text(t) <= Text(u)
  PROVE  SecondOf(t) <= SecondOf(u)
<1>1. /\ Text(t) \in Nat /\ SecondOf(t) \in Int
      /\ Text(u) \in Nat /\ SecondOf(u) \in Int
  BY TextType
<1> SUFFICES ASSUME SecondOf(t) > SecondOf(u) PROVE FALSE
  BY <1>1
<1>2. Text(t) >= Text(u)
  BY LaterText
<1>3. t = u
  BY <1>1, <1>2, TextInjective
<1> QED BY <1>1, <1>3

LEMMA Top ==
  ASSUME NEW n \in Nat, NEW rows, rows \subseteq 0 .. n, rows # {}
  PROVE  \E t \in rows : \A u \in rows : Text(u) <= Text(t)
<1> DEFINE D(u) == n + Second - Text(u)
           T == {D(u) : u \in rows}
<1>1. \A u \in rows : u \in Nat /\ Text(u) \in Nat /\ D(u) \in Nat
  <2> SUFFICES ASSUME NEW u \in rows PROVE u \in Nat /\ Text(u) \in Nat /\ D(u) \in Nat
    OBVIOUS
  <2>1. u \in Nat /\ u <= n
    OBVIOUS
  <2> QED BY <2>1, TextType, StoreAssumption
<1>2. T \subseteq Nat /\ T # {}
  BY <1>1
<1>3. PICK m \in T : \A k \in T : m <= k
  <2> HIDE DEF T
  <2> QED BY <1>2, Smallest
<1>4. PICK t \in rows : m = D(t)
  OBVIOUS
<1>5. \A u \in rows : D(t) <= D(u)
  BY <1>3, <1>4
<1> QED BY <1>1, <1>5, StoreAssumption

Above(rows, t) == {u \in rows : Text(u) > Text(t)}
Rank(rows, t) == Cardinality(Above(rows, t))

LEMMA Rows ==
  ASSUME NEW n \in Nat, NEW rows, rows \subseteq 0 .. n
  PROVE  /\ IsFiniteSet(rows) /\ Cardinality(rows) \in Nat
         /\ \A part \in SUBSET rows : IsFiniteSet(part) /\ Cardinality(part) \in Nat
                                      /\ Cardinality(part) <= Cardinality(rows)
<1>1. IsFiniteSet(0 .. n)
  BY FS_Interval
<1>2. IsFiniteSet(rows)
  BY <1>1, FS_Subset
<1> QED BY <1>2, FS_Subset, FS_CardinalityType

(* Adding a row to those above another, or itself to them.                 *)
LEMMA AboveMore ==
  ASSUME NEW n \in Nat, NEW rows, rows \subseteq 0 .. n, NEW t \in rows
  PROVE  /\ Rank(rows, t) \in Nat
         /\ Cardinality(Above(rows, t) \cup {t}) = Rank(rows, t) + 1
         /\ Rank(rows, t) + 1 <= Cardinality(rows)
<1> DEFINE above == Above(rows, t)
<1>1. above \subseteq rows /\ t \notin above /\ above \cup {t} \subseteq rows
  <2>1. Text(t) \in Nat
    BY TextType
  <2> QED BY <2>1 DEF Above
<1> HIDE DEF above
<1>2. IsFiniteSet(above) /\ Cardinality(above) \in Nat
  BY <1>1, Rows
<1>3. Cardinality(above \cup {t}) = Cardinality(above) + 1
  BY <1>1, <1>2, FS_AddElement
<1>4. Cardinality(above \cup {t}) <= Cardinality(rows)
  BY <1>1, Rows
<1> QED BY <1>2, <1>3, <1>4 DEF Rank, above

(* The higher the text the lower the rank.                                 *)
LEMMA RankOrder ==
  ASSUME NEW n \in Nat, NEW rows, rows \subseteq 0 .. n, NEW t \in rows, NEW u \in rows,
         Rank(rows, t) <= Rank(rows, u)
  PROVE  Text(u) <= Text(t)
<1>1. Text(t) \in Nat /\ Text(u) \in Nat
  BY TextType
<1> SUFFICES ASSUME Text(t) < Text(u) PROVE FALSE
  BY <1>1
<1> DEFINE part == Above(rows, u) \cup {u}
           whole == Above(rows, t)
<1>2. part \subseteq whole
  <2>1. \A x \in rows : Text(x) \in Nat
    BY TextType
  <2> SUFFICES ASSUME NEW x \in part PROVE x \in rows /\ Text(x) > Text(t)
    BY DEF Above
  <2>2. x \in rows /\ (x = u \/ Text(x) > Text(u))
    BY DEF Above
  <2> QED BY <1>1, <2>1, <2>2
<1>3. /\ Rank(rows, u) \in Nat /\ Rank(rows, t) \in Nat
      /\ Cardinality(part) = Rank(rows, u) + 1
  BY AboveMore
<1>4. whole \subseteq rows
  BY DEF Above
<1>5. Cardinality(whole) = Rank(rows, t)
  BY DEF Rank
<1> HIDE DEF part, whole
<1>6. IsFiniteSet(whole)
  BY <1>4, Rows
<1>7. Cardinality(part) <= Cardinality(whole)
  BY <1>2, <1>6, FS_Subset
<1> QED BY <1>3, <1>5, <1>7

(* Every rank is taken.                                                    *)
LEMMA Ranked ==
  ASSUME NEW n \in Nat, NEW rows, rows \subseteq 0 .. n
  PROVE  \A i \in 0 .. Cardinality(rows) - 1 : \E t \in rows : Rank(rows, t) = i
<1> DEFINE C == Cardinality(rows)
           bad == {i \in 0 .. C - 1 : ~ \E t \in rows : Rank(rows, t) = i}
<1>1. C \in Nat
  BY Rows
<1> SUFFICES ASSUME bad # {} PROVE FALSE
  OBVIOUS
<1>2. PICK i \in bad : \A k \in bad : i <= k
  <2>1. bad \subseteq Nat
    BY <1>1
  <2> HIDE DEF bad
  <2> QED BY <2>1, Smallest
<1>3. i \in 0 .. C - 1 /\ ~ \E t \in rows : Rank(rows, t) = i
  OBVIOUS
<1>4. CASE i = 0
  <2>1. rows # {}
    BY <1>1, <1>3, FS_EmptySet
  <2>2. PICK t \in rows : \A u \in rows : Text(u) <= Text(t)
    BY <2>1, Top
  <2>3. \A u \in rows : Text(u) \in Nat
    BY TextType
  <2>4. Above(rows, t) = {}
    <3> SUFFICES ASSUME NEW u \in rows, Text(u) > Text(t) PROVE FALSE
      BY DEF Above
    <3> QED BY <2>2, <2>3
  <2>5. Rank(rows, t) = 0
    BY <2>4, FS_EmptySet DEF Rank
  <2> QED BY <1>3, <1>4, <2>5
<1>5. CASE i # 0
  <2>1. i - 1 \in 0 .. C - 1 /\ i - 1 \notin bad
    BY <1>1, <1>2, <1>3, <1>5
  <2>2. PICK t \in rows : Rank(rows, t) = i - 1
    BY <2>1
  <2> DEFINE upto == Above(rows, t) \cup {t}
             rest == rows \ upto
  <2>3. upto \subseteq rows
    BY DEF Above
  <2>4. Cardinality(upto) = i
    <3>1. Cardinality(upto) = (i - 1) + 1
      BY <2>2, AboveMore
    <3> QED BY <1>1, <1>3, <3>1
  <2>5. rest # {}
    <3>1. i # C
      BY <1>1, <1>3
    <3> QED BY <2>3, <2>4, <3>1
  <2>6. rest \subseteq 0 .. n
    OBVIOUS
  <2>7. PICK u \in rest : \A x \in rest : Text(x) <= Text(u)
    <3> HIDE DEF rest
    <3> QED BY <2>5, <2>6, Top
  <2>8. \A x \in rows : x \in Nat /\ Text(x) \in Nat
    BY TextType
  <2>9. Text(u) < Text(t)
    <3>1. u # t /\ ~ (Text(u) > Text(t))
      BY DEF Above
    <3>2. Text(u) # Text(t)
      BY <2>8, <3>1, TextInjective
    <3> QED BY <2>8, <3>1, <3>2
  <2>10. Above(rows, u) = upto
    <3>1. ASSUME NEW x \in rows, Text(x) > Text(u) PROVE x \in upto
      <4>1. ~ (Text(x) <= Text(u))
        BY <2>8, <3>1
      <4> QED BY <2>7, <4>1
    <3>2. ASSUME NEW x \in upto PROVE x \in rows /\ Text(x) > Text(u)
      <4>1. x \in rows /\ (x = t \/ Text(x) > Text(t))
        BY <3>2 DEF Above
      <4> QED BY <2>8, <2>9, <4>1
    <3> HIDE DEF upto
    <3> QED BY <3>1, <3>2 DEF Above
  <2>11. Rank(rows, u) = i
    BY <2>4, <2>10 DEF Rank
  <2> QED BY <1>3, <2>11
<1> QED BY <1>4, <1>5

(* What ORDER BY ... DESC LIMIT k returns.                                 *)
LEMMA NewestEffect ==
  ASSUME NEW n \in Nat, NEW rows, rows \subseteq 0 .. n, NEW k \in Nat
  PROVE  LET s == Newest(rows, k)
         IN /\ s \in Seq(Nat) /\ Len(s) <= k
            /\ \A i \in 1 .. Len(s) : s[i] \in rows
            /\ \A i, j \in 1 .. Len(s) : i <= j => Text(s[j]) <= Text(s[i])
            /\ \A t \in rows : (\A i \in 1 .. Len(s) : s[i] # t) =>
                 Len(s) = k /\ \A i \in 1 .. Len(s) : Text(t) <= Text(s[i])
<1> DEFINE s == Newest(rows, k)
           C == Cardinality(rows)
           m == IF C < k THEN C ELSE k
<1>0. \A t \in rows : t \in Nat
  OBVIOUS
<1>1. C \in Nat
  BY Rows
<1>2. m \in Nat /\ m <= C /\ m <= k
  BY <1>1
<1>3. s = [i \in 1 .. m |-> CHOOSE t \in rows : Rank(rows, t) = i - 1]
  BY DEF Newest, Rank, Above
<1> HIDE DEF s, C, m
<1>4. ASSUME NEW i \in 1 .. m PROVE s[i] \in rows /\ Rank(rows, s[i]) = i - 1
  <2>1. i - 1 \in 0 .. C - 1
    BY <1>1, <1>2
  <2>2. \E t \in rows : Rank(rows, t) = i - 1
    BY <2>1, Ranked DEF C
  <2>3. s[i] = CHOOSE t \in rows : Rank(rows, t) = i - 1
    BY <1>3
  <2> QED BY <2>2, <2>3
<1>5. s \in Seq(Nat) /\ Len(s) = m
  <2>1. ASSUME NEW i \in 1 .. m PROVE s[i] \in Nat
    <3>1. s[i] \in rows
      BY <1>4
    <3> QED BY <1>0, <3>1, Zenon
  <2>2. DOMAIN s = 1 .. m /\ s = [i \in 1 .. m |-> s[i]]
    BY <1>3
  <2> QED BY <1>2, <2>1, <2>2
<1>6. ASSUME NEW i \in 1 .. m, NEW j \in 1 .. m, i <= j
      PROVE  Text(s[j]) <= Text(s[i])
  <2>1. Rank(rows, s[i]) <= Rank(rows, s[j])
    BY <1>4, <1>6
  <2> QED BY <1>4, <2>1, RankOrder
<1>7. ASSUME NEW t \in rows, \A i \in 1 .. m : s[i] # t
      PROVE  m = k /\ \A i \in 1 .. m : Text(t) <= Text(s[i])
  <2> DEFINE r == Rank(rows, t)
  <2>1. r \in Nat /\ r + 1 <= C
    BY AboveMore DEF C
  <2>2. ~ (r + 1 \in 1 .. m)
    <3> SUFFICES ASSUME r + 1 \in 1 .. m PROVE FALSE
      OBVIOUS
    <3>1. s[r + 1] \in rows /\ Rank(rows, s[r + 1]) = r /\ s[r + 1] # t
      BY <1>4, <1>7, <2>1
    <3>2. r <= r
      BY <2>1
    <3>3. Text(t) <= Text(s[r + 1]) /\ Text(s[r + 1]) <= Text(t)
      BY <3>1, <3>2, RankOrder
    <3>5. t \in Nat /\ s[r + 1] \in Nat
      BY <1>0, <3>1, Zenon
    <3>4. Text(t) \in Nat /\ Text(s[r + 1]) \in Nat
      BY <3>5, TextType
    <3> QED BY <3>1, <3>3, <3>4, <3>5, TextInjective
  <2>3. r >= m /\ m = k
    BY <1>1, <1>2, <2>1, <2>2 DEF m
  <2>4. ASSUME NEW i \in 1 .. m PROVE Text(t) <= Text(s[i])
    <3>1. s[i] \in rows /\ Rank(rows, s[i]) <= r
      BY <1>2, <1>4, <2>1, <2>3
    <3> QED BY <3>1, RankOrder
  <2> QED BY <2>3, <2>4
<1> QED BY <1>2, <1>4, <1>5, <1>6, <1>7 DEF s

-----------------------------------------------------------------------------
(* The ring: nothing in it or in the table is of the future, it is in the  *)
(* order of the seconds, and a review to be inserted is at its head.       *)
RingOK ==
  /\ table \subseteq 0 .. now /\ Ring \subseteq 0 .. now /\ add.at <= now
  /\ add.pc = "insert" => ring # <<>> /\ ring[1] = add.at
  /\ \A i, j \in 1 .. Len(ring) : i <= j => SecondOf(ring[j]) <= SecondOf(ring[i])

(* The type invariant in parts.                                            *)
ClockType == now \in Nat /\ table \in SUBSET Nat /\ inserted \in SUBSET Nat
RingType == ring \in Seq(Nat) /\ Len(ring) <= Capacity
AddType ==
  add \in [pc : {"idle", "insert", "prune"}, at : Nat] /\ retention \in Retentions
FlagType == db \in BOOLEAN /\ warm \in BOOLEAN

StoreInvariant ==
  /\ ClockType /\ RingType /\ AddType /\ FlagType
  /\ RingOK /\ RingHoldsNewest

LEMMA RingSeconds ==
  ASSUME ClockType, RingType
  PROVE  /\ \A t \in Nat : SecondOf(t) \in Int
         /\ Ring \subseteq Nat
         /\ \A i \in 1 .. Len(ring) : ring[i] \in Ring /\ ring[i] \in Nat
         /\ ring # <<>> => ring[1] \in Ring /\ 1 \in 1 .. Len(ring)
<1>1. \A t \in Nat : SecondOf(t) \in Int
  BY TextType
<1>2. Len(ring) \in Nat /\ (ring # <<>> => Len(ring) > 0)
  BY EmptySeq DEF RingType
<1>3. \A i \in 1 .. Len(ring) : ring[i] \in Ring /\ ring[i] \in Nat
  BY DEF Ring, RingType
<1> QED BY <1>1, <1>2, <1>3 DEF Ring

LEMMA InitStore ==
  ASSUME Init
  PROVE  StoreInvariant
<1>1. /\ now = 0 /\ ring = <<>> /\ table = {} /\ add = [pc |-> "idle", at |-> 0]
      /\ retention \in Retentions /\ inserted = {}
  BY Zenon DEF Init, StoreInit
<1>2. db \in BOOLEAN /\ warm \in BOOLEAN
  BY Zenon DEF Init, StoreInit
<1>3. Ring = {} /\ Len(ring) = 0 /\ ring \in Seq(Nat)
  BY <1>1 DEF Ring
<1>4. ClockType /\ AddType /\ FlagType
  BY <1>1, <1>2 DEF ClockType, AddType, FlagType
<1>5. RingType
  BY <1>3, StoreAssumption DEF RingType
<1>6. RingOK /\ RingHoldsNewest
  BY <1>1, <1>3 DEF RingOK, RingHoldsNewest
<1> QED BY <1>4, <1>5, <1>6 DEF StoreInvariant

LEMMA SameStore ==
  ASSUME StoreInvariant, UNCHANGED <<ring, table, inserted, db, warm>>,
         now' \in Nat, now <= now', AddType', add'.at <= now',
         add'.pc = "insert" => add.pc = "insert" /\ add'.at = add.at
  PROVE  StoreInvariant'
<1>1. ClockType' /\ RingType' /\ FlagType'
  BY DEF StoreInvariant, ClockType, RingType, FlagType
<1>2. Ring' = Ring /\ \A t \in Nat : SecondOf(t)' = SecondOf(t)
  BY DEF Ring, SecondOf
<1>3. table' \subseteq 0 .. now' /\ Ring' \subseteq 0 .. now'
  BY <1>2 DEF StoreInvariant, ClockType, RingOK
<1>4. RingOK'
  <2>1. \A i, j \in 1 .. Len(ring) : i <= j => SecondOf(ring[j]) <= SecondOf(ring[i])
    BY DEF StoreInvariant, RingOK
  <2>2. add'.pc = "insert" => ring # <<>> /\ ring[1] = add'.at
    BY DEF StoreInvariant, RingOK
  <2> QED BY <1>3, <2>1, <2>2 DEF RingOK, SecondOf
<1>5. RingHoldsNewest'
  BY DEF StoreInvariant, RingHoldsNewest, Ring, SecondOf
<1> QED BY <1>1, <1>4, <1>5 DEF StoreInvariant

LEMMA AdvanceStore ==
  ASSUME StoreInvariant, Advance
  PROVE  StoreInvariant'
<1>1. /\ now' = now + 1
      /\ UNCHANGED <<ring, table, inserted, db, warm, add, retention>>
  BY Zenon DEF Advance, storeVars
<1>2. now \in Nat /\ now' \in Nat /\ now <= now' /\ add.at \in Nat /\ add.at <= now
  BY <1>1 DEF StoreInvariant, ClockType, AddType, RingOK
<1>3. AddType' /\ add'.at <= now'
  BY <1>1, <1>2 DEF StoreInvariant, AddType
<1> QED BY <1>1, <1>2, <1>3, SameStore

LEMMA RetentionStore ==
  ASSUME StoreInvariant, NEW days \in Retentions, SetRetentionDays(days)
  PROVE  StoreInvariant'
<1>1. /\ UNCHANGED <<now, ring, table, inserted, db, warm, add>> /\ retention' = days
  BY DEF SetRetentionDays
<1>2. now' \in Nat /\ now <= now' /\ add.at <= now
  BY <1>1 DEF StoreInvariant, ClockType, RingOK
<1>3. AddType' /\ add'.at <= now'
  BY <1>1, <1>2 DEF StoreInvariant, AddType
<1> QED BY <1>1, <1>2, <1>3, SameStore

LEMMA CacheStore ==
  ASSUME StoreInvariant, Cache
  PROVE  StoreInvariant'
<1> DEFINE k == IF Len(ring) < Capacity THEN Len(ring) + 1 ELSE Capacity
           all == <<now>> \o ring
<1>1. /\ ring' = SubSeq(all, 1, k)
      /\ add' = [pc |-> IF db THEN "insert" ELSE "idle", at |-> now]
      /\ UNCHANGED <<now, db, table, retention, warm, inserted>>
  BY DEF Cache
<1>2. /\ now \in Nat /\ ring \in Seq(Nat) /\ Len(ring) \in Nat /\ Len(ring) <= Capacity
      /\ Capacity \in Nat \ {0}
  BY StoreAssumption DEF StoreInvariant, ClockType, RingType
<1>3. /\ all \in Seq(Nat) /\ Len(all) = Len(ring) + 1 /\ all[1] = now
      /\ \A i \in 2 .. Len(all) : all[i] = ring[i - 1]
  BY <1>2
<1> HIDE DEF all
<1>4. k \in 1 .. Len(all) /\ k <= Capacity /\ k - 1 <= Len(ring)
      /\ (Len(ring) = Capacity => k = Capacity)
      /\ (k - 1 # Len(ring) => Len(ring) = Capacity /\ k = Capacity)
  BY <1>2, <1>3
<1> HIDE DEF k
<1>5. /\ ring' \in Seq(Nat) /\ Len(ring') = k
      /\ \A i \in 1 .. k : ring'[i] = all[i]
  BY <1>1, <1>3, <1>4
<1>6. ring'[1] = now /\ \A i \in 2 .. k : i - 1 \in 1 .. Len(ring) /\ ring'[i] = ring[i - 1]
  <2>1. 1 \in 1 .. k /\ \A i \in 2 .. k : i \in 1 .. k /\ i \in 2 .. Len(all)
    BY <1>2, <1>3, <1>4
  <2>2. \A i \in 2 .. k : i - 1 \in 1 .. Len(ring)
    BY <1>2, <1>3, <1>4
  <2> QED BY <1>3, <1>5, <2>1, <2>2
<1>7. k \in Nat /\ k > 0 /\ ring' # <<>>
  BY <1>2, <1>3, <1>4, <1>5, EmptySeq
<1>8. Ring' = {now} \cup {ring[i] : i \in 1 .. k - 1}
  <2>1. Ring' = {ring'[i] : i \in 1 .. k}
    BY <1>5 DEF Ring
  <2>2. \A i \in 1 .. k : i = 1 \/ i \in 2 .. k
    BY <1>7
  <2>3. \A i \in 1 .. k - 1 : i + 1 \in 2 .. k /\ ring'[i + 1] = ring[i]
    BY <1>6, <1>7
  <2>4. \A i \in 2 .. k : i - 1 \in 1 .. k - 1
    BY <1>7
  <2>5. 1 \in 1 .. k /\ \A i \in 2 .. k : i \in 1 .. k
    BY <1>7
  <2> QED BY <1>6, <2>1, <2>2, <2>3, <2>4, <2>5
<1>9. \A i \in 1 .. k - 1 : i \in 1 .. Len(ring)
  BY <1>2, <1>4, <1>7
<1>10. Ring' \subseteq {now} \cup Ring
  BY <1>8, <1>9 DEF Ring
<1>11. /\ \A t \in Nat : SecondOf(t) \in Int /\ SecondOf(t)' = SecondOf(t)
       /\ \A t \in 0 .. now : SecondOf(t) <= SecondOf(now)
  <2>1. \A t \in Nat : SecondOf(t) \in Int
    BY RingSeconds DEF StoreInvariant
  <2>2. \A t \in 0 .. now : SecondOf(t) <= SecondOf(now)
    BY <1>2, DivisionMonotone, StoreAssumption DEF SecondOf
  <2> QED BY <2>1, <2>2 DEF SecondOf
<1>12. table \subseteq 0 .. now /\ Ring \subseteq 0 .. now /\ Ring' \subseteq 0 .. now
  BY <1>2, <1>10 DEF StoreInvariant, RingOK
<1>13. ClockType' /\ FlagType'
  BY <1>1 DEF StoreInvariant, ClockType, FlagType
<1>14. RingType'
  BY <1>4, <1>5 DEF RingType
<1>15. AddType' /\ add'.at = now
  BY <1>1, <1>2 DEF StoreInvariant, AddType
<1>16. \A i, j \in 1 .. k : i <= j => SecondOf(ring'[j]) <= SecondOf(ring'[i])
  <2> SUFFICES ASSUME NEW i \in 1 .. k, NEW j \in 1 .. k, i <= j
               PROVE  SecondOf(ring'[j]) <= SecondOf(ring'[i])
    OBVIOUS
  <2>1. CASE i = 1
    <3>1. ring'[j] \in Ring'
      BY <1>5 DEF Ring
    <3> QED BY <1>6, <1>11, <1>12, <2>1, <3>1
  <2>2. CASE i # 1
    <3>1. i \in 2 .. k /\ j \in 2 .. k /\ i - 1 <= j - 1
      BY <1>7, <2>2
    <3> QED BY <1>6, <3>1 DEF StoreInvariant, RingOK
  <2> QED BY <2>1, <2>2
<1>17. RingOK'
  <2>1. \A i, j \in 1 .. Len(ring') : i <= j => SecondOf(ring'[j]) <= SecondOf(ring'[i])
    BY <1>5, <1>16
  <2>2. /\ table' \subseteq 0 .. now' /\ Ring' \subseteq 0 .. now' /\ add'.at <= now'
    BY <1>1, <1>2, <1>12, <1>15
  <2>3. ring' # <<>> /\ ring'[1] = add'.at
    BY <1>6, <1>7, <1>15
  <2> QED BY <2>1, <2>2, <2>3 DEF RingOK, SecondOf
<1>18. RingHoldsNewest'
  <2>1. \A t \in Ring' \cup table : SecondOf(t) <= SecondOf(now)
    BY <1>11, <1>12
  <2>2. ASSUME warm, NEW t \in table, t \notin Ring'
        PROVE  k = Capacity /\ \A r \in Ring' : SecondOf(t) <= SecondOf(r)
    <3>1. CASE t \notin Ring
      <4>1. Len(ring) = Capacity /\ \A r \in Ring : SecondOf(t) <= SecondOf(r)
        BY <2>2, <3>1 DEF StoreInvariant, RingHoldsNewest
      <4> QED BY <1>4, <1>10, <2>1, <4>1
    <3>2. CASE t \in Ring
      <4>1. PICK i \in 1 .. Len(ring) : t = ring[i]
        BY <3>2 DEF Ring
      <4>2. i \notin 1 .. k - 1
        BY <1>8, <2>2, <4>1
      <4>3. i = Len(ring) /\ k = Capacity
        BY <1>2, <1>4, <1>7, <4>2
      <4>4. \A j \in 1 .. k - 1 : SecondOf(t) <= SecondOf(ring[j])
        <5>1. \A j \in 1 .. k - 1 : j \in 1 .. Len(ring) /\ j <= i
          BY <1>2, <1>9, <4>3
        <5> QED BY <4>1, <5>1 DEF StoreInvariant, RingOK
      <4> QED BY <1>8, <2>1, <4>3, <4>4
    <3> QED BY <3>1, <3>2
  <2>3. ring'[1] = now /\ Len(ring') = k
    BY <1>5, <1>6
  <2> QED BY <1>1, <2>1, <2>2, <2>3 DEF RingHoldsNewest, SecondOf
<1> QED BY <1>13, <1>14, <1>15, <1>17, <1>18 DEF StoreInvariant

LEMMA InsertStore ==
  ASSUME StoreInvariant, Insert
  PROVE  StoreInvariant'
<1>1. /\ add.pc = "insert" /\ UNCHANGED <<now, db, ring, retention, warm>>
      /\ \/ /\ table' = table \cup {add.at} /\ inserted' = inserted \cup {add.at}
            /\ add' = [add EXCEPT !.pc = "prune"]
         \/ add' = [add EXCEPT !.pc = "idle"] /\ UNCHANGED <<table, inserted>>
  BY DEF Insert
<1>2. now \in Nat /\ add.at \in Nat /\ add.at <= now /\ now <= now
  BY DEF StoreInvariant, ClockType, AddType, RingOK
<1>3. AddType' /\ add'.pc # "insert" /\ add'.at = add.at
  BY <1>1 DEF StoreInvariant, AddType
<1>4. CASE UNCHANGED <<table, inserted>>
  BY <1>1, <1>2, <1>3, <1>4, SameStore
<1>5. CASE table' = table \cup {add.at} /\ inserted' = inserted \cup {add.at}
  <2>1. ClockType' /\ RingType' /\ FlagType'
    BY <1>1, <1>2, <1>5 DEF StoreInvariant, ClockType, RingType, FlagType
  <2>2. Ring' = Ring
    BY <1>1 DEF Ring
  <2>3. RingOK'
    <3>1. table' \subseteq 0 .. now
      <4>1. add.at \in 0 .. now /\ table \subseteq 0 .. now
        BY <1>2 DEF StoreInvariant, RingOK
      <4> QED BY <1>5, <4>1
    <3> QED BY <1>1, <1>2, <1>3, <2>2, <3>1 DEF StoreInvariant, RingOK, SecondOf
  <2>4. add.at \in Ring /\ ring # <<>>
    <3>1. ring # <<>> /\ ring[1] = add.at
      BY <1>1 DEF StoreInvariant, RingOK
    <3> QED BY <3>1, RingSeconds DEF StoreInvariant
  <2>5. RingHoldsNewest'
    BY <1>1, <1>5, <2>2, <2>4 DEF StoreInvariant, RingHoldsNewest, SecondOf
  <2> QED BY <1>3, <2>1, <2>3, <2>5 DEF StoreInvariant
<1> QED BY <1>1, <1>4, <1>5

LEMMA PruneStore ==
  ASSUME StoreInvariant, Prune
  PROVE  StoreInvariant'
<1>1. /\ UNCHANGED <<now, db, ring, retention, warm, inserted>> /\ table' \subseteq table
      /\ add' = [add EXCEPT !.pc = "idle"]
  BY DEF Prune
<1>2. AddType' /\ add'.pc # "insert" /\ add'.at = add.at
  BY <1>1 DEF StoreInvariant, AddType
<1>3. ClockType' /\ RingType' /\ FlagType'
  BY <1>1 DEF StoreInvariant, ClockType, RingType, FlagType
<1>4. Ring' = Ring
  BY <1>1 DEF Ring
<1>5. RingOK'
  BY <1>1, <1>2, <1>4 DEF StoreInvariant, RingOK, SecondOf
<1>6. RingHoldsNewest'
  BY <1>1, <1>4 DEF StoreInvariant, RingHoldsNewest, SecondOf
<1> QED BY <1>2, <1>3, <1>5, <1>6 DEF StoreInvariant

(* What a restart restores is the top of the table.                        *)
LEMMA ReopenStore ==
  ASSUME StoreInvariant, Reopen
  PROVE  StoreInvariant'
<1>1. /\ UNCHANGED <<now, table, inserted>>
      /\ add' = [add EXCEPT !.pc = "idle"] /\ retention' \in Retentions
      /\ db' \in BOOLEAN /\ warm' \in BOOLEAN
      /\ \/ ring' = Newest(table, Capacity)
         \/ ~ warm' /\ ring' = <<>>
  BY Zenon DEF Reopen, Restore
<1>2. AddType' /\ add'.pc # "insert" /\ add'.at = add.at
  BY <1>1 DEF StoreInvariant, AddType
<1>3. ClockType' /\ FlagType'
  BY <1>1 DEF StoreInvariant, ClockType, FlagType
<1>4. /\ now \in Nat /\ table \subseteq 0 .. now /\ add.at <= now
      /\ Capacity \in Nat \ {0}
  BY StoreAssumption DEF StoreInvariant, ClockType, RingOK
<1>5. CASE ~ warm' /\ ring' = <<>>
  <2>1. Len(ring') = 0 /\ ring' \in Seq(Nat)
    BY <1>5
  <2>2. Ring' = {}
    BY <2>1 DEF Ring
  <2>3. RingType'
    BY <1>4, <2>1 DEF RingType
  <2>4. RingOK'
    BY <1>1, <1>2, <1>4, <2>1, <2>2 DEF RingOK
  <2>5. RingHoldsNewest'
    BY <1>5 DEF RingHoldsNewest
  <2> QED BY <1>2, <1>3, <2>3, <2>4, <2>5 DEF StoreInvariant
<1>6. CASE ring' = Newest(table, Capacity)
  <2> DEFINE s == Newest(table, Capacity)
  <2>1. /\ s \in Seq(Nat) /\ Len(s) <= Capacity
        /\ \A i \in 1 .. Len(s) : s[i] \in table
        /\ \A i, j \in 1 .. Len(s) : i <= j => Text(s[j]) <= Text(s[i])
        /\ \A t \in table : (\A i \in 1 .. Len(s) : s[i] # t) =>
             Len(s) = Capacity /\ \A i \in 1 .. Len(s) : Text(t) <= Text(s[i])
    BY <1>4, NewestEffect
  <2>2. ring' = s
    BY <1>6
  <2> HIDE DEF s
  <2>3. \A t \in table : t \in Nat
    BY <1>4
  <2>4. Ring' = {s[i] : i \in 1 .. Len(s)}
    BY <2>2 DEF Ring
  <2>5. Ring' \subseteq table
    BY <2>1, <2>4
  <2>6. \A i, j \in 1 .. Len(s) : i <= j => SecondOf(s[j]) <= SecondOf(s[i])
    BY <2>1, <2>3, TextSecond
  <2>7. ASSUME NEW t \in table, t \notin Ring'
        PROVE  Len(s) = Capacity /\ \A r \in Ring' : SecondOf(t) <= SecondOf(r)
    <3>1. \A i \in 1 .. Len(s) : s[i] # t
      BY <2>4, <2>7
    <3>2. Len(s) = Capacity /\ \A i \in 1 .. Len(s) : Text(t) <= Text(s[i])
      BY <2>1, <3>1
    <3>3. \A i \in 1 .. Len(s) : SecondOf(t) <= SecondOf(s[i])
      BY <2>1, <2>3, <3>2, TextSecond
    <3> QED BY <2>4, <3>2, <3>3
  <2>8. s # <<>> => 1 \in 1 .. Len(s) /\ \A i \in 1 .. Len(s) : 1 <= i
    BY <2>1, EmptySeq
  <2>9. s # <<>> => \A t \in table : SecondOf(t) <= SecondOf(s[1])
    <3> SUFFICES ASSUME s # <<>>, NEW t \in table PROVE SecondOf(t) <= SecondOf(s[1])
      OBVIOUS
    <3>1. s[1] \in Ring'
      BY <2>4, <2>8
    <3>2. CASE t \in Ring'
      <4>1. PICK j \in 1 .. Len(s) : t = s[j]
        BY <2>4, <3>2
      <4> QED BY <2>6, <2>8, <4>1
    <3> QED BY <2>7, <3>1, <3>2
  <2>10. RingType'
    BY <2>1, <2>2 DEF RingType
  <2>11. RingOK'
    <3>1. /\ table' \subseteq 0 .. now' /\ Ring' \subseteq 0 .. now' /\ add'.at <= now'
      BY <1>1, <1>2, <1>4, <2>5
    <3> QED BY <1>2, <2>2, <2>6, <3>1 DEF RingOK, SecondOf
  <2>12. RingHoldsNewest'
    <3>1. \A t \in Ring' \cup (IF db' THEN table' ELSE {}) : t \in table
      BY <1>1, <2>5
    <3>2. table' = table
      BY <1>1
    <3> QED BY <2>2, <2>7, <2>9, <3>1, <3>2 DEF RingHoldsNewest, SecondOf
  <2> QED BY <1>2, <1>3, <2>10, <2>11, <2>12 DEF StoreInvariant
<1> QED BY <1>1, <1>5, <1>6

LEMMA StoreStep ==
  ASSUME StoreInvariant, [Next]_vars
  PROVE  StoreInvariant'
<1>1. CASE UNCHANGED <<now, storeVars>>
  <2>1. /\ UNCHANGED <<ring, table, inserted, db, warm, add, retention>> /\ now' = now
    BY <1>1 DEF storeVars
  <2>2. now' \in Nat /\ now <= now' /\ add.at <= now
    BY <2>1 DEF StoreInvariant, ClockType, RingOK
  <2>3. AddType' /\ add'.at <= now'
    BY <2>1, <2>2 DEF StoreInvariant, AddType
  <2> QED BY <2>1, <2>2, <2>3, SameStore
<1>2. \/ UNCHANGED <<now, storeVars>> \/ Advance \/ Reopen \/ StoreNext
  BY Zenon DEF Next, Restart, Reschedule, Tick, vars
<1>3. CASE StoreNext
  BY <1>3, CacheStore, InsertStore, PruneStore, RetentionStore DEF StoreNext
<1> QED BY <1>1, <1>2, <1>3, AdvanceStore, ReopenStore

LEMMA StoreHolds == Spec => []StoreInvariant
BY InitStore, StoreStep, PTL DEF Spec

(* The verdict shown is never older, by a second or more, than the history *)
(* on disk, and the ring is what a restart would restore: whatever was     *)
(* restarted, pruned, or failed to be inserted in between (Add, Latest,    *)
(* NewPersistentStore).                                                    *)
THEOREM RingIsNewest == Spec => []RingHoldsNewest
<1>1. StoreInvariant => RingHoldsNewest
  BY DEF StoreInvariant
<1> QED BY <1>1, StoreHolds, PTL

(* Clock, store and reporter keep their types; above all the ring never    *)
(* exceeds its capacity (Add, NewPersistentStore).                         *)
THEOREM TypeCorrect == Spec => []TypeOK
<1> DEFINE SentType == steady \in BOOLEAN /\ lastSent \in Nat \cup {-1}
<1>1. Init => SentType
  BY Zenon DEF Init
<1>2. Inv /\ SentType /\ [Next]_vars => SentType'
  <2> SUFFICES ASSUME Inv, SentType, [Next]_vars PROVE SentType'
    OBVIOUS
  <2>1. steady' \in BOOLEAN
    BY Zenon DEF Next, Advance, Restart, Reschedule, Tick, vars, reporterVars
  <2>2. DayOf(now) \in Nat
    BY MinutesOfDay DEF Inv, ClockOK
  <2>3. lastSent' \in {lastSent, -1, DayOf(now)}
    BY Zenon DEF Next, Advance, Restart, Reschedule, Tick, vars, reporterVars
  <2> QED BY <2>1, <2>2, <2>3
<1>3. Spec => []SentType
  <2> HIDE DEF SentType
  <2> QED BY <1>1, <1>2, Punctual, PTL DEF Spec
<1>4. StoreInvariant /\ Inv /\ SentType => TypeOK
  <2> SUFFICES ASSUME StoreInvariant, Inv, SentType PROVE TypeOK
    OBVIOUS
  <2>1. StoreTypeOK
    BY DEF StoreInvariant, ClockType, RingType, AddType, FlagType, StoreTypeOK
  <2>2. schedule \in Schedules /\ ticked \in Nat
    BY DEF Inv, ClockOK
  <2>3. DayOf(now) \in Nat
    BY MinutesOfDay DEF Inv, ClockOK
  <2>4. sends \in Nat
    BY DEF Inv, SentOK
  <2> QED BY <2>1, <2>2, <2>4 DEF TypeOK
<1> HIDE DEF SentType
<1> QED BY <1>3, <1>4, Punctual, StoreHolds, PTL
=============================================================================
