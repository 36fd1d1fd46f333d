---------------------------- MODULE Notifications ---------------------------
(***************************************************************************)
(* What a channel is sent (internal/agent/notify.go): one Notification,    *)
(* laid out for Discord, Slack or Teams, and what a reader takes from it.  *)
(* Of a finding only the severity is kept, of the summary nothing; "info"  *)
(* stands for any severity the agent does not know.                        *)
(***************************************************************************)
EXTENDS Naturals, Sequences, SequencesExt

CONSTANT MaxShown   (* findings shown in one message: 5                     *)

ASSUME NotificationsAssumption == MaxShown \in Nat \ {0}

NoStatus == "none"

(* An alert, the test of the Settings page (SendTest), and the daily       *)
(* report (Reporter.Send).                                                 *)
StatusAlert(status, previous, findings) ==
  [status |-> status, previous |-> previous, findings |-> findings,
   test |-> FALSE, report |-> FALSE, sections |-> <<>>]

SendTest ==
  [status |-> "warning", previous |-> NoStatus, findings |-> <<"warning">>,
   test |-> TRUE, report |-> FALSE, sections |-> <<>>]

Report(status, sections) ==
  [status |-> status, previous |-> NoStatus, findings |-> <<>>,
   test |-> FALSE, report |-> TRUE, sections |-> sections]

-----------------------------------------------------------------------------
embedStyle(n) ==
  [test   |-> n.test,
   about  |-> IF n.report THEN "report"
              ELSE IF n.status = "healthy" /\ n.previous # NoStatus
                   THEN "recovery" ELSE "status",
   status |-> n.status]

Field(name, value) == [name |-> name, value |-> value]

(* The findings come first to last as the model gave them, and the number  *)
(* of those left out after the last one shown.                             *)
Listed(findings) ==
  [i \in 1 .. IF Len(findings) <= MaxShown THEN Len(findings) ELSE MaxShown |->
     Field("finding", findings[i])]
  \o IF Len(findings) > MaxShown
     THEN << Field("more", Len(findings) - MaxShown) >> ELSE <<>>

Sections(n) == [i \in DOMAIN n.sections |-> Field("section", n.sections[i])]

Before(n) == IF n.previous # NoStatus THEN << Field("previous", n.previous) >> ELSE <<>>

(* An embed, an attachment: title, text and fields.                        *)
sendDiscord(n) ==
  [title  |-> embedStyle(n), description |-> Before(n),
   fields |-> Listed(n.findings) \o Sections(n)]

sendSlack(n) ==
  [title  |-> embedStyle(n), text |-> Before(n),
   fields |-> Listed(n.findings) \o Sections(n)]

(* A card: one list of blocks, of which a finding or section takes two.    *)
sendTeams(n) ==
  << Field("title", embedStyle(n)), Field("summary", "") >>
  \o Before(n)
  \o FlattenSeq([i \in DOMAIN Listed(n.findings) |->
       LET f == Listed(n.findings)[i]
       IN IF f.name = "finding" THEN << f, Field("detail", "") >> ELSE << f >>])
  \o FlattenSeq([i \in DOMAIN Sections(n) |->
       << Sections(n)[i], Field("lines", "") >>])

-----------------------------------------------------------------------------
(* What a reader sees: the title, and all fields or blocks.                *)
Seen(channel, n) ==
  CASE channel = "discord" ->
         [title  |-> sendDiscord(n).title,
          blocks |-> sendDiscord(n).description \o sendDiscord(n).fields]
    [] channel = "slack" ->
         [title  |-> sendSlack(n).title,
          blocks |-> sendSlack(n).text \o sendSlack(n).fields]
    [] channel = "teams" ->
         [title  |-> sendTeams(n)[1].value, blocks |-> Tail(sendTeams(n))]

Values(blocks, name) ==
  FlattenSeq([i \in DOMAIN blocks |->
    IF blocks[i].name = name THEN << blocks[i].value >> ELSE <<>>])
=============================================================================
