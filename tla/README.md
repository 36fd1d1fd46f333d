# Kentinel in TLA+

Models, model-checking runs and machine-checked proofs of Kentinel's own core
logic. Kentinel is a dashboard for one Kubernetes cluster with an AI agent
beside it. The **server** (Go, `cmd/server`, `internal/server`) serves the
single-page application, reads the cluster and holds the only right to write
to it. The **agent** (Go, `cmd/agent`, `internal/agent`) reviews the cluster
periodically with a language model, alerts on status changes, answers
questions with a tool loop and may *propose* changes, which a human approves
and the server applies. All paths below are relative to the repository.

## Inventory

| Component | State it keeps | Operations | What is hard |
| --- | --- | --- | --- |
| Proposals table (`internal/agent/proposal.go`) | rows with a status in SQLite | save, get, reject, resolve | decisions racing each other |
| Apply handler (`internal/server/proposals.go`) | locals of a request | fetch, check, write, resolve | four remote calls with anything in between; lost calls, a client that leaves, restarts |
| Manifest editor (`internal/k8s/resources.go`, `internal/server/handlers.go`) | none | get, update | versions that are stale when used |
| Runtime settings (`internal/agent/runtime.go`) | settings and provider under a lock, a signal channel of capacity 1 | boot, apply, views | several critical sections per update |
| Settings row (`internal/agent/store.go`, `crypto.go`) | one encrypted row, an atomic retention | save, load | written outside the lock |
| Review loop (`internal/agent/monitor.go`) | none | read settings, review, wait | wake-ups while it is busy |
| Status alerts (`internal/agent/notify.go`) | last status, in memory | process, deliver, send test | failing channels, settings in flux, restarts |
| Insight store (`internal/agent/store.go`, `insight.go`) | ring of 20 and a table | add, latest, history, timeline, prune | two copies, times compared as text |
| Daily report (`internal/agent/report.go`) | day last sent, in memory | minute tick, send | once a day across ticks and restarts |
| Query engine and chat (`internal/agent/query.go`, `api.go`, `web/src/pages/AssistantPage.tsx`) | messages of a query; conversations in the browser | tool loop, event stream, abort, reopen | late events, streams cut off, trimmed history |
| LLM adapters (`internal/llm/llm.go`, `anthropic`, `openaicompat`, `ollama`) | none | convert a conversation to one service's form | three ways to pair a call with its result, one of them without IDs |
| Messages (`internal/agent/notify.go`) | none | one notification laid out for Discord, Slack, Teams | a cut list, a status the findings contradict |
| Pod terminal (`internal/server/exec.go`) | a pipe, a queue of 4, a shared websocket | read loop, write, resize, end | goroutines that wait on each other |
| Usage, logs, snapshot, Prometheus, config, proxy, static files, SPA pages, charts | none or append-only | conversions and reads | nothing a model checker adds to |

The components interact through HTTP calls (browser to server, server to
agent through a proxy or directly), calls to the Kubernetes API, the shared
`Runtime` and `Store` inside the agent, and one channel (`Runtime.changed`)
from settings updates to the review loop.

What makes each correct:

* *Proposals and apply*: nothing is written that no human approved while it
  was pending; one decision per proposal; a recorded or reported success is
  true; a readonly server writes nothing, whichever it serves beside; content
  reaches only the object it names; approvals end and leave a decision behind.
* *Settings*: no review runs on a provider that was replaced before it began;
  whatever an update makes live or saves validates; a change is noticed at
  once; secrets and a saved state are not lost.
* *Alerts*: nobody is left with a wrong picture unless something was withheld
  from them, and webhooks and page agree; no repetition; a broken webhook
  disturbs nothing else; a message says what it is about and hides nothing
  worse than its title.
* *Query engine*: every tool result reaches the call it belongs to, whatever
  the service; a proposal that is saved is shown next unless the stream breaks
  off; the loop ends and says so.
* *Store and report*: the verdict shown is never older than the history; one
  report a day, no day without one, none of the day's reviews missing from it.
* *Chat*: an answer stands below its own question and is whole, unless a query
  the page had let go of reports into it; what is finished is saved; the page
  becomes free again.
* *Terminal*: input and sizes arrive in order, the end comes last, and nothing
  of a session is left behind.

`PROJECT.json` lists the hazards at their lines and which property covers each.

## Modules

| Module | Models |
| --- | --- |
| `AuditTrail.tla` | what a proposal promises: submit, grant, land, one recorded outcome |
| `Remediation.tla` | the proposals table, the apply handler, the editor's handler and `UpdateResource`, call by call, against a cluster other writers use too; implements `AuditTrail` |
| `MCRemediation.tla` | instances of it |
| `Remediation_proofs.tla` | its type correctness and `ReplyHonest`, that it implements `AuditTrail`, and the properties of decisions and writes |
| `AgentSettings.tla` | `Runtime`, the settings row and the review loop |
| `MCAgentSettings.tla` | an instance of it |
| `AgentSettings_proofs.tla` | its invariants |
| `Alerts.tla` | `Dispatcher.Process` and `deliver` under settings changes and restarts |
| `Notifications.tla` | what each kind of channel is sent, and what a reader sees of it |
| `Review.tla` | a review from the model's answer through the store and `Process` to the messages; it extends `Alerts` and `Notifications` |
| `MCReview.tla` | an instance of it |
| `Review_proofs.tla` | the invariants of `Alerts`; that the loop is a loop `Alerts` allows, its own invariants, and what the messages of `Notifications` say |
| `InsightStore.tla` | the ring and the table of reviews: `Add` step by step, restore, pruning, retention |
| `DailyReport.tla` | `Reporter.Run` over that store (it extends `InsightStore`) |
| `DailyReport_proofs.tla` | its properties of days, its types, and the ring against the table |
| `Terminal.tla` | one terminal session: handler, read loop, pipe, resize queue, client-go's goroutines, shell, browser |
| `Terminal_proofs.tla` | its invariants |
| `LLMAdapters.tla` | a conversation with the model, its conversion to the three services' forms, and how each service reads it |
| `QueryEngine.tla` | `QueryEngine.Run`: rounds, tools, deadline, crash; implements `EventStream` |
| `MCQueryEngine.tla` | an instance of it |
| `EventStream.tla` | what the event stream of one query promises |
| `QueryEngine_proofs.tla` | the types of `QueryEngine`, that it implements `EventStream`, and that calls and results stay paired in every adapter's form |
| `Assistant.tla` | the chat page, its saved conversations, the event stream and the agent's rounds |
| `Assistant_proofs.tla` | its invariants |
| `Lists_proofs.tla` | induction over numbers and lists, and `FlattenSeq`, for the other proof modules |

### Remediation

`h[r]` is the frame of one HTTP request: `pc` is the remote call it makes
next, the other fields are the handler's locals. `fetch`, `get`, `update`,
`readback` and `resolve` are the five calls of `handleApplyProposal` and
`UpdateResource`; each is one action, so every other request, rejection or
outside writer can come between two of them. `table` is the proposals table of
the agent, `obj` and `rev` the cluster with its resourceVersions. `servers` is
the `KENTINEL_MODE` of each server process, or `"down"`, and a frame names the
server that runs it. The agent has no such gate: `Propose` is possible
whatever the mode, as the tool is merely not offered to the model in readonly
mode (`docs/ai-agent.md:58`) and `runProposeChange` does not check.

A call is answered, or fails when the network drops it (before or after the
other side acted) or when the client has gone, which cancels the request's
context and with it every later call. A cancellation that strikes during a
call has the effect of one just before or just after it.

The server's Deployment has one replica and rolls
(`deploy/k8s/04-server.yaml`): `Deploy` starts a successor, perhaps in another
mode, beside the server that runs, and either may get a request.
On SIGTERM a server takes no new request and lets those in flight run, their
contexts live, for up to ten seconds (`cmd/server/main.go:68-72`). In the
model that is a server that runs and that no further request happens to
reach; `ServerEnds` is its end, after the last handler or with some still
running, which die between two calls. A call that is on the wire when its
process dies has arrived before that or not at all. `ReadonlyNeverWrites` is
therefore about the server that let a request in, not about the last mode
deployed: handlers of an assisted predecessor write while a readonly successor
is up. The agent's table is on disk and outlives any restart of the agent.

Abstractions: a manifest is the object it names, the version it states (0 for
none; the YAML a model writes may carry the object's) and who wrote it; a
namespace, kind and name are one target. The
snapshot in `runProposeChange` only feeds the diff, so reading it and saving
the row are one step. An unknown id is a row that is still absent. An update
that changes nothing leaves the resourceVersion alone and is accepted; versions
come from one counter, as etcd's do. `wrote`, `late` and `seen` are history: whether the
request's write was accepted, whether it arrived after the decision, and the
version its page was loaded at.

### AgentSettings

`Apply` is four steps per request (`commit`, `save`, `retain`, `signal`) after
`Merge`, which reads the settings and validates the result. `Monitor.Run` is
`read`, `provider`, `review`, `wait`: the settings and the provider are read
in two critical sections, and updates go live between them. Only the fields
that some property tells apart are kept; `fine` stands for every check of a
field that each update replaces, `notify` for the alerts and the daily report,
which need a webhook the same way. A webhook may have the wrong form
(`Malformed`), which `validateSettings` refuses. The deployment's own settings
(`Defaults`) are checked less: `LoadAgent` asks for a webhook where one is
needed and `NewRuntime` for a provider that can be built, but nobody looks at
the form of a webhook or of the Prometheus URL, or at how long the retention
is. In the run both URLs are wrong, so that the first update to be accepted
has to replace the webhook.

`live` and `seen` count updates and what the loop has read of them; `current`
holds the providers of the settings the loop has read and of those that went
live since; `alone` says that no two updates have overlapped and no save has
failed. The agent's Deployment replaces its pod by `Recreate`
(`deploy/k8s/03-agent.yaml`), so a restart has no predecessor beside it. The
model list that `handleUpdateConfig` asks Ollama for only fills in the model
name and is left out, as is a lost encryption key, which makes the boot use
the defaults.

### Alerts

`Process` remembers the status and either returns or starts a delivery to the
webhooks configured at that moment; each then succeeds or fails, in any order
(the code's is fixed, the properties do not depend on it). The next `Process`
waits for the last of them, as it runs on the same goroutine. A webhook is a
channel with a URL, and each URL is a recipient of its own: `Configure` is a
save (or two that overlap) that adds one, replaces it by another of the same
channel, or loses it, at any moment and during a delivery too. `told`,
`quiet`, `synced` and `repeated` are history: what each webhook was last told,
which have heard nothing but one status since, which nothing was withheld from
(one that was not configured at a transition missed it), and whether an alert
was repeated.

### Review and Notifications

`Review` is the goroutine around the Dispatcher. `pc` is where it stands:
`wait` (the timer or the signal; when it wakes is `AgentSettings`'), `process`
(the insight is in the store and on the page, `Process` has not run) and
`deliver`. `reviewOnce` covers the snapshot, the model's answer and
`parseInsight`: an answer is a status, or `unreadable`, and a list of
severities; every other way to fail ends in the same insight. `latest` is the
status the page shows; after a restart it is whatever the table gave back.
`ProcessReview` calls `Process` of `Alerts` as it is and remembers the status
it replaced, which the message quotes. A settings save may fall anywhere.

`Notifications` has the three layouts as operators: Discord's and Slack's
fields, Teams' flat list of blocks. Of a finding only the severity is kept.
`Seen` is what a reader gets from each layout, so that one property speaks of
all three. The number of findings shown is the constant `MaxShown`.

### InsightStore and DailyReport

`Add` is `Cache` (the ring), `Insert` (the row, which may fail) and `Prune`;
`add` is its frame. A restart, a settings save or a tick of the report can
fall between them. A review is the instant it was created at, and `Text` is
the rank of that instant as the database compares it: RFC 3339 text without
trailing zeros puts `...:05Z` after `...:05.2Z`. Of the two kinds of misorder
within a second only that of the full second is kept; a second whose instants
differ in the number of digits behaves the same way. `Reopen` is a start of the process: the ring comes
back from the table, or the database cannot be opened or read and it does not.

`Tick` is one pass of the loop in `Run`, with the report built and sent inside
it: the ticker buffers one tick, and three channels with a deadline of 15
seconds each cannot delay the loop by a minute, so `Advance` never leaves a
minute before it was looked at. `NoDaySkipped` is about the attempt, as the
day is marked before the delivery. "Send report now" changes no state and is
left out, as are a failing query of the timeline and the digest's wording.

### Terminal

Each goroutine is a variable: `handler`, `reader`, `copier` and `sizer`, the
last two belonging to client-go and modelled from the interfaces they are
handed (an `io.Reader` for stdin, a `TerminalSizeQueue`). The pipe has no
buffer, so a write in progress is `reader.pc = "write"` with its chunk.
Closing the pipe twice is harmless and happens. A frame is its type and number.
`Leave` also stands for a broken connection: the server still reads what had
arrived. The upgraded request's context is not cancelled by a browser that
leaves (the connection was hijacked), so only the pipe's end reaches the shell.

### Assistant

`chat`, `busy` and `conv` are the page's state, `saved` is localStorage,
`query[q]` the connection and the agent's run of question `q`. An entry keeps
its question, how much text it shows, which queries wrote to it (`from`,
history) and whether it is done. `Persist` is the effect after a change of the
chat. A request goes through `buildQueryHistory` in `Accept`. The events wait
in `events` until `Deliver`. The last event frees the page, but agentQuery
reads on until the agent closes the connection: it is `ending` until
`ReadEnds` or, when that read fails, `FailLate`. `abortRef` is replaced by the
next question, so only the last question can be aborted. An abort closes the
connection, and nothing of it is delivered any more, but agentQuery reports
some ends to whatever the page shows by then:

* while the body of a refusal is being read (`refused`), the abort makes the
  read fail, the inner `catch` swallows that and `onError` is called: in the
  conversation opened by then;
* a read that fails after the last event (`FailLate`) calls `onError` below
  the question asked meanwhile, and sets `busy` to false while its answer
  streams;
* that question's own events then go on arriving, below whatever is asked
  next (`Freed`), and the end of that one may free the page once more.

`strays` collects the queries this happens to. `AnswersBelong` and
`AnswersWhole` set them aside and hold for all others; `StoreFollowsPage`,
`HistoryFits` and `BusyEnds` make no exception for them. If the chat is empty
when such an error arrives, `appendStep` throws inside the state update and
the page is gone until it is reloaded (`page = "down"`).

Left out: what tools return, usage rows, a second tab on the same store, a
full localStorage, the clock that orders conversations (the one just changed
is the newest), and what the agent still does for a cancelled query, except
that proposals are `Propose` of Remediation. Requests the page cannot send
(unknown roles, empty texts, no question at the end) and their refusals
(`api.go:321-342`) are left out too.

### QueryEngine, LLMAdapters and EventStream

One query. `pc` is what `Run` does next: `chat` (a request to the model),
`tool` (the next call of the round), `save` and `card` (inside
`runProposeChange`, before `SaveProposal` and before the event), `over`, and
`gone` after a crash. A call is named by its round and index, so a result can
be told from any other. `ChatAnswers` is a round's answer with any text and
any calls, `Answer` the append to `results` and, after the last call, to
`messages`. `RunTool` takes an unknown tool's refusal, the cluster's and
Prometheus' failures and every other error as one: each goes back to the model
as a result. `pinned` is the provider and the Prometheus client, which `Run`
takes once. The context ends with the client or after five minutes; only
`SaveProposal` does not look at it, so a query that breaks off there leaves a
pending row whose card nobody saw.

`LLMAdapters` keeps roles, the order of blocks, IDs, names and the error mark;
texts and arguments are left out. `convertMessages` is the conversion of the
three adapters; `Missing` and `CallId` are the IDs they make up. How the
service pairs calls with results (`Following`, `Matching`) is the service's
documented behaviour as the adapters use it: Anthropic and OpenAI by ID among the
results that follow, Ollama by order and tool name.

`Assistant` models the same rounds as the page sees them, with several
questions and without the tools' inside; the two meet in the event stream,
whose promise `EventStream` states.

## Runs

| Run | Bounds | Shows |
| --- | --- | --- |
| `Remediation.cfg` | one proposal, two approvals, one edit, two objects, two servers, lost calls and rolling updates, outside writers up to revision 2 | the invariants and action properties of the handlers, and the refinement |
| `RemediationLive.cfg` | one proposal, two approvals, one object, clients that leave | an approval is decided |
| `RemediationDecided.cfg` | two approvals, no faults | violated: approved, rejected in the middle, and written |
| `RemediationAudit.cfg` | one approval, clients that leave | violated: written, over, and still pending |
| `RemediationWindow.cfg` | one edit, one outside writer | violated: the edit overwrites what came since it was opened |
| `AgentSettings.cfg` | two updates of eight kinds, one failing save, restarts, a deployment whose webhook and Prometheus URL have the wrong form | the settings' invariants, the provider of each review, and that a change is noticed |
| `AgentSettingsSecrets.cfg` | the same | violated: the second of two overlapping updates drops the key the first has stored |
| `Alerts.cfg` | Discord with two URLs and Teams, every status, saves that add, replace and lose webhooks, lists of up to two findings of which a message shows one | what webhooks and page know, what messages say; reviews go on |
| `QueryEngine.cfg` | two rounds of at most two calls, four combinations of adapter, service and Prometheus | calls and results stay paired, the promise of the stream, the end of a query |
| `DailyReport.cfg` | two days of two minutes, two instants to a second, a ring of two, retention of one or two days | ring against table, the report of each day |
| `Terminal.cfg` | three frames, two chunks of output, a queue of two | order of input and sizes, the end of every goroutine |
| `Assistant.cfg` | three questions, two conversations of which one is saved, two rounds of at most one tool, prompts and history of length one | whose answer stands where, what is saved, the trimmed history, the end of `busy` |

The largest runs (`Remediation.cfg` with 782,000 states, `Assistant.cfg` with
486,000, `Alerts.cfg` with 346,000) take one to three minutes with two workers.

Some properties are stated but not run, because something that is implies
them: `AppliedMeansWritten` and `DecisionFinal` follow from
`ImplementsAuditTrail`; `NoLostWakeup` is a theorem, and a lost wake-up would
break `ChangeNoticed` too. `StreamComplete` follows from
`ImplementsStream`, as `NothingUnshown` proves. `ExitIsLast` is a theorem that
rests on little but client-go's stream returning after its copies.

Two approvals and one edit are enough for every pair of handlers to overlap,
and the two objects for a manifest to name the wrong one; a second proposal
would be independent, as rows and frames of different proposals never meet
except on an object, where the edit and the outside writers already stand for
another writer. One outside write on top of the handlers' own makes a version
stale; two servers are a predecessor and its successor, whose places the next
ones take. The proofs do not depend on any of these bounds. `CHECK_DEADLOCK FALSE`
in the remediation runs: when all requests have ended and the bound on outside
writers is reached the instance stops, which the system would not. Symmetry
(approvals, objects, servers) is used in the safety run only.

The time scale of the report is compressed: a second of two instants is also
a minute, and a day has two of them, which leaves a minute to miss, a midnight
to cross, and a pruning cutoff inside a second. Three frames can fill the
resize queue and still leave one to drop. Two rounds are the fewest in
which made-up IDs repeat, two calls the fewest whose results can be swapped,
and two findings the fewest of which one is cut. Slack's layout differs from
Discord's in nothing `Seen` keeps. Two URLs of one channel are the fewest of
which one replaces the other. Three questions are the fewest with which a late
error of the first can hand what the second is sent to the third, and one tool
a round is enough for a round that ends without an answer. Their history is
cut to the last turn by its size; that the cap on turns holds as well is left
to the theorem `PromptsFit`, since the run's history is too short to reach it.
One saved conversation of two is thrown out by the cap. Terminal and Assistant may stop:
the session ends, or the bound on questions is reached, with all done; the
report's clock stops at its horizon.

Fairness. A handler that has begun is run by the Go scheduler and each of its
calls is answered or fails: weak fairness of each request's steps. Faults,
users and outside writers are never assumed to act. In the live run nothing is
lost; with losses an approval may end undecided, which is the finding of
`RemediationAudit.cfg`. The review loop and the steps of `Apply` are goroutines
that can always go on: weak fairness. The interval of the loop is *not* fair,
so that a change has to be noticed without it. A webhook delivery has a
deadline of 15 seconds, and the loop goes on after each step: weak fairness of
`ProcessReview`, `DeliverNext` and `Return`, but not of `reviewOnce`. In
`QueryEngine` requests and tools end by the context's deadline at the latest:
weak fairness of `Run`, none of `Expire` or `Crash`. In `Terminal` the
goroutines go on while they can and a write to the websocket ends because TCP
gives up on a dead peer: weak fairness of each. `Polite` is an assumption on
the shell, not the code: it reads its input and exits when that ends.
`LeavingEndsSession` needs it, since a shell that does neither keeps the
session after the browser has gone, whatever the comment at `exec.go:116-117`
suggests. In `Assistant` a query ends by its deadline of five minutes at the
latest, and what was sent arrives or the connection fails: weak fairness of
the agent, of `Deliver` and of reading a refusal. A connection need not end after
its last event, nor fail then, and users are never assumed to act.

## Where the code and its own words differ

1. `proposal.go:186-188`: `decideProposal` "guards double-apply and
   approve-after-reject races". It guards the recorded status; the write comes
   before it (`RemediationDecided.cfg`).
2. `proposals.go:84-86`: the outcome is recorded "regardless of success, so the
   audit trail reflects reality". The recording shares the request's context
   and dies with it (`RemediationAudit.cfg`).
3. `resources.go:150-152`: "same optimistic-concurrency window as kubectl
   edit". The version is taken at the save, not when the object was opened
   (`RemediationWindow.cfg`).
4. `runtime.go:336-337`: "Write-only secrets are never dropped unless
   replaced". Overlapping updates drop them (`AgentSettingsSecrets.cfg`).

Found while modelling, without a run of their own:

5. `docs/ai-agent.md:203`: "No repeat alerts while the status stays the same".
   A restart forgets the status. `NoRepeatWithinLife` is what holds.
6. `docs/ai-agent.md:58`: "In readonly mode the tool doesn't exist". It is not
   offered, but `Run` (`query.go:119`) executes `propose_change` in either
   mode when a model calls it all the same; the apply is still refused.
7. `snapshot.go:91` caps the warning events at 20 and notes how many it left
   out; `overview.go:115` has cut them to 10 before, silently.

## Proofs

All theorems hold for every value of the constants that satisfies the named
assumptions (`RemediationAssumption`, `SettingsAssumption`, `StoreAssumption`,
`ReportAssumption`, `ReviewAssumption`, `NotificationsAssumption`,
`QueryAssumption`, `TerminalAssumption`, `AssistantAssumption`,
`AlertsAssumption`), without the bounds of the runs: limits are any numbers,
positive where the code's are, and sets any sets. `ReviewAssumption` says that
the channels are among the three the code has a layout for, `AlertsAssumption`
only that what is saved are notification settings. Of the deployment's own
settings `SettingsAssumption` takes what `LoadAgent` and `NewRuntime` check:
that the provider can be built, that a webhook is there if one is needed, and
that the retention is positive. Every safety property that a
passing run checks, invariant or action property, and both refinements are
proved.

*Lists.* Several properties are about lists of any length. The induction
theorems of the library take an operator as a parameter, which the provers
here cannot instantiate, so `Lists_proofs` states induction over sets instead:
a set that contains 0 and with `n` also `n + 1` contains every number
(`Induction`, from the smallest element, `WFMin`), and the same for sequences
and `Append` (`ListInduction`). `FlattenSeq` is defined by a recursive
function; `FlattenedExists` shows that the function exists for every length,
from which `FlattenAppend` and `FlattenConcat` follow.

*Remediation.* `ShapeInvariant` proves `Shape`: the types, what each `pc` says
about its frame (`FramesOK`) and that rows are filled exactly once (`RowOK`).
The type invariant alone is not inductive: that a frame's manifest names a
known object follows only from the pending row it was copied from.
`TrailImplemented` maps each action to a step or a stutter of `AuditTrail`,
with `granted` and `landed` computed from the frames; `AppliedIsWritten` is
then `AuditTrail`'s `Honest`. For the writes `Shape` is strengthened
by `Inv`: a frame holds the manifest of its proposal's row (`CopyOK`), late
frames end at the fetch (`LateOK`), a draft was opened at its target
(`DraftOK`), a pinned version is the one seen (`VersionOK`), a request past
the gate runs on a server that is in assisted mode (`ModeOK`: a server keeps
its mode while it runs, and takes its requests along when it ends) and what
lies on an object was written by its addressee (`ContentOK`).

*AgentSettings.* `Inv` adds to the stated invariants that every update between
merge and save carries settings that validate (`ValidInFlight`), that settings
and provider are those of one update at any moment (`ProviderMatches`, which
the loop's two separate reads do not inherit), and that the live provider is
among those the loop may have read (`LoopCurrent`). `Solo` is the
invariant of updates that do not overlap: at most one is under way, and its
`pc` says how much of the live settings, the row and the retention already is
its own (`StageOK`). At `commit` it still has the secrets of what is live,
which is what a second update would break.

*Alerts.* `Inv` adds to `AlertsInSync` and `NoRepeatWithinLife` that a delivery
under way announces the last status (`PendingIsLast`), that a webhook it has
yet to reach, and to which nothing happened since it was last told something,
was told another status (`PendingIsNews`), and that once reached such a webhook
was told the present one (`QuietIsLast`).

*Review.* Each step of the loop is a step of `Alerts` or leaves its variables
alone (`ImplementsAlerts`), so the theorems about alerts hold of the loop.
`LoopInv` adds what only the loop knows: what is handed on is a review
(`HandsOn`), page and last status agree once `Process` has run (`Agree`),
deliveries are over before the next review (`Rest`), before the first status
no delivery is under way and nobody counts as in sync (`Unseen`), and no finding is worse than the status it
travels under (`Titled`, from `EscalateIsWorst`). `PageAgrees` follows from
`LoopInv` and `AlertsInSync` together; neither alone gives it.
`MessagesAreHonest` is about the three layouts. `Values` picks what a reader
finds under a name; it distributes over concatenation (`ValuesConcat`) and
over cards flattened to blocks (`CardsSay`), so each layout says what its three
parts say (`EmbedSays`, `TeamsSays`), whatever is cut and however many blocks
a card takes. With `Titled` this gives the property for alerts, tests and
reports.

*QueryEngine.* `IInv` adds to the types which call is running (`RoundOK`),
that changes were proposed by calls of earlier rounds or earlier in this one
(`PastOK`), and what has been shown at each `pc` (`CardsOK`): everything
proposed, or, at the card, everything but the running call. `PastOK` is what
makes the running call new, so that `Propose` and `Show` of `EventStream` are
enabled for it. `StreamImplemented` maps each action to a step or a stutter;
what every such stream keeps is then proved of `EventStream` alone
(`NothingUnshown`).

`ResultsPaired` needs `PairInv` besides: the results of the running round
belong to the first of its calls (`AnsweredOK`), calls carry the IDs the
adapter gave them (`IdsOK`), failures are of calls already run (`FailedOK`),
and what was sent before the round is paired and of earlier rounds only
(`WireOK`). `convertMessages` of one message more is the old conversion and
the message's items (`WireGrows`); the items that follow a call only grow
(`FollowingEarlier`), and IDs or, for Ollama, order and name tell the calls of
the new round from all earlier ones.

*DailyReport.* The properties of days rest on facts of division, which are
lemmas: days are whole minutes (`MinutesOfDay`), a midnight ends a minute
(`Midnight`), and text order agrees with time from one second to the next
(`LaterText`). `Inv` says that the last tick is of this minute or the one
before (`ClockOK`), that a report was sent today exactly if `lastSent` is
today (`SentOK`), and that on an undisturbed day the report went out with the
tick of its minute (`PunctualOK`). `StoredOK` says that a row inserted within
the last day is still in the table: retention is at least a day and cutoffs
only grow.

*InsightStore.* What a start restores is the list that `ORDER BY created_at
DESC LIMIT` gives, in the model a `CHOOSE`, so it has to be shown that such a
list exists, and this also for a table of any size. A row's rank is the number of rows the
order puts before it; ranks differ, and the rows of rank 0, 1, ... are the
list (`RankOrder` and the lemmas around it). `StoreInvariant` adds to
`RingHoldsNewest` that no row is of the future, that the ring is in the order
of the seconds and that a review about to be inserted is at its head
(`RingOK`).

*Terminal.* `IInv` follows a frame through the stages: sent, in the inbox
(`InboxOK`), in `readLoop`'s hands, in the copier's, taken by the shell
(`StagesOK`, `OrderOK`); while the session can still read, each typed frame
the server has read is at one of them, and later stages hold earlier frames
(`FlowOK`). `PhaseOK` and `EndOK` say which goroutines live together and who
has closed what: while the stream is up only `readLoop` closes the pipe, with
everything read. `SizeOK` says the same of the last size, in the channel or
with the shell; `ScreenOK` and `SilentOK` that after the exit message nobody
is left to write.

*Assistant.* `IInv` ties the page to the connections: a query in flight that
is no stray is that of the last question, and the page waits for it
(`LiveOK`); as long as something of that query may come, be it only a late
error, the chat ends with its question and its answer (`WaitingOK`); the text
there and the events under way add up to what the agent wrote (`TextOK`, a sum
along the queue); no answer is of a question to come, and a finished one has
nothing more to come and is whole (`WholeOK`, in the store too); a last event
is last (`RunOK`). What a step of the page does to the queries is put into one
predicate (`Onward`): a query reads on, or ends, and keeps what it wrote. Each
step then has to show what it does to the last entry (`ShowKeeps`), which is
that of its own query or makes the query a stray. `HistoryFits` rests on `DropOldestEffect`: the question is
always kept, and fits alone because no prompt may be longer than the history.

Only model-checked: the liveness properties (`ApprovalGetsDecided`,
`ChangeNoticed`, `ReviewsGoOn`, `QueryEnds`, `NothingLeftBehind`,
`LeavingEndsSession`, `BusyEnds`). They rest on fairness, hence on `ENABLED`,
which tlapm does not handle.

## Plan

Done, in this order: remediation with its abstract audit trail, settings,
alerts, store and daily report, terminal, chat; then the review loop around
the alerts with its messages, and the query engine with the adapters and the
abstract event stream; the proofs above. Next:

1. An abstract specification of the chat store and of the terminal as two
   ordered channels, implemented by the detailed modules.
2. `Assistant` reading the stream of `EventStream` instead of its own rounds.

Not modelled:

* logs, cluster snapshot and metrics, proxy and static files, rendering in the
  single-page application: they read and format, one request at a time, and no
  state of theirs outlives it;
* usage and cost: rows that are appended and summed;
* configuration: the environment is parsed once at boot, and its results (the
  mode, the defaults, the retention) are parameters of the models;
* charts and container files.
