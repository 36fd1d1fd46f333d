---------------------------- MODULE AgentSettings ---------------------------
(***************************************************************************)
(* The agent's runtime settings (internal/agent/runtime.go), their         *)
(* encrypted row in the database (internal/agent/store.go) and the review  *)
(* loop that a change wakes up (internal/agent/monitor.go).                *)
(*                                                                         *)
(* Apply is four critical sections, not one: it merges the update into a   *)
(* copy of the settings, makes the result live, saves it, and signals the  *)
(* review loop. Other updates, the loop and a crash fall between them.     *)
(***************************************************************************)
EXTENDS Naturals, FiniteSets

CONSTANTS
  Callers,      (* PUT /config requests                                     *)
  Clouds,       (* providers that need an API key                           *)
  Secrets,      (* API keys and webhook URLs                                *)
  Malformed,    (* webhook URLs of the wrong form                           *)
  MaxDays,      (* config.MaxInsightRetentionDays                           *)
  Unset,        (* the empty string of a secret                             *)
  Updates,      (* the payloads a request may carry                         *)
  Defaults,     (* the settings the deployment's environment gives          *)
  MaxFailures   (* bound: saves that fail                                   *)

Providers == Clouds \cup {"ollama"}
Optional  == Secrets \cup {Unset}

(* The fields are those some property can tell apart: which provider and   *)
(* its keys, a webhook, what needs the webhook (notify), the review        *)
(* switch, and the retention, which the store keeps a copy of. fine stands *)
(* for every check on a field that each update replaces (the interval, the *)
(* Prometheus URL, the severity).                                          *)
Settings == [provider : Providers, keys : [Clouds -> Optional],
             hook : Optional, notify : BOOLEAN, monitor : BOOLEAN,
             days : Nat, fine : BOOLEAN]

Payloads == [provider : Providers, key : Optional, hook : Optional,
             notify : BOOLEAN, monitor : BOOLEAN, days : Nat,
             fine : BOOLEAN]

(* A provider can be built from the settings: buildProvider.               *)
Buildable(s) == s.provider \in Clouds => s.keys[s.provider] # Unset

(* notify stands for the alerts and for the daily report.                  *)
HasHook(s) == s.notify => s.hook # Unset

(* What validateSettings asks of a whole settings value.                   *)
Valid(s) ==
  /\ s.fine /\ Buildable(s) /\ HasHook(s)
  /\ s.hook \notin Malformed
  /\ s.days \in 1 .. MaxDays

(* The deployment's settings are checked less than an update is: LoadAgent *)
(* looks neither at the form of a webhook or of the Prometheus URL nor at  *)
(* how long the retention is, and NewRuntime only replaces one that is not *)
(* positive.                                                               *)
ASSUME SettingsAssumption ==
  /\ Unset \notin Secrets
  /\ Malformed \subseteq Secrets
  /\ "ollama" \notin Clouds
  /\ Updates \subseteq Payloads
  /\ Defaults \in Settings
  /\ Buildable(Defaults) /\ HasHook(Defaults) /\ Defaults.days > 0
  /\ MaxDays \in Nat
  /\ MaxFailures \in Nat

VARIABLES
  settings,   (* Runtime.settings                                           *)
  provider,   (* Runtime.provider                                           *)
  signal,     (* whether Runtime.changed, of capacity 1, holds a value      *)
  saved,      (* the settings row, a set of at most one                     *)
  retention,  (* the store's own copy of the retention                      *)
  call,       (* the frame of each PUT /config request                      *)
  loop,       (* the frame of the review loop                               *)
  live,       (* history: how many updates went live                        *)
  current,    (* history: the providers of the settings the loop last read  *)
              (* and of those that went live since                          *)
  failures,   (* how many saves failed                                      *)
  alone       (* history: no two updates overlapped and no save failed      *)

vars == <<settings, provider, signal, saved, retention, call, loop, live,
          current, failures, alone>>

Calls == [pc : {"idle", "commit", "save", "retain", "signal", "done"},
          next : Settings]

Built == [name : Providers, key : Optional]

(* using is the provider of the last review; seen is history, the value of *)
(* live when the loop last read the settings.                              *)
Loops == [pc : {"read", "provider", "review", "wait"}, using : Built,
          seen : Nat]

Ended == [pc |-> "done", next |-> Defaults]

InFlight(c) == call[c].pc \notin {"idle", "done"}

buildProviderKeyless(s) == [name |-> s.provider]                    (* mutant *)

buildProvider(s) ==
  [name |-> s.provider,
   key  |-> IF s.provider \in Clouds THEN s.keys[s.provider] ELSE Unset]

TypeOK ==
  /\ settings \in Settings
  /\ provider \in Built
  /\ signal \in BOOLEAN
  /\ saved \in SUBSET Settings
  /\ retention \in Nat
  /\ call \in [Callers -> Calls]
  /\ loop \in Loops
  /\ live \in Nat
  /\ current \in SUBSET Built
  /\ failures \in Nat
  /\ alone \in BOOLEAN

-----------------------------------------------------------------------------
(* NewRuntime: a saved row whose provider can be built replaces the        *)
(* deployment's defaults altogether.                                       *)
BootSettings(row) ==
  IF \E s \in row : Buildable(s) THEN CHOOSE s \in row : TRUE ELSE Defaults

Init ==
  /\ settings = Defaults
  /\ provider = buildProvider(Defaults)
  /\ signal = FALSE
  /\ saved = {}
  /\ retention = Defaults.days
  /\ call = [c \in Callers |-> [pc |-> "idle", next |-> Defaults]]
  /\ loop = [pc |-> "read", using |-> provider, seen |-> 0]
  /\ live = 0
  /\ current = {provider}
  /\ failures = 0
  /\ alone = TRUE

(* The pod is replaced: requests and the pending signal are lost, the row  *)
(* is read back, and a new loop starts by reading the settings.            *)
Restart ==
  /\ settings' = BootSettings(saved)
  /\ provider' = buildProvider(settings')
  /\ retention' = settings'.days
  /\ signal' = FALSE
  /\ call' = [c \in Callers |->
                IF InFlight(c) THEN Ended ELSE call[c]]
  /\ loop' = [loop EXCEPT !.pc = "read"]
  /\ current' = {provider'}
  /\ UNCHANGED <<saved, live, failures, alone>>

-----------------------------------------------------------------------------
(* Apply.                                                                  *)

(* merge: an empty secret keeps the current one, 0 days keep the current   *)
(* retention, every other field is replaced.                               *)
ReplaceAlways(old, new) == new                                      (* mutant *)
Replace(old, new) == IF new = Unset THEN old ELSE new

merge(s, u) ==
  [provider |-> u.provider,
   keys     |-> IF u.provider \in Clouds
                THEN [s.keys EXCEPT ![u.provider] = Replace(@, u.key)]
                ELSE s.keys,
   hook     |-> Replace(s.hook, u.hook),
   notify   |-> u.notify,
   monitor  |-> u.monitor,
   days     |-> IF u.days > 0 THEN u.days ELSE s.days,
   fine     |-> u.fine]

PayloadAccepted(next, u) ==                                         (* mutant *)
  u.fine /\ Buildable(next) /\ HasHook(next) /\ u.hook \notin Malformed

Accepted(next, u) == Valid(next)

(* An update that does not validate is answered 400 and changes nothing.   *)
Merge(c, u) ==
  LET next == merge(settings, u)
  IN  /\ call[c].pc = "idle"
      /\ call' = [call EXCEPT ![c] =
                    IF Accepted(next, u) THEN [pc |-> "commit", next |-> next]
                    ELSE Ended]
      /\ alone' = (alone /\ \A d \in Callers : ~InFlight(d))
      /\ UNCHANGED <<settings, provider, signal, saved, retention, loop, live,
                     current, failures>>

Step(c, from, to) ==
  /\ call[c].pc = from
  /\ call' = [call EXCEPT ![c].pc = to]

CommitKeepsProvider(c) ==                                           (* mutant *)
  /\ Step(c, "commit", "save")
  /\ settings' = call[c].next
  /\ live' = live + 1
  /\ current' = current \cup {buildProvider(call[c].next)}
  /\ UNCHANGED <<provider, signal, saved, retention, loop, failures, alone>>

(* Settings and provider change under one lock.                            *)
Commit(c) ==
  /\ Step(c, "commit", "save")
  /\ settings' = call[c].next
  /\ provider' = buildProvider(call[c].next)
  /\ live' = live + 1
  /\ current' = current \cup {provider'}
  /\ UNCHANGED <<signal, saved, retention, loop, failures, alone>>

(* SaveSettings, outside the lock. Its failure is only logged.             *)
Save(c) ==
  /\ Step(c, "save", "retain")
  /\ \/ saved' = {call[c].next} /\ UNCHANGED <<failures, alone>>
     \/ /\ failures < MaxFailures
        /\ failures' = failures + 1
        /\ alone' = FALSE
        /\ UNCHANGED saved
  /\ UNCHANGED <<settings, provider, signal, retention, loop, live, current>>

RetainNothing(c) ==                                                 (* mutant *)
  /\ Step(c, "retain", "signal")
  /\ UNCHANGED <<settings, provider, signal, saved, retention, loop, live,
                 current, failures, alone>>

SetRetentionDays(c) ==
  /\ Step(c, "retain", "signal")
  /\ retention' = call[c].next.days
  /\ UNCHANGED <<settings, provider, signal, saved, loop, live, current,
                 failures, alone>>

SignalUnbuffered(c) ==                                              (* mutant *)
  /\ call[c].pc = "signal"
  /\ call' = [call EXCEPT ![c] = Ended]
  /\ signal' = (signal \/ loop.pc = "wait")
  /\ UNCHANGED <<settings, provider, saved, retention, loop, live, current,
                 failures, alone>>

(* The non-blocking send: a signal already pending is enough.              *)
Signal(c) ==
  /\ call[c].pc = "signal"
  /\ call' = [call EXCEPT ![c] = Ended]
  /\ signal' = TRUE
  /\ UNCHANGED <<settings, provider, saved, retention, loop, live, current,
                 failures, alone>>

-----------------------------------------------------------------------------
(* Monitor.Run.                                                            *)

LoopStep(from, to) == loop.pc = from /\ loop' = [loop EXCEPT !.pc = to]

(* The updates, and what they write.                                       *)
applied == <<settings, provider, saved, retention, call, live, failures,
             alone>>

ReadSettings ==
  /\ loop.pc = "read"
  /\ loop' = [loop EXCEPT !.pc = IF settings.monitor THEN "provider" ELSE "wait",
                          !.seen = live]
  /\ current' = {buildProvider(settings)}
  /\ UNCHANGED <<applied, signal>>

(* reviewOnce reads the provider, under the lock again and after the       *)
(* settings; updates go live in between.                                   *)
ReadProvider ==
  /\ loop.pc = "provider"
  /\ loop' = [loop EXCEPT !.pc = "review", !.using = provider]
  /\ UNCHANGED <<applied, signal, current>>

(* A deadline ends every review, and a failing one is an insight too.      *)
FinishReview ==
  /\ LoopStep("review", "wait")
  /\ UNCHANGED <<applied, signal, current>>

(* The select: the interval elapsed, or a change was signalled.            *)
Tick ==
  /\ LoopStep("wait", "read")
  /\ UNCHANGED <<applied, signal, current>>

Woken ==
  /\ signal
  /\ LoopStep("wait", "read")
  /\ signal' = FALSE
  /\ UNCHANGED <<applied, current>>

-----------------------------------------------------------------------------
Apply(c) == Commit(c) \/ Save(c) \/ SetRetentionDays(c) \/ Signal(c)

Loop == ReadSettings \/ ReadProvider \/ FinishReview \/ Woken

Next ==
  \/ \E c \in Callers, u \in Updates : Merge(c, u)
  \/ \E c \in Callers : Apply(c)
  \/ Loop
  \/ Tick
  \/ Restart

Spec == Init /\ [][Next]_vars

(* Goroutines that can run do run. The interval is not assumed to elapse:  *)
(* a change has to be noticed without the help of the next tick.           *)
FairSpec ==
  /\ Spec
  /\ WF_vars(Loop)
  /\ \A c \in Callers : WF_vars(Apply(c))

-----------------------------------------------------------------------------
(* A review runs with the provider of the settings the loop has just read, *)
(* or of settings that went live after that; never with an older one, even *)
(* though Run reads the two in two sections and updates fall between them. *)
ReviewProviderIsCurrent == loop.pc = "review" => loop.using \in current

(* Whatever updates race each other and however poor the deployment's own  *)
(* settings are, what is saved is a whole that validates, and so is what   *)
(* is live unless it is still the deployment's (merge, Apply).             *)
AlwaysValid ==
  /\ \A s \in saved : Valid(s)
  /\ settings = Defaults \/ Valid(settings)

(* No lost wake-up. If the loop has not seen the newest settings and is    *)
(* not just about to read them, a signal is pending or will be sent.       *)
NoLostWakeup ==
  loop.seen < live /\ loop.pc # "read"
    => signal \/ \E c \in Callers : call[c].pc \in {"save", "retain", "signal"}

(* docs/configuration.md: a change applies "immediately". Each update that *)
(* goes live is read by the loop, without waiting for the interval.        *)
ChangeNoticed ==
  \A n \in 1 .. Cardinality(Callers) : live >= n ~> loop.seen >= n

(* Updates that do not overlap survive a restart, and the store prunes by  *)
(* the retention that is shown, unless saving failed.                      *)
DurableWhenAlone ==
  alone /\ (\A c \in Callers : ~InFlight(c))
    => /\ live > 0 /\ saved # {} => saved = {settings}
       /\ retention = settings.days

(* Updates that do not overlap never drop a key or webhook (merge).        *)
Kept(old, new) == old # Unset => new # Unset

SecretsKeptWhenAlone ==
  [][alone /\ live' # live
       => /\ Kept(settings.hook, settings'.hook)
          /\ \A k \in Clouds : Kept(settings.keys[k], settings'.keys[k])]_vars

-----------------------------------------------------------------------------
(* runtime.go:336-337 says of merge: "Write-only secrets are never dropped *)
(* unless replaced". An update that does not replace them drops those set  *)
(* by another update since its merge.                                      *)
SecretsNeverDropped ==
  [][live' # live
       => /\ Kept(settings.hook, settings'.hook)
          /\ \A k \in Clouds : Kept(settings.keys[k], settings'.keys[k])]_vars
=============================================================================
