----------------------------- MODULE QueryEngine ----------------------------
(***************************************************************************)
(* One query of the assistant on the agent (QueryEngine.Run in             *)
(* internal/agent/query.go, with tools.go and the adapters): the model is  *)
(* asked, the tools it calls are run one after the other, and their        *)
(* results are sent back with the next request, until it answers without a *)
(* call. Meanwhile the client may leave or the deadline pass, and the pod  *)
(* may be replaced. Run takes the provider and the Prometheus client once, *)
(* so settings that change later do not reach it.                          *)
(*                                                                         *)
(* A call is named by its round and its index in that round.               *)
(***************************************************************************)
EXTENDS LLMAdapters, Integers, FiniteSets

CONSTANTS
  MaxIterations,  (* maxQueryIterations: 15                                 *)
  MaxCalls,       (* bound: calls in one answer of the model                *)
  Settings        (* what may be in force when the query begins: the        *)
                  (* adapter, whether its service gives calls an ID, and    *)
                  (* whether there is Prometheus                            *)

ASSUME QueryAssumption ==
  /\ MaxIterations \in Nat \ {0}
  /\ MaxCalls \in Nat \ {0}
  /\ Settings \subseteq [kind : Kinds, ids : BOOLEAN, metrics : BOOLEAN]

VARIABLES
  pinned,     (* the settings as Run took them                              *)
  pc,         (* what Run does next                                         *)
  ctx,        (* the query's context                                        *)
  iteration,  (* rounds begun                                               *)
  messages,   (* the conversation, in the agent's own form                  *)
  calls,      (* the calls of this round                                    *)
  results,    (* results of this round so far                               *)
  events,     (* emitted events                                             *)
  proposed,   (* calls whose proposal is in the table                       *)
  failed      (* history: calls whose tool failed                           *)

round    == <<iteration, messages, calls, results>>
vars     == <<pinned, pc, ctx, round, events, proposed, failed>>

Of       == (0 .. MaxIterations) \X (0 .. MaxCalls)
NoOf     == <<0, 0>>

(* What a model may call: the tools that read the cluster, those that read *)
(* metrics, and the one for changes. A name it makes up is refused like a  *)
(* metrics tool without Prometheus.                                        *)
Tools == {"get_resource", "query_metrics", "propose_change"}

Call   == [id : Of, name : Tools, of : Of]
Result == [id : Of, name : Tools, of : Of, error : BOOLEAN]
Event  == [type : {"text", "tool", "proposal", "done", "error"}, of : Of]

TypeOK ==
  /\ pinned \in Settings
  /\ pc \in {"chat", "tool", "save", "card", "over", "gone"}
  /\ ctx \in {"live", "over"}
  /\ iteration \in 0 .. MaxIterations
  /\ messages \in Seq([role : {"user", "assistant"}, calls : Seq(Call),
                       results : Seq(Result)])
  /\ calls \in Seq(Call) /\ results \in Seq(Result)
  /\ Len(results) <= Len(calls)
  /\ events \in Seq(Event)
  /\ proposed \in SUBSET Of /\ failed \in SUBSET Of

(* buildQueryHistory: plain turns, the question last; trimming may leave   *)
(* an answer first.                                                        *)
History == <<Turn("assistant"), Turn("user")>>

Init ==
  /\ pinned \in Settings
  /\ pc = "chat" /\ ctx = "live"
  /\ iteration = 0 /\ messages = History
  /\ calls = <<>> /\ results = <<>>
  /\ events = <<>> /\ proposed = {} /\ failed = {}

-----------------------------------------------------------------------------
Ev(type, of) == [type |-> type, of |-> of]

(* The calls of an answer, as the adapter hands them over.                 *)
Calls(names) ==
  [i \in DOMAIN names |->
     [id |-> CallId(pinned.kind, pinned.ids, <<iteration + 1, i>>),
      name |-> names[i], of |-> <<iteration + 1, i>>]]

(* The locals of Run are gone.                                             *)
Forget == messages' = <<>> /\ calls' = <<>> /\ results' = <<>> /\ failed' = {}

(* The model answers, with text, calls or both; without a call it is done. *)
ChatAnswers(text, names) ==
  /\ pc = "chat" /\ iteration < MaxIterations /\ ctx = "live"
  /\ iteration' = iteration + 1
  /\ LET words == IF text THEN << Ev("text", NoOf) >> ELSE <<>>
         asked == Calls(names)
     IN IF names = <<>>
        THEN /\ events' = events \o words \o << Ev("done", NoOf) >>
             /\ pc' = "over"
             /\ Forget
        ELSE /\ events' = events \o words
             /\ pc' = "tool"
             /\ messages' = Append(messages, CallsTurn(asked))
             /\ calls' = asked /\ results' = <<>> /\ failed' = failed
  /\ UNCHANGED <<pinned, ctx, proposed>>

StopAtEnd ==                                                        (* mutant *)
  /\ pc = "chat" /\ iteration = MaxIterations
  /\ events' = Append(events, Ev("error", NoOf))
  /\ pc' = "over"
  /\ Forget
  /\ UNCHANGED <<pinned, ctx, iteration, proposed>>

(* The request fails, or the rounds are used up.                           *)
Stop ==
  /\ pc = "chat"
  /\ events' = Append(events, Ev("error", NoOf))
  /\ pc' = "over"
  /\ Forget
  /\ UNCHANGED <<pinned, ctx, iteration, proposed>>

-----------------------------------------------------------------------------
(* The tools.                                                              *)

Running == calls[Len(results) + 1]

KeepResults(call, ok) ==                                            (* mutant *)
  LET all == Append(results, [id |-> call.id, name |-> call.name,
                              of |-> call.of, error |-> ~ ok])
  IN /\ failed' = IF ok THEN failed ELSE failed \cup {call.of}
     /\ IF Len(all) < Len(calls)
        THEN /\ pc' = "tool"
             /\ results' = all
             /\ UNCHANGED <<messages, calls>>
        ELSE /\ pc' = "chat"
             /\ messages' = Append(messages, ResultsTurn(all))
             /\ calls' = <<>> /\ results' = all

(* The result goes back with the ID and the name of its call, and an error *)
(* is a result like any other. After the last call the model is asked on.  *)
Answer(call, ok) ==
  LET all == Append(results, [id |-> call.id, name |-> call.name,
                              of |-> call.of, error |-> ~ ok])
  IN /\ failed' = IF ok THEN failed ELSE failed \cup {call.of}
     /\ IF Len(all) < Len(calls)
        THEN /\ pc' = "tool"
             /\ results' = all
             /\ UNCHANGED <<messages, calls>>
        ELSE /\ pc' = "chat"
             /\ messages' = Append(messages, ResultsTurn(all))
             /\ calls' = <<>> /\ results' = <<>>


(* queryTools. In assisted mode there is propose_change as well, but that  *)
(* one is run whether or not it was offered.                               *)
Offered == {"get_resource"} \cup (IF pinned.metrics THEN {"query_metrics"} ELSE {})

(* runTool: the cluster or Prometheus may answer while the context is      *)
(* alive, and may fail at any time.                                        *)
RunTool ==
  /\ pc = "tool" /\ Running.name # "propose_change"
  /\ events' = Append(events, Ev("tool", Running.of))
  /\ \E ok \in BOOLEAN :
       /\ ok => ctx = "live" /\ Running.name \in Offered
       /\ Answer(Running, ok)
  /\ UNCHANGED <<pinned, ctx, iteration, proposed>>

(* runProposeChange, also when it was not offered: a manifest that does    *)
(* not match its target or an object that cannot be read is an error, else *)
(* the row is saved next.                                                  *)
CheckChange ==
  /\ pc = "tool" /\ Running.name = "propose_change"
  /\ events' = Append(events, Ev("tool", Running.of))
  /\ \/ /\ ctx = "live"
        /\ pc' = "save"
        /\ UNCHANGED <<round, failed>>
     \/ Answer(Running, FALSE) /\ UNCHANGED iteration
  /\ UNCHANGED <<pinned, ctx, proposed>>

(* SaveProposal does not know the context. It fails without a database.    *)
SaveChange ==
  /\ pc = "save"
  /\ \/ /\ proposed' = proposed \cup {Running.of}
        /\ pc' = "card"
        /\ UNCHANGED <<round, failed>>
     \/ Answer(Running, FALSE) /\ UNCHANGED <<iteration, proposed>>
  /\ UNCHANGED <<pinned, ctx, events>>

ShowNothing ==                                                      (* mutant *)
  /\ pc = "card"
  /\ events' = events
  /\ Answer(Running, TRUE)
  /\ UNCHANGED <<pinned, ctx, iteration, proposed>>

(* The card to approve it.                                                 *)
ShowChange ==
  /\ pc = "card"
  /\ events' = Append(events, Ev("proposal", Running.of))
  /\ Answer(Running, TRUE)
  /\ UNCHANGED <<pinned, ctx, iteration, proposed>>

-----------------------------------------------------------------------------
(* The context ends with the client or after five minutes, the pod is      *)
(* replaced.                                                               *)
Active == pc \notin {"over", "gone"}

Expire ==
  /\ Active /\ ctx = "live"
  /\ ctx' = "over"
  /\ UNCHANGED <<pinned, pc, round, events, proposed, failed>>

Crash ==
  /\ Active
  /\ pc' = "gone"
  /\ Forget
  /\ UNCHANGED <<pinned, ctx, iteration, events, proposed>>

Answers == UNION {[1 .. n -> Tools] : n \in 0 .. MaxCalls}

Run ==
  \/ \E text \in BOOLEAN, names \in Answers : ChatAnswers(text, names)
  \/ Stop
  \/ RunTool \/ CheckChange \/ SaveChange \/ ShowChange

Next == Run \/ Expire \/ Crash

(* Requests and tools end by the deadline of the context at the latest.    *)
Spec == Init /\ [][Next]_vars /\ WF_vars(Run)

-----------------------------------------------------------------------------
(* Whatever the provider, the service at the other end pairs every call    *)
(* with its own result, and sees which ones failed: convertMessages and    *)
(* the call IDs of the three adapters, over all rounds of Run.             *)
ResultsAnswerCalls ==
  pc = "chat" => Understood(pinned.kind, convertMessages(pinned.kind, messages), failed)

(* The stream is one the page can read, and a proposal that is saved is    *)
(* shown next, unless the stream breaks off (Run, runProposeChange).       *)
Stream == INSTANCE EventStream WITH
  Changes <- Of, Nothing <- NoOf, log <- events, open <- Active, stored <- proposed

ImplementsStream == Stream!Spec

(* So a last event closes the stream and leaves no saved proposal unshown, *)
(* and each is shown once (Run, runProposeChange).                         *)
StreamComplete == Stream!EndIsLast /\ Stream!ShownOnce

(* Every query comes to an end (the loop and the deadline in Run).         *)
QueryEnds == Active ~> ~ Active
=============================================================================
