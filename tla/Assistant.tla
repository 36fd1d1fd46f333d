----------------------------- MODULE Assistant ------------------------------
(***************************************************************************)
(* The chat (web/src/pages/AssistantPage.tsx, conversations.ts, agentQuery *)
(* in api/client.ts; internal/agent/query.go, handleQuery in api.go): a    *)
(* page asks the agent one question at a time and is streamed the events   *)
(* of its tool loop, while the user may start, open and delete             *)
(* conversations or reload.                                                *)
(*                                                                         *)
(* Questions are numbered. Of a text only its length is kept. What a       *)
(* cancelled query still does on the agent is seen by nobody and left out. *)
(*                                                                         *)
(* The page reads a connection until the agent closes it, which is after   *)
(* the last event: a read that fails in between is still reported, to      *)
(* whatever the page shows by then.                                        *)
(***************************************************************************)
EXTENDS Integers, Sequences, FiniteSetsExt

CONSTANTS
  MaxIterations,  (* maxQueryIterations: 15                                 *)
  MaxTurns,       (* maxQueryTurns: 40                                      *)
  MaxPromptLen,   (* maxQueryPromptLen: 8000                                *)
  MaxHistoryLen,  (* maxQueryHistoryLen: 60000                              *)
  MaxSaved,       (* MAX_CONVERSATIONS: 40                                  *)
  MaxQuestions,   (* bound: questions asked                                 *)
  MaxChats,       (* bound: conversations begun                             *)
  MaxCalls        (* bound: tool calls of one round                         *)

ASSUME AssistantAssumption ==
  /\ {MaxIterations, MaxTurns, MaxPromptLen, MaxHistoryLen, MaxSaved,
      MaxQuestions, MaxChats, MaxCalls} \subseteq Nat \ {0}
  /\ MaxPromptLen <= MaxHistoryLen

VARIABLES
  page,       (* "up", or "down" after rendering threw                      *)
  chat,       (* the entries on the page                                    *)
  busy,
  conv,       (* convId; the conversations are numbered as they begin       *)
  begun,      (* conversations begun so far                                 *)
  saved,      (* localStorage, newest first                                 *)
  deleted,    (* history: conversations the user deleted                    *)
  asked,      (* questions asked so far; abortRef aborts the last           *)
  query,      (* per question: its connection and its run on the agent      *)
  strays      (* history: queries the page let go of, their connection open *)

pageVars == <<page, chat, busy, conv, begun, saved, deleted, asked, strays>>
vars == <<pageVars, query>>

Questions == 1 .. MaxQuestions
Lengths   == 0 .. MaxPromptLen + MaxIterations + 1
Turn      == [role : {"user", "assistant"}, q : Questions, text : Nat]
Entry     == [role : {"user", "assistant"}, q : Questions, text : Nat,
              from : SUBSET Questions, failed : BOOLEAN, done : BOOLEAN]
Event     == [type : {"text", "step", "error", "done"}, text : Lengths]

TypeOK ==
  /\ page \in {"up", "down"}
  /\ chat \in Seq(Entry)
  /\ busy \in BOOLEAN
  /\ conv \in 1 .. MaxChats /\ begun \in 1 .. MaxChats
  /\ saved \in Seq([id : 1 .. MaxChats, chat : Seq(Entry)]) /\ Len(saved) <= MaxSaved
  /\ deleted \subseteq 1 .. MaxChats
  /\ asked \in 0 .. MaxQuestions
  /\ query \in [Questions ->
       [conn : {"none", "waiting", "refused", "streaming", "ending", "closed"},
        run : {"none", "model", "tools", "over"},
        iteration : 0 .. MaxIterations, calls : Nat, wrote : Lengths,
        events : Seq(Event), messages : Seq(Turn)]]
  /\ strays \subseteq Questions

NoQuery == [conn |-> "none", run |-> "none", iteration |-> 0, calls |-> 0,
            wrote |-> 0, events |-> <<>>, messages |-> <<>>]

Init ==
  /\ page = "up" /\ chat = <<>> /\ busy = FALSE
  /\ conv = 1 /\ begun = 1 /\ saved = <<>> /\ deleted = {}
  /\ asked = 0 /\ strays = {}
  /\ query = [q \in Questions |-> NoQuery]

-----------------------------------------------------------------------------
(* The store of conversations.                                             *)

(* The elements at some positions, in their order: SelectSeq as a function *)
(* on prefixes, which proofs can take apart.                               *)
Select(seq, positions) ==
  LET upTo[n \in 0 .. Len(seq)] ==
        IF n = 0 THEN <<>>
        ELSE IF n \in positions THEN Append(upTo[n - 1], seq[n])
        ELSE upTo[n - 1]
  IN upTo[Len(seq)]

Without(list, id) == Select(list, {i \in DOMAIN list : list[i].id # id})

UpsertUncapped(list, id, entries) ==                                (* mutant *)
  <<[id |-> id, chat |-> entries]>> \o Without(list, id)

(* The clock makes the conversation just changed the newest.               *)
Upsert(list, id, entries) ==
  LET all == <<[id |-> id, chat |-> entries]>> \o Without(list, id)
  IN SubSeq(all, 1, IF Len(all) < MaxSaved THEN Len(all) ELSE MaxSaved)

(* The effect that follows a change of the chat.                           *)
Persist(list) ==
  saved' = IF chat' = <<>> \/ busy' THEN list ELSE Upsert(list, conv', chat')

-----------------------------------------------------------------------------
(* A change of the last entry, of the chat it is found in then.            *)
AppendStep(entries, q, text, failed, done) ==
  LET last == entries[Len(entries)]
  IN [entries EXCEPT ![Len(entries)] =
        [last EXCEPT !.text = last.text + text, !.from = last.from \cup {q},
                     !.failed = last.failed \/ failed, !.done = last.done \/ done]]

(* appendStep and setBusy. An empty chat has no entry to take the step:    *)
(* rendering throws, and the page is gone with what it knew.               *)
Show(q, text, failed, last) ==
  /\ conv' = conv
  /\ IF chat = <<>>
     THEN page' = "down" /\ chat' = chat /\ busy' = FALSE
     ELSE /\ page' = page
          /\ chat' = AppendStep(chat, q, text, failed, last)
          /\ busy' = (busy /\ ~ last)
  /\ Persist(saved)

(* send, with the whole conversation as the request.                       *)
History(entries) ==
  Select([i \in DOMAIN entries |->
            [role |-> entries[i].role, q |-> entries[i].q, text |-> entries[i].text]],
         {i \in DOMAIN entries : entries[i].text > 0})

Send(n) ==
  /\ page = "up" /\ ~ busy /\ asked < MaxQuestions
  /\ LET q == asked + 1
         user == [role |-> "user", q |-> q, text |-> n, from |-> {},
                  failed |-> FALSE, done |-> TRUE]
         answer == [role |-> "assistant", q |-> q, text |-> 0, from |-> {},
                    failed |-> FALSE, done |-> FALSE]
     IN /\ asked' = q
        /\ chat' = chat \o <<user, answer>>
        /\ query' = [query EXCEPT ![q].conn = "waiting",
                                  ![q].messages = History(chat \o <<user>>)]
  /\ busy' = TRUE
  /\ UNCHANGED <<page, conv, begun, saved, deleted, strays>>

-----------------------------------------------------------------------------
(* The agent.                                                              *)

Size(msgs) == MapThenSumSet(LAMBDA i : msgs[i].text, DOMAIN msgs)

DropOne(msgs) ==                                                    (* mutant *)
  IF Size(msgs) > MaxHistoryLen /\ Len(msgs) > 1 THEN Tail(msgs) ELSE msgs

(* Oldest turns go until the rest fits; the last one stays.                *)
DropOldest(msgs) ==
  LET fits == {k \in DOMAIN msgs :
                 Size(SubSeq(msgs, k, Len(msgs))) <= MaxHistoryLen \/ k = Len(msgs)}
  IN SubSeq(msgs, Min(fits), Len(msgs))

Recent(turns) ==
  IF Len(turns) > MaxTurns
  THEN SubSeq(turns, Len(turns) - MaxTurns + 1, Len(turns))
  ELSE turns

(* handleQuery: the request is one buildQueryHistory accepts.              *)
Accept(q) ==
  LET turns == Recent(query[q].messages)
  IN /\ query[q].conn = "waiting"
     /\ turns[Len(turns)].text <= MaxPromptLen
     /\ query' = [query EXCEPT ![q].conn = "streaming", ![q].run = "model",
                               ![q].messages = DropOldest(turns)]
     /\ UNCHANGED pageVars

(* The agent, or the proxy when there is no agent, answers with an error.  *)
Refuse(q) ==
  /\ query[q].conn = "waiting"
  /\ query' = [query EXCEPT ![q].conn = "refused"]
  /\ UNCHANGED pageVars

Emit(q, events) == query[q].events \o events

Ev(type, n) == [type |-> type, text |-> n]

AskModelFinalText(q, n, calls) ==                                   (* mutant *)
  /\ query[q].run = "model" /\ query[q].iteration < MaxIterations
  /\ query' = [query EXCEPT
       ![q].run = IF calls = 0 THEN "over" ELSE "tools",
       ![q].iteration = @ + 1, ![q].calls = calls, ![q].wrote = @ + n,
       ![q].events = Emit(q, IF calls = 0 THEN <<Ev("text", n), Ev("done", 0)>>
                                          ELSE <<>>)]
  /\ UNCHANGED pageVars

(* One round of Run: the model answers, with text, tool calls or both.     *)
AskModel(q, n, calls) ==
  /\ query[q].run = "model" /\ query[q].iteration < MaxIterations
  /\ LET text == IF n > 0 THEN <<Ev("text", n)>> ELSE <<>>
         last == IF calls = 0 THEN <<Ev("done", 0)>> ELSE <<>>
     IN query' = [query EXCEPT
          ![q].run = IF calls = 0 THEN "over" ELSE "tools",
          ![q].iteration = @ + 1, ![q].calls = calls,
          ![q].wrote = @ + n, ![q].events = Emit(q, text \o last)]
  /\ UNCHANGED pageVars

RunTool(q) ==
  /\ query[q].run = "tools"
  /\ query' = [query EXCEPT
       ![q].run = IF query[q].calls > 1 THEN "tools" ELSE "model",
       ![q].calls = @ - 1, ![q].events = Emit(q, <<Ev("step", 0)>>)]
  /\ UNCHANGED pageVars

StopQuietly(q) ==                                                   (* mutant *)
  /\ query[q].run = "model"
  /\ query' = [query EXCEPT ![q].run = "over"]
  /\ UNCHANGED pageVars

(* The model fails, or its rounds are used up.                             *)
Stop(q) ==
  /\ query[q].run = "model"
  /\ query' = [query EXCEPT ![q].run = "over",
                            ![q].events = Emit(q, <<Ev("error", 0)>>)]
  /\ UNCHANGED pageVars

-----------------------------------------------------------------------------
(* The page reads its connection.                                          *)

Live == {q \in Questions : query[q].conn \in {"waiting", "refused", "streaming"}}

(* What is left of a query when its connection is read no more, or only    *)
(* to its end.                                                             *)
Spent(q, conn) == [NoQuery EXCEPT !.conn = conn, !.run = "over",
                                  !.wrote = query[q].wrote]

Closed(q) == [query EXCEPT ![q] = Spent(q, "closed")]

AllClosed == [q \in Questions |-> IF q <= asked THEN Spent(q, "closed") ELSE query[q]]

(* A page that is gone reads nothing more.                                 *)
Read(next) == query' = IF page' = "down" THEN AllClosed ELSE next

(* The end of one query sets busy to false for whichever is asked last:    *)
(* the page no longer waits for that one, and reads it all the same.       *)
Freed(q) == IF q = asked THEN {} ELSE {asked} \cap Live

Deliver(q) ==
  /\ query[q].conn = "streaming" /\ query[q].events # <<>>
  /\ LET ev == Head(query[q].events)
         last == ev.type \in {"error", "done"}
     IN /\ Show(q, ev.text, ev.type = "error", last)
        /\ Read(IF last THEN [query EXCEPT ![q] = Spent(q, "ending")]
                ELSE [query EXCEPT ![q].events = Tail(@)])
        /\ strays' = IF last THEN strays \cup Freed(q) ELSE strays
  /\ UNCHANGED <<begun, deleted, asked>>

(* The body of the refusal is read, or the connection is lost.             *)
Fail(q) ==
  /\ q \in Live
  /\ Show(q, 0, TRUE, TRUE)
  /\ Read(Closed(q))
  /\ strays' = strays \cup Freed(q)
  /\ UNCHANGED <<begun, deleted, asked>>

(* After the last event: the agent closes the connection, or it is lost,   *)
(* and onError appends to the entry that is the last by then.              *)
ReadEnds(q) ==
  /\ query[q].conn = "ending"
  /\ query' = Closed(q)
  /\ UNCHANGED pageVars

FailLate(q) ==
  /\ query[q].conn = "ending"
  /\ Show(q, 0, TRUE, TRUE)
  /\ Read(Closed(q))
  /\ strays' = IF q = asked THEN strays ELSE strays \cup {q} \cup Freed(q)
  /\ UNCHANGED <<begun, deleted, asked>>

-----------------------------------------------------------------------------
(* The user. The abort is that of the last question. It is silent, except  *)
(* while the body of a refusal is read: agentQuery then reports the        *)
(* refusal to the page as it is after the click, which throws when no      *)
(* entry is there to take it.                                              *)

AbortNothing == Read(query)                                         (* mutant *)

Abort == Read(IF asked = 0 THEN query ELSE Closed(asked))

Refusing == asked > 0 /\ query[asked].conn = "refused"

startNewChat(list) ==
  /\ begun < MaxChats
  /\ begun' = begun + 1 /\ conv' = begun + 1
  /\ chat' = <<>> /\ busy' = FALSE
  /\ page' = IF Refusing THEN "down" ELSE "up"
  /\ Persist(list)
  /\ Abort
  /\ UNCHANGED <<asked, strays>>

NewChat == page = "up" /\ startNewChat(saved) /\ UNCHANGED deleted

openConversation(i) ==
  /\ page = "up"
  /\ conv' = saved[i].id /\ busy' = FALSE
  /\ chat' = IF Refusing THEN AppendStep(saved[i].chat, asked, 0, TRUE, TRUE)
                         ELSE saved[i].chat
  /\ strays' = IF Refusing THEN strays \cup {asked} ELSE strays
  /\ UNCHANGED <<page, begun, deleted, asked>>
  /\ Persist(saved)
  /\ Abort

RemoveOnly(i) ==                                                    (* mutant *)
  /\ page = "up"
  /\ deleted' = deleted \cup {saved[i].id}
  /\ saved' = Without(saved, saved[i].id)
  /\ UNCHANGED <<page, chat, busy, conv, begun, asked, query, strays>>

removeConversation(i) ==
  /\ page = "up"
  /\ deleted' = deleted \cup {saved[i].id}
  /\ IF saved[i].id = conv
     THEN startNewChat(Without(saved, conv))
     ELSE /\ saved' = Without(saved, saved[i].id)
          /\ UNCHANGED <<page, chat, busy, conv, begun, asked, query, strays>>

(* A reload, or leaving the page and coming back.                          *)
Reload ==
  /\ begun < MaxChats
  /\ begun' = begun + 1 /\ conv' = begun + 1
  /\ page' = "up" /\ chat' = <<>> /\ busy' = FALSE
  /\ query' = AllClosed
  /\ UNCHANGED <<saved, deleted, asked, strays>>

-----------------------------------------------------------------------------
Agent(q) ==
  \/ Accept(q) \/ Refuse(q)
  \/ \E n \in 0 .. 1, calls \in 0 .. MaxCalls : AskModel(q, n, calls)
  \/ RunTool(q) \/ Stop(q)

Client(q) == Deliver(q) \/ Fail(q) \/ ReadEnds(q) \/ FailLate(q)

User ==
  \/ \E n \in 1 .. MaxPromptLen + 1 : Send(n)
  \/ NewChat
  \/ \E i \in DOMAIN saved : openConversation(i) \/ removeConversation(i)
  \/ Reload

Next == User \/ \E q \in Questions : Agent(q) \/ Client(q)

(* The model and its tools answer within five minutes, connections deliver *)
(* or fail.                                                                *)
Fairness == \A q \in Questions : WF_vars(Agent(q)) /\ WF_vars(Deliver(q))
              /\ WF_vars(query[q].conn = "refused" /\ Fail(q))

Spec == Init /\ [][Next]_vars /\ Fairness

-----------------------------------------------------------------------------
Chats == {chat} \cup {saved[i].chat : i \in DOMAIN saved}

(* What stands below a question came from its own query, however the user  *)
(* moves between conversations (send, agentQuery, openConversation). Out   *)
(* of place are only strays: a refusal that arrives with an abort, a read  *)
(* that fails after its last event when another question has been asked,   *)
(* and a query the page stopped waiting for because of such an end.        *)
AnswersBelong ==
  \A entries \in Chats : \A i \in DOMAIN entries :
    entries[i].role = "assistant" =>
      /\ i > 1 /\ entries[i - 1].role = "user"
      /\ entries[i].from \ strays \subseteq {entries[i - 1].q}

(* A finished answer no stray got into holds all the text the agent wrote, *)
(* with tool calls or without (Run, appendStep).                           *)
AnswersWhole ==
  \A i \in DOMAIN chat :
    /\ chat[i].role = "assistant" /\ chat[i].done /\ ~ chat[i].failed
    /\ chat[i].from \cap strays = {}
    => chat[i].text = query[chat[i].q].wrote

(* A turn that is finished on the page is saved, whatever the cap on       *)
(* conversations throws out, and no deleted conversation comes back.       *)
StoreFollowsPage ==
  /\ page = "up" /\ chat # <<>> /\ ~ busy =>
       \E i \in DOMAIN saved : saved[i] = [id |-> conv, chat |-> chat]
  /\ \A i \in DOMAIN saved : saved[i].id \notin deleted

(* The model gets a conversation that ends with the question and whose     *)
(* size and number of turns are in bounds (buildQueryHistory).             *)
HistoryFits ==
  \A q \in Questions : query[q].run \in {"model", "tools"} =>
    LET msgs == query[q].messages
    IN /\ msgs # <<>> /\ msgs[Len(msgs)].role = "user" /\ msgs[Len(msgs)].q = q
       /\ Len(msgs) <= MaxTurns /\ Size(msgs) <= MaxHistoryLen

(* The page does not stay busy: every query ends with a last event, also   *)
(* when the rounds of tools are used up (Run, handleQuery, agentQuery).    *)
BusyEnds == busy ~> ~ busy
=============================================================================
