----------------------------- MODULE LLMAdapters ----------------------------
(***************************************************************************)
(* The conversation of the agent with a language model, and what the three *)
(* adapters (internal/llm/anthropic, openaicompat, ollama) make of it on   *)
(* the wire. The agent's own form (internal/llm/llm.go) pairs calls and    *)
(* results by ID; each provider has its own way to pair them.              *)
(*                                                                         *)
(* Texts are left out. "of" names the call a block belongs to, by round    *)
(* and index: it is the content, and tells whose result a result is.       *)
(***************************************************************************)
EXTENDS Naturals, Sequences, SequencesExt

Kinds == {"anthropic", "openai", "ollama"}

(* llm.Message: plain text, calls with perhaps some text, or results.      *)
Turn(role)       == [role |-> role, calls |-> <<>>, results |-> <<>>]
CallsTurn(calls) == [role |-> "assistant", calls |-> calls, results |-> <<>>]
ResultsTurn(rs)  == [role |-> "user", calls |-> <<>>, results |-> rs]

-----------------------------------------------------------------------------
(* Responses. Round and index of a call are an ID the provider made up and *)
(* never repeats; <<0, index>> is "call_<index>", which every round has.   *)
(* Ollama has no IDs, an OpenAI-compatible service may leave them out.     *)
Missing(kind, given) == kind = "ollama" \/ (kind = "openai" /\ ~ given)

SameIdForAll(kind, given, of) ==                                    (* mutant *)
  IF Missing(kind, given) THEN <<0, 0>> ELSE of

CallId(kind, given, of) ==
  IF Missing(kind, given) THEN <<0, of[2]>> ELSE of

-----------------------------------------------------------------------------
(* Requests: a sequence of items, each a role with its blocks.             *)
Item(role, blocks) == [role |-> role, blocks |-> blocks]

Block(type, id, name, of, error) ==
  [type |-> type, id |-> id, name |-> name, of |-> of, error |-> error]

NoId   == <<0, 0>>
NoName == "none"

CallBlocks(m, withId) ==
  [j \in DOMAIN m.calls |->
     Block("call", IF withId THEN m.calls[j].id ELSE NoId, m.calls[j].name,
           m.calls[j].of, FALSE)]

(* Anthropic: all results of a round are blocks of one user message.       *)
AnthropicItems(m) ==
  CASE m.results # <<>> ->
         << Item("user", [j \in DOMAIN m.results |->
              Block("result", m.results[j].id, NoName, m.results[j].of,
                    m.results[j].error)]) >>
    [] m.results = <<>> /\ m.calls # <<>> ->
         << Item("assistant", CallBlocks(m, TRUE)) >>
    [] OTHER -> << Item(m.role, <<>>) >>

(* OpenAI: each result is a message of its own that names the call's ID.   *)
OpenAIItems(m) ==
  CASE m.results # <<>> ->
         [j \in DOMAIN m.results |->
            Item("tool", << Block("result", m.results[j].id, NoName,
                                  m.results[j].of, m.results[j].error) >>)]
    [] m.results = <<>> /\ m.calls # <<>> ->
         << Item("assistant", CallBlocks(m, TRUE)) >>
    [] OTHER -> << Item(m.role, <<>>) >>

(* Ollama: the same, but a result names the tool.                          *)
OllamaItems(m) ==
  CASE m.results # <<>> ->
         [j \in DOMAIN m.results |->
            Item("tool", << Block("result", NoId, m.results[j].name,
                                  m.results[j].of, m.results[j].error) >>)]
    [] m.results = <<>> /\ m.calls # <<>> ->
         << Item("assistant", CallBlocks(m, FALSE)) >>
    [] OTHER -> << Item(m.role, <<>>) >>

(* convertMessages, as Chat sends it: the prompt of the system comes first *)
(* or, with Anthropic, in a field of its own.                              *)
convertMessages(kind, messages) ==
  CASE kind = "anthropic" ->
         FlattenSeq([i \in DOMAIN messages |-> AnthropicItems(messages[i])])
    [] kind = "openai" ->
         << Item("system", <<>>) >>
           \o FlattenSeq([i \in DOMAIN messages |-> OpenAIItems(messages[i])])
    [] kind = "ollama" ->
         << Item("system", <<>>) >>
           \o FlattenSeq([i \in DOMAIN messages |-> OllamaItems(messages[i])])

-----------------------------------------------------------------------------
(* How the service at the other end reads a request.                       *)

(* The results that follow the calls of item p.                            *)
Following(kind, wire, p) ==
  LET role == IF kind = "anthropic" THEN "user" ELSE "tool"
      ends == {k \in p .. Len(wire) :
                 /\ \A i \in p + 1 .. k : wire[i].role = role
                 /\ kind = "anthropic" => k <= p + 1}
      last == CHOOSE k \in ends : \A l \in ends : l <= k
  IN FlattenSeq([i \in 1 .. last - p |-> wire[p + i].blocks])

(* The results it takes for those of call j: Ollama goes by the order and  *)
(* the tool's name, the others by ID.                                      *)
Matching(kind, calls, results, j) ==
  IF kind = "ollama"
  THEN {i \in DOMAIN results : i = j /\ results[i].name = calls[j].name}
  ELSE {i \in DOMAIN results : results[i].id = calls[j].id}

(* Every call is answered, by its own result and no other, and a result    *)
(* is marked as an error exactly if its tool failed.                       *)
Understood(kind, wire, failed) ==
  \A p \in DOMAIN wire :
    LET calls   == wire[p].blocks
        results == Following(kind, wire, p)
    IN wire[p].role = "assistant" =>
         /\ Len(results) = Len(calls)
         /\ \A j \in DOMAIN calls : \E i \in DOMAIN results :
              /\ Matching(kind, calls, results, j) = {i}
              /\ results[i].of = calls[j].of
              /\ results[i].error = (calls[j].of \in failed)
=============================================================================
