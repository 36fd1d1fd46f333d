-------------------------- MODULE Assistant_proofs --------------------------
(***************************************************************************)
(* Proofs about Assistant.tla, for any number of rounds, turns, questions  *)
(* and conversations.                                                      *)
(***************************************************************************)
EXTENDS Assistant, Lists_proofs

(* A query in flight that the page did not let go of is that of the last   *)
(* question, and the page waits for it.                                    *)
LiveOK ==
  /\ page = "up" \/ chat = <<>>
  /\ \A q \in Live : q \notin strays => q = asked /\ busy
  /\ \A q \in Questions : q > asked => query[q] = NoQuery

(* The loop on the agent runs while its answer is streamed, and the last   *)
(* event ends it.                                                          *)
NoneLast(events) ==
  \A i \in DOMAIN events : events[i].type \notin {"error", "done"}
OnlyLast(events) ==
  \A i \in DOMAIN events : events[i].type \in {"error", "done"} => i = Len(events)

RunOf(r) ==
  /\ r.run \in {"model", "tools"} => r.conn = "streaming"
  /\ r.run = "tools" => r.calls > 0
  /\ r.wrote <= MaxIterations
  /\ r.conn = "streaming" => r.wrote <= r.iteration
  /\ r.conn \in {"waiting", "refused"} => r.wrote = 0 /\ r.iteration = 0
  /\ r.conn # "streaming" => r.events = <<>>
  /\ r.run # "over" => NoneLast(r.events)
  /\ OnlyLast(r.events)

RunOK == \A q \in Questions : RunOf(query[q])

(* While something of the last question's query may still come, the chat   *)
(* ends with the question and its answer.                                  *)
Expected == {q \in Questions : query[q].conn \in
               {"waiting", "refused", "streaming", "ending"}}

AtEnd(entries, q) ==
  /\ Len(entries) > 1
  /\ entries[Len(entries)].role = "assistant" /\ entries[Len(entries)].q = q
  /\ entries[Len(entries) - 1].role = "user" /\ entries[Len(entries) - 1].q = q

WaitingOK == asked \in Expected \ strays => AtEnd(chat, asked)

(* What is on the page and what is still to come are what the agent wrote: *)
(* shown[i] is the text on the page once i events were delivered.          *)
Shows(events, wrote, text) ==
  \E shown \in [0 .. Len(events) -> 0 .. MaxIterations] :
    /\ shown[0] = text /\ shown[Len(events)] = wrote
    /\ \A i \in DOMAIN events : shown[i] = shown[i - 1] + events[i].text

TextOf(r, text) ==
  /\ r.conn \in {"waiting", "refused"} => text = 0
  /\ r.conn = "streaming" => Shows(r.events, r.wrote, text)

Clean(entry, except) == entry.from \cap except = {}

TextOK ==
  asked \in Live \ strays /\ Clean(chat[Len(chat)], strays) =>
    TextOf(query[asked], chat[Len(chat)].text)

(* A request ends with its question.                                       *)
EndsWith(msgs, q) ==
  /\ msgs # <<>>
  /\ msgs[Len(msgs)].role = "user" /\ msgs[Len(msgs)].q = q
RequestOK ==
  \A q \in Questions : query[q].conn = "waiting" => EndsWith(query[q].messages, q)

(* No answer is of a question to come, and a finished one that no stray    *)
(* got into is whole, with nothing more to come.                           *)
Whole(entries, last, queries, except, live) ==
  \A i \in DOMAIN entries :
    /\ entries[i].q <= last
    /\ /\ entries[i].role = "assistant" /\ entries[i].done /\ ~ entries[i].failed
       /\ Clean(entries[i], except)
       => /\ entries[i].q \notin live
          /\ entries[i].text = queries[entries[i].q].wrote

WholeOK == \A entries \in Chats : Whole(entries, asked, query, strays, Live)

(* Conversations in the store have begun, and are not empty.               *)
StoreOK ==
  /\ conv <= begun /\ conv \notin deleted /\ deleted \subseteq 1 .. begun
  /\ \A i \in DOMAIN saved : saved[i].id <= begun /\ saved[i].chat # <<>>

IInv ==
  /\ TypeOK /\ LiveOK /\ RunOK /\ WaitingOK /\ TextOK /\ RequestOK /\ WholeOK
  /\ StoreOK /\ AnswersBelong /\ StoreFollowsPage /\ HistoryFits
-----------------------------------------------------------------------------
(* Select.                                                                 *)

Filled(upTo, seq, positions, m) ==
  upTo = [n \in 0 .. m |->
            IF n = 0 THEN <<>>
            ELSE IF n \in positions THEN Append(upTo[n - 1], seq[n])
            ELSE upTo[n - 1]]

LEMMA SelectExists ==
  ASSUME NEW seq, NEW positions
  PROVE  \A m \in Nat : \E upTo : Filled(upTo, seq, positions, m)
<1> DEFINE T == {m \in Nat : \E upTo : Filled(upTo, seq, positions, m)}
<1>1. 0 \in T
  <2>1. Filled([n \in 0 .. 0 |-> <<>>], seq, positions, 0)
    BY DEF Filled
  <2> QED BY <2>1
<1>2. ASSUME NEW m \in Nat, m \in T PROVE m + 1 \in T
  <2>1. PICK f : Filled(f, seq, positions, m)
    BY <1>2
  <2> DEFINE g == [n \in 0 .. m + 1 |->
                     IF n \in 0 .. m THEN f[n]
                     ELSE IF n \in positions THEN Append(f[n - 1], seq[n])
                     ELSE f[n - 1]]
  <2>2. \A n \in 0 .. m : f[n] = IF n = 0 THEN <<>>
                                 ELSE IF n \in positions THEN Append(f[n - 1], seq[n])
                                 ELSE f[n - 1]
    BY <2>1 DEF Filled
  <2>3. \A n \in 0 .. m + 1 : g[n] = IF n = 0 THEN <<>>
                                 ELSE IF n \in positions THEN Append(g[n - 1], seq[n])
                                 ELSE g[n - 1]
    BY <2>2
  <2>4. Filled(g, seq, positions, m + 1)
    BY <2>3 DEF Filled
  <2> HIDE DEF g
  <2> QED BY <2>4
<1>3. Nat \subseteq T
  <2> HIDE DEF T
  <2> QED BY <1>1, <1>2, Induction
<1> QED BY <1>3

LEMMA SelectDef ==
  ASSUME NEW seq, NEW positions, Len(seq) \in Nat
  PROVE  \E upTo : /\ Filled(upTo, seq, positions, Len(seq))
                   /\ Select(seq, positions) = upTo[Len(seq)]
<1> DEFINE F == CHOOSE upTo : Filled(upTo, seq, positions, Len(seq))
<1>1. Filled(F, seq, positions, Len(seq))
  BY SelectExists
<1>2. Select(seq, positions) = F[Len(seq)]
  BY DEF Select, Filled
<1> HIDE DEF F
<1> QED BY <1>1, <1>2

(* Select takes the elements at the positions, all of them, and keeps the  *)
(* last one last.                                                          *)
LEMMA SelectTakes ==
  ASSUME NEW S, NEW seq \in Seq(S), NEW positions, NEW sel,
         sel = Select(seq, positions)
  PROVE  /\ sel \in Seq(S) /\ Len(sel) <= Len(seq)
         /\ \A i \in DOMAIN sel : \E k \in DOMAIN seq : k \in positions /\ sel[i] = seq[k]
         /\ \A k \in DOMAIN seq : k \in positions => \E i \in DOMAIN sel : sel[i] = seq[k]
         /\ Len(seq) > 0 /\ Len(seq) \in positions =>
              sel # <<>> /\ sel[Len(sel)] = seq[Len(seq)]
<1>1. Len(seq) \in Nat
  OBVIOUS
<1>2. PICK upTo : /\ Filled(upTo, seq, positions, Len(seq))
                  /\ Select(seq, positions) = upTo[Len(seq)]
  BY <1>1, SelectDef
<1>3. \A n \in 0 .. Len(seq) : upTo[n] = IF n = 0 THEN <<>>
                                 ELSE IF n \in positions THEN Append(upTo[n - 1], seq[n])
                                 ELSE upTo[n - 1]
  BY <1>2 DEF Filled
<1> DEFINE P(n) == /\ upTo[n] \in Seq(S) /\ Len(upTo[n]) <= n
                   /\ \A i \in DOMAIN upTo[n] :
                        \E k \in 1 .. n : k \in positions /\ upTo[n][i] = seq[k]
                   /\ \A k \in 1 .. n : k \in positions =>
                        \E i \in DOMAIN upTo[n] : upTo[n][i] = seq[k]
           T == {n \in Nat : n <= Len(seq) => P(n)}
<1>4. 0 \in T
  <2>1. upTo[0] = <<>>
    BY <1>1, <1>3
  <2>2. <<>> \in Seq(S) /\ Len(<<>>) <= 0 /\ DOMAIN <<>> = {} /\ 1 .. 0 = {}
    OBVIOUS
  <2> QED BY <2>1, <2>2
<1>5. ASSUME NEW n \in Nat, n \in T PROVE n + 1 \in T
  <2> SUFFICES ASSUME n + 1 <= Len(seq) PROVE P(n + 1)
    OBVIOUS
  <2>1. P(n) /\ n + 1 \in 1 .. Len(seq) /\ seq[n + 1] \in S
    BY <1>1, <1>5
  <2>2. upTo[n + 1] = IF n + 1 \in positions THEN Append(upTo[n], seq[n + 1]) ELSE upTo[n]
    BY <1>3, <2>1
  <2>3. CASE n + 1 \in positions
    <3> DEFINE new == Append(upTo[n], seq[n + 1])
    <3>1. new \in Seq(S) /\ Len(new) = Len(upTo[n]) + 1 /\ Len(new) <= n + 1
      BY <2>1
    <3>2. /\ new[Len(upTo[n]) + 1] = seq[n + 1]
          /\ \A i \in 1 .. Len(upTo[n]) : new[i] = upTo[n][i]
      BY <2>1
    <3>3. \A i \in DOMAIN new : \E k \in 1 .. n + 1 : k \in positions /\ new[i] = seq[k]
      <4> SUFFICES ASSUME NEW i \in DOMAIN new
                   PROVE  \E k \in 1 .. n + 1 : k \in positions /\ new[i] = seq[k]
        OBVIOUS
      <4>0. DOMAIN new = 1 .. Len(upTo[n]) + 1 /\ DOMAIN upTo[n] = 1 .. Len(upTo[n])
            /\ Len(upTo[n]) \in Nat
        BY <2>1, <3>1
      <4>1. CASE i = Len(upTo[n]) + 1
        BY <2>3, <3>2, <4>1
      <4>2. CASE i # Len(upTo[n]) + 1
        <5>1. i \in 1 .. Len(upTo[n]) /\ i \in DOMAIN upTo[n]
          BY <4>0, <4>2
        <5>2. PICK k \in 1 .. n : k \in positions /\ upTo[n][i] = seq[k]
          BY <2>1, <5>1
        <5>3. k \in 1 .. n + 1 /\ new[i] = seq[k]
          BY <3>2, <5>1, <5>2
        <5> QED BY <5>2, <5>3
      <4> QED BY <4>1, <4>2
    <3>4. \A k \in 1 .. n + 1 : k \in positions => \E i \in DOMAIN new : new[i] = seq[k]
      <4> SUFFICES ASSUME NEW k \in 1 .. n + 1, k \in positions
                   PROVE  \E i \in DOMAIN new : new[i] = seq[k]
        OBVIOUS
      <4>0. DOMAIN new = 1 .. Len(upTo[n]) + 1 /\ DOMAIN upTo[n] = 1 .. Len(upTo[n])
            /\ Len(upTo[n]) \in Nat
        BY <2>1, <3>1
      <4>1. CASE k = n + 1
        <5>1. Len(upTo[n]) + 1 \in DOMAIN new /\ new[Len(upTo[n]) + 1] = seq[n + 1]
          BY <3>2, <4>0
        <5> QED BY <4>1, <5>1
      <4>2. CASE k # n + 1
        <5>1. PICK i \in DOMAIN upTo[n] : upTo[n][i] = seq[k]
          BY <2>1, <4>2
        <5> QED BY <3>2, <4>0, <5>1
      <4> QED BY <4>1, <4>2
    <3> HIDE DEF new
    <3> QED BY <2>2, <2>3, <3>1, <3>3, <3>4 DEF new
  <2>4. CASE n + 1 \notin positions
    BY <2>1, <2>2, <2>4
  <2> QED BY <2>3, <2>4
<1>6. Nat \subseteq T
  <2> HIDE DEF T
  <2> QED BY <1>4, <1>5, Induction
<1>7. P(Len(seq)) /\ DOMAIN seq = 1 .. Len(seq)
  BY <1>1, <1>6
<1>8. ASSUME Len(seq) > 0, Len(seq) \in positions
      PROVE  upTo[Len(seq)] # <<>> /\ upTo[Len(seq)][Len(upTo[Len(seq)])] = seq[Len(seq)]
  <2>1. Len(seq) - 1 \in Nat /\ P(Len(seq) - 1) /\ seq[Len(seq)] \in S
    BY <1>1, <1>6, <1>8
  <2>2. upTo[Len(seq)] = Append(upTo[Len(seq) - 1], seq[Len(seq)])
    <3>1. Len(seq) \in 0 .. Len(seq) /\ Len(seq) # 0
      BY <1>1, <1>8
    <3> HIDE DEF P, T
    <3> QED BY <1>3, <1>8, <3>1
  <2> QED BY <2>1, <2>2
<1> HIDE DEF T
<1>9. \A i \in DOMAIN upTo[Len(seq)] :
        \E k \in DOMAIN seq : k \in positions /\ upTo[Len(seq)][i] = seq[k]
  BY <1>7
<1>10. \A k \in DOMAIN seq : k \in positions =>
         \E i \in DOMAIN upTo[Len(seq)] : upTo[Len(seq)][i] = seq[k]
  BY <1>7
<1>11. upTo[Len(seq)] \in Seq(S) /\ Len(upTo[Len(seq)]) <= Len(seq)
  BY <1>7
<1> HIDE DEF P
<1>12. sel = upTo[Len(seq)]
  BY <1>2
<1> QED BY <1>8, <1>9, <1>10, <1>11, <1>12, Zenon

-----------------------------------------------------------------------------
(* Size and Min.                                                           *)

LEMMA SizeOfOne ==
  ASSUME NEW m, m.text \in Nat
  PROVE  Size(<<m>>) = m.text
<1> DEFINE F(g) == [s \in SUBSET {1} |-> IF s = {} THEN 0
       ELSE <<m>>[CHOOSE x \in s : TRUE].text + g[s \ {CHOOSE x \in s : TRUE}]]
<1> DEFINE G == CHOOSE g : g = F(g)
<1>1. SUBSET {1} = {{}, {1}} /\ (CHOOSE x \in {1} : TRUE) = 1
  OBVIOUS
<1>2. G = F(G)
  <2> DEFINE h == [s \in SUBSET {1} |-> IF s = {} THEN 0 ELSE m.text]
  <2>0. h[{}] = 0 /\ {1} \ {1} = {} /\ <<m>>[1].text = m.text
    OBVIOUS
  <2>1. \A s \in SUBSET {1} : h[s] = F(h)[s]
    <3>1. h[{}] = F(h)[{}]
       OBVIOUS
    <3>2. F(h)[{1}] = <<m>>[1].text + h[{1} \ {1}]
       BY <1>1
    <3>3. h[{1}] = F(h)[{1}]
       BY <3>2, <2>0
    <3> QED BY <1>1, <3>1, <3>3
  <2>2. h = F(h)
    BY <2>1
  <2> HIDE DEF h, F
  <2> QED BY <2>2
<1>3. Size(<<m>>) = G[{1}]
  <2>1. DOMAIN <<m>> = {1}
    OBVIOUS
  <2> QED BY <2>1 DEF Size, MapThenSumSet, MapThenFoldSet
<1> HIDE DEF G
<1>4. G[{}] = 0 /\ G[{1}] = m.text + G[{}]
  BY <1>1, <1>2
<1> QED BY <1>3, <1>4

LEMMA MinIsOne ==
  ASSUME NEW T, T \subseteq Nat, T # {}
  PROVE  Min(T) \in T
BY Smallest DEF Min
-----------------------------------------------------------------------------
(* The type invariant in parts.                                            *)

Conversation == [id : 1 .. MaxChats, chat : Seq(Entry)]
QueryRun ==
  [conn : {"none", "waiting", "refused", "streaming", "ending", "closed"},
   run : {"none", "model", "tools", "over"},
   iteration : 0 .. MaxIterations, calls : Nat, wrote : Lengths,
   events : Seq(Event), messages : Seq(Turn)]

ChatType == chat \in Seq(Entry)
SavedType == saved \in Seq(Conversation) /\ Len(saved) <= MaxSaved
CountType ==
  /\ page \in {"up", "down"}
  /\ conv \in 1 .. MaxChats /\ begun \in 1 .. MaxChats /\ deleted \subseteq 1 .. MaxChats
  /\ asked \in 0 .. MaxQuestions /\ strays \subseteq Questions
FlagType == busy \in BOOLEAN
QueryType == query \in [Questions -> QueryRun]

LEMMA TypeParts ==
  TypeOK <=> ChatType /\ SavedType /\ CountType /\ FlagType /\ QueryType
BY DEF TypeOK, ChatType, SavedType, CountType, FlagType, QueryType, Conversation, QueryRun

LEMMA TypePartsNext ==
  ChatType' /\ SavedType' /\ CountType' /\ FlagType' /\ QueryType' => TypeOK'
BY DEF TypeOK, ChatType, SavedType, CountType, FlagType, QueryType, Conversation, QueryRun

LEMMA ChatsType ==
  ASSUME TypeOK, NEW entries \in Chats
  PROVE  entries \in Seq(Entry)
<1> USE TypeParts DEF ChatType, SavedType
<1>1. CASE entries # chat
  <2>1. PICK k \in DOMAIN saved : entries = saved[k].chat
    BY <1>1 DEF Chats
  <2>2. saved[k] \in Conversation
    BY <2>1
  <2> QED BY <2>1, <2>2 DEF Conversation
<1> QED BY <1>1

LEMMA Bounds ==
  /\ MaxIterations \in Nat /\ MaxTurns \in Nat /\ MaxPromptLen \in Nat
  /\ MaxHistoryLen \in Nat /\ MaxSaved \in Nat /\ MaxQuestions \in Nat
  /\ MaxChats \in Nat /\ MaxCalls \in Nat
  /\ MaxIterations > 0 /\ MaxTurns > 0 /\ MaxPromptLen > 0 /\ MaxSaved > 0
  /\ MaxQuestions > 0 /\ MaxChats > 0 /\ MaxPromptLen <= MaxHistoryLen
BY AssistantAssumption

LEMMA NoQueryType == NoQuery \in QueryRun
BY Bounds DEF NoQuery, QueryRun, Lengths

(* What a change of the last entry does.                                   *)
LEMMA AppendStepEffect ==
  ASSUME NEW entries \in Seq(Entry), entries # <<>>, NEW q \in Questions,
         NEW text \in Nat,
         NEW failed \in BOOLEAN, NEW done \in BOOLEAN,
         NEW new, new = AppendStep(entries, q, text, failed, done)
  PROVE  LET old == entries[Len(entries)]
         IN /\ new \in Seq(Entry) /\ new # <<>> /\ Len(new) = Len(entries)
            /\ new[Len(entries)].role = old.role /\ new[Len(entries)].q = old.q
            /\ new[Len(entries)].text = old.text + text
            /\ new[Len(entries)].from = old.from \cup {q}
            /\ new[Len(entries)].failed <=> old.failed \/ failed
            /\ new[Len(entries)].done <=> old.done \/ done
<1> DEFINE n == Len(entries)
           old == entries[n]
           e == [old EXCEPT !.text = old.text + text, !.from = old.from \cup {q},
                            !.failed = old.failed \/ failed, !.done = old.done \/ done]
           upd == [entries EXCEPT ![n] = e]
<1>1. n \in 1 .. Len(entries) /\ n \in Nat
  BY EmptySeq
<1>2. old \in Entry
  BY <1>1
<1>3. /\ e.role = old.role /\ e.q = old.q /\ e.text = old.text + text
      /\ e.from = old.from \cup {q}
  BY <1>2 DEF Entry
<1>4. (e.failed <=> old.failed \/ failed) /\ (e.done <=> old.done \/ done)
  BY <1>2 DEF Entry
<1>5. e \in Entry
  <2>1. old.text + text \in Nat
    BY <1>2 DEF Entry
  <2> QED BY <1>2, <2>1 DEF Entry
<1>6. new = upd
  BY DEF AppendStep
<1> HIDE DEF e
<1>7. /\ upd \in Seq(Entry) /\ Len(upd) = n /\ upd[n] = e
      /\ \A i \in 1 .. n - 1 : upd[i] = entries[i]
  BY <1>1, <1>5, ExceptSeq
<1>8. upd # <<>>
  BY <1>1, <1>7, EmptySeq
<1> HIDE DEF n, old, upd
<1> QED BY <1>3, <1>4, <1>6, <1>7, <1>8 DEF n, old

LEMMA AppendStepText ==
  ASSUME NEW entries \in Seq(Entry), entries # <<>>, NEW q \in Questions,
         NEW text \in Nat, NEW failed \in BOOLEAN, NEW done \in BOOLEAN,
         NEW new, new = AppendStep(entries, q, text, failed, done)
  PROVE  /\ new[Len(entries)].text = entries[Len(entries)].text + text
         /\ new[Len(entries)].from = entries[Len(entries)].from \cup {q}
BY AppendStepEffect

LEMMA AppendStepRest ==
  ASSUME NEW entries \in Seq(Entry), entries # <<>>, NEW q, NEW text, NEW failed, NEW done,
         NEW new, new = AppendStep(entries, q, text, failed, done)
  PROVE  \A i \in DOMAIN entries : i # Len(entries) => new[i] = entries[i]
<1> DEFINE last == entries[Len(entries)]
           e == [last EXCEPT !.text = last.text + text, !.from = last.from \cup {q},
                             !.failed = last.failed \/ failed, !.done = last.done \/ done]
<1>1. new = [entries EXCEPT ![Len(entries)] = e]
  BY DEF AppendStep
<1> HIDE DEF e
<1> QED BY <1>1

-----------------------------------------------------------------------------
(* The store.                                                              *)

LEMMA WithoutEffect ==
  ASSUME NEW list \in Seq(Conversation), NEW id
  PROVE  LET rest == Without(list, id)
         IN /\ rest \in Seq(Conversation) /\ Len(rest) <= Len(list)
            /\ \A i \in DOMAIN rest : \E k \in DOMAIN list :
                 list[k].id # id /\ rest[i] = list[k]
            /\ \A k \in DOMAIN list : list[k].id # id =>
                 \E i \in DOMAIN rest : rest[i] = list[k]
<1> DEFINE positions == {i \in DOMAIN list : list[i].id # id}
           rest == Select(list, positions)
<1>1. /\ rest \in Seq(Conversation) /\ Len(rest) <= Len(list)
      /\ \A i \in DOMAIN rest : \E k \in DOMAIN list : k \in positions /\ rest[i] = list[k]
      /\ \A k \in DOMAIN list : k \in positions => \E i \in DOMAIN rest : rest[i] = list[k]
  <2> DEFINE sel == rest
  <2>1. sel = Select(list, positions)
    OBVIOUS
  <2> HIDE DEF positions, rest, sel
  <2>2. /\ sel \in Seq(Conversation) /\ Len(sel) <= Len(list)
        /\ \A i \in DOMAIN sel : \E k \in DOMAIN list : k \in positions /\ sel[i] = list[k]
        /\ \A k \in DOMAIN list : k \in positions => \E i \in DOMAIN sel : sel[i] = list[k]
    BY <2>1, SelectTakes
  <2> QED BY <2>2 DEF sel
<1>2. \A k \in DOMAIN list : k \in positions <=> list[k].id # id
  OBVIOUS
<1>3. Without(list, id) = rest
  BY DEF Without
<1> HIDE DEF positions, rest
<1> QED BY <1>1, <1>2, <1>3

LEMMA UpsertEffect ==
  ASSUME NEW list \in Seq(Conversation), NEW id \in 1 .. MaxChats,
         NEW entries \in Seq(Entry)
  PROVE  LET new == Upsert(list, id, entries)
         IN /\ new \in Seq(Conversation) /\ Len(new) <= MaxSaved
            /\ \E i \in DOMAIN new : new[i] = [id |-> id, chat |-> entries]
            /\ \A i \in DOMAIN new :
                 \/ new[i] = [id |-> id, chat |-> entries]
                 \/ \E k \in DOMAIN list : new[i] = list[k]
<1> DEFINE first == [id |-> id, chat |-> entries]
           rest == Without(list, id)
           all == <<first>> \o rest
           n == IF Len(all) < MaxSaved THEN Len(all) ELSE MaxSaved
           new == SubSeq(all, 1, n)
<1>1. first \in Conversation
  BY DEF Conversation
<1>2. /\ rest \in Seq(Conversation)
      /\ \A i \in DOMAIN rest : \E k \in DOMAIN list : rest[i] = list[k]
  BY WithoutEffect
<1> HIDE DEF first, rest
<1>3. /\ all \in Seq(Conversation) /\ Len(all) = Len(rest) + 1 /\ all[1] = first
      /\ \A i \in 2 .. Len(all) : all[i] = rest[i - 1]
  BY <1>1, <1>2
<1> HIDE DEF all
<1>4. n \in 1 .. Len(all) /\ n <= MaxSaved
  BY <1>2, <1>3, Bounds
<1> HIDE DEF n
<1>5. /\ new \in Seq(Conversation) /\ Len(new) = n
      /\ \A i \in 1 .. n : new[i] = all[i]
  BY <1>3, <1>4
<1>6. Upsert(list, id, entries) = new
  BY DEF Upsert, first, rest, all, n
<1> HIDE DEF new
<1>7. 1 \in DOMAIN new /\ new[1] = first
  BY <1>3, <1>4, <1>5
<1>8. ASSUME NEW i \in DOMAIN new, i # 1
      PROVE  \E k \in DOMAIN list : new[i] = list[k]
  <2>1. i - 1 \in DOMAIN rest /\ new[i] = rest[i - 1]
    BY <1>2, <1>3, <1>4, <1>5, <1>8
  <2> QED BY <1>2, <2>1
<1> QED BY <1>4, <1>5, <1>6, <1>7, <1>8 DEF first

(* Whatever the store holds after a step was there, or is the page's chat, *)
(* which is there when it is not empty and nothing is awaited.             *)
LEMMA PersistEffect ==
  ASSUME NEW list \in Seq(Conversation), Len(list) <= MaxSaved,
         conv' \in 1 .. MaxChats, chat' \in Seq(Entry), busy' \in BOOLEAN,
         Persist(list)
  PROVE  /\ SavedType'
         /\ chat' # <<>> /\ ~ busy' =>
              \E i \in DOMAIN saved' : saved'[i] = [id |-> conv', chat |-> chat']
         /\ \A i \in DOMAIN saved' :
              \/ saved'[i] = [id |-> conv', chat |-> chat'] /\ chat' # <<>> /\ ~ busy'
              \/ \E k \in DOMAIN list : saved'[i] = list[k]
<1>1. CASE chat' = <<>> \/ busy'
  BY <1>1 DEF Persist, SavedType
<1>2. CASE ~ (chat' = <<>> \/ busy')
  <2>1. saved' = Upsert(list, conv', chat')
    BY <1>2 DEF Persist
  <2> QED BY <1>2, <2>1, UpsertEffect DEF SavedType
<1> QED BY <1>1, <1>2

-----------------------------------------------------------------------------
(* What a step does to the queries.                                        *)

(* What HistoryFits says of a query.                                       *)
FitsFor(r, q) ==
  r.run \in {"model", "tools"} =>
    /\ EndsWith(r.messages, q)
    /\ Len(r.messages) <= MaxTurns /\ Size(r.messages) <= MaxHistoryLen

LEMMA HistoryParts == HistoryFits <=> \A q \in Questions : FitsFor(query[q], q)
BY DEF HistoryFits, FitsFor, EndsWith

LEMMA UpdateEffect ==
  ASSUME QueryType, NEW q \in Questions, NEW r \in QueryRun,
         NEW next, next = [query EXCEPT ![q] = r]
  PROVE  /\ next \in [Questions -> QueryRun] /\ next[q] = r
         /\ \A p \in Questions : p # q => next[p] = query[p]
BY DEF QueryType

InFlight == {"waiting", "refused", "streaming"}

LEMMA InFlightDef ==
  /\ \A q \in Questions : q \in Live <=> query[q].conn \in InFlight
  /\ \A q \in Questions : q \in Expected <=> query[q].conn \in InFlight \cup {"ending"}
  /\ Live \subseteq Expected /\ Expected \subseteq Questions
BY DEF Live, Expected, InFlight

LEMMA InFlightNext ==
  /\ \A q \in Questions : q \in Live' <=> query'[q].conn \in InFlight
  /\ \A q \in Questions : q \in Expected' <=> query'[q].conn \in InFlight \cup {"ending"}
  /\ Live' \subseteq Expected' /\ Expected' \subseteq Questions
BY DEF Live, Expected, InFlight

(* What the query to q may become in a step of the page: its events are    *)
(* read, or it ends.                                                       *)
Onward(q, r) ==
  /\ r.wrote = query[q].wrote /\ RunOf(r) /\ FitsFor(r, q)
  /\ r.conn = "waiting" => EndsWith(r.messages, q)
  /\ r.conn \in InFlight => q \in Live
  /\ r.conn \in InFlight \cup {"ending"} => q \in Expected
  /\ q > asked => r = NoQuery

LEMMA OnwardSame ==
  ASSUME IInv
  PROVE  \A p \in Questions : Onward(p, query[p])
<1> SUFFICES ASSUME NEW p \in Questions PROVE Onward(p, query[p])
  OBVIOUS
<1>1. RunOf(query[p]) /\ FitsFor(query[p], p)
  BY HistoryParts DEF IInv, RunOK
<1>2. query[p].conn = "waiting" => EndsWith(query[p].messages, p)
  BY DEF IInv, RequestOK
<1>3. p > asked => query[p] = NoQuery
  BY DEF IInv, LiveOK
<1> QED BY <1>1, <1>2, <1>3, InFlightDef DEF Onward

LEMMA OnwardSpent ==
  ASSUME IInv, NEW q \in Questions, ~ (q > asked), NEW conn \in {"ending", "closed"},
         conn = "ending" => q \in Expected
  PROVE  LET r == Spent(q, conn)
         IN r \in QueryRun /\ r.conn = conn /\ Onward(q, r)
<1> DEFINE r == Spent(q, conn)
<1>1. query[q] \in QueryRun /\ RunOf(query[q])
  BY TypeParts DEF IInv, QueryType, RunOK
<1>2. r \in QueryRun
  BY <1>1, NoQueryType DEF Spent, QueryRun
<1>3. /\ r.conn = conn /\ r.run = "over" /\ r.events = <<>>
      /\ r.wrote = query[q].wrote /\ r.iteration = 0
  BY DEF Spent, NoQuery
<1> HIDE DEF r
<1>4. RunOf(r)
  BY <1>1, <1>3 DEF RunOf, NoneLast, OnlyLast
<1>5. FitsFor(r, q)
  BY <1>3 DEF FitsFor
<1>6. Onward(q, r)
  BY <1>3, <1>4, <1>5 DEF Onward, InFlight
<1> QED BY <1>2, <1>3, <1>6 DEF r

LEMMA UpdateOnward ==
  ASSUME IInv, NEW q \in Questions, NEW r \in QueryRun, Onward(q, r),
         query' = [query EXCEPT ![q] = r]
  PROVE  /\ query' \in [Questions -> QueryRun] /\ query'[q] = r
         /\ \A p \in Questions : Onward(p, query'[p])
         /\ \A p \in Questions : p # q => query'[p] = query[p]
<1>1. /\ query' \in [Questions -> QueryRun] /\ query'[q] = r
      /\ \A p \in Questions : p # q => query'[p] = query[p]
  <2>1. QueryType
    BY TypeParts DEF IInv
  <2> QED BY ONLY <2>1, r \in QueryRun, q \in Questions, query' = [query EXCEPT ![q] = r]
           DEF QueryType
<1>2. ASSUME NEW p \in Questions PROVE Onward(p, query'[p])
  <2>1. CASE p = q
    BY <1>1, <2>1
  <2>2. CASE p # q
    BY <1>1, <2>2, OnwardSame
  <2> QED BY <2>1, <2>2
<1> QED BY <1>1, <1>2

LEMMA AllClosedEffect ==
  ASSUME IInv
  PROVE  /\ AllClosed \in [Questions -> QueryRun]
         /\ \A p \in Questions : Onward(p, AllClosed[p])
         /\ \A p \in Questions : AllClosed[p].conn \notin InFlight \cup {"ending"}
<1> SUFFICES ASSUME NEW p \in Questions
             PROVE  /\ AllClosed[p] \in QueryRun /\ Onward(p, AllClosed[p])
                    /\ AllClosed[p].conn \notin InFlight \cup {"ending"}
  BY DEF AllClosed
<1>1. asked \in Nat /\ p \in Nat
  BY TypeParts, Bounds DEF IInv, CountType, Questions
<1>2. CASE p <= asked
  <2>1. AllClosed[p] = Spent(p, "closed")
    BY <1>2 DEF AllClosed
  <2>2. ~ (p > asked)
    BY <1>1, <1>2
  <2> DEFINE r == Spent(p, "closed")
             conn == "closed"
  <2>3. conn \in {"ending", "closed"} /\ conn # "ending" /\ r = Spent(p, conn)
    OBVIOUS
  <2> HIDE DEF conn
  <2>4. r \in QueryRun /\ r.conn = conn /\ Onward(p, r)
    <3> HIDE DEF r
    <3> QED BY <2>2, <2>3, OnwardSpent
  <2> HIDE DEF r
  <2>5. AllClosed[p] = r
    BY <2>1 DEF r
  <2> QED BY <2>4, <2>5 DEF conn, InFlight
<1>3. CASE ~ (p <= asked)
  <2>1. AllClosed[p] = query[p]
    BY <1>3 DEF AllClosed
  <2>2. query[p] = NoQuery
    BY <1>1, <1>3 DEF IInv, LiveOK
  <2>3. NoQuery.conn = "none"
    BY DEF NoQuery
  <2> QED BY <2>1, <2>2, <2>3, OnwardSame, NoQueryType DEF InFlight
<1> QED BY <1>2, <1>3

(* What is kept of the queries.                                            *)
LEMMA QueriesKept ==
  ASSUME IInv, asked' = asked, query' \in [Questions -> QueryRun],
         \A p \in Questions : Onward(p, query'[p])
  PROVE  /\ QueryType' /\ RunOK' /\ RequestOK' /\ HistoryFits'
         /\ Live' \subseteq Live /\ Expected' \subseteq Expected
         /\ \A p \in Questions : query'[p].wrote = query[p].wrote
         /\ \A p \in Questions : p > asked' => query'[p] = NoQuery
<1>1. QueryType'
  BY DEF QueryType
<1>2. RunOK' /\ RequestOK'
  BY DEF Onward, RunOK, RequestOK
<1>3. HistoryFits'
  <2>1. \A p \in Questions : FitsFor(query'[p], p)
    BY DEF Onward
  <2> QED BY <2>1 DEF HistoryFits, FitsFor, EndsWith
<1>4. Live' \subseteq Live /\ Expected' \subseteq Expected
  BY InFlightDef, InFlightNext DEF Onward
<1> QED BY <1>1, <1>2, <1>3, <1>4 DEF Onward

-----------------------------------------------------------------------------
(* The events of a run.                                                    *)

LEMMA ShowsNone ==
  ASSUME NEW n \in 0 .. MaxIterations
  PROVE  Shows(<<>>, n, n)
<1> DEFINE shown == [i \in 0 .. 0 |-> n]
<1>1. Len(<<>>) = 0 /\ DOMAIN <<>> = {}
  OBVIOUS
<1>2. shown \in [0 .. 0 -> 0 .. MaxIterations] /\ shown[0] = n
  OBVIOUS
<1> HIDE DEF shown
<1> QED BY <1>1, <1>2, Zenon DEF Shows

LEMMA ShowsMore ==
  ASSUME NEW events \in Seq(Event), NEW wrote \in Nat, NEW text,
         Shows(events, wrote, text), NEW e \in Event,
         wrote + e.text <= MaxIterations
  PROVE  Shows(events \o <<e>>, wrote + e.text, text)
<1> DEFINE n == Len(events)
           more == events \o <<e>>
<1>1. PICK shown \in [0 .. n -> 0 .. MaxIterations] :
        /\ shown[0] = text /\ shown[n] = wrote
        /\ \A i \in DOMAIN events : shown[i] = shown[i - 1] + events[i].text
  BY DEF Shows
<1> DEFINE new == [i \in 0 .. n + 1 |-> IF i <= n THEN shown[i] ELSE wrote + e.text]
<1>2. n \in Nat /\ DOMAIN events = 1 .. n /\ e.text \in Nat
  BY Bounds DEF Event, Lengths
<1>3. /\ Len(more) = n + 1 /\ DOMAIN more = 1 .. n + 1 /\ more[n + 1] = e
      /\ \A i \in 1 .. n : more[i] = events[i]
  BY <1>2
<1> HIDE DEF more, n
<1>4. wrote + e.text \in 0 .. MaxIterations
  BY <1>2, Bounds
<1>5. new \in [0 .. n + 1 -> 0 .. MaxIterations]
  BY <1>1, <1>2, <1>4
<1>6. new[0] = text /\ new[n + 1] = wrote + e.text
  BY <1>1, <1>2
<1>7. ASSUME NEW i \in 1 .. n + 1 PROVE new[i] = new[i - 1] + more[i].text
  <2>1. CASE i = n + 1
    <3>1. new[i] = wrote + e.text /\ new[i - 1] = shown[n]
      BY <1>2, <2>1
    <3> QED BY <1>1, <1>3, <2>1, <3>1
  <2>2. CASE i # n + 1
    <3>1. i \in 1 .. n /\ i - 1 \in 0 .. n
      BY <1>2, <2>2
    <3>2. new[i] = shown[i] /\ new[i - 1] = shown[i - 1]
      BY <1>2, <3>1
    <3> QED BY <1>1, <1>2, <1>3, <3>1, <3>2
  <2> QED BY <2>1, <2>2
<1> HIDE DEF new
<1>8. Shows(more, wrote + e.text, text)
  BY <1>3, <1>5, <1>6, <1>7 DEF Shows
<1> QED BY <1>8 DEF more

LEMMA ShowsNext ==
  ASSUME NEW events \in Seq(Event), events # <<>>, NEW wrote, NEW text,
         Shows(events, wrote, text)
  PROVE  /\ text \in 0 .. MaxIterations
         /\ text + Head(events).text \in 0 .. MaxIterations
         /\ Shows(Tail(events), wrote, text + Head(events).text)
         /\ Len(events) = 1 => text + Head(events).text = wrote
<1> DEFINE n == Len(events)
           rest == Tail(events)
<1>1. PICK shown \in [0 .. n -> 0 .. MaxIterations] :
        /\ shown[0] = text /\ shown[n] = wrote
        /\ \A i \in DOMAIN events : shown[i] = shown[i - 1] + events[i].text
  BY DEF Shows
<1>2. n \in Nat /\ n > 0 /\ DOMAIN events = 1 .. n /\ Head(events) = events[1]
  BY EmptySeq
<1>3. /\ Len(rest) = n - 1 /\ DOMAIN rest = 1 .. n - 1
      /\ \A i \in 1 .. n - 1 : rest[i] = events[i + 1]
  BY <1>2
<1> HIDE DEF n, rest
<1>4. shown[1] = text + Head(events).text /\ shown[1] \in 0 .. MaxIterations
  BY <1>1, <1>2
<1>5. text \in 0 .. MaxIterations
  BY <1>1, <1>2
<1> DEFINE new == [i \in 0 .. n - 1 |-> shown[i + 1]]
<1>6. new \in [0 .. n - 1 -> 0 .. MaxIterations]
  BY <1>1, <1>2
<1>7. new[0] = text + Head(events).text /\ new[n - 1] = wrote
  BY <1>1, <1>2, <1>4
<1>8. ASSUME NEW i \in 1 .. n - 1 PROVE new[i] = new[i - 1] + rest[i].text
  <2>1. i + 1 \in 1 .. n /\ (i + 1) - 1 = i /\ (i - 1) + 1 = i
    BY <1>2
  <2>2. new[i] = shown[i + 1] /\ new[i - 1] = shown[i]
    BY <1>2, <2>1
  <2>3. shown[i + 1] = shown[(i + 1) - 1] + events[i + 1].text
    BY <1>1, <1>2, <2>1
  <2> QED BY <1>3, <2>1, <2>2, <2>3
<1> HIDE DEF new
<1>9. Shows(rest, wrote, text + Head(events).text)
  BY <1>3, <1>6, <1>7, <1>8 DEF Shows
<1>10. n = 1 => text + Head(events).text = wrote
  BY <1>1, <1>4
<1> QED BY <1>4, <1>5, <1>9, <1>10 DEF rest, n

LEMMA LastMore ==
  ASSUME NEW events \in Seq(Event), NEW e \in Event, NoneLast(events)
  PROVE  /\ OnlyLast(events \o <<e>>)
         /\ e.type \notin {"error", "done"} => NoneLast(events \o <<e>>)
<1> DEFINE n == Len(events)
           more == events \o <<e>>
<1>1. n \in Nat /\ DOMAIN events = 1 .. n
  OBVIOUS
<1>2. /\ Len(more) = n + 1 /\ DOMAIN more = 1 .. n + 1 /\ more[n + 1] = e
      /\ \A i \in 1 .. n : more[i] = events[i]
  BY <1>1
<1> HIDE DEF more, n
<1>3. \A i \in 1 .. n + 1 : i # n + 1 => i \in 1 .. n
  BY <1>1
<1>4. OnlyLast(more)
  BY <1>1, <1>2, <1>3, Zenon DEF OnlyLast, NoneLast
<1>5. e.type \notin {"error", "done"} => NoneLast(more)
  BY <1>1, <1>2, <1>3 DEF NoneLast
<1> QED BY <1>4, <1>5 DEF more

LEMMA LastNext ==
  ASSUME NEW events \in Seq(Event), events # <<>>, OnlyLast(events)
  PROVE  /\ OnlyLast(Tail(events))
         /\ NoneLast(events) => NoneLast(Tail(events))
         /\ Head(events).type \in {"error", "done"} => Len(events) = 1
<1> DEFINE n == Len(events)
           rest == Tail(events)
<1>1. n \in Nat /\ n > 0 /\ DOMAIN events = 1 .. n /\ Head(events) = events[1]
  BY EmptySeq
<1>2. /\ Len(rest) = n - 1 /\ DOMAIN rest = 1 .. n - 1
      /\ \A i \in 1 .. n - 1 : rest[i] = events[i + 1]
  BY <1>1
<1> HIDE DEF n, rest
<1>3. \A i \in 1 .. n - 1 : i + 1 \in 1 .. n /\ (i + 1 = n => i = n - 1)
  BY <1>1
<1>4. OnlyLast(rest)
  <2>1. \A i \in 1 .. n : events[i].type \in {"error", "done"} => i = n
    BY <1>1 DEF OnlyLast, n
  <2> QED BY <1>2, <1>3, <2>1 DEF OnlyLast
<1>5. NoneLast(events) => NoneLast(rest)
  BY <1>1, <1>2, <1>3 DEF NoneLast
<1>6. 1 \in DOMAIN events
  BY <1>1
<1> QED BY <1>1, <1>4, <1>5, <1>6 DEF OnlyLast, n, rest

-----------------------------------------------------------------------------
(* The agent: one query changes and the page does not.                     *)

(* When the chat ends with the clean answer to q, r gives the rest of it.  *)
Follows(q, r) ==
  q = asked /\ q \notin strays /\ Clean(chat[Len(chat)], strays) =>
    TextOf(r, chat[Len(chat)].text)

LEMMA LiveFollows ==
  ASSUME IInv, NEW q \in Live
  PROVE  q \in Questions /\ ~ (q > asked) /\ Follows(q, query[q])
<1>1. q \in Questions /\ query[q].conn \in InFlight
  BY InFlightDef
<1>2. ~ (q > asked)
  <2>1. NoQuery.conn \notin InFlight
    BY DEF NoQuery, InFlight
  <2> QED BY <1>1, <2>1 DEF IInv, LiveOK
<1>3. Follows(q, query[q])
  BY DEF IInv, TextOK, Follows
<1> QED BY <1>1, <1>2, <1>3

LEMMA AgentKeeps ==
  ASSUME IInv, UNCHANGED pageVars, NEW q \in Questions, ~ (q > asked),
         NEW r \in QueryRun, query' = [query EXCEPT ![q] = r],
         r.conn \in InFlight => q \in Live,
         r.conn \in InFlight \cup {"ending"} => q \in Expected,
         q \in Live \/ r.wrote = query[q].wrote,
         RunOf(r), FitsFor(r, q), r.conn = "waiting" => EndsWith(r.messages, q),
         Follows(q, r)
  PROVE  IInv'
<1>1. QueryType /\ UNCHANGED <<page, chat, busy, conv, begun, saved, deleted, asked, strays>>
  BY TypeParts DEF IInv, pageVars
<1>2. /\ QueryType' /\ query'[q] = r
      /\ \A p \in Questions : p # q => query'[p] = query[p]
  BY <1>1, UpdateEffect DEF QueryType
<1>3. TypeOK'
  <2>1. ChatType' /\ SavedType'
    BY TypeParts DEF IInv, pageVars, ChatType, SavedType
  <2>2. CountType'
    BY TypeParts DEF IInv, pageVars, CountType
  <2>3. FlagType'
    BY TypeParts DEF IInv, pageVars, FlagType
  <2> QED BY <1>2, <2>1, <2>2, <2>3, TypePartsNext
<1>4. /\ Live' \subseteq Live /\ Expected' \subseteq Expected
      /\ \A p \in Questions : p # q => (p \in Live' <=> p \in Live)
  BY <1>2, InFlightDef, InFlightNext
<1>5. LiveOK'
  <2>1. \A p \in Questions : p > asked => p # q
    OBVIOUS
  <2>2. \A p \in Live' : p \notin strays' => p = asked' /\ busy'
    BY <1>1, <1>4 DEF IInv, LiveOK
  <2>3. \A p \in Questions : p > asked' => query'[p] = NoQuery
    BY <1>1, <1>2, <2>1 DEF IInv, LiveOK
  <2> QED BY <1>1, <2>2, <2>3 DEF IInv, LiveOK
<1>6. RunOK'
  BY <1>2 DEF IInv, RunOK
<1>7. StoreOK' /\ AnswersBelong' /\ StoreFollowsPage'
  BY DEF IInv, pageVars, StoreOK, AnswersBelong, StoreFollowsPage, Chats
<1>8. WaitingOK'
  BY <1>1, <1>4 DEF IInv, WaitingOK
<1>9. TextOK'
  <2> SUFFICES ASSUME asked \in Live' \ strays, Clean(chat[Len(chat)], strays)
               PROVE  TextOf(query'[asked], chat[Len(chat)].text)
    BY <1>1 DEF TextOK
  <2>1. asked \in Live /\ asked \in Questions
    BY <1>4, InFlightDef
  <2>2. CASE asked = q
    BY <1>2, <2>2 DEF Follows
  <2>3. CASE asked # q
    BY <1>2, <2>1, <2>3 DEF IInv, TextOK
  <2> QED BY <2>2, <2>3
<1>10. RequestOK'
  BY <1>2 DEF IInv, RequestOK
<1>11. HistoryFits'
  <2>1. \A p \in Questions : FitsFor(query[p], p)
    BY HistoryParts DEF IInv
  <2>2. \A p \in Questions : FitsFor(query'[p], p)
    BY <1>2, <2>1
  <2> QED BY <2>2 DEF HistoryFits, FitsFor, EndsWith
<1>12. WholeOK'
  <2> SUFFICES ASSUME NEW entries \in Chats PROVE Whole(entries, asked, query', strays, Live')
    BY <1>1 DEF WholeOK, Chats
  <2>1. Whole(entries, asked, query, strays, Live) /\ entries \in Seq(Entry)
    BY ChatsType DEF IInv, WholeOK
  <2> SUFFICES ASSUME NEW i \in DOMAIN entries
               PROVE  /\ entries[i].q <= asked
                      /\ /\ entries[i].role = "assistant" /\ entries[i].done
                         /\ ~ entries[i].failed /\ Clean(entries[i], strays)
                         => /\ entries[i].q \notin Live'
                            /\ entries[i].text = query'[entries[i].q].wrote
    BY DEF Whole
  <2>2. /\ entries[i].q <= asked
        /\ /\ entries[i].role = "assistant" /\ entries[i].done
           /\ ~ entries[i].failed /\ Clean(entries[i], strays)
           => /\ entries[i].q \notin Live
              /\ entries[i].text = query[entries[i].q].wrote
    BY <2>1 DEF Whole
  <2>3. entries[i].q \in Questions
    <3>1. entries[i] \in Entry
      BY <2>1
    <3> QED BY <3>1 DEF Entry
  <2>4. entries[i].q \notin Live => query'[entries[i].q].wrote = query[entries[i].q].wrote
    BY <1>2, <2>3
  <2> QED BY <1>4, <2>2, <2>3, <2>4
<1> QED BY <1>3, <1>5, <1>6, <1>7, <1>8, <1>9, <1>10, <1>11, <1>12 DEF IInv

LEMMA RecentEffect ==
  ASSUME NEW turns \in Seq(Turn), NEW q, EndsWith(turns, q)
  PROVE  /\ Recent(turns) \in Seq(Turn) /\ Len(Recent(turns)) <= MaxTurns
         /\ EndsWith(Recent(turns), q)
<1>1. Len(turns) \in Nat /\ Len(turns) > 0
  BY EmptySeq DEF EndsWith
<1>2. CASE Len(turns) > MaxTurns
  <2> DEFINE from == Len(turns) - MaxTurns + 1
             recent == SubSeq(turns, from, Len(turns))
  <2>1. from \in 1 .. Len(turns)
    BY <1>1, <1>2, Bounds
  <2>2. /\ recent \in Seq(Turn) /\ Len(recent) = MaxTurns
        /\ recent[MaxTurns] = turns[Len(turns)]
    BY <1>1, <1>2, <2>1, Bounds
  <2>3. recent # <<>>
    <3> HIDE DEF recent
    <3> QED BY <2>2, Bounds, EmptySeq
  <2>4. Recent(turns) = recent
    BY <1>2 DEF Recent
  <2> HIDE DEF recent
  <2> QED BY <2>2, <2>3, <2>4, Bounds DEF EndsWith
<1>3. CASE ~ (Len(turns) > MaxTurns)
  BY <1>1, <1>3, Bounds DEF Recent
<1> QED BY <1>2, <1>3

(* DropOldest keeps the last turn, which fits alone when it is not too     *)
(* long a prompt.                                                          *)
LEMMA DropOldestEffect ==
  ASSUME NEW turns \in Seq(Turn), NEW q, EndsWith(turns, q),
         turns[Len(turns)].text <= MaxPromptLen
  PROVE  LET kept == DropOldest(turns)
         IN /\ kept \in Seq(Turn) /\ Len(kept) <= Len(turns)
            /\ EndsWith(kept, q) /\ Size(kept) <= MaxHistoryLen
<1> DEFINE n == Len(turns)
           fits == {k \in DOMAIN turns :
                      Size(SubSeq(turns, k, n)) <= MaxHistoryLen \/ k = n}
           k == Min(fits)
           kept == SubSeq(turns, k, n)
<1>1. n \in Nat /\ n > 0 /\ DOMAIN turns = 1 .. n
  BY EmptySeq DEF EndsWith
<1>2. k \in fits
  <2>1. fits \subseteq Nat /\ n \in fits
    BY <1>1
  <2> HIDE DEF fits
  <2> QED BY <2>1, MinIsOne
<1>3. DropOldest(turns) = kept
  BY DEF DropOldest
<1> HIDE DEF k
<1>4. k \in 1 .. n /\ (Size(kept) <= MaxHistoryLen \/ k = n)
  BY <1>1, <1>2
<1>5. /\ kept \in Seq(Turn) /\ Len(kept) = n - k + 1
      /\ kept[n - k + 1] = turns[n]
  <2> HIDE DEF n
  <2>1. \A i \in k .. n : turns[i] \in Turn
    BY <1>1, <1>4
  <2> QED BY <1>1, <1>4, <2>1, SubSeqProperties
<1>6. Size(kept) <= MaxHistoryLen
  <2> SUFFICES ASSUME k = n PROVE Size(kept) <= MaxHistoryLen
    BY <1>4
  <2>1. kept = <<turns[n]>>
    <3>1. Len(kept) = 1 /\ kept[1] = turns[n] /\ kept \in Seq(Turn)
      BY <1>1, <1>5
    <3> HIDE DEF kept
    <3> QED BY <3>1
  <2>2. turns[n] \in Turn
    BY <1>1
  <2>20. turns[n].text \in Nat
    BY <2>2, Bounds DEF Turn, Lengths
  <2>3. Size(kept) = turns[n].text
    BY <2>1, <2>20, SizeOfOne
  <2> QED BY <2>20, <2>3, Bounds
<1>7. Len(kept) \in 1 .. n
  <2> HIDE DEF n, kept
  <2>1. k \in 1 .. n
    BY <1>4
  <2> QED BY <1>1, <1>5, <2>1
<1> HIDE DEF kept
<1>8. EndsWith(kept, q)
  <2>1. kept # <<>>
    BY <1>1, <1>5, <1>7, EmptySeq
  <2> QED BY <1>5, <2>1 DEF EndsWith
<1> QED BY <1>1, <1>3, <1>5, <1>6, <1>7, <1>8

LEMMA AcceptKeeps ==
  ASSUME IInv, NEW q \in Questions, Accept(q)
  PROVE  IInv'
<1> DEFINE old == query[q]
           turns == Recent(old.messages)
           r == [old EXCEPT !.conn = "streaming", !.run = "model",
                            !.messages = DropOldest(turns)]
<1>1. old \in QueryRun /\ RunOf(old) /\ FitsFor(old, q) /\ old.conn = "waiting"
  BY TypeParts, HistoryParts DEF IInv, QueryType, RunOK, Accept
<1>2. /\ old.messages \in Seq(Turn) /\ EndsWith(old.messages, q)
  BY <1>1 DEF IInv, RequestOK, QueryRun
<1>3. /\ turns \in Seq(Turn) /\ Len(turns) <= MaxTurns /\ EndsWith(turns, q)
  BY <1>2, RecentEffect
<1>4. turns[Len(turns)].text <= MaxPromptLen
  BY DEF Accept
<1>5. query' = [query EXCEPT ![q] = r]
  BY TypeParts DEF IInv, QueryType, Accept
<1> HIDE DEF turns
<1> DEFINE kept == DropOldest(turns)
<1>6. /\ kept \in Seq(Turn) /\ Len(kept) <= Len(turns)
      /\ EndsWith(kept, q) /\ Size(kept) <= MaxHistoryLen
  BY <1>3, <1>4, DropOldestEffect
<1>7. Len(kept) <= MaxTurns
  BY <1>3, <1>6, Bounds
<1> HIDE DEF kept
<1>8. r \in QueryRun /\ r = [old EXCEPT !.conn = "streaming", !.run = "model", !.messages = kept]
  BY <1>1, <1>6 DEF QueryRun, kept
<1> HIDE DEF r
<1>9. /\ r.conn = "streaming" /\ r.run = "model" /\ r.messages = kept
      /\ r.wrote = 0 /\ r.iteration = 0 /\ r.events = <<>>
  BY <1>1, <1>8 DEF QueryRun, RunOf
<1>10. RunOf(r)
  BY <1>9, Bounds DEF RunOf, NoneLast, OnlyLast
<1>11. FitsFor(r, q)
  BY <1>6, <1>7, <1>9 DEF FitsFor
<1>12. q \in Live /\ q \in Expected /\ ~ (q > asked) /\ Follows(q, old)
  <2>1. q \in Live
    BY <1>1, InFlightDef DEF InFlight
  <2> QED BY <2>1, LiveFollows, InFlightDef
<1>13. Follows(q, r)
  <2>1. Follows(q, old) => (TextOf(old, chat[Len(chat)].text) => chat[Len(chat)].text = 0)
    BY <1>1 DEF TextOf
  <2>2. Shows(r.events, r.wrote, 0)
    <3>1. 0 \in 0 .. MaxIterations
      BY Bounds
    <3> QED BY <1>9, <3>1, ShowsNone
  <2> QED BY <1>9, <1>12, <2>1, <2>2 DEF Follows, TextOf
<1>14. UNCHANGED pageVars
  BY DEF Accept
<1> HIDE DEF old
<1>15. r.conn # "waiting"
  BY <1>9
<1> QED BY <1>5, <1>8, <1>10, <1>11, <1>12, <1>13, <1>14, <1>15, AgentKeeps DEF old

LEMMA RefuseKeeps ==
  ASSUME IInv, NEW q \in Questions, Refuse(q)
  PROVE  IInv'
<1> DEFINE old == query[q]
           r == [old EXCEPT !.conn = "refused"]
<1>1. old \in QueryRun /\ RunOf(old) /\ FitsFor(old, q) /\ old.conn = "waiting"
  BY TypeParts, HistoryParts DEF IInv, QueryType, RunOK, Refuse
<1>2. query' = [query EXCEPT ![q] = r]
  BY TypeParts DEF IInv, QueryType, Refuse
<1>3. r \in QueryRun
  BY <1>1 DEF QueryRun
<1>4. /\ r.conn = "refused" /\ r.run = old.run /\ r.wrote = old.wrote
      /\ r.iteration = old.iteration /\ r.events = old.events /\ r.calls = old.calls
      /\ r.messages = old.messages
  BY <1>1 DEF QueryRun
<1> HIDE DEF r
<1>5. RunOf(r)
  BY <1>1, <1>4 DEF RunOf
<1>6. FitsFor(r, q)
  BY <1>1, <1>4 DEF FitsFor
<1>7. q \in Live /\ q \in Expected /\ ~ (q > asked) /\ Follows(q, old)
  <2>1. q \in Live
    BY <1>1, InFlightDef DEF InFlight
  <2> QED BY <2>1, LiveFollows, InFlightDef
<1>8. UNCHANGED pageVars /\ r.conn # "waiting" /\ Follows(q, r)
  BY <1>1, <1>4, <1>7 DEF Refuse, Follows, TextOf
<1> HIDE DEF old
<1> QED BY <1>2, <1>3, <1>5, <1>6, <1>7, <1>8, AgentKeeps DEF old

LEMMA EvType ==
  ASSUME NEW type \in {"text", "step", "error", "done"}, NEW n \in 0 .. 1
  PROVE  Ev(type, n) \in Event /\ Ev(type, n).type = type /\ Ev(type, n).text = n
BY Bounds DEF Ev, Event, Lengths

(* The events of one round of the model: its text if it has one, and the   *)
(* last event if it calls no tool.                                         *)
WithRound(events, n, calls) ==
  events \o ((IF n > 0 THEN <<Ev("text", n)>> ELSE <<>>)
             \o (IF calls = 0 THEN <<Ev("done", 0)>> ELSE <<>>))

LEMMA RoundEffect ==
  ASSUME NEW events \in Seq(Event), NoneLast(events),
         NEW wrote \in Nat, NEW n \in 0 .. 1, wrote + n <= MaxIterations, NEW calls \in Nat
  PROVE  /\ WithRound(events, n, calls) \in Seq(Event)
         /\ \A shown : Shows(events, wrote, shown) =>
              Shows(WithRound(events, n, calls), wrote + n, shown)
         /\ OnlyLast(WithRound(events, n, calls))
         /\ calls # 0 => NoneLast(WithRound(events, n, calls))
<1> DEFINE text == IF n > 0 THEN <<Ev("text", n)>> ELSE <<>>
           last == IF calls = 0 THEN <<Ev("done", 0)>> ELSE <<>>
           all == WithRound(events, n, calls)
<1>1. /\ Ev("text", n) \in Event /\ Ev("text", n).type = "text" /\ Ev("text", n).text = n
      /\ Ev("done", 0) \in Event /\ Ev("done", 0).type = "done" /\ Ev("done", 0).text = 0
  <2>1. n \in 0 .. 1 /\ 0 \in 0 .. 1
    OBVIOUS
  <2> QED BY <2>1, EvType
<1>2. /\ events \o <<>> = events /\ <<>> \o last = last /\ text \o <<>> = text
      /\ text \in Seq(Event) /\ last \in Seq(Event)
  BY <1>1
<1> DEFINE mid == events \o text
<1>3. /\ mid \in Seq(Event) /\ NoneLast(mid)
      /\ \A shown : Shows(events, wrote, shown) => Shows(mid, wrote + n, shown)
  <2>1. CASE n > 0
    <3>1. mid = events \o <<Ev("text", n)>>
      BY <2>1
    <3>2. mid \in Seq(Event)
      BY <1>1, <3>1
    <3> QED BY <1>1, <3>1, <3>2, ShowsMore, LastMore
  <2>2. CASE ~ (n > 0)
    <3>1. mid = events /\ wrote + n = wrote
      BY <1>2, <2>2
    <3> QED BY <3>1
  <2> QED BY <2>1, <2>2
<1> DEFINE more == mid \o last
<1>4. all = more
  <2>1. Associative(Seq(Event))
    BY Regroup
  <2>2. (events \o text) \o last = events \o (text \o last)
    <3> HIDE DEF text, last
    <3> QED BY ONLY <1>2, <2>1, events \in Seq(Event), Zenon DEF Associative
  <2> QED BY <2>2 DEF WithRound
<1> HIDE DEF mid, all
<1>5. /\ more \in Seq(Event)
      /\ \A shown : Shows(mid, wrote + n, shown) => Shows(more, wrote + n, shown)
      /\ OnlyLast(more) /\ (calls # 0 => NoneLast(more))
  <2>1. CASE calls = 0
    <3>1. more = mid \o <<Ev("done", 0)>>
      BY <2>1
    <3>2. more \in Seq(Event) /\ wrote + n \in Nat /\ (wrote + n) + 0 = wrote + n
      BY <1>1, <1>3, <3>1
    <3>3. \A shown : Shows(mid, wrote + n, shown) =>
            Shows(more, (wrote + n) + Ev("done", 0).text, shown)
      <4> HIDE DEF more
      <4> QED BY <1>1, <1>3, <3>1, <3>2, ShowsMore
    <3>4. OnlyLast(more)
      BY <1>1, <1>3, <3>1, LastMore
    <3> HIDE DEF more
    <3> QED BY <1>1, <2>1, <3>2, <3>3, <3>4
  <2>2. CASE calls # 0
    <3>1. more = mid
      BY <1>3, <2>2
    <3>2. OnlyLast(mid)
      BY <1>3 DEF OnlyLast, NoneLast
    <3> HIDE DEF more
    <3> QED BY <1>3, <3>1, <3>2
  <2> QED BY <2>1, <2>2
<1> HIDE DEF more
<1>6. all \in Seq(Event) /\ OnlyLast(all) /\ (calls # 0 => NoneLast(all))
  BY <1>4, <1>5
<1>7. \A shown : Shows(events, wrote, shown) => Shows(all, wrote + n, shown)
  BY <1>3, <1>4, <1>5
<1> QED BY <1>6, <1>7 DEF all

LEMMA AskModelKeeps ==
  ASSUME IInv, NEW q \in Questions, NEW n \in 0 .. 1, NEW calls \in 0 .. MaxCalls,
         AskModel(q, n, calls)
  PROVE  IInv'
<1> DEFINE old == query[q]
           text == IF n > 0 THEN <<Ev("text", n)>> ELSE <<>>
           last == IF calls = 0 THEN <<Ev("done", 0)>> ELSE <<>>
           more == old.events \o (text \o last)
           run == IF calls = 0 THEN "over" ELSE "tools"
           r == [old EXCEPT !.run = run, !.iteration = old.iteration + 1,
                            !.calls = calls, !.wrote = old.wrote + n, !.events = more]
<1>1. /\ old \in QueryRun /\ RunOf(old) /\ FitsFor(old, q) /\ old.run = "model"
      /\ old.iteration < MaxIterations
  BY TypeParts, HistoryParts DEF IInv, QueryType, RunOK, AskModel
<1>2. old.conn = "streaming" /\ old.wrote <= old.iteration /\ NoneLast(old.events)
  BY <1>1 DEF RunOf
<1>3. query' = [query EXCEPT ![q] = r]
  BY TypeParts DEF IInv, QueryType, AskModel, Emit
<1>4. q \in Live /\ q \in Expected /\ ~ (q > asked) /\ Follows(q, old)
  <2>1. q \in Live
    BY <1>2, InFlightDef DEF InFlight
  <2> QED BY <2>1, LiveFollows, InFlightDef
<1>5. /\ old.wrote \in Nat /\ old.iteration \in Nat /\ calls \in Nat
      /\ old.events \in Seq(Event) /\ old.wrote + n <= MaxIterations
      /\ old.wrote + n <= old.iteration + 1
      /\ old.iteration + 1 \in 0 .. MaxIterations /\ old.wrote + n \in Lengths
  <2>1. /\ old.wrote \in Nat /\ old.iteration \in Nat /\ calls \in Nat
        /\ old.events \in Seq(Event)
    <3> HIDE DEF old
    <3> QED BY <1>1, Bounds DEF QueryRun, Lengths
  <2>2. MaxIterations \in Nat /\ MaxPromptLen \in Nat /\ n \in 0 .. 1
    BY Bounds
  <2> HIDE DEF old
  <2> QED BY <1>1, <1>2, <2>1, <2>2 DEF Lengths
<1>6. /\ more \in Seq(Event)
      /\ \A shown : Shows(old.events, old.wrote, shown) => Shows(more, old.wrote + n, shown)
      /\ OnlyLast(more) /\ (calls # 0 => NoneLast(more))
  <2>2. more = WithRound(old.events, n, calls)
    BY DEF WithRound
  <2> HIDE DEF old, text, last
  <2> DEFINE events == old.events
             wrote == old.wrote
  <2>3. /\ events \in Seq(Event) /\ NoneLast(events) /\ wrote \in Nat
        /\ wrote + n <= MaxIterations
        /\ more = WithRound(events, n, calls) /\ calls \in Nat
    BY <1>2, <1>5, <2>2
  <2> HIDE DEF more, events, wrote
  <2>4. /\ more \in Seq(Event)
        /\ \A shown : Shows(events, wrote, shown) => Shows(more, wrote + n, shown)
        /\ OnlyLast(more) /\ (calls # 0 => NoneLast(more))
    BY <2>3, RoundEffect
  <2> QED BY <2>4 DEF events, wrote
<1> HIDE DEF more
<1>7. run \in {"over", "tools"} /\ (run = "over" <=> calls = 0)
  OBVIOUS
<1> HIDE DEF run
<1>8. r \in QueryRun
  BY <1>1, <1>5, <1>6, <1>7 DEF QueryRun
<1>9. /\ r.conn = "streaming" /\ r.run = run /\ r.wrote = old.wrote + n
      /\ r.iteration = old.iteration + 1 /\ r.events = more /\ r.calls = calls
      /\ r.messages = old.messages
  BY <1>1, <1>2 DEF QueryRun
<1> HIDE DEF r
<1>10. RunOf(r)
  BY <1>5, <1>6, <1>7, <1>9 DEF RunOf
<1>11. FitsFor(r, q)
  BY <1>1, <1>9 DEF FitsFor
<1>12. UNCHANGED pageVars /\ r.conn # "waiting"
  BY <1>9 DEF AskModel
<1>13. Follows(q, r)
  BY <1>2, <1>4, <1>6, <1>9 DEF Follows, TextOf
<1> HIDE DEF old
<1> QED BY <1>3, <1>4, <1>8, <1>10, <1>11, <1>12, <1>13, AgentKeeps DEF old

LEMMA RunToolKeeps ==
  ASSUME IInv, NEW q \in Questions, RunTool(q)
  PROVE  IInv'
<1> DEFINE old == query[q]
           more == old.events \o <<Ev("step", 0)>>
           run == IF old.calls > 1 THEN "tools" ELSE "model"
           r == [old EXCEPT !.run = run, !.calls = old.calls - 1, !.events = more]
<1>1. /\ old \in QueryRun /\ RunOf(old) /\ FitsFor(old, q) /\ old.run = "tools"
  BY TypeParts, HistoryParts DEF IInv, QueryType, RunOK, RunTool
<1>2. /\ old.conn = "streaming" /\ NoneLast(old.events) /\ old.calls > 0
      /\ old.calls \in Nat
  BY <1>1 DEF RunOf, QueryRun
<1>3. query' = [query EXCEPT ![q] = r]
  BY TypeParts DEF IInv, QueryType, RunTool, Emit
<1>4. q \in Live /\ q \in Expected /\ ~ (q > asked) /\ Follows(q, old)
  <2>1. q \in Live
    BY <1>2, InFlightDef DEF InFlight
  <2> QED BY <2>1, LiveFollows, InFlightDef
<1>5. /\ Ev("step", 0) \in Event /\ Ev("step", 0).type = "step" /\ Ev("step", 0).text = 0
  <2>1. 0 \in 0 .. 1
    OBVIOUS
  <2> QED BY <2>1, EvType
<1>6. /\ old.events \in Seq(Event) /\ old.wrote \in Nat /\ old.wrote <= MaxIterations
      /\ old.wrote + 0 = old.wrote
  BY <1>1, Bounds DEF QueryRun, RunOf, Lengths
<1>7. more \in Seq(Event) /\ NoneLast(more) /\ OnlyLast(more)
  <2>1. more \in Seq(Event)
    BY <1>5, <1>6
  <2> QED BY <1>2, <1>5, <1>6, <2>1, LastMore
<1>8. \A shown : Shows(old.events, old.wrote, shown) => Shows(more, old.wrote, shown)
  <2>1. old.wrote + Ev("step", 0).text = old.wrote
    BY <1>5, <1>6
  <2> HIDE DEF old
  <2> QED BY <1>5, <1>6, <2>1, ShowsMore
<1> HIDE DEF more
<1>9. run \in {"model", "tools"} /\ (run = "tools" => old.calls > 1)
  OBVIOUS
<1> HIDE DEF run
<1>10. r \in QueryRun
  <2>1. old.calls - 1 \in Nat
    BY <1>2
  <2> QED BY <1>1, <1>7, <1>9, <2>1 DEF QueryRun
<1>11. /\ r.conn = "streaming" /\ r.run = run /\ r.wrote = old.wrote
      /\ r.iteration = old.iteration /\ r.events = more /\ r.calls = old.calls - 1
      /\ r.messages = old.messages
  BY <1>1, <1>2 DEF QueryRun
<1> HIDE DEF r
<1>12. RunOf(r)
  BY <1>1, <1>2, <1>7, <1>9, <1>11 DEF RunOf
<1>13. FitsFor(r, q)
  BY <1>1, <1>11 DEF FitsFor
<1>14. UNCHANGED pageVars /\ r.conn # "waiting"
  BY <1>11 DEF RunTool
<1>15. Follows(q, r)
  BY <1>2, <1>4, <1>8, <1>11 DEF Follows, TextOf
<1> HIDE DEF old
<1> QED BY <1>3, <1>4, <1>10, <1>12, <1>13, <1>14, <1>15, AgentKeeps DEF old

LEMMA StopKeeps ==
  ASSUME IInv, NEW q \in Questions, Stop(q)
  PROVE  IInv'
<1> DEFINE old == query[q]
           more == old.events \o <<Ev("error", 0)>>
           r == [old EXCEPT !.run = "over", !.events = more]
<1>1. /\ old \in QueryRun /\ RunOf(old) /\ old.run = "model"
  BY TypeParts DEF IInv, QueryType, RunOK, Stop
<1>2. old.conn = "streaming" /\ NoneLast(old.events)
  BY <1>1 DEF RunOf
<1>3. query' = [query EXCEPT ![q] = r]
  BY TypeParts DEF IInv, QueryType, Stop, Emit
<1>4. q \in Live /\ q \in Expected /\ ~ (q > asked) /\ Follows(q, old)
  <2>1. q \in Live
    BY <1>2, InFlightDef DEF InFlight
  <2> QED BY <2>1, LiveFollows, InFlightDef
<1>5. Ev("error", 0) \in Event /\ Ev("error", 0).text = 0
  <2>1. 0 \in 0 .. 1
    OBVIOUS
  <2> QED BY <2>1, EvType
<1>6. /\ old.events \in Seq(Event) /\ old.wrote \in Nat /\ old.wrote <= MaxIterations
      /\ old.wrote + 0 = old.wrote
  BY <1>1, Bounds DEF QueryRun, RunOf, Lengths
<1>7. more \in Seq(Event) /\ OnlyLast(more)
  <2>1. more \in Seq(Event)
    BY <1>5, <1>6
  <2> QED BY <1>2, <1>5, <1>6, <2>1, LastMore
<1>8. \A shown : Shows(old.events, old.wrote, shown) => Shows(more, old.wrote, shown)
  <2>1. old.wrote + Ev("error", 0).text = old.wrote
    BY <1>5, <1>6
  <2> HIDE DEF old
  <2> QED BY <1>5, <1>6, <2>1, ShowsMore
<1> HIDE DEF more
<1>9. r \in QueryRun
  BY <1>1, <1>2, <1>7 DEF QueryRun
<1>10. /\ r.conn = "streaming" /\ r.run = "over" /\ r.wrote = old.wrote
      /\ r.iteration = old.iteration /\ r.events = more
  BY <1>1, <1>2 DEF QueryRun
<1> HIDE DEF r
<1>11. RunOf(r)
  BY <1>1, <1>2, <1>7, <1>10 DEF RunOf
<1>12. FitsFor(r, q)
  BY <1>10 DEF FitsFor
<1>13. UNCHANGED pageVars /\ r.conn # "waiting"
  BY <1>10 DEF Stop
<1>14. Follows(q, r)
  BY <1>2, <1>4, <1>8, <1>10 DEF Follows, TextOf
<1> HIDE DEF old
<1> QED BY <1>3, <1>4, <1>9, <1>11, <1>12, <1>13, <1>14, AgentKeeps DEF old

LEMMA ReadEndsKeeps ==
  ASSUME IInv, NEW q \in Questions, ReadEnds(q)
  PROVE  IInv'
<1> DEFINE conn == "closed"
           r == Spent(q, conn)
<1>1. UNCHANGED pageVars /\ query' = [query EXCEPT ![q] = r] /\ query[q].conn = "ending"
  BY DEF ReadEnds, Closed
<1>2. conn \in {"ending", "closed"} /\ conn # "ending" /\ conn \notin InFlight
  BY DEF InFlight
<1>3. ~ (q > asked)
  <2>1. NoQuery.conn # "ending"
    BY DEF NoQuery
  <2> QED BY <1>1, <2>1 DEF IInv, LiveOK
<1> HIDE DEF conn
<1>4. r \in QueryRun /\ r.conn = conn /\ Onward(q, r)
  <2> HIDE DEF r
  <2> QED BY <1>2, <1>3, OnwardSpent DEF r
<1> HIDE DEF r
<1>5. Follows(q, r)
  BY <1>2, <1>4 DEF Follows, TextOf, InFlight
<1> QED BY <1>1, <1>3, <1>4, <1>5, AgentKeeps DEF Onward

-----------------------------------------------------------------------------
(* The page: what it and the store show.                                   *)

Belongs(entries, except) ==
  \A i \in DOMAIN entries : entries[i].role = "assistant" =>
    /\ i > 1 /\ entries[i - 1].role = "user"
    /\ entries[i].from \ except \subseteq {entries[i - 1].q}

LEMMA ChatsParts ==
  AnswersBelong <=> \A entries \in Chats : Belongs(entries, strays)
BY DEF AnswersBelong, Belongs

LEMMA EmptyChat ==
  ASSUME NEW except, NEW last, NEW queries, NEW live
  PROVE  Belongs(<<>>, except) /\ Whole(<<>>, last, queries, except, live)
BY DEF Belongs, Whole

LEMMA WholeKept ==
  ASSUME NEW entries \in Seq(Entry), NEW last, NEW queries, NEW except, NEW live,
         Whole(entries, last, queries, except, live),
         NEW more, NEW others, NEW fewer,
         except \subseteq more, fewer \subseteq live,
         \A q \in Questions : others[q].wrote = queries[q].wrote
  PROVE  Whole(entries, last, others, more, fewer)
<1> SUFFICES ASSUME NEW i \in DOMAIN entries
             PROVE  /\ entries[i].q <= last
                    /\ /\ entries[i].role = "assistant" /\ entries[i].done
                       /\ ~ entries[i].failed /\ Clean(entries[i], more)
                       => /\ entries[i].q \notin fewer
                          /\ entries[i].text = others[entries[i].q].wrote
  BY DEF Whole
<1>1. /\ entries[i].q <= last
      /\ /\ entries[i].role = "assistant" /\ entries[i].done
         /\ ~ entries[i].failed /\ Clean(entries[i], except)
         => /\ entries[i].q \notin live
            /\ entries[i].text = queries[entries[i].q].wrote
  BY DEF Whole
<1>2. entries[i].q \in Questions
  <2>1. entries[i] \in Entry
    OBVIOUS
  <2> QED BY <2>1 DEF Entry
<1>3. Clean(entries[i], more) => Clean(entries[i], except)
  BY DEF Clean
<1> QED BY <1>1, <1>2, <1>3

LEMMA BelongsKept ==
  ASSUME NEW entries, NEW except, NEW more, Belongs(entries, except), except \subseteq more
  PROVE  Belongs(entries, more)
BY DEF Belongs

(* What is on the page and in the store after a step that ends with        *)
(* Persist.                                                                *)
LEMMA StoreKeeps ==
  ASSUME IInv, NEW list \in Seq(Conversation), Len(list) <= MaxSaved,
         \A k \in DOMAIN list : \E i \in DOMAIN saved : list[k] = saved[i],
         \A k \in DOMAIN list : list[k].id \notin deleted',
         Persist(list), conv' \notin deleted', deleted' \subseteq 1 .. begun',
         conv' \in 1 .. MaxChats, begun' \in 1 .. MaxChats, conv' <= begun',
         begun <= begun', chat' \in Seq(Entry), busy' \in BOOLEAN,
         strays \subseteq strays', asked' = asked, Live' \subseteq Live,
         \A q \in Questions : query'[q].wrote = query[q].wrote,
         Belongs(chat', strays'), Whole(chat', asked', query', strays', Live')
  PROVE  SavedType' /\ StoreOK' /\ AnswersBelong' /\ WholeOK' /\ StoreFollowsPage'
<1>1. /\ SavedType'
      /\ chat' # <<>> /\ ~ busy' =>
           \E i \in DOMAIN saved' : saved'[i] = [id |-> conv', chat |-> chat']
      /\ \A i \in DOMAIN saved' :
           \/ saved'[i] = [id |-> conv', chat |-> chat'] /\ chat' # <<>> /\ ~ busy'
           \/ \E k \in DOMAIN list : saved'[i] = list[k]
  BY PersistEffect
<1>2. TypeOK /\ SavedType /\ CountType
  BY TypeParts DEF IInv
<1>3. ASSUME NEW i \in DOMAIN saved'
      PROVE  \/ saved'[i].id = conv' /\ saved'[i].chat = chat' /\ chat' # <<>>
             \/ /\ \E k \in DOMAIN saved : saved'[i] = saved[k]
                /\ saved'[i].id \notin deleted'
  BY <1>1
<1>4. \A k \in DOMAIN saved : saved[k].id \in 1 .. MaxChats /\ saved[k].id <= begun
                              /\ saved[k].chat # <<>>
  <2> SUFFICES ASSUME NEW k \in DOMAIN saved
               PROVE  saved[k].id \in 1 .. MaxChats /\ saved[k].id <= begun
                      /\ saved[k].chat # <<>>
    OBVIOUS
  <2>1. saved[k] \in Conversation
    BY <1>2 DEF SavedType
  <2> QED BY <2>1 DEF Conversation, IInv, StoreOK
<1>5. begun \in Nat /\ begun' \in Nat
  BY <1>2 DEF CountType
<1>6. StoreOK'
  <2> SUFFICES ASSUME NEW i \in DOMAIN saved'
               PROVE  saved'[i].id <= begun' /\ saved'[i].chat # <<>>
    BY DEF StoreOK
  <2> QED BY <1>3, <1>4, <1>5
<1>7. StoreFollowsPage'
  <2>1. \A i \in DOMAIN saved' : saved'[i].id \notin deleted'
    BY <1>3
  <2> QED BY <1>1, <2>1 DEF StoreFollowsPage
<1>8. \A entries \in Chats' :
        Belongs(entries, strays') /\ Whole(entries, asked', query', strays', Live')
  <2> SUFFICES ASSUME NEW entries \in Chats', entries # chat'
               PROVE  /\ Belongs(entries, strays')
                      /\ Whole(entries, asked', query', strays', Live')
    OBVIOUS
  <2>1. PICK i \in DOMAIN saved' : entries = saved'[i].chat
    BY DEF Chats
  <2>2. PICK k \in DOMAIN saved : saved'[i] = saved[k]
    BY <1>3, <2>1
  <2>3. entries \in Chats
    BY <2>1, <2>2 DEF Chats
  <2>4. entries \in Seq(Entry)
    BY <1>2, <2>3, ChatsType
  <2>5. Belongs(entries, strays) /\ Whole(entries, asked, query, strays, Live)
    BY <2>3, ChatsParts DEF IInv, WholeOK
  <2>6. Belongs(entries, strays')
    BY <2>5, BelongsKept
  <2>7. Whole(entries, asked', query', strays', Live')
    <3> DEFINE others == query'
               more == strays'
               fewer == Live'
               live == Live
               last == asked'
    <3>1. /\ strays \subseteq more /\ fewer \subseteq live
          /\ \A q \in Questions : others[q].wrote = query[q].wrote
          /\ Whole(entries, last, query, strays, live)
      BY <2>5
    <3> HIDE DEF others, more, fewer, live, last
    <3>2. Whole(entries, last, others, more, fewer)
      BY ONLY <2>4, <3>1, WholeKept
    <3> QED BY <3>2 DEF others, more, fewer, last
  <2> QED BY <2>6, <2>7
<1>9. AnswersBelong'
  BY <1>8 DEF AnswersBelong, Belongs
<1>10. WholeOK'
  BY <1>8 DEF WholeOK
<1> QED BY <1>1, <1>6, <1>7, <1>9, <1>10

(* A step of the page that leaves queries, chat and store as they should   *)
(* be.                                                                     *)
LEMMA PageKeeps ==
  ASSUME IInv, asked' = asked, query' \in [Questions -> QueryRun],
         \A p \in Questions : Onward(p, query'[p]),
         \A p \in Live' : p \notin strays' => p = asked' /\ busy',
         WaitingOK', TextOK', page' \in {"up", "down"}, page' = "up" \/ chat' = <<>>,
         NEW list \in Seq(Conversation), Len(list) <= MaxSaved,
         \A k \in DOMAIN list : \E i \in DOMAIN saved : list[k] = saved[i],
         \A k \in DOMAIN list : list[k].id \notin deleted',
         Persist(list), conv' \notin deleted', deleted' \subseteq 1 .. begun',
         conv' \in 1 .. MaxChats, begun' \in 1 .. MaxChats, conv' <= begun',
         begun <= begun', chat' \in Seq(Entry), busy' \in BOOLEAN,
         strays \subseteq strays', strays' \subseteq Questions,
         Belongs(chat', strays'), Whole(chat', asked', query', strays', Live')
  PROVE  IInv'
<1>1. /\ QueryType' /\ RunOK' /\ RequestOK' /\ HistoryFits'
      /\ Live' \subseteq Live
      /\ \A p \in Questions : query'[p].wrote = query[p].wrote
      /\ \A p \in Questions : p > asked' => query'[p] = NoQuery
  BY QueriesKept
<1>2. LiveOK'
  BY <1>1 DEF LiveOK
<1>3. SavedType' /\ StoreOK' /\ AnswersBelong' /\ WholeOK' /\ StoreFollowsPage'
  BY <1>1, StoreKeeps
<1>4. CountType'
  <2>1. deleted' \subseteq 1 .. MaxChats
    BY Bounds
  <2>2. asked \in 0 .. MaxQuestions
    BY TypeParts DEF IInv, CountType
  <2> QED BY <2>1, <2>2 DEF CountType
<1>5. TypeOK'
  <2>1. ChatType' /\ FlagType'
    BY DEF ChatType, FlagType
  <2> QED BY <1>1, <1>3, <1>4, <2>1, TypePartsNext
<1> QED BY <1>1, <1>2, <1>3, <1>5 DEF IInv

(* Nothing of the last question's query is to come: what it showed stays.  *)
LEMMA ClosingKeeps ==
  ASSUME IInv, asked' = asked, query' \in [Questions -> QueryRun],
         \A p \in Questions : Onward(p, query'[p]), asked \notin Expected',
         page' \in {"up", "down"}, page' = "up" \/ chat' = <<>>,
         NEW list \in Seq(Conversation), Len(list) <= MaxSaved,
         \A k \in DOMAIN list : \E i \in DOMAIN saved : list[k] = saved[i],
         \A k \in DOMAIN list : list[k].id \notin deleted',
         Persist(list), conv' \notin deleted', deleted' \subseteq 1 .. begun',
         conv' \in 1 .. MaxChats, begun' \in 1 .. MaxChats, conv' <= begun',
         begun <= begun', chat' \in Seq(Entry), busy' \in BOOLEAN,
         strays \subseteq strays', strays' \subseteq Questions,
         Belongs(chat', strays'), Whole(chat', asked, query, strays', Live)
  PROVE  IInv'
<1>1. /\ Live' \subseteq Live /\ \A p \in Questions : query'[p].wrote = query[p].wrote
  BY QueriesKept
<1>2. asked' \notin Live' /\ asked' \notin Expected'
  BY InFlightNext
<1>3. \A p \in Live' : p \notin strays' => p = asked' /\ busy'
  BY <1>1, <1>2 DEF IInv, LiveOK
<1>4. WaitingOK' /\ TextOK'
  BY <1>2 DEF WaitingOK, TextOK
<1>5. Whole(chat', asked', query', strays', Live')
  <2> DEFINE others == query'
             more == strays'
             fewer == Live'
             live == Live
             entries == chat'
             last == asked'
  <2>1. /\ more \subseteq more /\ fewer \subseteq live /\ entries \in Seq(Entry)
        /\ \A q \in Questions : others[q].wrote = query[q].wrote
        /\ Whole(entries, last, query, more, live)
    BY <1>1
  <2> HIDE DEF others, more, fewer, live, entries, last
  <2>2. Whole(entries, last, others, more, fewer)
    BY ONLY <2>1, WholeKept
  <2> QED BY <2>2 DEF others, more, fewer, entries, last
<1> QED BY <1>3, <1>4, <1>5, PageKeeps

LEMMA SavedList ==
  ASSUME IInv
  PROVE  /\ saved \in Seq(Conversation) /\ Len(saved) <= MaxSaved
         /\ \A k \in DOMAIN saved : \E i \in DOMAIN saved : saved[k] = saved[i]
         /\ \A k \in DOMAIN saved : saved[k].id \notin deleted
BY TypeParts DEF IInv, SavedType, StoreFollowsPage

(* Conversations of the store.                                             *)
LEMMA SavedParts ==
  ASSUME IInv, NEW i \in DOMAIN saved
  PROVE  /\ saved[i].id \in 1 .. MaxChats /\ saved[i].id <= begun
         /\ saved[i].id \notin deleted
         /\ saved[i].chat \in Seq(Entry) /\ saved[i].chat # <<>>
         /\ Belongs(saved[i].chat, strays)
         /\ Whole(saved[i].chat, asked, query, strays, Live)
<1>1. saved[i] \in Conversation
  BY TypeParts DEF IInv, SavedType
<1>2. saved[i].chat \in Chats
  BY DEF Chats
<1>3. Belongs(saved[i].chat, strays) /\ Whole(saved[i].chat, asked, query, strays, Live)
  BY <1>2, ChatsParts DEF IInv, WholeOK
<1> QED BY <1>1, <1>3 DEF IInv, StoreOK, StoreFollowsPage, Conversation

(* A change of the last entry by the query to q: it is the answer to q, or *)
(* q is a stray.                                                           *)
LEMMA StepBelongs ==
  ASSUME NEW entries \in Seq(Entry), entries # <<>>, NEW q \in Questions, NEW except,
         NEW text \in Nat,
         NEW failed \in BOOLEAN, NEW done \in BOOLEAN, Belongs(entries, except),
         q \in except \/ entries[Len(entries) - 1].q = q,
         NEW new, new = AppendStep(entries, q, text, failed, done)
  PROVE  Belongs(new, except)
<1> DEFINE n == Len(entries)
<1>1. /\ new \in Seq(Entry) /\ Len(new) = n
      /\ new[n].role = entries[n].role
      /\ new[n].from = entries[n].from \cup {q}
  <2>1. new \in Seq(Entry)
    BY AppendStepEffect
  <2>2. Len(new) = n
    BY AppendStepEffect
  <2>3. new[n].role = entries[n].role /\ new[n].from = entries[n].from \cup {q}
    BY AppendStepEffect
  <2> QED BY <2>1, <2>2, <2>3
<1>0. \A i \in DOMAIN entries : i # n => new[i] = entries[i]
  BY AppendStepRest
<1>2. n \in Nat /\ DOMAIN entries = 1 .. n /\ DOMAIN new = 1 .. n
  BY <1>1
<1>10. \A i \in 1 .. n - 1 : new[i] = entries[i]
  BY <1>0, <1>2
<1> HIDE DEF n
<1> SUFFICES ASSUME NEW i \in 1 .. n, new[i].role = "assistant"
             PROVE  /\ i > 1 /\ new[i - 1].role = "user"
                    /\ new[i].from \ except \subseteq {new[i - 1].q}
  BY <1>2 DEF Belongs
<1>3. entries[i].role = "assistant"
  <2>1. CASE i = n
    BY <1>1, <2>1
  <2>2. CASE i # n
    <3>1. i \in 1 .. n - 1
      BY <1>2, <2>2
    <3> QED BY <1>10, <3>1
  <2> QED BY <2>1, <2>2
<1>4. /\ i > 1 /\ entries[i - 1].role = "user"
      /\ entries[i].from \ except \subseteq {entries[i - 1].q}
  BY <1>2, <1>3 DEF Belongs
<1>5. new[i - 1] = entries[i - 1]
  <2>1. i - 1 \in 1 .. n - 1
    BY <1>2, <1>4
  <2> QED BY <1>10, <2>1
<1>6. CASE i = n
  <2>1. new[i].from = entries[i].from \cup {q}
    BY <1>1, <1>6
  <2>2. q \in except \/ entries[i - 1].q = q
    BY <1>6 DEF n
  <2> QED BY <1>4, <1>5, <2>1, <2>2
<1>7. CASE i # n
  <2>1. i \in 1 .. n - 1
    BY <1>2, <1>7
  <2>2. new[i] = entries[i]
    BY <1>10, <2>1
  <2> QED BY <1>4, <1>5, <2>2
<1> QED BY <1>6, <1>7

LEMMA StepWhole ==
  ASSUME NEW entries \in Seq(Entry), entries # <<>>, NEW q \in Questions,
         NEW text \in Nat, NEW failed \in BOOLEAN, NEW done \in BOOLEAN,
         NEW last, NEW queries, NEW except, NEW live,
         Whole(entries, last, queries, except, live),
         LET old == entries[Len(entries)]
         IN ~ failed /\ Clean(old, except) /\ q \notin except =>
              \/ ~ done /\ (~ old.done \/ old.q \in live)
              \/ old.q \notin live /\ old.text + text = queries[old.q].wrote,
         NEW new, new = AppendStep(entries, q, text, failed, done)
  PROVE  Whole(new, last, queries, except, live)
<1> DEFINE n == Len(entries)
           old == entries[n]
<1>1. /\ new \in Seq(Entry) /\ Len(new) = n
      /\ new[n].role = old.role /\ new[n].q = old.q
      /\ new[n].text = old.text + text
      /\ new[n].from = old.from \cup {q}
      /\ (new[n].failed <=> old.failed \/ failed)
      /\ (new[n].done <=> old.done \/ done)
  <2>1. new \in Seq(Entry)
    BY AppendStepEffect
  <2>2. Len(new) = n
    BY AppendStepEffect
  <2>3. new[n].role = old.role /\ new[n].q = old.q
    BY AppendStepEffect
  <2>4. new[n].text = old.text + text /\ new[n].from = old.from \cup {q}
    BY AppendStepText
  <2>5. (new[n].failed <=> old.failed \/ failed) /\ (new[n].done <=> old.done \/ done)
    BY AppendStepEffect
  <2> QED BY <2>1, <2>2, <2>3, <2>4, <2>5
<1>0. \A i \in DOMAIN entries : i # n => new[i] = entries[i]
  BY AppendStepRest
<1>2. n \in Nat /\ DOMAIN entries = 1 .. n /\ DOMAIN new = 1 .. n
  BY <1>1
<1>10. \A i \in 1 .. n - 1 : new[i] = entries[i]
  BY <1>0, <1>2
<1>3. ~ failed /\ Clean(old, except) /\ q \notin except =>
        \/ ~ done /\ (~ old.done \/ old.q \in live)
        \/ old.q \notin live /\ old.text + text = queries[old.q].wrote
  OBVIOUS
<1> HIDE DEF n, old
<1> SUFFICES ASSUME NEW i \in 1 .. n
             PROVE  /\ new[i].q <= last
                    /\ /\ new[i].role = "assistant" /\ new[i].done
                       /\ ~ new[i].failed /\ Clean(new[i], except)
                       => /\ new[i].q \notin live
                          /\ new[i].text = queries[new[i].q].wrote
  BY <1>2 DEF Whole
<1>4. /\ entries[i].q <= last
      /\ /\ entries[i].role = "assistant" /\ entries[i].done
         /\ ~ entries[i].failed /\ Clean(entries[i], except)
         => /\ entries[i].q \notin live
            /\ entries[i].text = queries[entries[i].q].wrote
  BY <1>2 DEF Whole
<1>5. CASE i = n
  <2>1. entries[i] = old
    BY <1>5 DEF old
  <2>2. Clean(new[i], except) => Clean(old, except) /\ q \notin except
    BY <1>1, <1>5 DEF Clean
  <2>3. /\ new[i].q <= last /\ new[i].role = old.role /\ new[i].q = old.q
        /\ new[i].text = old.text + text
        /\ (new[i].failed <=> old.failed \/ failed)
        /\ (new[i].done <=> old.done \/ done)
    BY <1>1, <1>4, <1>5, <2>1
  <2>4. old.role = "assistant" /\ old.done /\ ~ old.failed /\ Clean(old, except) =>
          old.q \notin live
    BY <1>4, <2>1
  <2> QED BY <1>3, <2>2, <2>3, <2>4, Zenon
<1>6. CASE i # n
  <2>1. i \in 1 .. n - 1
    BY <1>2, <1>6
  <2>2. new[i] = entries[i]
    BY <1>10, <2>1
  <2> QED BY <1>4, <2>2
<1> QED BY <1>5, <1>6

-----------------------------------------------------------------------------
(* The user: an abort ends what the last question is owed.                 *)

LEMMA AbortEffect ==
  ASSUME IInv, Abort
  PROVE  /\ query' \in [Questions -> QueryRun]
         /\ \A p \in Questions : Onward(p, query'[p])
         /\ asked \notin Expected'
<1>1. CASE page' = "down"
  <2>1. query' = AllClosed
    BY <1>1 DEF Abort, Read
  <2> QED BY <2>1, AllClosedEffect, InFlightNext
<1>2. CASE page' # "down" /\ asked = 0
  <2>1. query' = query
    BY <1>2 DEF Abort, Read
  <2>2. query \in [Questions -> QueryRun]
    BY TypeParts DEF IInv, QueryType
  <2>3. asked \notin Questions
    BY <1>2 DEF Questions
  <2> QED BY <2>1, <2>2, <2>3, OnwardSame, InFlightNext
<1>3. CASE page' # "down" /\ asked # 0
  <2> DEFINE conn == "closed"
             r == Spent(asked, conn)
  <2>1. query' = [query EXCEPT ![asked] = r]
    BY <1>3 DEF Abort, Read, Closed
  <2>2. asked \in Questions /\ ~ (asked > asked)
    BY <1>3, TypeParts, Bounds DEF IInv, CountType, Questions
  <2>3. conn \in {"ending", "closed"} /\ conn # "ending" /\ conn \notin InFlight
    BY DEF InFlight
  <2> HIDE DEF conn
  <2>4. r \in QueryRun /\ r.conn = conn /\ Onward(asked, r)
    <3> HIDE DEF r
    <3> QED BY <2>2, <2>3, OnwardSpent DEF r
  <2> HIDE DEF r
  <2>5. /\ query' \in [Questions -> QueryRun] /\ query'[asked] = r
        /\ \A p \in Questions : Onward(p, query'[p])
    BY ONLY IInv, <2>1, <2>2, <2>4, UpdateOnward
  <2> QED BY <2>2, <2>3, <2>4, <2>5, InFlightNext
<1> QED BY <1>1, <1>2, <1>3

LEMMA StartNewChatKeeps ==
  ASSUME IInv, NEW list \in Seq(Conversation), Len(list) <= MaxSaved,
         \A k \in DOMAIN list : \E i \in DOMAIN saved : list[k] = saved[i],
         \A k \in DOMAIN list : list[k].id \notin deleted',
         deleted' \subseteq 1 .. begun, startNewChat(list)
  PROVE  IInv'
<1>1. /\ begun \in Nat /\ begun < MaxChats /\ begun' = begun + 1 /\ conv' = begun + 1
      /\ strays \subseteq Questions
  BY TypeParts DEF IInv, CountType, startNewChat
<1>2. /\ begun' \in 1 .. MaxChats /\ conv' \in 1 .. MaxChats /\ conv' <= begun'
      /\ begun <= begun' /\ conv' \notin deleted' /\ deleted' \subseteq 1 .. begun'
  BY <1>1, Bounds
<1>3. /\ Abort /\ busy' = FALSE /\ asked' = asked /\ page' \in {"up", "down"}
      /\ Persist(list) /\ strays' = strays /\ chat' = <<>>
  BY DEF startNewChat
<1>4. /\ query' \in [Questions -> QueryRun]
      /\ \A p \in Questions : Onward(p, query'[p])
      /\ asked \notin Expected'
  BY <1>3, AbortEffect
<1>5. /\ chat' \in Seq(Entry) /\ Belongs(chat', strays')
      /\ Whole(chat', asked, query, strays', Live)
  BY <1>3, EmptyChat
<1> QED BY <1>1, <1>2, <1>3, <1>4, <1>5, ClosingKeeps

LEMMA NewChatKeeps ==
  ASSUME IInv, NewChat
  PROVE  IInv'
<1>1. deleted' = deleted /\ deleted \subseteq 1 .. begun /\ startNewChat(saved)
  BY DEF NewChat, IInv, StoreOK
<1> QED BY <1>1, SavedList, StartNewChatKeeps

LEMMA ReloadKeeps ==
  ASSUME IInv, Reload
  PROVE  IInv'
<1>1. /\ begun \in Nat /\ begun < MaxChats /\ begun' = begun + 1 /\ conv' = begun + 1
      /\ strays \subseteq Questions
  BY TypeParts DEF IInv, CountType, Reload
<1>2. deleted' = deleted /\ deleted \subseteq 1 .. begun
  BY DEF Reload, IInv, StoreOK
<1>3. /\ begun' \in 1 .. MaxChats /\ conv' \in 1 .. MaxChats /\ conv' <= begun'
      /\ begun <= begun' /\ conv' \notin deleted' /\ deleted' \subseteq 1 .. begun'
  BY <1>1, <1>2, Bounds
<1>4. /\ busy' = FALSE /\ asked' = asked /\ page' \in {"up", "down"}
      /\ Persist(saved) /\ strays' = strays /\ chat' = <<>> /\ query' = AllClosed
  BY DEF Reload, Persist
<1>5. /\ query' \in [Questions -> QueryRun]
      /\ \A p \in Questions : Onward(p, query'[p])
      /\ asked \notin Expected'
  BY <1>4, AllClosedEffect, InFlightNext
<1>6. /\ chat' \in Seq(Entry) /\ Belongs(chat', strays')
      /\ Whole(chat', asked, query, strays', Live)
  BY <1>4, EmptyChat
<1> QED BY <1>1, <1>2, <1>3, <1>4, <1>5, <1>6, SavedList, ClosingKeeps

LEMMA OpenConversationKeeps ==
  ASSUME IInv, NEW i \in DOMAIN saved, openConversation(i)
  PROVE  IInv'
<1> DEFINE entries == saved[i].chat
<1>1. /\ saved[i].id \in 1 .. MaxChats /\ saved[i].id <= begun
      /\ saved[i].id \notin deleted
      /\ entries \in Seq(Entry) /\ entries # <<>>
      /\ Belongs(entries, strays) /\ Whole(entries, asked, query, strays, Live)
  BY SavedParts
<1>2. /\ begun' = begun /\ begun \in 1 .. MaxChats /\ strays \subseteq Questions
      /\ asked \in 0 .. MaxQuestions
  BY TypeParts DEF IInv, CountType, openConversation
<1>3. deleted' = deleted /\ deleted \subseteq 1 .. begun
  BY DEF openConversation, IInv, StoreOK
<1>4. /\ Abort /\ busy' = FALSE /\ asked' = asked /\ page' \in {"up", "down"}
      /\ Persist(saved) /\ conv' = saved[i].id
  BY TypeParts DEF openConversation, IInv, CountType
<1>8. page' = "up"
  BY DEF openConversation
<1>5. /\ chat' \in Seq(Entry) /\ strays \subseteq strays' /\ strays' \subseteq Questions
      /\ Belongs(chat', strays') /\ Whole(chat', asked, query, strays', Live)
  <2>1. CASE Refusing
    <3>1. asked \in Questions
      BY <1>2, <2>1 DEF Refusing, Questions
    <3>2. chat' = AppendStep(entries, asked, 0, TRUE, TRUE) /\ strays' = strays \cup {asked}
      BY <2>1 DEF openConversation
    <3> HIDE DEF entries
    <3> DEFINE yes == TRUE
               except == strays'
               live == Live
    <3>3. 0 \in Nat /\ yes \in BOOLEAN /\ chat' = AppendStep(entries, asked, 0, yes, yes) /\ yes
      BY <3>2
    <3>4. strays \subseteq except /\ asked \in except
      BY <3>2
    <3>5. Belongs(entries, except)
      BY <1>1, <3>4, BelongsKept
    <3>6. Whole(entries, asked, query, except, live)
      BY <1>1, <3>4, WholeKept
    <3> HIDE DEF yes, except, live
    <3>7. chat' \in Seq(Entry)
      BY <1>1, <3>1, <3>3, AppendStepEffect
    <3>8. Belongs(chat', except)
      BY <1>1, <3>1, <3>3, <3>4, <3>5, StepBelongs
    <3>9. Whole(chat', asked, query, except, live)
      BY <1>1, <3>1, <3>3, <3>4, <3>6, StepWhole
    <3> QED BY <1>2, <3>1, <3>2, <3>7, <3>8, <3>9 DEF except, live
  <2>2. CASE ~ Refusing
    BY <1>1, <1>2, <1>4, <2>2 DEF openConversation
  <2> QED BY <2>1, <2>2
<1>6. /\ conv' \in 1 .. MaxChats /\ begun' \in 1 .. MaxChats /\ conv' <= begun'
      /\ begun <= begun' /\ conv' \notin deleted' /\ deleted' \subseteq 1 .. begun'
  BY <1>1, <1>2, <1>3, <1>4
<1>7. /\ query' \in [Questions -> QueryRun]
      /\ \A p \in Questions : Onward(p, query'[p])
      /\ asked \notin Expected'
  BY <1>4, AbortEffect
<1> HIDE DEF entries
<1> QED BY <1>3, <1>4, <1>8, <1>5, <1>6, <1>7, SavedList, ClosingKeeps

LEMMA RemoveConversationKeeps ==
  ASSUME IInv, NEW i \in DOMAIN saved, removeConversation(i)
  PROVE  IInv'
<1> DEFINE id == saved[i].id
           rest == Without(saved, id)
<1>1. id \in 1 .. MaxChats /\ id <= begun /\ begun \in Nat
  BY SavedParts, TypeParts DEF IInv, CountType
<1>2. saved \in Seq(Conversation) /\ Len(saved) <= MaxSaved /\ Len(saved) \in Nat
  BY SavedList
<1>3. /\ rest \in Seq(Conversation) /\ Len(rest) <= Len(saved)
      /\ \A m \in DOMAIN rest : \E k \in DOMAIN saved :
           saved[k].id # id /\ rest[m] = saved[k]
      /\ \A k \in DOMAIN saved : saved[k].id # id =>
           \E m \in DOMAIN rest : rest[m] = saved[k]
  <2> HIDE DEF id
  <2> QED BY ONLY <1>2, WithoutEffect DEF rest
<1>4. deleted' = deleted \cup {id} /\ deleted \subseteq 1 .. begun
  BY DEF removeConversation, IInv, StoreOK
<1> HIDE DEF rest
<1>5. Len(rest) <= MaxSaved /\ Len(rest) \in Nat
  BY <1>2, <1>3, Bounds
<1>6. \A m \in DOMAIN rest : rest[m].id # id /\ rest[m].id \notin deleted'
  BY <1>3, <1>4, SavedList
<1>7. deleted' \subseteq 1 .. begun
  <2>1. id \in 1 .. begun
    BY <1>1
  <2> HIDE DEF id
  <2> QED BY <1>4, <2>1
<1>8. CASE id = conv
  <2>1. startNewChat(rest)
    BY <1>8 DEF removeConversation, rest
  <2>2. \A k \in DOMAIN rest : \E m \in DOMAIN saved : rest[k] = saved[m]
    BY <1>3
  <2> QED BY <1>3, <1>5, <1>6, <1>7, <2>1, <2>2, StartNewChatKeeps
<1>9. CASE id # conv
  <2>1. saved' = rest /\ UNCHANGED <<page, chat, busy, conv, begun, asked, query, strays>>
    BY <1>9 DEF removeConversation, rest
  <2> HIDE DEF id
  <2>2. Live' = Live /\ Expected' = Expected
    BY <2>1 DEF Live, Expected
  <2>3. \A m \in DOMAIN rest : \E k \in DOMAIN saved : rest[m] = saved[k]
    BY <1>3
  <2>4. /\ LiveOK' /\ RunOK' /\ TextOK' /\ RequestOK' /\ HistoryFits' /\ WaitingOK'
    BY <2>1, <2>2 DEF IInv, LiveOK, RunOK, TextOK, RequestOK, HistoryFits, WaitingOK
  <2>5. Chats' \subseteq Chats
    BY <2>1, <2>3 DEF Chats
  <2>6. AnswersBelong' /\ WholeOK'
    <3>1. \A entries \in Chats :
            Belongs(entries, strays) /\ Whole(entries, asked, query, strays, Live)
      BY ChatsParts DEF IInv, WholeOK
    <3>2. \A entries \in Chats' :
            Belongs(entries, strays') /\ Whole(entries, asked', query', strays', Live')
      BY <2>1, <2>2, <2>5, <3>1
    <3> QED BY <3>2 DEF AnswersBelong, Belongs, WholeOK
  <2>7. StoreOK'
    BY <1>4, <1>7, <1>9, <2>1, <2>3 DEF IInv, StoreOK
  <2>8. StoreFollowsPage'
    <3>1. ASSUME page = "up", chat # <<>>, ~ busy
          PROVE  \E m \in DOMAIN rest : rest[m] = [id |-> conv, chat |-> chat]
      <4>1. PICK k \in DOMAIN saved : saved[k] = [id |-> conv, chat |-> chat]
        BY <3>1 DEF IInv, StoreFollowsPage
      <4>2. saved[k].id # id
        BY <1>9, <4>1
      <4> QED BY <1>3, <4>1, <4>2
    <3> QED BY <1>6, <2>1, <3>1 DEF StoreFollowsPage
  <2>9. TypeOK'
    <3>1. SavedType'
      BY <1>3, <1>5, <2>1 DEF SavedType
    <3>2. ChatType' /\ FlagType' /\ QueryType'
      BY <2>1, TypeParts DEF IInv, ChatType, FlagType, QueryType
    <3>3. CountType'
      BY <1>1, <1>4, <2>1, TypeParts DEF IInv, CountType
    <3> QED BY <3>1, <3>2, <3>3, TypePartsNext
  <2> QED BY <2>4, <2>6, <2>7, <2>8, <2>9 DEF IInv
<1> QED BY <1>8, <1>9

-----------------------------------------------------------------------------
(* The page reads its connections.                                         *)

LEMMA AtEndKept ==
  ASSUME NEW entries \in Seq(Entry), NEW p, AtEnd(entries, p), NEW q \in Questions,
         NEW text \in Nat, NEW failed \in BOOLEAN, NEW done \in BOOLEAN,
         NEW new, new = AppendStep(entries, q, text, failed, done)
  PROVE  AtEnd(new, p)
<1> DEFINE n == Len(entries)
<1>1. n \in Nat /\ n > 1 /\ DOMAIN entries = 1 .. n /\ entries # <<>>
  BY EmptySeq DEF AtEnd
<1>2. Len(new) = n
  BY <1>1, AppendStepEffect
<1>3. new[n].role = entries[n].role /\ new[n].q = entries[n].q
  BY <1>1, AppendStepEffect
<1>4. new[n - 1] = entries[n - 1]
  <2>1. \A i \in DOMAIN entries : i # n => new[i] = entries[i]
    BY <1>1, AppendStepRest
  <2> HIDE DEF n
  <2>2. n - 1 \in DOMAIN entries /\ n - 1 # n
    BY <1>1
  <2> QED BY <2>1, <2>2
<1> QED BY <1>1, <1>2, <1>3, <1>4 DEF AtEnd

(* What the query to q shows, when it becomes r.                           *)
LEMMA ShowKeeps ==
  ASSUME IInv, NEW q \in Expected, NEW r \in QueryRun, Onward(q, r),
         NEW text \in Nat, NEW failed \in BOOLEAN, NEW last \in BOOLEAN,
         Show(q, text, failed, last), Read([query EXCEPT ![q] = r]),
         UNCHANGED <<begun, deleted, asked>>,
         strays \subseteq strays', strays' \subseteq Questions,
         last <=> r.conn \notin InFlight,
         ~ last => strays' = strays,
         last /\ q # asked /\ asked \in Live => asked \in strays',
         chat # <<>> => q \in strays' \/ chat[Len(chat) - 1].q = q,
         LET old == chat[Len(chat)]
         IN ~ failed /\ Clean(old, strays') /\ q \notin strays' /\ chat # <<>> =>
              old.q = q /\ (last => old.text + text = r.wrote),
         ~ last /\ q = asked /\ q \notin strays /\ Clean(chat[Len(chat)], strays) =>
           TextOf(r, chat[Len(chat)].text + text)
  PROVE  IInv'
<1>1. /\ chat \in Seq(Entry) /\ busy \in BOOLEAN /\ q \in Questions
      /\ begun \in 1 .. MaxChats /\ conv \in 1 .. MaxChats /\ asked \in Nat
      /\ conv <= begun /\ conv \notin deleted /\ deleted \subseteq 1 .. begun
  BY TypeParts, InFlightDef DEF IInv, ChatType, FlagType, CountType, StoreOK
<1>2. /\ begun' = begun /\ deleted' = deleted /\ asked' = asked /\ conv' = conv
      /\ Persist(saved)
  BY DEF Show
<1>3. /\ conv' \in 1 .. MaxChats /\ begun' \in 1 .. MaxChats /\ conv' <= begun'
      /\ begun <= begun' /\ conv' \notin deleted' /\ deleted' \subseteq 1 .. begun'
  BY <1>1, <1>2
<1>4. CASE chat = <<>>
  <2>1. page' = "down" /\ chat' = <<>> /\ busy' = FALSE /\ query' = AllClosed
    BY <1>4 DEF Show, Read
  <2>2. /\ query' \in [Questions -> QueryRun]
        /\ \A p \in Questions : Onward(p, query'[p])
        /\ asked \notin Expected'
    BY <2>1, AllClosedEffect, InFlightNext
  <2>3. /\ chat' \in Seq(Entry) /\ Belongs(chat', strays')
        /\ Whole(chat', asked, query, strays', Live)
    BY <2>1, EmptyChat
  <2> QED BY <1>2, <1>3, <2>1, <2>2, <2>3, SavedList, ClosingKeeps
<1>5. CASE chat # <<>>
  <2> DEFINE n == Len(chat)
             old == chat[n]
  <2>1. /\ page' = "up" /\ chat' = AppendStep(chat, q, text, failed, last)
        /\ busy' = (busy /\ ~ last)
        /\ query' = [query EXCEPT ![q] = r]
    BY <1>5 DEF Show, Read, IInv, LiveOK
  <2>2. /\ query' \in [Questions -> QueryRun] /\ query'[q] = r
        /\ \A p \in Questions : Onward(p, query'[p])
        /\ \A p \in Questions : p # q => query'[p] = query[p]
    BY <1>1, <2>1, UpdateOnward
  <2>3. /\ Live' \subseteq Live /\ Expected' \subseteq Expected
        /\ \A p \in Questions : query'[p].wrote = query[p].wrote
        /\ Live \subseteq Questions
    BY <1>2, <2>2, QueriesKept, InFlightDef
  <2>4. q \in Live' <=> ~ last
    BY <1>1, <2>2, InFlightNext
  <2>5. ASSUME NEW p \in Live', p \notin strays'
        PROVE  p = asked' /\ busy' /\ ~ last
    <3>1. p = asked /\ busy
      BY <2>3, <2>5 DEF IInv, LiveOK
    <3>2. ~ last
      BY <2>3, <2>4, <2>5, <3>1
    <3> QED BY <1>2, <2>1, <3>1, <3>2
  <2>6. chat' \in Seq(Entry)
    BY <1>1, <1>5, <2>1, AppendStepEffect
  <2>7. Len(chat') = n
    BY <1>1, <1>5, <2>1, AppendStepEffect
  <2>8. chat'[n].text = old.text + text /\ chat'[n].from = old.from \cup {q}
    <3> DEFINE entries == chat
               new == chat'
    <3>1. /\ new = AppendStep(entries, q, text, failed, last)
          /\ entries \in Seq(Entry) /\ entries # <<>> /\ q \in Questions
      BY <1>1, <1>5, <2>1
    <3> HIDE DEF entries, new
    <3>2. /\ new[Len(entries)].text = entries[Len(entries)].text + text
          /\ new[Len(entries)].from = entries[Len(entries)].from \cup {q}
      BY <3>1, AppendStepText
    <3> QED BY <3>2 DEF entries, new
  <2>9. WaitingOK'
    <3> SUFFICES ASSUME asked \in Expected', asked \notin strays' PROVE AtEnd(chat', asked)
      BY <1>2 DEF WaitingOK, AtEnd
    <3>1. AtEnd(chat, asked)
      BY <2>3 DEF IInv, WaitingOK
    <3> QED BY <1>1, <2>1, <3>1, AtEndKept
  <2>10. TextOK'
    <3> SUFFICES ASSUME asked \in Live', asked \notin strays', Clean(chat'[n], strays')
                 PROVE  TextOf(query'[asked], chat'[n].text)
      BY <1>2, <2>7 DEF TextOK
    <3>1. ~ last /\ strays' = strays
      BY <2>5
    <3>2. Clean(old, strays) /\ q \notin strays
      BY <2>8, <3>1 DEF Clean
    <3>3. q = asked
      BY <2>3, <2>4, <3>1, <3>2 DEF IInv, LiveOK
    <3> QED BY <2>2, <1>1, <2>8, <3>1, <3>2, <3>3
  <2>11. Belongs(chat, strays) /\ Whole(chat, asked, query, strays, Live)
    <3>1. chat \in Chats
      BY DEF Chats
    <3> QED BY <3>1, ChatsParts DEF IInv, WholeOK
  <2>12. Belongs(chat', strays')
    <3> DEFINE except == strays'
    <3>1. strays \subseteq except /\ (q \in except \/ chat[Len(chat) - 1].q = q)
      BY <1>5
    <3>2. Belongs(chat, except)
      BY <2>11, <3>1, BelongsKept
    <3> HIDE DEF except
    <3>3. Belongs(chat', except)
      BY <1>1, <1>5, <2>1, <3>1, <3>2, StepBelongs
    <3> QED BY <3>3 DEF except
  <2>13. Whole(chat', asked', query', strays', Live')
    <3> DEFINE except == strays'
               others == query'
               fewer == Live'
               live == Live
    <3>1. /\ strays \subseteq except /\ fewer \subseteq live
          /\ \A p \in Questions : others[p].wrote = query[p].wrote
          /\ Whole(chat, asked, query, strays, live)
      BY <2>3, <2>11
    <3>2. ~ failed /\ Clean(old, except) /\ q \notin except =>
            old.q = q /\ (last => old.text + text = others[q].wrote) /\ (q \in fewer <=> ~ last)
      BY <1>5, <2>2, <2>4
    <3> HIDE DEF except, others, fewer, live
    <3>3. Whole(chat, asked, others, except, fewer)
      BY ONLY <1>1, <3>1, WholeKept
    <3>4. ~ failed /\ Clean(old, except) /\ q \notin except =>
            \/ ~ last /\ (~ old.done \/ old.q \in fewer)
            \/ old.q \notin fewer /\ old.text + text = others[old.q].wrote
      BY <3>2
    <3>5. Whole(chat', asked, others, except, fewer)
      BY ONLY <1>1, <1>5, <2>1, <3>3, <3>4, StepWhole, text \in Nat, failed \in BOOLEAN,
              last \in BOOLEAN
    <3> QED BY <1>2, <3>5 DEF except, others, fewer
  <2>14. busy' \in BOOLEAN
    BY <2>1
  <2> HIDE DEF n, old
  <2> QED BY <1>2, <1>3, <2>1, <2>2, <2>5, <2>6, <2>9, <2>10, <2>12, <2>13, <2>14,
             SavedList, PageKeeps
<1> QED BY <1>4, <1>5

(* What the last question's query finds.                                   *)
LEMMA ShowPlace ==
  ASSUME IInv, NEW q \in Expected, q \notin strays, q \in Live \/ q = asked
  PROVE  q = asked /\ chat[Len(chat) - 1].q = q /\ chat[Len(chat)].q = q
<1>1. q = asked
  BY DEF IInv, LiveOK
<1>2. AtEnd(chat, asked)
  BY <1>1 DEF IInv, WaitingOK
<1> QED BY <1>1, <1>2 DEF AtEnd

LEMMA FreedEffect ==
  /\ \A q \in Questions : Freed(q) \subseteq Questions
  /\ \A q \in Questions : q # asked /\ asked \in Live => asked \in Freed(q)
BY InFlightDef DEF Freed

LEMMA FailKeeps ==
  ASSUME IInv, NEW q \in Questions, Fail(q)
  PROVE  IInv'
<1> DEFINE conn == "closed"
           r == Spent(q, conn)
           yes == TRUE
<1>1. q \in Live /\ q \in Expected /\ ~ (q > asked)
  BY LiveFollows, InFlightDef DEF Fail
<1>2. conn \in {"ending", "closed"} /\ conn # "ending" /\ conn \notin InFlight
  BY DEF InFlight
<1>3. /\ yes \in BOOLEAN /\ yes /\ 0 \in Nat
      /\ Show(q, 0, yes, yes) /\ Read([query EXCEPT ![q] = r])
      /\ strays' = strays \cup Freed(q) /\ UNCHANGED <<begun, deleted, asked>>
  BY DEF Fail, Closed
<1> HIDE DEF conn, yes
<1>4. r \in QueryRun /\ r.conn = conn /\ Onward(q, r)
  <2> HIDE DEF r
  <2> QED BY <1>1, <1>2, OnwardSpent DEF r
<1> HIDE DEF r
<1>5. strays \subseteq strays' /\ strays' \subseteq Questions
  BY <1>3, FreedEffect, TypeParts DEF IInv, CountType
<1>6. q # asked /\ asked \in Live => asked \in strays'
  BY <1>3, FreedEffect
<1>7. q \in strays' \/ chat[Len(chat) - 1].q = q
  BY <1>1, <1>5, ShowPlace
<1> QED BY <1>1, <1>2, <1>3, <1>4, <1>5, <1>6, <1>7, ShowKeeps

LEMMA FailLateKeeps ==
  ASSUME IInv, NEW q \in Questions, FailLate(q)
  PROVE  IInv'
<1> DEFINE conn == "closed"
           r == Spent(q, conn)
           yes == TRUE
<1>1. q \in Expected /\ ~ (q > asked)
  <2>1. query[q].conn = "ending" /\ NoQuery.conn # "ending"
    BY DEF FailLate, NoQuery
  <2>2. q \in Expected
    BY <2>1, InFlightDef
  <2> QED BY <2>1, <2>2 DEF IInv, LiveOK
<1>2. conn \in {"ending", "closed"} /\ conn # "ending" /\ conn \notin InFlight
  BY DEF InFlight
<1>3. /\ yes \in BOOLEAN /\ yes /\ 0 \in Nat
      /\ Show(q, 0, yes, yes) /\ Read([query EXCEPT ![q] = r])
      /\ strays' = IF q = asked THEN strays ELSE strays \cup {q} \cup Freed(q)
      /\ UNCHANGED <<begun, deleted, asked>>
  BY DEF FailLate, Closed
<1> HIDE DEF conn, yes
<1>4. r \in QueryRun /\ r.conn = conn /\ Onward(q, r)
  <2> HIDE DEF r
  <2> QED BY <1>1, <1>2, OnwardSpent DEF r
<1> HIDE DEF r
<1>5. strays \subseteq strays' /\ strays' \subseteq Questions
  BY <1>3, FreedEffect, TypeParts DEF IInv, CountType
<1>6. q # asked /\ asked \in Live => asked \in strays'
  BY <1>3, FreedEffect
<1>7. q \in strays' \/ chat[Len(chat) - 1].q = q
  BY <1>1, <1>3, <1>5, ShowPlace
<1> QED BY <1>1, <1>2, <1>3, <1>4, <1>5, <1>6, <1>7, ShowKeeps

(* What a delivery finds: an event and, when the query is no stray, the    *)
(* answer at the end of the chat.                                          *)
LEMMA Delivered ==
  ASSUME IInv, NEW q \in Questions, Deliver(q)
  PROVE  LET r == query[q]  ev == Head(r.events)
         IN /\ q \in Live /\ q \in Expected /\ ~ (q > asked)
            /\ r \in QueryRun /\ RunOf(r) /\ FitsFor(r, q) /\ r.conn = "streaming"
            /\ r.events \in Seq(Event) /\ r.events # <<>> /\ ev.text \in Nat
            /\ q \notin strays =>
                 /\ q = asked /\ chat[Len(chat) - 1].q = q /\ chat[Len(chat)].q = q
                 /\ Clean(chat[Len(chat)], strays) =>
                      Shows(r.events, r.wrote, chat[Len(chat)].text)
<1> DEFINE r == query[q]
           ev == Head(r.events)
<1>1. /\ r \in QueryRun /\ RunOf(r) /\ FitsFor(r, q) /\ r.conn = "streaming"
      /\ r.events # <<>>
  BY TypeParts, HistoryParts DEF IInv, QueryType, RunOK, Deliver
<1>2. q \in Live /\ q \in Expected
  BY <1>1, InFlightDef DEF InFlight
<1>3. ~ (q > asked)
  BY <1>2, LiveFollows
<1>4. r.events \in Seq(Event)
  BY <1>1 DEF QueryRun
<1>5. ev.text \in Nat
  <2>1. ev \in Event
    BY <1>1, <1>4
  <2> QED BY <2>1, Bounds DEF Event, Lengths
<1>6. ASSUME q \notin strays
      PROVE  /\ q = asked /\ chat[Len(chat) - 1].q = q /\ chat[Len(chat)].q = q
             /\ Clean(chat[Len(chat)], strays) =>
                  Shows(r.events, r.wrote, chat[Len(chat)].text)
  <2>1. q = asked /\ chat[Len(chat) - 1].q = q /\ chat[Len(chat)].q = q
    BY <1>2, <1>6, ShowPlace
  <2> QED BY <1>1, <1>2, <1>6, <2>1 DEF IInv, TextOK, TextOf
<1> HIDE DEF r, ev
<1> QED BY <1>1, <1>2, <1>3, <1>4, <1>5, <1>6 DEF r, ev

LEMMA DeliverLastKeeps ==
  ASSUME IInv, NEW q \in Questions, Deliver(q),
         Head(query[q].events).type \in {"error", "done"}
  PROVE  IInv'
<1> DEFINE conn == "ending"
           r == Spent(q, conn)
           yes == TRUE
           old == query[q]
           ev == Head(old.events)
           text == ev.text
           failed == (ev.type = "error")
<1>1. /\ q \in Live /\ q \in Expected /\ ~ (q > asked)
      /\ RunOf(old) /\ old.events \in Seq(Event) /\ old.events # <<>> /\ text \in Nat
      /\ q \notin strays =>
           /\ q = asked /\ chat[Len(chat) - 1].q = q /\ chat[Len(chat)].q = q
           /\ Clean(chat[Len(chat)], strays) =>
                Shows(old.events, old.wrote, chat[Len(chat)].text)
  BY Delivered
<1>2. conn \in {"ending", "closed"} /\ conn \notin InFlight
  BY DEF InFlight
<1>3. /\ yes \in BOOLEAN /\ yes /\ failed \in BOOLEAN
      /\ Show(q, text, failed, yes) /\ Read([query EXCEPT ![q] = r])
      /\ strays' = strays \cup Freed(q)
      /\ UNCHANGED <<begun, deleted, asked>>
  <2>1. (ev.type \in {"error", "done"}) = TRUE
    OBVIOUS
  <2> QED BY <2>1 DEF Deliver
<1>4. r.wrote = old.wrote
  BY DEF Spent, NoQuery
<1> HIDE DEF conn, yes
<1>5. r \in QueryRun /\ r.conn = conn /\ Onward(q, r)
  <2> HIDE DEF r
  <2> QED BY <1>1, <1>2, OnwardSpent DEF r
<1>6. ASSUME q \notin strays, Clean(chat[Len(chat)], strays)
      PROVE  chat[Len(chat)].text + text = r.wrote
  <2>1. Len(old.events) = 1
    BY <1>1, LastNext DEF RunOf
  <2> HIDE DEF old
  <2> QED BY <1>1, <1>4, <1>6, <2>1, ShowsNext
<1> HIDE DEF r, failed, ev, text, old
<1>7. strays \subseteq strays' /\ strays' \subseteq Questions
  BY <1>3, FreedEffect, TypeParts DEF IInv, CountType
<1>8. q # asked /\ asked \in Live => asked \in strays'
  BY <1>3, FreedEffect
<1>9. q \in strays' \/ chat[Len(chat) - 1].q = q
  BY <1>1, <1>7
<1>10. Clean(chat[Len(chat)], strays') /\ q \notin strays' =>
         chat[Len(chat)].q = q /\ chat[Len(chat)].text + text = r.wrote
  <2>1. Clean(chat[Len(chat)], strays') => Clean(chat[Len(chat)], strays)
    BY <1>7 DEF Clean
  <2> QED BY <1>1, <1>6, <1>7, <2>1
<1>11. text \in Nat
  BY <1>1
<1> QED BY <1>1, <1>2, <1>3, <1>5, <1>7, <1>8, <1>9, <1>10, <1>11, ShowKeeps

LEMMA DeliverMoreKeeps ==
  ASSUME IInv, NEW q \in Questions, Deliver(q),
         Head(query[q].events).type \notin {"error", "done"}
  PROVE  IInv'
<1> DEFINE no == FALSE
           old == query[q]
           ev == Head(old.events)
           text == ev.text
           r == [old EXCEPT !.events = Tail(old.events)]
<1>1. /\ q \in Live /\ q \in Expected /\ ~ (q > asked)
      /\ old \in QueryRun /\ RunOf(old) /\ FitsFor(old, q) /\ old.conn = "streaming"
      /\ old.events \in Seq(Event) /\ old.events # <<>> /\ text \in Nat
      /\ q \notin strays =>
           /\ q = asked /\ chat[Len(chat) - 1].q = q /\ chat[Len(chat)].q = q
           /\ Clean(chat[Len(chat)], strays) =>
                Shows(old.events, old.wrote, chat[Len(chat)].text)
  BY Delivered
<1>2. /\ no \in BOOLEAN /\ ~ no
      /\ Show(q, text, no, no) /\ Read([query EXCEPT ![q] = r])
      /\ strays' = strays
      /\ UNCHANGED <<begun, deleted, asked>>
  <2>1. (ev.type = "error") = FALSE /\ (ev.type \in {"error", "done"}) = FALSE
    OBVIOUS
  <2>2. [query EXCEPT ![q].events = Tail(@)] = [query EXCEPT ![q] = r]
    BY TypeParts DEF IInv, QueryType
  <2> QED BY <2>1, <2>2 DEF Deliver
<1>3. /\ r.conn = old.conn /\ r.run = old.run /\ r.wrote = old.wrote
      /\ r.iteration = old.iteration /\ r.calls = old.calls /\ r.messages = old.messages
      /\ r.events = Tail(old.events)
  BY <1>1 DEF QueryRun
<1>4. r \in QueryRun
  <2>1. Tail(old.events) \in Seq(Event)
    BY <1>1
  <2> QED BY <1>1, <2>1 DEF QueryRun
<1> HIDE DEF r, no
<1>5. r.conn = "streaming" /\ r.conn \in InFlight /\ r.wrote = query[q].wrote
  BY <1>1, <1>3 DEF InFlight
<1>6. RunOf(r)
  <2>1. /\ OnlyLast(Tail(old.events))
        /\ NoneLast(old.events) => NoneLast(Tail(old.events))
    BY <1>1, LastNext DEF RunOf
  <2> HIDE DEF old
  <2> QED BY <1>1, <1>3, <2>1 DEF RunOf
<1>7. Onward(q, r)
  <2>1. FitsFor(r, q)
    BY <1>1, <1>3 DEF FitsFor
  <2> QED BY <1>1, <1>5, <1>6, <2>1 DEF Onward
<1>8. ASSUME q \notin strays, Clean(chat[Len(chat)], strays)
      PROVE  TextOf(r, chat[Len(chat)].text + text)
  <2>1. Shows(r.events, r.wrote, chat[Len(chat)].text + text)
    <3> HIDE DEF old
    <3> QED BY <1>1, <1>3, <1>8, ShowsNext
  <2> QED BY <1>5, <2>1 DEF TextOf
<1>9. q \in strays' \/ chat[Len(chat) - 1].q = q
  BY <1>1, <1>2
<1>10. q \notin strays' => chat[Len(chat)].q = q
  BY <1>1, <1>2
<1> HIDE DEF text, ev, old
<1>11. strays \subseteq strays' /\ strays' \subseteq Questions
  BY <1>2, TypeParts DEF IInv, CountType
<1>12. text \in Nat
  BY <1>1
<1> QED BY <1>1, <1>2, <1>4, <1>5, <1>7, <1>8, <1>9, <1>10, <1>11, <1>12, ShowKeeps

-----------------------------------------------------------------------------
(* The page asks.                                                          *)

LEMMA HistoryEffect ==
  ASSUME NEW entries \in Seq(Entry), NEW q, entries # <<>>,
         entries[Len(entries)].role = "user", entries[Len(entries)].q = q,
         entries[Len(entries)].text > 0
  PROVE  History(entries) \in Seq(Turn) /\ EndsWith(History(entries), q)
<1> DEFINE n == Len(entries)
           turn(i) == [role |-> entries[i].role, q |-> entries[i].q, text |-> entries[i].text]
           turns == [i \in DOMAIN entries |-> turn(i)]
           positions == {i \in DOMAIN entries : entries[i].text > 0}
           sel == Select(turns, positions)
<1>1. n \in Nat /\ n > 0 /\ DOMAIN entries = 1 .. n
  BY EmptySeq
<1>2. \A i \in DOMAIN entries : turn(i) \in Turn
  <2> SUFFICES ASSUME NEW i \in DOMAIN entries PROVE turn(i) \in Turn
    OBVIOUS
  <2>1. entries[i] \in Entry
    OBVIOUS
  <2> QED BY <2>1 DEF Entry, Turn
<1>3. n \in positions
  BY <1>1
<1>4. turns[n].role = "user" /\ turns[n].q = q
  BY <1>1
<1>5. History(entries) = sel
  BY DEF History
<1> HIDE DEF positions
<1>6. turns \in Seq(Turn) /\ Len(turns) = n
  <2> HIDE DEF turn, n
  <2> QED BY <1>1, <1>2
<1> HIDE DEF turns, sel
<1>7. /\ sel \in Seq(Turn)
      /\ Len(turns) > 0 /\ Len(turns) \in positions =>
           sel # <<>> /\ sel[Len(sel)] = turns[Len(turns)]
  BY <1>6, SelectTakes DEF sel
<1>8. sel # <<>> /\ sel[Len(sel)] = turns[n]
  BY <1>1, <1>3, <1>6, <1>7
<1> QED BY <1>4, <1>5, <1>7, <1>8 DEF EndsWith

LEMMA SendKeeps ==
  ASSUME IInv, NEW n \in 1 .. MaxPromptLen + 1, Send(n)
  PROVE  IInv'
<1> DEFINE q == asked + 1
           user == [role |-> "user", q |-> q, text |-> n, from |-> {},
                    failed |-> FALSE, done |-> TRUE]
           answer == [role |-> "assistant", q |-> q, text |-> 0, from |-> {},
                      failed |-> FALSE, done |-> FALSE]
           m == Len(chat)
           request == History(chat \o <<user>>)
           r == [NoQuery EXCEPT !.conn = "waiting", !.messages = request]
<1>1. /\ page = "up" /\ ~ busy /\ asked < MaxQuestions /\ asked' = q /\ busy' = TRUE
      /\ chat' = chat \o <<user, answer>>
      /\ UNCHANGED <<page, conv, begun, saved, deleted, strays>>
  BY DEF Send
<1>2. /\ chat \in Seq(Entry) /\ asked \in Nat /\ query \in [Questions -> QueryRun]
  BY TypeParts DEF IInv, ChatType, CountType, QueryType
<1>3. q \in Questions /\ q \in Nat /\ q > asked /\ asked < q
  BY <1>1, <1>2, Bounds DEF Questions
<1>4. query[q] = NoQuery
  BY <1>3 DEF IInv, LiveOK
<1>5. query' = [query EXCEPT ![q] = r]
  BY <1>2, <1>3, <1>4 DEF Send
<1>6. n \in Nat /\ n > 0
  BY Bounds
<1> HIDE DEF q
<1>7. user \in Entry /\ answer \in Entry
  BY <1>3, <1>6 DEF Entry
<1>8. /\ user.role = "user" /\ user.q = q /\ user.text = n
      /\ answer.role = "assistant" /\ answer.q = q /\ answer.text = 0
      /\ answer.from = {} /\ ~ answer.done /\ ~ answer.failed
  OBVIOUS
<1> HIDE DEF user, answer
<1>9. /\ chat' \in Seq(Entry) /\ Len(chat') = m + 2 /\ m \in Nat
      /\ DOMAIN chat' = 1 .. m + 2 /\ DOMAIN chat = 1 .. m
      /\ chat'[m + 1] = user /\ chat'[m + 2] = answer
      /\ \A i \in 1 .. m : chat'[i] = chat[i]
  BY <1>1, <1>2, <1>7
<1>10. request \in Seq(Turn) /\ EndsWith(request, q)
  <2> DEFINE entries == chat \o <<user>>
  <2>1. /\ entries \in Seq(Entry) /\ Len(entries) = m + 1
        /\ entries[m + 1] = user
    BY <1>2, <1>7
  <2> HIDE DEF entries
  <2>2. /\ entries # <<>> /\ entries[Len(entries)].role = "user"
        /\ entries[Len(entries)].q = q /\ entries[Len(entries)].text > 0
    BY <1>6, <1>8, <1>9, <2>1, EmptySeq
  <2>3. request = History(entries)
    BY DEF entries
  <2> QED BY <2>1, <2>2, <2>3, HistoryEffect
<1> HIDE DEF request, m
<1>11. r \in QueryRun
  BY <1>10, NoQueryType DEF NoQuery, QueryRun
<1>12. /\ r.conn = "waiting" /\ r.run = "none" /\ r.wrote = 0 /\ r.iteration = 0
       /\ r.events = <<>> /\ r.messages = request
  BY DEF NoQuery
<1> HIDE DEF r
<1>13. /\ QueryType' /\ query'[q] = r
       /\ \A p \in Questions : p # q => query'[p] = query[p]
  BY ONLY <1>2, <1>3, <1>5, <1>11 DEF QueryType
<1>14. TypeOK'
  <2>1. ChatType' /\ SavedType' /\ FlagType'
    BY <1>1, <1>9, TypeParts DEF IInv, ChatType, SavedType, FlagType
  <2>2. asked' \in 0 .. MaxQuestions
    BY <1>1, <1>3 DEF Questions
  <2>3. CountType'
    BY <1>1, <2>2, TypeParts DEF IInv, CountType
  <2> QED BY <1>13, <2>1, <2>3, TypePartsNext
<1>15. \A p \in Questions : p # q => (p \in Live' <=> p \in Live)
  BY <1>13, InFlightDef, InFlightNext
<1>16. LiveOK'
  <2>1. \A p \in Live : p \in strays
    BY <1>1 DEF IInv, LiveOK
  <2>2. \A p \in Live' : p \notin strays' => p = asked' /\ busy'
    BY <1>1, <1>15, <2>1, InFlightNext
  <2>3. \A p \in Questions : p > asked' => p > asked /\ p # q
    BY <1>1, <1>2, <1>3 DEF Questions
  <2>4. \A p \in Questions : p > asked' => query'[p] = NoQuery
    BY <1>13, <2>3 DEF IInv, LiveOK
  <2>5. page' = "up"
    BY <1>1
  <2> QED BY <2>2, <2>4, <2>5 DEF LiveOK
<1>17. RunOK'
  <2>1. RunOf(r)
    BY <1>12, Bounds DEF RunOf, NoneLast, OnlyLast
  <2> QED BY <1>13, <2>1 DEF IInv, RunOK
<1>18. WaitingOK'
  <2>1. m + 2 > 1 /\ (m + 2) - 1 = m + 1
    BY <1>9
  <2> QED BY <1>1, <1>8, <1>9, <2>1 DEF WaitingOK, AtEnd
<1>19. TextOK'
  BY <1>1, <1>8, <1>9, <1>12, <1>13 DEF TextOK, TextOf
<1>20. RequestOK'
  BY <1>10, <1>12, <1>13 DEF IInv, RequestOK
<1>21. HistoryFits'
  <2>1. \A p \in Questions : FitsFor(query[p], p)
    BY HistoryParts DEF IInv
  <2>2. FitsFor(r, q)
    BY <1>12 DEF FitsFor
  <2>3. \A p \in Questions : FitsFor(query'[p], p)
    BY <1>13, <2>1, <2>2
  <2> QED BY <2>3 DEF HistoryFits, FitsFor, EndsWith
<1>22. ASSUME NEW entries \in Chats
       PROVE  Belongs(entries, strays) /\ Whole(entries, q, query', strays, Live')
  <2>1. Belongs(entries, strays) /\ Whole(entries, asked, query, strays, Live)
    BY ChatsParts DEF IInv, WholeOK
  <2>2. entries \in Seq(Entry)
    BY ChatsType DEF IInv
  <2>3. ASSUME NEW i \in DOMAIN entries
        PROVE  /\ entries[i].q <= q
               /\ query'[entries[i].q] = query[entries[i].q]
               /\ entries[i].q \in Live' <=> entries[i].q \in Live
    <3>1. entries[i] \in Entry
      BY <2>2
    <3>2. entries[i].q \in Questions /\ entries[i].q <= asked
      BY <2>1, <3>1 DEF Entry, Whole
    <3>3. entries[i].q <= q /\ entries[i].q # q
      BY <1>2, <1>3, <3>2 DEF Questions
    <3> QED BY <1>13, <1>15, <3>2, <3>3
  <2> QED BY <2>1, <2>3 DEF Whole
<1>23. Belongs(chat', strays)
  <2>1. chat \in Chats
    BY DEF Chats
  <2>2. Belongs(chat, strays)
    BY <1>22, <2>1
  <2> SUFFICES ASSUME NEW i \in 1 .. m + 2, chat'[i].role = "assistant"
               PROVE  /\ i > 1 /\ chat'[i - 1].role = "user"
                      /\ chat'[i].from \ strays \subseteq {chat'[i - 1].q}
    BY <1>9 DEF Belongs
  <2>3. CASE i = m + 2
    <3>1. i > 1 /\ i - 1 = m + 1
      BY <1>9, <2>3
    <3> QED BY <1>8, <1>9, <2>3, <3>1
  <2>4. CASE i = m + 1
    BY <1>8, <1>9, <2>4
  <2>5. CASE i \in 1 .. m
    <3>1. chat'[i] = chat[i]
      BY <1>9, <2>5
    <3>2. /\ i > 1 /\ chat[i - 1].role = "user"
          /\ chat[i].from \ strays \subseteq {chat[i - 1].q}
      BY <1>9, <2>2, <2>5, <3>1 DEF Belongs
    <3>3. i - 1 \in 1 .. m
      BY <1>9, <2>5, <3>2
    <3> QED BY <1>9, <3>1, <3>2, <3>3
  <2> QED BY <1>9, <2>3, <2>4, <2>5
<1>24. Whole(chat', q, query', strays, Live')
  <2>1. chat \in Chats
    BY DEF Chats
  <2>2. Whole(chat, q, query', strays, Live')
    BY <1>22, <2>1
  <2>3. \A i \in 1 .. m + 2 : i = m + 2 \/ i = m + 1 \/ i \in 1 .. m
    BY <1>9
  <2>4. q <= q
    BY <1>3
  <2> SUFFICES ASSUME NEW i \in 1 .. m + 2
               PROVE  /\ chat'[i].q <= q
                      /\ /\ chat'[i].role = "assistant" /\ chat'[i].done
                         /\ ~ chat'[i].failed /\ Clean(chat'[i], strays)
                         => /\ chat'[i].q \notin Live'
                            /\ chat'[i].text = query'[chat'[i].q].wrote
    BY <1>9 DEF Whole
  <2>5. CASE i = m + 2 \/ i = m + 1
    BY <1>8, <1>9, <2>4, <2>5
  <2>6. CASE i \in 1 .. m
    <3>1. chat'[i] = chat[i] /\ i \in DOMAIN chat
      BY <1>9, <2>6
    <3> QED BY <2>2, <3>1 DEF Whole
  <2> QED BY <2>3, <2>5, <2>6
<1>25. \A entries \in Chats' :
         Belongs(entries, strays') /\ Whole(entries, asked', query', strays', Live')
  <2> SUFFICES ASSUME NEW entries \in Chats'
               PROVE  /\ Belongs(entries, strays')
                      /\ Whole(entries, asked', query', strays', Live')
    OBVIOUS
  <2>1. entries = chat' \/ entries \in Chats
    BY <1>1 DEF Chats
  <2> QED BY <1>1, <1>22, <1>23, <1>24, <2>1
<1>26. AnswersBelong' /\ WholeOK'
  BY <1>25 DEF AnswersBelong, Belongs, WholeOK
<1>27. StoreOK' /\ StoreFollowsPage'
  BY <1>1 DEF IInv, StoreOK, StoreFollowsPage
<1> QED BY <1>14, <1>16, <1>17, <1>18, <1>19, <1>20, <1>21, <1>26, <1>27 DEF IInv
-----------------------------------------------------------------------------
(* The inductive invariant.                                                *)

LEMMA InitOK ==
  ASSUME Init
  PROVE  IInv
<1> USE DEF Init
<1>1. \A q \in Questions : query[q] = NoQuery
  OBVIOUS
<1>2. Chats = {<<>>}
  BY DEF Chats
<1>3. TypeOK
  <2>1. FlagType
    BY DEF FlagType
  <2>5. ChatType
    <3>1. <<>> \in Seq(Entry)
      OBVIOUS
    <3>2. chat = <<>>
      OBVIOUS
    <3> QED BY <3>1, <3>2, Zenon DEF ChatType
  <2>4. SavedType
    <3>1. <<>> \in Seq(Conversation) /\ Len(<<>>) = 0
      OBVIOUS
    <3> QED BY <3>1, Bounds DEF SavedType
  <2>2. CountType
    BY Bounds DEF CountType
  <2>3. QueryType
    BY NoQueryType DEF QueryType
  <2> QED BY <2>1, <2>2, <2>3, <2>4, <2>5, TypeParts
<1>4. LiveOK /\ RequestOK /\ HistoryFits
  BY <1>1 DEF LiveOK, RequestOK, HistoryFits, NoQuery, Live
<1>5. RunOK
  BY <1>1, Bounds DEF RunOK, RunOf, NoneLast, OnlyLast, NoQuery
<1>6. WaitingOK /\ TextOK
  <2>1. Expected = {} /\ Live = {}
    BY <1>1 DEF Expected, Live, NoQuery
  <2> QED BY <2>1 DEF WaitingOK, TextOK
<1>7. StoreOK /\ StoreFollowsPage
  BY DEF StoreOK, StoreFollowsPage
<1>8. AnswersBelong /\ WholeOK
  BY <1>2, EmptyChat, ChatsParts DEF WholeOK
<1> QED BY <1>3, <1>4, <1>5, <1>6, <1>7, <1>8 DEF IInv

LEMMA StepKeeps ==
  ASSUME IInv, [Next]_vars
  PROVE  IInv'
<1>1. CASE User
  <2>1. ASSUME NEW n \in 1 .. MaxPromptLen + 1, Send(n) PROVE IInv'
    BY <2>1, SendKeeps
  <2>2. ASSUME NewChat PROVE IInv'
    BY <2>2, NewChatKeeps
  <2>3. ASSUME NEW i \in DOMAIN saved, openConversation(i) \/ removeConversation(i)
        PROVE  IInv'
    BY <2>3, OpenConversationKeeps, RemoveConversationKeeps
  <2>4. ASSUME Reload PROVE IInv'
    BY <2>4, ReloadKeeps
  <2> QED BY <1>1, <2>1, <2>2, <2>3, <2>4 DEF User
<1>2. ASSUME NEW q \in Questions, Agent(q) PROVE IInv'
  <2>1. ASSUME NEW n \in 0 .. 1, NEW calls \in 0 .. MaxCalls,
               AskModel(q, n, calls)
        PROVE  IInv'
    BY <2>1, AskModelKeeps
  <2>2. ASSUME Accept(q) \/ Refuse(q) PROVE IInv'
    BY <2>2, AcceptKeeps, RefuseKeeps
  <2>3. ASSUME RunTool(q) \/ Stop(q) PROVE IInv'
    BY <2>3, RunToolKeeps, StopKeeps
  <2> QED BY <1>2, <2>1, <2>2, <2>3 DEF Agent
<1>3. ASSUME NEW q \in Questions, Client(q) PROVE IInv'
  <2>1. ASSUME Deliver(q) PROVE IInv'
    BY <2>1, DeliverLastKeeps, DeliverMoreKeeps
  <2>2. ASSUME Fail(q) PROVE IInv'
    BY <2>2, FailKeeps
  <2>3. ASSUME ReadEnds(q) \/ FailLate(q) PROVE IInv'
    BY <2>3, ReadEndsKeeps, FailLateKeeps
  <2> QED BY <1>3, <2>1, <2>2, <2>3 DEF Client
<1>4. CASE UNCHANGED vars
  <2>1. TypeOK'
    <3>1. ChatType' /\ SavedType' /\ FlagType' /\ QueryType'
      BY <1>4, TypeParts DEF IInv, vars, pageVars, ChatType, SavedType, FlagType, QueryType
    <3>2. CountType'
      BY <1>4, TypeParts DEF IInv, vars, pageVars, CountType
    <3> QED BY <3>1, <3>2, TypePartsNext
  <2>2. Live' = Live /\ Expected' = Expected
    BY <1>4 DEF vars, pageVars, Live, Expected
  <2>3. /\ LiveOK' /\ RunOK' /\ WaitingOK' /\ TextOK' /\ RequestOK' /\ WholeOK'
        /\ StoreOK' /\ AnswersBelong' /\ StoreFollowsPage' /\ HistoryFits'
    BY <1>4, <2>2 DEF IInv, vars, pageVars, LiveOK, RunOK, WaitingOK, TextOK, RequestOK, WholeOK,
                StoreOK, AnswersBelong, StoreFollowsPage, HistoryFits, Chats
  <2> QED BY <2>1, <2>3 DEF IInv
<1> QED BY <1>1, <1>2, <1>3, <1>4 DEF Next

LEMMA IInvHolds == Spec => []IInv
BY InitOK, StepKeeps, PTL DEF Spec

(* Page, store, requests and runs of the agent are of their types.         *)
THEOREM TypeCorrect == Spec => []TypeOK
<1>1. IInv => TypeOK
  BY DEF IInv
<1> QED BY <1>1, IInvHolds, PTL

(* What stands below a question came from its own query, however the user  *)
(* moves between conversations. Set aside are the queries whose end the    *)
(* page took for that of another: refused with an abort, lost after the    *)
(* last event, or no longer waited for because of such an end.             *)
THEOREM AnswersStayApart == Spec => []AnswersBelong
<1>1. IInv => AnswersBelong
  BY DEF IInv
<1> QED BY <1>1, IInvHolds, PTL

(* A finished answer holds all the text the agent wrote for it, unless     *)
(* something of a query the page had let go of got into it.                *)
THEOREM NothingIsLost == Spec => []AnswersWhole
<1>1. ASSUME IInv PROVE AnswersWhole
  <2>1. chat \in Chats
    BY DEF Chats
  <2>2. Whole(chat, asked, query, strays, Live)
    BY <1>1, <2>1 DEF IInv, WholeOK
  <2>3. ASSUME NEW i \in DOMAIN chat,
               chat[i].role = "assistant", chat[i].done, ~ chat[i].failed,
               chat[i].from \cap strays = {}
        PROVE  chat[i].text = query[chat[i].q].wrote
    <3>1. Clean(chat[i], strays)
      BY <2>3 DEF Clean
    <3> QED BY <2>2, <2>3, <3>1 DEF Whole
  <2> QED BY <2>3 DEF AnswersWhole
<1> QED BY <1>1, IInvHolds, PTL

(* A finished turn is in the store, and no deleted conversation is.        *)
THEOREM StoreIsCurrent == Spec => []StoreFollowsPage
<1>1. IInv => StoreFollowsPage
  BY DEF IInv
<1> QED BY <1>1, IInvHolds, PTL

(* The model gets the question, last, and no more history than allowed.    *)
THEOREM PromptsFit == Spec => []HistoryFits
<1>1. IInv => HistoryFits
  BY DEF IInv
<1> QED BY <1>1, IInvHolds, PTL
=============================================================================
