-------------------------- MODULE QueryEngine_proofs ------------------------
(***************************************************************************)
(* Proofs about QueryEngine.tla, for every limit on rounds and calls and   *)
(* every set of settings: its types, and that the stream of a query keeps  *)
(* what EventStream.tla promises.                                          *)
(***************************************************************************)
EXTENDS QueryEngine, Lists_proofs

Message == [role : {"user", "assistant"}, calls : Seq(Call), results : Seq(Result)]

(* A tool is running: it belongs to the current round, and there are calls *)
(* without a result.                                                       *)
Busy == pc \in {"tool", "save", "card"}

RoundOK ==
  /\ Len(calls) <= MaxCalls
  /\ \A k \in DOMAIN calls : calls[k].of = <<iteration, k>>
  /\ Busy => Len(results) < Len(calls)
  /\ ~ Busy => calls = <<>> /\ results = <<>>

(* Changes that were proposed come from calls that have been run.          *)
RunSoFar ==
  IF pc = "card" THEN Len(results) + 1 ELSE Len(results)

PastOK ==
  \A of \in proposed :
    of[1] <= iteration /\ (Busy /\ of[1] = iteration => of[2] <= RunSoFar)

(* What was shown, and what is about to be.                                *)
ShownOf(log) ==
  {log[i].of : i \in {j \in 1 .. Len(log) : log[j].type = "proposal"}}

CardsOK ==
  /\ pc \in {"chat", "tool", "save"} => proposed = ShownOf(events)
  /\ pc = "save" => /\ events # <<>>
                    /\ events[Len(events)] = Ev("tool", Running.of)
  /\ pc = "card" => /\ proposed = ShownOf(events) \cup {Running.of}
                    /\ Running.of \notin ShownOf(events)

IInv == TypeOK /\ RoundOK /\ PastOK /\ CardsOK

-----------------------------------------------------------------------------
(* Sequences of events.                                                    *)

LEMMA AppendShown ==
  ASSUME NEW log \in Seq(Event), NEW e \in Event
  PROVE  /\ Append(log, e) \in Seq(Event)
         /\ ShownOf(Append(log, e)) =
              ShownOf(log) \cup (IF e.type = "proposal" THEN {e.of} ELSE {})
<1> DEFINE all == Append(log, e)
<1>1. /\ all \in Seq(Event) /\ Len(all) = Len(log) + 1 /\ Len(log) \in Nat
      /\ \A i \in 1 .. Len(log) : all[i] = log[i]
      /\ all[Len(log) + 1] = e
  OBVIOUS
<1>2. ASSUME NEW x
      PROVE  x \in ShownOf(all) <=>
               x \in ShownOf(log) \/ (e.type = "proposal" /\ x = e.of)
  <2> HIDE DEF all
  <2>1. x \in ShownOf(all) <=>
          \E i \in 1 .. Len(log) + 1 : all[i].type = "proposal" /\ x = all[i].of
    BY <1>1 DEF ShownOf
  <2>2. x \in ShownOf(log) <=>
          \E i \in 1 .. Len(log) : log[i].type = "proposal" /\ x = log[i].of
    BY DEF ShownOf
  <2>3. \A i : i \in 1 .. Len(log) + 1 <=> i \in 1 .. Len(log) \/ i = Len(log) + 1
    BY <1>1
  <2> QED BY <1>1, <2>1, <2>2, <2>3
<1> QED BY <1>1, <1>2

LEMMA OneMore ==
  ASSUME NEW log \in Seq(Event), NEW e \in Event
  PROVE  log \o << e >> = Append(log, e) /\ log \o <<>> = log
OBVIOUS

LEMMA TwoMore ==
  ASSUME NEW log \in Seq(Event), NEW t \in Event, NEW d \in Event
  PROVE  (log \o << t >>) \o << d >> = log \o << t, d >>
<1>1. << t >> \in Seq(Event) /\ << d >> \in Seq(Event) /\ << t, d >> \in Seq(Event)
  OBVIOUS
<1>2. << t >> \o << d >> = << t, d >>
  <2>1. Len(<< t >> \o << d >>) = 2 /\ Len(<< t, d >>) = 2
    BY <1>1, ConcatProperties
  <2>2. \A i \in 1 .. 2 : (<< t >> \o << d >>)[i] = << t, d >>[i]
    BY <1>1, ConcatProperties
  <2>3. << t >> \o << d >> \in Seq(Event)
    BY <1>1, ConcatProperties
  <2> QED BY <1>1, <2>1, <2>2, <2>3, SeqEqual
<1>3. \A u, v \in Seq(Event) : (log \o u) \o v = log \o (u \o v)
  BY Regroup DEF Associative
<1>4. (log \o << t >>) \o << d >> = log \o (<< t >> \o << d >>)
  BY <1>1, <1>3
<1> QED BY <1>2, <1>4

LEMMA EventTypes ==
  ASSUME NEW type \in {"text", "tool", "proposal", "done", "error"}, NEW of \in Of
  PROVE  /\ Ev(type, of) \in Event
         /\ Ev(type, of).type = type /\ Ev(type, of).of = of
BY DEF Ev, Event

LEMMA NoOfIsOf == NoOf \in Of
BY QueryAssumption DEF NoOf, Of

-----------------------------------------------------------------------------
(* The call that is running.                                               *)
LEMMA RunningCall ==
  ASSUME TypeOK, RoundOK, Busy
  PROVE  /\ Running \in Call
         /\ Running.of = <<iteration, Len(results) + 1>> /\ Running.of \in Of
         /\ Len(results) + 1 \in DOMAIN calls
<1>1. Len(results) \in Nat /\ Len(calls) \in Nat
  BY DEF TypeOK
<1>2. Len(results) + 1 \in 1 .. Len(calls) /\ DOMAIN calls = 1 .. Len(calls)
  BY <1>1 DEF TypeOK, RoundOK
<1>3. Running \in Call
  BY <1>2 DEF Running, TypeOK
<1> QED BY <1>2, <1>3 DEF RoundOK, Running, Call

(* Its result ends the round or leaves the next call to be run.            *)
LEMMA AnswerKeeps ==
  ASSUME TypeOK, RoundOK, Busy, NEW ok \in BOOLEAN, Answer(Running, ok),
         iteration' = iteration
  PROVE  /\ pc' \in {"tool", "chat"}
         /\ messages' \in Seq(Message) /\ calls' \in Seq(Call)
         /\ results' \in Seq(Result) /\ Len(results') <= Len(calls')
         /\ failed' \in SUBSET Of
         /\ RoundOK'
         /\ pc' = "tool" => Len(results') = Len(results) + 1
<1>1. Running \in Call /\ Running.of \in Of
  BY RunningCall
<1> DEFINE res == [id |-> Running.id, name |-> Running.name,
                   of |-> Running.of, error |-> ~ ok]
           all == Append(results, res)
<1>2. res \in Result
  BY <1>1 DEF Call, Result
<1> HIDE DEF res
<1>3. /\ all \in Seq(Result) /\ Len(all) = Len(results) + 1
      /\ Len(results) \in Nat /\ Len(calls) \in Nat
  BY <1>2 DEF TypeOK
<1>4. failed' \in SUBSET Of
  BY <1>1 DEF Answer, TypeOK
<1>5. CASE Len(all) < Len(calls)
  <2>1. pc' = "tool" /\ results' = all /\ UNCHANGED <<messages, calls>>
    BY <1>5 DEF Answer, res
  <2> HIDE DEF all
  <2> QED BY <1>3, <1>4, <1>5, <2>1 DEF TypeOK, RoundOK, Busy, Message
<1>6. CASE ~ (Len(all) < Len(calls))
  <2>1. /\ pc' = "chat" /\ messages' = Append(messages, ResultsTurn(all))
        /\ calls' = <<>> /\ results' = <<>>
    BY <1>6 DEF Answer, res
  <2>2. ResultsTurn(all) \in Message
    BY <1>3 DEF ResultsTurn, Message
  <2>3. messages' \in Seq(Message)
    BY <2>1, <2>2 DEF TypeOK, Message
  <2>4. Len(calls') = 0 /\ Len(results') = 0 /\ DOMAIN calls' = {}
    BY <2>1
  <2>5. RoundOK'
    BY <2>1, <2>4, QueryAssumption DEF RoundOK, Busy
  <2> QED BY <1>4, <2>1, <2>3, <2>4, <2>5
<1> QED BY <1>5, <1>6

(* The calls of an answer are those of the new round.                      *)
LEMMA CallsOfRound ==
  ASSUME TypeOK, iteration < MaxIterations, NEW names \in Answers
  PROVE  /\ Calls(names) \in Seq(Call)
         /\ Len(Calls(names)) <= MaxCalls
         /\ \A k \in DOMAIN Calls(names) : Calls(names)[k].of = <<iteration + 1, k>>
         /\ names # <<>> => 0 < Len(Calls(names))
<1>1. PICK n \in 0 .. MaxCalls : names \in [1 .. n -> Tools]
  BY DEF Answers
<1>2. /\ n \in Nat /\ n <= MaxCalls /\ DOMAIN names = 1 .. n
      /\ MaxCalls \in Nat /\ MaxIterations \in Nat
  BY <1>1, QueryAssumption
<1>3. ASSUME NEW i \in 1 .. n
      PROVE  [id |-> CallId(pinned.kind, pinned.ids, <<iteration + 1, i>>),
              name |-> names[i], of |-> <<iteration + 1, i>>] \in Call
  <2>1. <<iteration + 1, i>> \in Of /\ <<0, i>> \in Of
    BY <1>2 DEF TypeOK, Of
  <2>2. CallId(pinned.kind, pinned.ids, <<iteration + 1, i>>) \in Of
    BY <2>1 DEF CallId
  <2>3. names[i] \in Tools
    BY <1>1
  <2> QED BY <2>1, <2>2, <2>3 DEF Call
<1>4. Calls(names) \in [1 .. n -> Call]
  BY <1>2, <1>3 DEF Calls
<1>5. Calls(names) \in Seq(Call) /\ Len(Calls(names)) = n
  BY <1>2, <1>4
<1>6. \A k \in 1 .. n : Calls(names)[k].of = <<iteration + 1, k>>
  BY <1>2 DEF Calls
<1>7. n = 0 => names = <<>>
  BY <1>1, <1>2
<1> QED BY <1>2, <1>4, <1>5, <1>6, <1>7

-----------------------------------------------------------------------------
(* The tools' steps.                                                       *)

(* The running call is one of the current round, so it is not among those  *)
(* already proposed.                                                       *)
LEMMA RunningIsNew ==
  ASSUME TypeOK, RoundOK, PastOK, pc \in {"tool", "save"}
  PROVE  Running.of \notin proposed
<1>1. Running.of = <<iteration, Len(results) + 1>>
  BY RunningCall DEF Busy
<1>2. Len(results) \in Nat
  BY DEF TypeOK
<1> QED BY <1>1, <1>2 DEF PastOK, Busy, RunSoFar

(* An answer keeps what is known of the past, whether its call proposed a  *)
(* change or not.                                                          *)
LEMMA PastKept ==
  ASSUME TypeOK, RoundOK, PastOK, Busy, NEW ok \in BOOLEAN, Answer(Running, ok),
         iteration' = iteration, proposed' = proposed
  PROVE  PastOK'
<1>1. /\ pc' \in {"tool", "chat"}
      /\ pc' = "tool" => Len(results') = Len(results) + 1
  BY AnswerKeeps
<1>2. Len(results) \in Nat /\ iteration \in Nat
  BY DEF TypeOK
<1>3. \A of \in proposed : of \in Of /\ of[2] \in Nat
  BY QueryAssumption DEF TypeOK, Of
<1>4. ASSUME NEW of \in proposed, Busy', of[1] = iteration
      PROVE  of[2] <= Len(results')
  <2>1. of[2] <= RunSoFar
    BY <1>4 DEF PastOK
  <2>2. pc' = "tool"
    BY <1>1, <1>4 DEF Busy
  <2> QED BY <1>1, <1>2, <1>3, <2>1, <2>2 DEF RunSoFar
<1>5. pc' # "card"
  BY <1>1
<1> QED BY <1>4, <1>5 DEF PastOK, RunSoFar

LEMMA InitInv == Init => IInv
<1> SUFFICES ASSUME Init PROVE IInv
  OBVIOUS
<1>1. TypeOK
  <2>1. Turn("assistant") \in Message /\ Turn("user") \in Message
    BY DEF Turn, Message
  <2>2. History \in Seq(Message)
    BY <2>1 DEF History
  <2> QED BY <2>2, QueryAssumption DEF Init, TypeOK, Message
<1>2. RoundOK /\ PastOK
  BY QueryAssumption DEF Init, RoundOK, Busy, PastOK
<1>3. CardsOK
  BY DEF Init, CardsOK, ShownOf
<1> QED BY <1>1, <1>2, <1>3 DEF IInv

LEMMA ForgetKeeps ==
  ASSUME IInv, Forget, pc' \in {"over", "gone"}, iteration' \in 0 .. MaxIterations,
         iteration <= iteration', UNCHANGED <<pinned, ctx, proposed>>,
         events' \in Seq(Event)
  PROVE  IInv'
<1> USE DEF IInv
<1>1. TypeOK'
  BY DEF TypeOK, Forget
<1>2. RoundOK'
  BY QueryAssumption DEF Forget, RoundOK, Busy
<1>3. \A of \in proposed : of[1] \in Int
  BY QueryAssumption DEF TypeOK, Of
<1>4. PastOK'
  BY <1>3, QueryAssumption DEF PastOK, Busy, TypeOK
<1>5. CardsOK'
  BY DEF CardsOK
<1> QED BY <1>1, <1>2, <1>4, <1>5

LEMMA ChatInv ==
  ASSUME IInv, NEW text \in BOOLEAN, NEW names \in Answers, ChatAnswers(text, names)
  PROVE  /\ IInv'
         /\ names = <<>> =>
              /\ ~ Active'
              /\ events' \in {events \o << Ev("done", NoOf) >>,
                              events \o << Ev("text", NoOf), Ev("done", NoOf) >>}
         /\ names # <<>> =>
              /\ Active'
              /\ events' \in {events, Append(events, Ev("text", NoOf))}
<1> USE DEF IInv
<1> DEFINE words == IF text THEN << Ev("text", NoOf) >> ELSE <<>>
<1>1. /\ Ev("text", NoOf) \in Event /\ Ev("done", NoOf) \in Event
      /\ events \in Seq(Event)
  BY EventTypes, NoOfIsOf DEF TypeOK
<1>2. /\ events \o words \in Seq(Event)
      /\ events \o words = IF text THEN Append(events, Ev("text", NoOf)) ELSE events
  BY <1>1, OneMore, AppendShown
<1>3. ShownOf(events \o words) = ShownOf(events)
  <2>1. Ev("text", NoOf).type = "text"
    BY DEF Ev
  <2>2. ShownOf(Append(events, Ev("text", NoOf))) = ShownOf(events)
    BY <1>1, <2>1, AppendShown
  <2> QED BY <1>2, <2>2
<1>4. /\ iteration \in Nat /\ iteration < MaxIterations
      /\ iteration' = iteration + 1 /\ iteration' \in 0 .. MaxIterations
  BY QueryAssumption DEF ChatAnswers, TypeOK
<1>5. CASE names = <<>>
  <2>1. /\ events' = events \o words \o << Ev("done", NoOf) >>
        /\ pc' = "over" /\ Forget
    BY <1>5 DEF ChatAnswers
  <2>2. events' = Append(events \o words, Ev("done", NoOf))
    BY <1>1, <1>2, <2>1, OneMore
  <2>3. events' \in Seq(Event)
    BY <1>1, <1>2, <2>2, AppendShown
  <2>4. IInv'
    BY <1>4, <2>1, <2>3, ForgetKeeps DEF ChatAnswers
  <2>5. events' \in {events \o << Ev("done", NoOf) >>,
                     events \o << Ev("text", NoOf), Ev("done", NoOf) >>}
    <3>1. CASE text
      <4> DEFINE t == Ev("text", NoOf)
                 d == Ev("done", NoOf)
      <4>1. t \in Event /\ d \in Event
        BY <1>1
      <4>2. events' = (events \o << t >>) \o << d >>
        BY <2>1, <3>1
      <4> QED BY <1>1, <4>1, <4>2, TwoMore DEF t, d
    <3>2. CASE ~ text
      BY <1>1, <1>2, <2>2, <3>2, OneMore
    <3> QED BY <3>1, <3>2
  <2> QED BY <1>5, <2>1, <2>4, <2>5 DEF Active
<1>6. CASE names # <<>>
  <2> DEFINE asked == Calls(names)
  <2>1. /\ events' = events \o words /\ pc' = "tool"
        /\ messages' = Append(messages, CallsTurn(asked))
        /\ calls' = asked /\ results' = <<>> /\ failed' = failed
        /\ UNCHANGED <<pinned, ctx, proposed>> /\ pc = "chat"
    BY <1>6 DEF ChatAnswers
  <2>2. /\ asked \in Seq(Call) /\ Len(asked) <= MaxCalls /\ 0 < Len(asked)
        /\ \A k \in DOMAIN asked : asked[k].of = <<iteration + 1, k>>
    BY <1>4, <1>6, CallsOfRound
  <2> HIDE DEF asked, words
  <2>3. CallsTurn(asked) \in Message
    BY <2>2 DEF CallsTurn, Message
  <2>4. messages' \in Seq(Message)
    BY <2>1, <2>3 DEF TypeOK, Message
  <2>5. TypeOK'
    <3>1. /\ events' \in Seq(Event) /\ calls' \in Seq(Call) /\ results' \in Seq(Result)
          /\ Len(results') <= Len(calls') /\ pc' \in {"tool"} /\ iteration' \in 0 .. MaxIterations
      <4>1. <<>> \in Seq(Result) /\ Len(<<>>) = 0
        OBVIOUS
      <4> QED BY <1>2, <1>4, <2>1, <2>2, <4>1
    <3>2. /\ pinned' = pinned /\ ctx' = ctx /\ proposed' = proposed /\ failed' = failed
      BY <2>1
    <3> QED BY <2>4, <3>1, <3>2 DEF TypeOK, Message
  <2>6. RoundOK'
    BY <1>4, <2>1, <2>2 DEF RoundOK, Busy
  <2>7. PastOK'
    <3>1. \A of \in proposed : of[1] \in Int /\ of[1] <= iteration
      BY QueryAssumption DEF TypeOK, Of, PastOK
    <3> QED BY <1>4, <2>1, <3>1 DEF PastOK
  <2>8. CardsOK'
    BY <1>3, <2>1 DEF CardsOK
  <2> QED BY <1>2, <1>6, <2>1, <2>5, <2>6, <2>7, <2>8 DEF Active, words
<1> QED BY <1>5, <1>6

LEMMA StopInv ==
  ASSUME IInv, Stop
  PROVE  IInv' /\ events' = events \o << Ev("error", NoOf) >> /\ ~ Active'
<1>1. Ev("error", NoOf) \in Event /\ events \in Seq(Event)
  BY EventTypes, NoOfIsOf DEF IInv, TypeOK
<1>2. events' = events \o << Ev("error", NoOf) >> /\ events' \in Seq(Event)
  BY <1>1, OneMore, AppendShown DEF Stop
<1>3. IInv'
  BY <1>2, ForgetKeeps DEF Stop, IInv, TypeOK
<1> QED BY <1>2, <1>3 DEF Stop, Active

(* An answered call, after its events and its proposal.                    *)
LEMMA AnsweredInv ==
  ASSUME IInv, Busy, NEW ok \in BOOLEAN, Answer(Running, ok), PastOK',
         UNCHANGED <<pinned, ctx, iteration>>,
         events' \in Seq(Event), proposed' \in SUBSET Of, proposed' = ShownOf(events')
  PROVE  IInv' /\ Active'
<1> USE DEF IInv
<1>1. /\ pc' \in {"tool", "chat"} /\ RoundOK'
      /\ messages' \in Seq(Message) /\ calls' \in Seq(Call)
      /\ results' \in Seq(Result) /\ Len(results') <= Len(calls')
      /\ failed' \in SUBSET Of
  BY AnswerKeeps
<1>2. TypeOK'
  BY <1>1 DEF TypeOK, Message
<1>3. CardsOK'
  BY <1>1 DEF CardsOK
<1> QED BY <1>1, <1>2, <1>3 DEF Active

LEMMA ToolEvent ==
  ASSUME TypeOK, RoundOK, Busy, events' = Append(events, Ev("tool", Running.of))
  PROVE  /\ events' \in Seq(Event) /\ ShownOf(events') = ShownOf(events)
         /\ events' # <<>> /\ events'[Len(events')] = Ev("tool", Running.of)
<1>1. Ev("tool", Running.of) \in Event /\ Ev("tool", Running.of).type = "tool"
  BY RunningCall, EventTypes
<1>2. events \in Seq(Event)
  BY DEF TypeOK
<1>3. events' \in Seq(Event) /\ ShownOf(events') = ShownOf(events)
  BY <1>1, <1>2, AppendShown
<1>4. Len(events') = Len(events) + 1 /\ Len(events) \in Nat
      /\ events'[Len(events) + 1] = Ev("tool", Running.of)
  BY <1>1, <1>2
<1>5. events' # <<>>
  BY <1>2, <1>4
<1> QED BY <1>3, <1>4, <1>5

LEMMA RunToolInv ==
  ASSUME IInv, RunTool
  PROVE  IInv' /\ Active'
<1> USE DEF IInv
<1>1. PICK ok \in BOOLEAN : Answer(Running, ok)
  BY DEF RunTool
<1>2. Busy /\ events' = Append(events, Ev("tool", Running.of))
      /\ UNCHANGED <<pinned, ctx, iteration, proposed>>
  BY DEF RunTool, Busy
<1>3. events' \in Seq(Event) /\ ShownOf(events') = ShownOf(events)
  BY <1>2, ToolEvent
<1>4. proposed = ShownOf(events)
  BY DEF RunTool, CardsOK
<1>5. PastOK'
  BY <1>1, <1>2, PastKept
<1>6. proposed' \in SUBSET Of
  BY <1>2 DEF TypeOK
<1> QED BY <1>1, <1>2, <1>3, <1>4, <1>5, <1>6, AnsweredInv

LEMMA CheckInv ==
  ASSUME IInv, CheckChange
  PROVE  IInv' /\ Active'
<1> USE DEF IInv
<1>1. /\ Busy /\ pc = "tool" /\ events' = Append(events, Ev("tool", Running.of))
      /\ UNCHANGED <<pinned, ctx, proposed>>
  BY DEF CheckChange, Busy
<1>2. /\ events' \in Seq(Event) /\ ShownOf(events') = ShownOf(events)
      /\ events' # <<>> /\ events'[Len(events')] = Ev("tool", Running.of)
  BY <1>1, ToolEvent
<1>3. proposed = ShownOf(events)
  BY <1>1 DEF CardsOK
<1>4. CASE pc' = "save" /\ UNCHANGED <<round, failed>>
  <2>1. UNCHANGED <<iteration, messages, calls, results, failed>> /\ Running' = Running
    BY <1>4 DEF round, Running
  <2>2. TypeOK'
    BY <1>1, <1>2, <1>4, <2>1 DEF TypeOK
  <2>3. RoundOK'
    BY <1>1, <1>4, <2>1 DEF RoundOK, Busy
  <2>4. PastOK'
    BY <1>1, <1>4, <2>1 DEF PastOK, Busy, RunSoFar
  <2>5. CardsOK'
    BY <1>1, <1>2, <1>3, <1>4, <2>1 DEF CardsOK
  <2> QED BY <1>4, <2>2, <2>3, <2>4, <2>5 DEF Active
<1>5. CASE Answer(Running, FALSE) /\ UNCHANGED iteration
  <2>1. PastOK'
    BY <1>1, <1>5, PastKept
  <2>2. proposed' \in SUBSET Of
    BY <1>1 DEF TypeOK
  <2> QED BY <1>1, <1>2, <1>3, <1>5, <2>1, <2>2, AnsweredInv
<1> QED BY <1>4, <1>5 DEF CheckChange

LEMMA SaveInv ==
  ASSUME IInv, SaveChange
  PROVE  /\ IInv' /\ Active' /\ events' = events
         /\ proposed' \in {proposed, proposed \cup {Running.of}}
<1> USE DEF IInv
<1>1. Busy /\ pc = "save" /\ UNCHANGED <<pinned, ctx, events>>
  BY DEF SaveChange, Busy
<1>2. proposed = ShownOf(events)
  BY <1>1 DEF CardsOK
<1>3. CASE /\ proposed' = proposed \cup {Running.of}
           /\ pc' = "card" /\ UNCHANGED <<round, failed>>
  <2>1. UNCHANGED <<iteration, messages, calls, results, failed>> /\ Running' = Running
    BY <1>3 DEF round, Running
  <2>2. /\ Running.of \in Of /\ Running.of = <<iteration, Len(results) + 1>>
        /\ Len(results) \in Nat /\ iteration \in Nat
    BY <1>1, RunningCall DEF TypeOK
  <2>3. TypeOK'
    BY <1>1, <1>3, <2>1, <2>2 DEF TypeOK
  <2>4. RoundOK'
    BY <1>1, <1>3, <2>1 DEF RoundOK, Busy
  <2>5. PastOK'
    <3>1. \A of \in proposed : of[2] \in Nat
      BY QueryAssumption DEF TypeOK, Of
    <3>2. ASSUME NEW of \in proposed'
          PROVE  of[1] <= iteration /\ (of[1] = iteration => of[2] <= Len(results) + 1)
      <4>1. CASE of \in proposed
        BY <1>1, <2>2, <3>1, <4>1 DEF PastOK, Busy, RunSoFar
      <4>2. CASE of = Running.of
        BY <2>2, <4>2
      <4> QED BY <1>3, <4>1, <4>2
    <3> QED BY <1>3, <2>1, <3>2 DEF PastOK, RunSoFar
  <2>6. CardsOK'
    BY <1>1, <1>2, <1>3, <2>1, RunningIsNew DEF CardsOK
  <2> QED BY <1>1, <1>3, <2>3, <2>4, <2>5, <2>6 DEF Active
<1>4. CASE Answer(Running, FALSE) /\ UNCHANGED <<iteration, proposed>>
  <2>1. PastOK'
    BY <1>1, <1>4, PastKept
  <2>2. proposed' \in SUBSET Of /\ events' \in Seq(Event)
    BY <1>1, <1>4 DEF TypeOK
  <2> QED BY <1>1, <1>2, <1>4, <2>1, <2>2, AnsweredInv
<1> QED BY <1>3, <1>4 DEF SaveChange

LEMMA ShowInv ==
  ASSUME IInv, ShowChange
  PROVE  IInv' /\ Active' /\ Running.of \in proposed \ ShownOf(events)
<1> USE DEF IInv
<1>1. /\ Busy /\ pc = "card" /\ Answer(Running, TRUE)
      /\ UNCHANGED <<pinned, ctx, iteration, proposed>>
      /\ events' = Append(events, Ev("proposal", Running.of))
  BY DEF ShowChange, Busy
<1>2. Running.of \in Of
  BY <1>1, RunningCall
<1>3. /\ Ev("proposal", Running.of) \in Event
      /\ Ev("proposal", Running.of).type = "proposal"
      /\ Ev("proposal", Running.of).of = Running.of
  BY <1>2, EventTypes
<1>4. /\ proposed = ShownOf(events) \cup {Running.of}
      /\ Running.of \notin ShownOf(events)
  BY <1>1 DEF CardsOK
<1>5. events' \in Seq(Event) /\ ShownOf(events') = ShownOf(events) \cup {Running.of}
  BY <1>1, <1>3, AppendShown DEF TypeOK
<1>6. PastOK'
  BY <1>1, PastKept
<1>7. proposed' \in SUBSET Of
  BY <1>1 DEF TypeOK
<1> QED BY <1>1, <1>4, <1>5, <1>6, <1>7, AnsweredInv

LEMMA OthersInv ==
  ASSUME IInv, Expire \/ Crash \/ UNCHANGED vars
  PROVE  IInv'
<1> USE DEF IInv
<1>1. ASSUME UNCHANGED <<pinned, pc, round, events, proposed, failed>>, ctx' \in {"live", "over"}
      PROVE  IInv'
  <2>1. UNCHANGED <<iteration, messages, calls, results>> /\ Running' = Running
    BY <1>1 DEF round, Running
  <2> QED BY <1>1, <2>1 DEF TypeOK, RoundOK, Busy, PastOK, RunSoFar, CardsOK
<1>2. CASE Expire
  BY <1>1, <1>2 DEF Expire
<1>3. CASE Crash
  BY <1>3, ForgetKeeps DEF Crash, TypeOK
<1>4. CASE UNCHANGED vars
  BY <1>1, <1>4 DEF vars, TypeOK
<1> QED BY <1>2, <1>3, <1>4

LEMMA StepInv == IInv /\ [Next]_vars => IInv'
<1> SUFFICES ASSUME IInv, [Next]_vars PROVE IInv'
  OBVIOUS
<1>1. CASE \E text \in BOOLEAN, names \in Answers : ChatAnswers(text, names)
  BY <1>1, ChatInv
<1>2. CASE Stop
  BY <1>2, StopInv
<1>3. CASE RunTool
  BY <1>3, RunToolInv
<1>4. CASE CheckChange
  BY <1>4, CheckInv
<1>5. CASE SaveChange
  BY <1>5, SaveInv
<1>6. CASE ShowChange
  BY <1>6, ShowInv
<1>7. CASE Expire \/ Crash \/ UNCHANGED vars
  BY <1>7, OthersInv
<1> QED BY <1>1, <1>2, <1>3, <1>4, <1>5, <1>6, <1>7 DEF Next, Run

LEMMA InvHolds == Spec => []IInv
BY InitInv, StepInv, PTL DEF Spec

-----------------------------------------------------------------------------
(* A query's frame, its calls and results, and what it sends back to the   *)
(* model are what they should be, however many rounds and calls there are  *)
(* (Run, runTool).                                                         *)
THEOREM TypesCorrect == Spec => []TypeOK
<1>1. IInv => TypeOK
  BY DEF IInv
<1> QED BY <1>1, InvHolds, PTL

(* Every step of a query is one the stream's promise allows.               *)
LEMMA StepImplements ==
  ASSUME IInv, [Next]_vars
  PROVE  [Stream!Next]_(Stream!vars)
<1> USE DEF IInv
<1> DEFINE idle == events' = events /\ Active' = Active /\ proposed' = proposed
<1>1. idle => UNCHANGED Stream!vars
  BY DEF Stream!vars
<1>2. Stream!Shown = ShownOf(events)
  BY DEF Stream!Shown, ShownOf
<1>3. pc \in {"chat", "tool", "save"} => Stream!Quiet
  BY <1>2 DEF Stream!Quiet, CardsOK, Active
<1>4. CASE \E text \in BOOLEAN, names \in Answers : ChatAnswers(text, names)
  <2>1. PICK text \in BOOLEAN, names \in Answers : ChatAnswers(text, names)
    BY <1>4
  <2>2. pc = "chat" /\ proposed' = proposed
    BY <2>1 DEF ChatAnswers
  <2>3. CASE names = <<>>
    <3>1. Stream!End("done")
      BY <1>3, <2>1, <2>2, <2>3, ChatInv DEF Stream!End, Stream!Ev, Ev
    <3> QED BY <3>1 DEF Stream!Next
  <2>4. CASE names # <<>>
    <3>1. Active' /\ events' \in {events, Append(events, Ev("text", NoOf))}
      BY <2>1, <2>4, ChatInv
    <3>2. CASE events' = events
      BY <1>1, <2>2, <3>1, <3>2 DEF Active
    <3>3. CASE events' = Append(events, Ev("text", NoOf))
      <4>1. Stream!Say
        BY <1>3, <2>2, <3>1, <3>3 DEF Stream!Say, Stream!Ev, Ev, Active
      <4> QED BY <4>1 DEF Stream!Next
    <3> QED BY <3>1, <3>2, <3>3
  <2> QED BY <2>3, <2>4
<1>5. CASE Stop
  <2>1. Stream!End("error")
    BY <1>3, <1>5, StopInv DEF Stop, Stream!End, Stream!Ev, Ev
  <2> QED BY <2>1 DEF Stream!Next
<1>6. CASE RunTool \/ CheckChange
  <2>1. /\ pc = "tool" /\ proposed' = proposed /\ Active'
        /\ events' = Append(events, Ev("tool", Running.of))
    BY <1>6, RunToolInv, CheckInv DEF RunTool, CheckChange
  <2>2. Running.of \in Of
    BY <2>1, RunningCall DEF Busy
  <2>3. Stream!CallTool
    BY <1>3, <2>1, <2>2 DEF Stream!CallTool, Stream!Ev, Ev, Active
  <2> QED BY <2>3 DEF Stream!Next
<1>7. CASE SaveChange
  <2>1. /\ pc = "save" /\ Active' /\ events' = events
        /\ proposed' \in {proposed, proposed \cup {Running.of}}
    BY <1>7, SaveInv DEF SaveChange
  <2>2. CASE proposed' = proposed
    BY <1>1, <2>1, <2>2 DEF Active
  <2>3. CASE proposed' = proposed \cup {Running.of}
    <3>1. Running.of \in Of \ proposed
      BY <2>1, RunningCall, RunningIsNew DEF Busy
    <3>2. events # <<>> /\ events[Len(events)] = Ev("tool", Running.of)
      BY <2>1 DEF CardsOK
    <3>3. Stream!Propose
      BY <1>3, <2>1, <2>3, <3>1, <3>2 DEF Stream!Propose, Stream!Ev, Ev, Active
    <3> QED BY <3>3 DEF Stream!Next
  <2> QED BY <2>1, <2>2, <2>3
<1>8. CASE ShowChange
  <2>1. /\ pc = "card" /\ Active' /\ proposed' = proposed
        /\ events' = Append(events, Ev("proposal", Running.of))
        /\ Running.of \in proposed \ ShownOf(events)
    BY <1>8, ShowInv DEF ShowChange
  <2>2. Stream!Show
    BY <1>2, <2>1 DEF Stream!Show, Stream!Ev, Ev, Active
  <2> QED BY <2>2 DEF Stream!Next
<1>9. CASE Expire
  BY <1>1, <1>9 DEF Expire, Active
<1>10. CASE Crash
  <2>1. Stream!Break
    BY <1>10 DEF Crash, Active, Stream!Break
  <2> QED BY <2>1 DEF Stream!Next
<1>11. CASE UNCHANGED vars
  BY <1>1, <1>11 DEF vars, Active
<1> QED BY <1>4, <1>5, <1>6, <1>7, <1>8, <1>9, <1>10, <1>11 DEF Next, Run

(* The stream of every query ends with one last event or breaks off, and a *)
(* proposal that is saved is shown before anything else is said or the     *)
(* query ends (Run, runProposeChange).                                     *)
THEOREM StreamImplemented == Spec => ImplementsStream
<1>1. Init => Stream!Init
  BY DEF Init, Stream!Init, Active
<1>2. IInv /\ [Next]_vars => [Stream!Next]_(Stream!vars)
  BY StepImplements
<1> QED BY <1>1, <1>2, InvHolds, PTL DEF Spec, ImplementsStream, Stream!Spec

-----------------------------------------------------------------------------
(* What a stream of EventStream.tla keeps, step by step.                   *)
NoEnd == \A i \in 1 .. Len(events) : events[i].type \notin {"done", "error"}

LEMMA EventAppended ==
  ASSUME NEW log \in Seq(Event), NEW e \in Event
  PROVE  /\ Append(log, e) \in Seq(Event) /\ Len(Append(log, e)) = Len(log) + 1
         /\ Append(log, e)[Len(log) + 1] = e
         /\ \A i \in 1 .. Len(log) : Append(log, e)[i] = log[i]
BY AppendProperties

LEMMA CompleteAppend ==
  ASSUME events \in Seq(Event), StreamComplete, NoEnd, NEW e \in Event,
         events' = Append(events, e), e.type \notin {"done", "error"},
         e.type = "proposal" => e.of \notin Stream!Shown
  PROVE  StreamComplete' /\ NoEnd'
<1>1. /\ Len(events) \in Nat /\ Len(events') = Len(events) + 1
      /\ events'[Len(events) + 1] = e
      /\ \A i \in 1 .. Len(events) : events'[i] = events[i]
  BY EventAppended
<1>2. \A i \in 1 .. Len(events') : i \in 1 .. Len(events) \/ i = Len(events) + 1
  BY <1>1
<1>3. NoEnd'
  BY <1>1, <1>2 DEF NoEnd
<1>4. Stream!EndIsLast'
  BY <1>3 DEF NoEnd, Stream!EndIsLast
<1>5. ASSUME NEW i \in 1 .. Len(events), events[i].type = "proposal", events[i] = e
      PROVE  FALSE
  BY <1>5 DEF Stream!Shown
<1>6. Stream!ShownOnce'
  <2> SUFFICES ASSUME NEW i \in 1 .. Len(events'), NEW j \in 1 .. Len(events'),
                      events'[i].type = "proposal", events'[j] = events'[i]
               PROVE  i = j
    BY DEF Stream!ShownOnce
  <2>1. CASE i \in 1 .. Len(events) /\ j \in 1 .. Len(events)
    BY <1>1, <2>1 DEF StreamComplete, Stream!ShownOnce
  <2>2. CASE i \in 1 .. Len(events) /\ j = Len(events) + 1
    BY <1>1, <1>5, <2>2
  <2>3. CASE i = Len(events) + 1 /\ j \in 1 .. Len(events)
    BY <1>1, <1>5, <2>3
  <2> QED BY <1>2, <2>1, <2>2, <2>3
<1> QED BY <1>3, <1>4, <1>6 DEF StreamComplete

LEMMA CompleteEnd ==
  ASSUME events \in Seq(Event), events' \in Seq(Event), StreamComplete, NoEnd,
         Len(events') >= Len(events), \A i \in 1 .. Len(events) : events'[i] = events[i],
         \A i \in 1 .. Len(events') : i > Len(events) =>
           /\ events'[i].type # "proposal"
           /\ events'[i].type \in {"done", "error"} => i = Len(events'),
         ~ Active', proposed = Stream!Shown, proposed' = proposed
  PROVE  StreamComplete'
<1>1. Len(events) \in Nat /\ Len(events') \in Nat
  OBVIOUS
<1>2. \A i \in 1 .. Len(events') : i \in 1 .. Len(events) \/ i > Len(events)
  BY <1>1
<1>3. \A i \in 1 .. Len(events') : events'[i].type = "proposal" =>
        i \in 1 .. Len(events) /\ events'[i] = events[i]
  BY <1>2
<1>4. \A i \in 1 .. Len(events) : i \in 1 .. Len(events') /\ events'[i] = events[i]
  BY <1>1
<1>5. Stream!Shown' = Stream!Shown
  <2>1. \A x : x \in Stream!Shown' <=>
               \E i \in 1 .. Len(events') : events'[i].type = "proposal" /\ x = events'[i].of
    BY DEF Stream!Shown
  <2>2. \A x : x \in Stream!Shown <=>
               \E i \in 1 .. Len(events) : events[i].type = "proposal" /\ x = events[i].of
    BY DEF Stream!Shown
  <2>3. \A x : x \in Stream!Shown' <=> x \in Stream!Shown
    BY <1>3, <1>4, <2>1, <2>2
  <2> QED BY <2>3 DEF Stream!Shown
<1>6. Stream!EndIsLast'
  BY <1>2, <1>5 DEF NoEnd, Stream!EndIsLast
<1>7. Stream!ShownOnce'
  <2> SUFFICES ASSUME NEW i \in 1 .. Len(events'), NEW j \in 1 .. Len(events'),
                      events'[i].type = "proposal", events'[j] = events'[i]
               PROVE  i = j
    BY DEF Stream!ShownOnce
  <2>1. i \in 1 .. Len(events) /\ j \in 1 .. Len(events)
    BY <1>3
  <2> QED BY <1>3, <2>1 DEF StreamComplete, Stream!ShownOnce
<1> QED BY <1>6, <1>7 DEF StreamComplete

LEMMA CompleteStep ==
  ASSUME TypeOK, TypeOK', StreamComplete, [Stream!Next]_(Stream!vars)
  PROVE  StreamComplete'
<1>1. events \in Seq(Event) /\ events' \in Seq(Event) /\ Len(events) \in Nat
  BY DEF TypeOK
<1>2. Active => NoEnd
  BY DEF StreamComplete, Stream!EndIsLast, NoEnd
<1>3. ASSUME NEW type \in {"text", "tool", "proposal"}, NEW of \in Of, Active,
             events' = Append(events, Ev(type, of)),
             type = "proposal" => of \notin Stream!Shown
      PROVE  StreamComplete'
  <2> DEFINE e == Ev(type, of)
  <2>1. e \in Event /\ e.type = type /\ e.of = of
    BY DEF Ev, Event
  <2> HIDE DEF e
  <2>2. events' = Append(events, e) /\ e.type \notin {"done", "error"}
        /\ (e.type = "proposal" => e.of \notin Stream!Shown)
    BY <1>3, <2>1 DEF e
  <2> QED BY <1>1, <1>2, <1>3, <2>1, <2>2, CompleteAppend
<1>4. NoOf \in Of
  BY NoOfIsOf
<1>5. CASE Stream!Say
  BY <1>3, <1>4, <1>5 DEF Stream!Say, Stream!Quiet, Stream!Ev, Ev
<1>6. CASE Stream!CallTool
  <2>1. PICK of \in Of : events' = Append(events, Ev("tool", of))
    BY <1>6 DEF Stream!CallTool, Stream!Ev, Ev
  <2> QED BY <1>3, <1>6, <2>1 DEF Stream!CallTool, Stream!Quiet
<1>7. CASE Stream!Show
  <2>1. PICK of \in proposed \ Stream!Shown : events' = Append(events, Ev("proposal", of))
    BY <1>7 DEF Stream!Show, Stream!Ev, Ev
  <2>2. of \in Of /\ of \notin Stream!Shown
    BY DEF TypeOK
  <2> QED BY <1>3, <1>7, <2>1, <2>2 DEF Stream!Show
<1>8. ASSUME NEW type \in {"done", "error"}, Stream!End(type)
      PROVE  StreamComplete'
  <2> DEFINE text == Ev("text", NoOf)
             end  == Ev(type, NoOf)
  <2>1. /\ Active /\ proposed = Stream!Shown /\ ~ Active' /\ proposed' = proposed
        /\ events' \in {events \o << end >>, events \o << text, end >>}
    BY <1>8 DEF Stream!End, Stream!Quiet, Stream!Ev, Ev
  <2>2. /\ text \in Event /\ text.type = "text" /\ end \in Event /\ end.type = type
    BY <1>4 DEF Ev, Event
  <2> HIDE DEF text, end
  <2>3. PICK tail \in Seq(Event) :
          /\ events' = events \o tail /\ Len(tail) \in {1, 2} /\ tail[Len(tail)] = end
          /\ Len(tail) = 2 => tail[1] = text
    <3>1. CASE events' = events \o << end >>
      <4> DEFINE one == << end >>
      <4>1. one \in Seq(Event) /\ Len(one) = 1 /\ one[1] = end
        BY <2>2
      <4>2. events' = events \o one
        BY <3>1
      <4> HIDE DEF one
      <4>3. /\ one \in Seq(Event) /\ Len(one) \in {1, 2} /\ one[Len(one)] = end
            /\ Len(one) = 2 => one[1] = text
        BY <4>1
      <4> QED BY ONLY <4>2, <4>3
    <3>2. CASE events' = events \o << text, end >>
      <4>1. /\ << text, end >> \in Seq(Event) /\ Len(<< text, end >>) = 2
            /\ << text, end >>[1] = text /\ << text, end >>[2] = end
        BY <2>2
      <4> QED BY <3>2, <4>1
    <3> QED BY <2>1, <3>1, <3>2
  <2>4. /\ Len(events') = Len(events) + Len(tail)
        /\ \A i \in 1 .. Len(events) + Len(tail) :
             events'[i] = IF i <= Len(events) THEN events[i] ELSE tail[i - Len(events)]
    BY <1>1, <2>3, ConcatProperties
  <2>5. Len(events') >= Len(events) /\ \A i \in 1 .. Len(events) : events'[i] = events[i]
    BY <1>1, <2>3, <2>4
  <2>6. ASSUME NEW i \in 1 .. Len(events'), i > Len(events)
        PROVE  /\ events'[i].type # "proposal"
               /\ events'[i].type \in {"done", "error"} => i = Len(events')
    <3>1. events'[i] = tail[i - Len(events)]
      BY <1>1, <2>3, <2>4, <2>6
    <3>2. CASE i = Len(events')
      BY <1>1, <2>2, <2>3, <2>4, <3>1, <3>2
    <3>3. CASE i # Len(events')
      <4>1. Len(tail) = 2 /\ i - Len(events) = 1
        BY <1>1, <2>3, <2>4, <2>6, <3>3
      <4> QED BY <2>2, <2>3, <3>1, <4>1
    <3> QED BY <3>2, <3>3
  <2> QED BY <1>1, <1>2, <2>1, <2>5, <2>6, CompleteEnd
<1>9. CASE Stream!Propose \/ Stream!Break \/ UNCHANGED Stream!vars
  <2>1. /\ events' = events
        /\ Active \/ (Active' = Active /\ proposed' = proposed)
    BY <1>9 DEF Stream!Propose, Stream!Quiet, Stream!Break, Stream!vars
  <2>2. Stream!ShownOnce'
    BY <2>1 DEF StreamComplete, Stream!ShownOnce
  <2>3. Stream!EndIsLast'
    BY <1>2, <2>1 DEF NoEnd, StreamComplete, Stream!EndIsLast, Stream!Shown
  <2> QED BY <2>2, <2>3 DEF StreamComplete
<1> QED BY <1>5, <1>6, <1>7, <1>8, <1>9 DEF Stream!Next

(* A last event closes the stream and leaves no saved proposal unshown,    *)
(* and each is shown once: a fact of every implementation of EventStream   *)
(* (Run, runProposeChange).                                                *)
THEOREM NothingUnshown == Spec => []StreamComplete
<1>1. Stream!Init => StreamComplete
  BY DEF Stream!Init, StreamComplete, Stream!EndIsLast, Stream!ShownOnce
<1>2. TypeOK /\ TypeOK' /\ StreamComplete /\ [Stream!Next]_(Stream!vars) => StreamComplete'
  BY CompleteStep
<1> QED BY <1>1, <1>2, StreamImplemented, TypesCorrect, PTL
        DEF ImplementsStream, Stream!Spec

-----------------------------------------------------------------------------
(* Requests on the wire.                                                   *)

BlockRec == [type : {"call", "result"}, id : Of, name : Tools \cup {NoName}, of : Of,
             error : BOOLEAN]
WireItem == [role : {"user", "assistant", "tool", "system"}, blocks : Seq(BlockRec)]

(* What a message becomes, and what comes before all of them.              *)
ItemsOf(kind, m) ==
  CASE kind = "anthropic" -> AnthropicItems(m)
    [] kind = "openai"    -> OpenAIItems(m)
    [] kind = "ollama"    -> OllamaItems(m)

ResultRole(kind) == IF kind = "anthropic" THEN "user" ELSE "tool"

LEMMA ItemIsWire ==
  ASSUME NEW role \in {"user", "assistant", "tool", "system"}, NEW blocks \in Seq(BlockRec)
  PROVE  /\ Item(role, blocks) \in WireItem
         /\ Item(role, blocks).role = role /\ Item(role, blocks).blocks = blocks
BY DEF Item, WireItem

LEMMA OneItem ==
  ASSUME NEW item \in WireItem
  PROVE  << item >> \in Seq(WireItem) /\ Len(<< item >>) = 1 /\ << item >>[1] = item
OBVIOUS

LEMMA CallBlocksAre ==
  ASSUME NEW m \in Message, NEW withId \in BOOLEAN
  PROVE  /\ CallBlocks(m, withId) \in Seq(BlockRec)
         /\ Len(CallBlocks(m, withId)) = Len(m.calls)
         /\ \A j \in 1 .. Len(m.calls) :
              /\ CallBlocks(m, withId)[j].of = m.calls[j].of
              /\ CallBlocks(m, withId)[j].name = m.calls[j].name
              /\ withId => CallBlocks(m, withId)[j].id = m.calls[j].id
<1>1. /\ m.calls \in Seq(Call) /\ Len(m.calls) \in Nat
      /\ DOMAIN m.calls = 1 .. Len(m.calls)
  BY DEF Message
<1> DEFINE block(j) == Block("call", IF withId THEN m.calls[j].id ELSE NoId,
                             m.calls[j].name, m.calls[j].of, FALSE)
<1>2. ASSUME NEW j \in 1 .. Len(m.calls)
      PROVE  /\ block(j) \in BlockRec
             /\ block(j).of = m.calls[j].of /\ block(j).name = m.calls[j].name
             /\ withId => block(j).id = m.calls[j].id
  <2>1. m.calls[j] \in Call
    BY <1>1
  <2>2. NoId \in Of
    BY NoOfIsOf DEF NoId, NoOf
  <2> QED BY <2>1, <2>2 DEF Call, Block, BlockRec
<1>3. CallBlocks(m, withId) = [j \in 1 .. Len(m.calls) |-> block(j)]
  BY <1>1 DEF CallBlocks
<1> HIDE DEF block
<1>4. CallBlocks(m, withId) \in [1 .. Len(m.calls) -> BlockRec]
  BY <1>2, <1>3
<1> QED BY <1>1, <1>2, <1>3, <1>4, ListOf

(* What a result becomes.                                                  *)
ResultBlock(kind, r) ==
  Block("result", IF kind = "ollama" THEN NoId ELSE r.id,
        IF kind = "ollama" THEN r.name ELSE NoName, r.of, r.error)

LEMMA ResultBlockIs ==
  ASSUME NEW kind, NEW r \in Result
  PROVE  /\ ResultBlock(kind, r) \in BlockRec
         /\ ResultBlock(kind, r).of = r.of /\ ResultBlock(kind, r).error = r.error
         /\ kind = "ollama" => ResultBlock(kind, r).name = r.name
         /\ kind # "ollama" => ResultBlock(kind, r).id = r.id
<1>1. NoId \in Of
  BY NoOfIsOf DEF NoId, NoOf
<1> QED BY <1>1 DEF ResultBlock, Block, BlockRec, Result

ResultBlocks(kind, rs) == [j \in 1 .. Len(rs) |-> ResultBlock(kind, rs[j])]

LEMMA ResultBlocksAre ==
  ASSUME NEW kind, NEW rs \in Seq(Result)
  PROVE  /\ ResultBlocks(kind, rs) \in Seq(BlockRec)
         /\ Len(ResultBlocks(kind, rs)) = Len(rs)
         /\ \A j \in 1 .. Len(rs) : ResultBlocks(kind, rs)[j] = ResultBlock(kind, rs[j])
<1>1. Len(rs) \in Nat /\ \A j \in 1 .. Len(rs) : rs[j] \in Result
  OBVIOUS
<1>2. \A j \in 1 .. Len(rs) : ResultBlock(kind, rs[j]) \in BlockRec
  BY <1>1, ResultBlockIs
<1>3. ResultBlocks(kind, rs) \in [1 .. Len(rs) -> BlockRec]
  BY <1>2 DEF ResultBlocks
<1> QED BY <1>1, <1>3, ListOf DEF ResultBlocks

(* The results of a round, with each provider.                             *)
LEMMA ResultItems ==
  ASSUME NEW kind \in Kinds, NEW m \in Message, NEW rs, NEW items,
         rs = m.results, rs # <<>>, items = ItemsOf(kind, m)
  PROVE  /\ items \in Seq(WireItem)
         /\ kind = "anthropic" => items = << Item("user", ResultBlocks(kind, rs)) >>
         /\ kind # "anthropic" =>
              /\ Len(items) = Len(rs)
              /\ \A j \in 1 .. Len(rs) :
                   items[j] = Item("tool", << ResultBlock(kind, rs[j]) >>)
<1>1. rs \in Seq(Result) /\ Len(rs) \in Nat /\ DOMAIN rs = 1 .. Len(rs)
  BY DEF Message
<1>2. CASE kind = "anthropic"
  <2>1. items = AnthropicItems(m)
    BY <1>2 DEF ItemsOf
  <2>2. items = << Item("user", [j \in DOMAIN rs |->
                     Block("result", rs[j].id, NoName, rs[j].of, rs[j].error)]) >>
    BY <1>1, <2>1 DEF AnthropicItems
  <2>3. [j \in DOMAIN rs |-> Block("result", rs[j].id, NoName, rs[j].of, rs[j].error)]
          = ResultBlocks(kind, rs)
    BY <1>1, <1>2 DEF ResultBlocks, ResultBlock
  <2>4. items = << Item("user", ResultBlocks(kind, rs)) >>
    BY <2>2, <2>3
  <2>5. Item("user", ResultBlocks(kind, rs)) \in WireItem
    BY <1>1, ResultBlocksAre, ItemIsWire
  <2> QED BY <1>2, <2>4, <2>5, OneItem
<1>3. CASE kind # "anthropic"
  <2>1. items = IF kind = "openai" THEN OpenAIItems(m) ELSE OllamaItems(m)
    BY <1>3 DEF ItemsOf, Kinds
  <2>2. items = [j \in 1 .. Len(rs) |-> Item("tool", << ResultBlock(kind, rs[j]) >>)]
    <3>1. CASE kind = "openai"
      BY <1>1, <2>1, <3>1 DEF OpenAIItems, ResultBlock
    <3>2. CASE kind = "ollama"
      BY <1>1, <2>1, <3>2 DEF OllamaItems, ResultBlock
    <3> QED BY <1>3, <3>1, <3>2 DEF Kinds
  <2>3. \A j \in 1 .. Len(rs) : Item("tool", << ResultBlock(kind, rs[j]) >>) \in WireItem
    <3> TAKE j \in 1 .. Len(rs)
    <3>1. ResultBlock(kind, rs[j]) \in BlockRec
      BY <1>1, ResultBlockIs
    <3>2. << ResultBlock(kind, rs[j]) >> \in Seq(BlockRec)
      BY <3>1
    <3> QED BY <3>2, ItemIsWire
  <2>4. items \in [1 .. Len(rs) -> WireItem]
    BY <2>2, <2>3
  <2> QED BY <1>1, <1>3, <2>2, <2>4, ListOf
<1> QED BY <1>2, <1>3

(* The same, said of the message and its translation.                      *)
LEMMA ResultItemsOf ==
  ASSUME NEW kind \in Kinds, NEW m \in Message, m.results # <<>>
  PROVE  /\ ItemsOf(kind, m) \in Seq(WireItem)
         /\ kind = "anthropic" =>
              ItemsOf(kind, m) = << Item("user", ResultBlocks(kind, m.results)) >>
         /\ kind # "anthropic" =>
              /\ Len(ItemsOf(kind, m)) = Len(m.results)
              /\ \A j \in 1 .. Len(m.results) :
                   ItemsOf(kind, m)[j] = Item("tool", << ResultBlock(kind, m.results[j]) >>)
BY ResultItems

(* The calls of a round, and plain text.                                   *)
LEMMA CallItems ==
  ASSUME NEW kind \in Kinds, NEW m \in Message, m.results = <<>>, m.calls # <<>>
  PROVE  ItemsOf(kind, m) = << Item("assistant", CallBlocks(m, kind # "ollama")) >>
BY DEF ItemsOf, Kinds, AnthropicItems, OpenAIItems, OllamaItems

LEMMA TextItems ==
  ASSUME NEW kind \in Kinds, NEW m \in Message, m.results = <<>>, m.calls = <<>>
  PROVE  ItemsOf(kind, m) = << Item(m.role, <<>>) >>
BY DEF ItemsOf, Kinds, AnthropicItems, OpenAIItems, OllamaItems

LEMMA ItemsType ==
  ASSUME NEW kind \in Kinds, NEW m \in Message
  PROVE  ItemsOf(kind, m) \in Seq(WireItem)
<1>1. CASE m.results # <<>>
  BY <1>1, ResultItems
<1>2. CASE m.results = <<>> /\ m.calls # <<>>
  <2>1. Item("assistant", CallBlocks(m, kind # "ollama")) \in WireItem
    BY CallBlocksAre, ItemIsWire
  <2> QED BY <1>2, <2>1, CallItems, OneItem
<1>3. CASE m.results = <<>> /\ m.calls = <<>>
  <2>1. m.role \in {"user", "assistant"} /\ <<>> \in Seq(BlockRec)
    BY DEF Message
  <2>2. Item(m.role, <<>>) \in WireItem
    BY <2>1, ItemIsWire
  <2> QED BY <1>3, <2>2, TextItems, OneItem
<1> QED BY <1>1, <1>2, <1>3

(* A request grows by what the new message becomes.                        *)
LEMMA WireGrows ==
  ASSUME NEW kind \in Kinds, NEW msgs \in Seq(Message), NEW m \in Message
  PROVE  /\ convertMessages(kind, msgs) \in Seq(WireItem)
         /\ convertMessages(kind, Append(msgs, m))
              = convertMessages(kind, msgs) \o ItemsOf(kind, m)
<1> DEFINE more == Append(msgs, m)
           lists(s) == [i \in 1 .. Len(s) |-> ItemsOf(kind, s[i])]
           first == IF kind = "anthropic" THEN <<>> ELSE << Item("system", <<>>) >>
<1>1. /\ more \in Seq(Message) /\ Len(more) = Len(msgs) + 1 /\ Len(msgs) \in Nat
      /\ \A i \in 1 .. Len(msgs) : more[i] = msgs[i]
      /\ more[Len(msgs) + 1] = m
  OBVIOUS
<1> HIDE DEF more
<1>2. \A s \in Seq(Message) :
        lists(s) \in Seq(Seq(WireItem)) /\ Len(lists(s)) = Len(s)
  <2> TAKE s \in Seq(Message)
  <2>1. Len(s) \in Nat /\ \A i \in 1 .. Len(s) : s[i] \in Message
    OBVIOUS
  <2>2. lists(s) \in [1 .. Len(s) -> Seq(WireItem)]
    BY <2>1, ItemsType
  <2> QED BY <2>1, <2>2, ListOf
<1>3. \A s \in Seq(Message) : convertMessages(kind, s) = first \o FlattenSeq(lists(s))
  <2> TAKE s \in Seq(Message)
  <2>1. DOMAIN s = 1 .. Len(s)
    OBVIOUS
  <2>2. CASE kind = "anthropic"
    <3>1. [i \in DOMAIN s |-> AnthropicItems(s[i])] = lists(s)
      BY <2>1, <2>2 DEF ItemsOf
    <3>2. FlattenSeq(lists(s)) \in Seq(WireItem)
      BY <1>2, FlattenAppend, EmptySeq
    <3> HIDE DEF lists
    <3>3. convertMessages(kind, s) = FlattenSeq(lists(s))
      BY <2>2, <3>1 DEF convertMessages
    <3> QED BY <2>2, <3>2, <3>3, ConcatEmptySeq
  <2>3. CASE kind = "openai"
    <3>1. [i \in DOMAIN s |-> OpenAIItems(s[i])] = lists(s)
      BY <2>1, <2>3 DEF ItemsOf
    <3> HIDE DEF lists
    <3> QED BY <2>3, <3>1 DEF convertMessages
  <2>4. CASE kind = "ollama"
    <3>1. [i \in DOMAIN s |-> OllamaItems(s[i])] = lists(s)
      BY <2>1, <2>4 DEF ItemsOf
    <3> HIDE DEF lists
    <3> QED BY <2>4, <3>1 DEF convertMessages
  <2> QED BY <2>2, <2>3, <2>4 DEF Kinds
<1>4. lists(more) = Append(lists(msgs), ItemsOf(kind, m))
  <2> DEFINE old == lists(msgs)
             item == ItemsOf(kind, m)
  <2>1. /\ Append(old, item) \in Seq(Seq(WireItem)) /\ lists(more) \in Seq(Seq(WireItem))
        /\ Len(Append(old, item)) = Len(msgs) + 1 /\ Len(lists(more)) = Len(msgs) + 1
    <3>1. old \in Seq(Seq(WireItem)) /\ Len(old) = Len(msgs) /\ item \in Seq(WireItem)
      BY <1>2, ItemsType
    <3>2. lists(more) \in Seq(Seq(WireItem)) /\ Len(lists(more)) = Len(more)
      BY <1>1, <1>2
    <3> HIDE DEF old, item, lists
    <3>3. Append(old, item) \in Seq(Seq(WireItem)) /\ Len(Append(old, item)) = Len(old) + 1
      BY <3>1, AppendProperties
    <3> QED BY <1>1, <3>1, <3>2, <3>3
  <2>2. ASSUME NEW i \in 1 .. Len(msgs) + 1
        PROVE  Append(old, item)[i] = lists(more)[i]
    <3>1. lists(more)[i] = ItemsOf(kind, more[i])
      BY <1>1
    <3>2. CASE i = Len(msgs) + 1
      <4>1. Append(old, item)[i] = item
        BY <1>1, <1>2, <3>2
      <4> QED BY <1>1, <3>1, <3>2, <4>1
    <3>3. CASE i \in 1 .. Len(msgs)
      <4>1. old[i] = ItemsOf(kind, msgs[i])
        BY <3>3
      <4>2. Append(old, item)[i] = old[i]
        <5>1. old \in Seq(Seq(WireItem)) /\ Len(old) = Len(msgs)
          BY <1>2
        <5> HIDE DEF old, item
        <5> QED BY <3>3, <5>1
      <4> HIDE DEF old, item, lists
      <4> QED BY <1>1, <3>1, <3>3, <4>1, <4>2
    <3> QED BY <1>1, <3>2, <3>3
  <2> HIDE DEF old, item, lists
  <2> QED BY <1>1, <2>1, <2>2, SeqEqual DEF old, item
<1>5. /\ FlattenSeq(lists(msgs)) \in Seq(WireItem)
      /\ FlattenSeq(lists(more)) = FlattenSeq(lists(msgs)) \o ItemsOf(kind, m)
  <2>1. lists(msgs) \in Seq(Seq(WireItem)) /\ ItemsOf(kind, m) \in Seq(WireItem)
    BY <1>2, ItemsType
  <2> HIDE DEF lists
  <2> QED BY <1>4, <2>1, FlattenAppend
<1>6. first \in Seq(WireItem)
  <2>1. Item("system", <<>>) \in WireItem
    BY EmptySeq, ItemIsWire
  <2> QED BY <2>1, OneItem, EmptySeq
<1> HIDE DEF lists, first
<1>7. first \o FlattenSeq(lists(msgs)) \in Seq(WireItem)
  BY <1>5, <1>6, ConcatProperties
<1>8. (first \o FlattenSeq(lists(msgs))) \o ItemsOf(kind, m)
        = first \o (FlattenSeq(lists(msgs)) \o ItemsOf(kind, m))
  <2>1. Associative(Seq(WireItem))
    BY Regroup
  <2> QED BY <1>5, <1>6, <2>1, ItemsType DEF Associative
<1> QED BY <1>1, <1>3, <1>5, <1>7, <1>8 DEF more

-----------------------------------------------------------------------------
(* How the service reads it: where the results of item p may end.          *)
Ends(kind, wire, p) ==
  {k \in p .. Len(wire) :
     /\ \A i \in p + 1 .. k : wire[i].role = ResultRole(kind)
     /\ kind = "anthropic" => k <= p + 1}

LEMMA FollowingIs ==
  ASSUME NEW kind, NEW wire \in Seq(WireItem), NEW p \in 1 .. Len(wire),
         NEW k \in Ends(kind, wire, p), \A l \in Ends(kind, wire, p) : l <= k
  PROVE  Following(kind, wire, p) = FlattenSeq([i \in 1 .. k - p |-> wire[p + i].blocks])
<1> DEFINE last == CHOOSE l \in Ends(kind, wire, p) : \A n \in Ends(kind, wire, p) : n <= l
<1>1. Following(kind, wire, p)
        = FlattenSeq([i \in 1 .. last - p |-> wire[p + i].blocks])
  BY DEF Following, Ends, ResultRole
<1>2. \A l \in Ends(kind, wire, p) : l \in Int
  BY DEF Ends
<1>3. last = k
  <2>1. last \in Ends(kind, wire, p) /\ \A n \in Ends(kind, wire, p) : n <= last
    OBVIOUS
  <2> HIDE DEF last
  <2>2. last <= k /\ k <= last
    BY <2>1
  <2> QED BY <1>2, <2>1, <2>2
<1> QED BY <1>1, <1>3

LEMMA LastEnd ==
  ASSUME NEW kind, NEW wire \in Seq(WireItem), NEW p \in 1 .. Len(wire)
  PROVE  \E k \in Ends(kind, wire, p) : \A l \in Ends(kind, wire, p) : l <= k
<1> DEFINE T == {n \in Nat : Len(wire) - n \in Ends(kind, wire, p)}
<1>1. Len(wire) \in Nat
  OBVIOUS
<1>2. \A k \in Ends(kind, wire, p) : k \in Nat /\ k <= Len(wire)
  BY <1>1 DEF Ends
<1>3. p \in Ends(kind, wire, p)
  BY <1>1 DEF Ends
<1>4. \A k \in Ends(kind, wire, p) :
        /\ Len(wire) - k \in T /\ Len(wire) - (Len(wire) - k) = k
  BY <1>1, <1>2
<1>5. PICK m \in T : \A n \in T : m <= n
  BY <1>3, <1>4, Smallest
<1>6. Len(wire) - m \in Ends(kind, wire, p)
  OBVIOUS
<1>7. \A l \in Ends(kind, wire, p) : m <= Len(wire) - l
  BY <1>4, <1>5
<1> QED BY <1>1, <1>2, <1>6, <1>7

(* Calls that are sent later do not change what earlier ones got.          *)
LEMMA FollowingEarlier ==
  ASSUME NEW kind \in Kinds, NEW wire \in Seq(WireItem), NEW more \in Seq(WireItem),
         Len(wire) < Len(more), \A i \in 1 .. Len(wire) : more[i] = wire[i],
         more[Len(wire) + 1].role = "assistant", NEW p \in 1 .. Len(wire)
  PROVE  Following(kind, more, p) = Following(kind, wire, p)
<1>1. Len(wire) \in Nat /\ Len(more) \in Nat /\ p \in 1 .. Len(more)
  OBVIOUS
<1>2. ResultRole(kind) # "assistant"
  BY DEF ResultRole
<1>3. Ends(kind, more, p) = Ends(kind, wire, p)
  <2>1. ASSUME NEW k \in Ends(kind, more, p)
        PROVE  k <= Len(wire)
    <3>1. k \in Int /\ \A i \in p + 1 .. k : more[i].role = ResultRole(kind)
      BY DEF Ends
    <3>2. Len(wire) + 1 \notin p + 1 .. k
      BY <1>2, <3>1
    <3> QED BY <1>1, <3>1, <3>2
  <2>2. \A k \in p .. Len(wire) : \A i \in p + 1 .. k : more[i] = wire[i]
    BY <1>1
  <2>3. \A k \in Ends(kind, more, p) : k \in Ends(kind, wire, p)
    <3> TAKE k \in Ends(kind, more, p)
    <3>1. k \in p .. Len(wire)
      BY <1>1, <2>1 DEF Ends
    <3>2. \A i \in p + 1 .. k : more[i] = wire[i]
      BY <2>2, <3>1
    <3> QED BY <3>1, <3>2 DEF Ends
  <2>4. \A k \in Ends(kind, wire, p) : k \in Ends(kind, more, p)
    <3> TAKE k \in Ends(kind, wire, p)
    <3>1. k \in p .. Len(wire) /\ k \in p .. Len(more)
      BY <1>1 DEF Ends
    <3>2. \A i \in p + 1 .. k : more[i] = wire[i]
      BY <2>2, <3>1
    <3> QED BY <3>1, <3>2 DEF Ends
  <2> QED BY <2>3, <2>4
<1>4. PICK k \in Ends(kind, wire, p) : \A l \in Ends(kind, wire, p) : l <= k
  BY LastEnd
<1>5. k \in p .. Len(wire)
  BY DEF Ends
<1>6. [i \in 1 .. k - p |-> more[p + i].blocks] = [i \in 1 .. k - p |-> wire[p + i].blocks]
  <2>1. \A i \in 1 .. k - p : more[p + i] = wire[p + i]
    BY <1>1, <1>5
  <2> QED BY <2>1
<1>7. Following(kind, more, p) = FlattenSeq([i \in 1 .. k - p |-> more[p + i].blocks])
  BY <1>1, <1>3, <1>4, FollowingIs
<1>8. Following(kind, wire, p) = FlattenSeq([i \in 1 .. k - p |-> wire[p + i].blocks])
  BY <1>4, FollowingIs
<1> QED BY <1>6, <1>7, <1>8

(* The results at the end are those of the calls before them.              *)
LEMMA FollowingLast ==
  ASSUME NEW kind \in Kinds, NEW wire \in Seq(WireItem), NEW p \in 1 .. Len(wire),
         \A i \in p + 1 .. Len(wire) : wire[i].role = ResultRole(kind),
         kind = "anthropic" => Len(wire) <= p + 1
  PROVE  Following(kind, wire, p)
           = FlattenSeq([i \in 1 .. Len(wire) - p |-> wire[p + i].blocks])
<1>1. Len(wire) \in Nat
  OBVIOUS
<1>2. Len(wire) \in Ends(kind, wire, p) /\ \A l \in Ends(kind, wire, p) : l <= Len(wire)
  BY <1>1 DEF Ends
<1> QED BY <1>2, FollowingIs

LEMMA ResultsFollow ==
  ASSUME NEW kind \in Kinds, NEW rs \in Seq(Result), rs # <<>>, NEW items,
         items = ItemsOf(kind, ResultsTurn(rs)),
         NEW whole \in Seq(WireItem), NEW p \in 1 .. Len(whole),
         Len(whole) = p + Len(items),
         \A j \in 1 .. Len(items) : whole[p + j] = items[j]
  PROVE  /\ Following(kind, whole, p) = ResultBlocks(kind, rs)
         /\ \A i \in p + 1 .. Len(whole) : whole[i].role # "assistant"
<1>1. ResultsTurn(rs) \in Message /\ ResultsTurn(rs).results = rs
  BY DEF ResultsTurn, Message
<1>2. /\ items \in Seq(WireItem)
      /\ kind = "anthropic" => items = << Item("user", ResultBlocks(kind, rs)) >>
      /\ kind # "anthropic" =>
           /\ Len(items) = Len(rs)
           /\ \A j \in 1 .. Len(rs) :
                items[j] = Item("tool", << ResultBlock(kind, rs[j]) >>)
  <2> DEFINE m == ResultsTurn(rs)
  <2>1. m \in Message /\ rs = m.results /\ items = ItemsOf(kind, m)
    BY <1>1
  <2> HIDE DEF m
  <2>2. m.results # <<>>
    BY <2>1
  <2> QED BY ONLY kind \in Kinds, <2>1, <2>2, ResultItemsOf
<1>3. Len(rs) \in Nat /\ \A j \in 1 .. Len(rs) : rs[j] \in Result
  OBVIOUS
<1>4. Len(items) \in Nat /\ Len(whole) \in Nat
  BY <1>2
<1>5. \A j \in 1 .. Len(items) :
        /\ items[j].role = ResultRole(kind)
        /\ kind = "anthropic" => items[j].blocks = ResultBlocks(kind, rs) /\ Len(items) = 1
        /\ kind # "anthropic" => items[j].blocks = << ResultBlock(kind, rs[j]) >>
  <2> TAKE j \in 1 .. Len(items)
  <2>1. CASE kind = "anthropic"
    <3>1. Len(items) = 1 /\ items[1] = Item("user", ResultBlocks(kind, rs))
      BY <1>2, <2>1
    <3> QED BY <2>1, <3>1 DEF Item, ResultRole
  <2>2. CASE kind # "anthropic"
    <3>1. items[j] = Item("tool", << ResultBlock(kind, rs[j]) >>)
      BY <1>2, <2>2
    <3> QED BY <2>2, <3>1 DEF Item, ResultRole
  <2> QED BY <2>1, <2>2
<1>6. kind = "anthropic" => Len(items) = 1
  BY <1>2
<1>7. ASSUME NEW i \in p + 1 .. Len(whole)
      PROVE  whole[i].role = ResultRole(kind)
  <2>1. i - p \in 1 .. Len(items) /\ p + (i - p) = i
    BY <1>4
  <2> QED BY <1>4, <1>5, <2>1
<1>8. Following(kind, whole, p)
        = FlattenSeq([i \in 1 .. Len(whole) - p |-> whole[p + i].blocks])
  <2>1. kind = "anthropic" => Len(whole) <= p + 1
    BY <1>4, <1>6
  <2> QED BY <1>7, <2>1, FollowingLast
<1> DEFINE lists == [i \in 1 .. Len(items) |-> items[i].blocks]
<1>9. Following(kind, whole, p) = FlattenSeq(lists)
  <2>1. Len(whole) - p = Len(items)
    BY <1>4
  <2> QED BY <1>4, <1>8, <2>1
<1>10. FlattenSeq(lists) = ResultBlocks(kind, rs)
  <2> DEFINE bs == ResultBlocks(kind, rs)
  <2>1. /\ bs \in Seq(BlockRec) /\ Len(bs) = Len(rs)
        /\ \A j \in 1 .. Len(rs) : bs[j] = ResultBlock(kind, rs[j])
    BY ResultBlocksAre
  <2>2. CASE kind = "anthropic"
    <3>1. lists = << bs >>
      <4>1. Len(items) = 1 /\ items[1].blocks = bs
        <5>1. items = << Item("user", bs) >>
          BY <1>2, <2>2
        <5>2. Len(items) = 1 /\ items[1] = Item("user", bs)
          <6> HIDE DEF bs
          <6> QED BY <5>1
        <5> QED BY <5>2 DEF Item
      <4>2. lists \in [1 .. 1 -> Seq(BlockRec)] /\ lists[1] = bs
        BY <2>1, <4>1
      <4> HIDE DEF lists, bs
      <4>3. lists \in Seq(Seq(BlockRec)) /\ Len(lists) = 1
        BY ONLY <4>2, ListOf
      <4>4. /\ << bs >> \in Seq(Seq(BlockRec)) /\ Len(<< bs >>) = 1
            /\ << bs >>[1] = bs
        BY <2>1
      <4>5. \A i \in 1 .. Len(lists) : lists[i] = << bs >>[i]
        BY <4>2, <4>3, <4>4
      <4> QED BY <4>3, <4>4, <4>5, SeqEqual
    <3> HIDE DEF lists, bs
    <3> QED BY <2>1, <3>1, FlattenOne DEF bs
  <2>3. CASE kind # "anthropic"
    <3>1. Len(items) = Len(rs)
      BY <1>2, <2>3
    <3>2. \A j \in 1 .. Len(rs) : lists[j] = << bs[j] >> /\ bs[j] \in BlockRec
      BY ONLY kind # "anthropic", <1>3, <1>5, <2>1, <3>1, ResultBlockIs
    <3>3. lists \in [1 .. Len(rs) -> Seq(BlockRec)]
      <4>1. \A j \in 1 .. Len(rs) : items[j].blocks \in Seq(BlockRec)
        <5>1. \A j \in 1 .. Len(items) : items[j] \in WireItem
          BY <1>2
        <5> QED BY <3>1, <5>1 DEF WireItem
      <4> QED BY <3>1, <4>1
    <3> HIDE DEF lists, bs
    <3>4. lists \in Seq(Seq(BlockRec)) /\ Len(lists) = Len(rs) /\ DOMAIN lists = 1 .. Len(rs)
      BY <1>3, <3>3, ListOf
    <3>5. \A i \in DOMAIN lists : Len(lists[i]) = 1 /\ lists[i][1] = bs[i]
      <4> TAKE i \in DOMAIN lists
      <4>1. lists[i] = << bs[i] >>
        BY <3>2, <3>4
      <4> QED BY <4>1
    <3>6. /\ Len(FlattenSeq(lists)) = Len(rs)
          /\ \A i \in 1 .. Len(rs) : FlattenSeq(lists)[i] = bs[i]
      <4>1. \A i \in DOMAIN lists : Len(lists[i]) = 1
        BY <3>5
      <4>2. /\ Len(FlattenSeq(lists)) = Len(lists)
            /\ \A i \in DOMAIN lists : FlattenSeq(lists)[i] = lists[i][1]
        BY ONLY <3>4, <4>1, FlattenSingles
      <4> QED BY ONLY <3>4, <3>5, <4>2
    <3>7. FlattenSeq(lists) \in Seq(BlockRec)
      BY <3>4, FlattenAppend, EmptySeq
    <3> QED BY <1>3, <2>1, <3>6, <3>7, SeqEqual DEF bs
  <2> QED BY <2>2, <2>3
<1>11. \A i \in p + 1 .. Len(whole) : whole[i].role # "assistant"
  BY <1>7 DEF ResultRole
<1> QED BY <1>9, <1>10, <1>11

-----------------------------------------------------------------------------
(* Every call with its result.                                             *)
Paired(kind, cs, rs, gone) ==
  /\ Len(rs) = Len(cs)
  /\ \A j \in DOMAIN cs : \E i \in DOMAIN rs :
       /\ Matching(kind, cs, rs, j) = {i}
       /\ rs[i].of = cs[j].of
       /\ rs[i].error = (cs[j].of \in gone)

LEMMA UnderstoodIs ==
  ASSUME NEW kind, NEW wire, NEW gone
  PROVE  Understood(kind, wire, gone) <=>
           \A p \in DOMAIN wire : wire[p].role = "assistant" =>
             Paired(kind, wire[p].blocks, Following(kind, wire, p), gone)
BY DEF Understood, Paired

(* No call in a request is of a later round.                               *)
Told(wire, n) ==
  \A p \in DOMAIN wire : \A j \in DOMAIN wire[p].blocks : wire[p].blocks[j].of[1] <= n

(* What fails in a later round changes nothing.                            *)
LEMMA UnderstoodKept ==
  ASSUME NEW kind, NEW wire \in Seq(WireItem), NEW n \in Int, NEW gone, NEW more,
         Told(wire, n), Understood(kind, wire, gone),
         \A of : of[1] <= n => (of \in gone <=> of \in more)
  PROVE  Understood(kind, wire, more)
<1> SUFFICES ASSUME NEW p \in DOMAIN wire, wire[p].role = "assistant"
             PROVE  Paired(kind, wire[p].blocks, Following(kind, wire, p), more)
  BY UnderstoodIs
<1>1. Paired(kind, wire[p].blocks, Following(kind, wire, p), gone)
  BY UnderstoodIs
<1>2. \A j \in DOMAIN wire[p].blocks :
        (wire[p].blocks[j].of \in gone) = (wire[p].blocks[j].of \in more)
  BY DEF Told
<1> HIDE DEF Following
<1> QED BY <1>1, <1>2 DEF Paired

LEMMA PairedByPosition ==
  ASSUME NEW kind \in Kinds, NEW cs \in Seq(BlockRec), NEW rs \in Seq(BlockRec), NEW gone,
         Len(rs) = Len(cs),
         \A j \in 1 .. Len(cs) :
           /\ rs[j].of = cs[j].of
           /\ rs[j].error = (cs[j].of \in gone)
           /\ kind = "ollama" => rs[j].name = cs[j].name
           /\ kind # "ollama" => \A i \in 1 .. Len(cs) : rs[i].id = cs[j].id <=> i = j
  PROVE  Paired(kind, cs, rs, gone)
<1>1. DOMAIN cs = 1 .. Len(cs) /\ DOMAIN rs = 1 .. Len(cs)
  OBVIOUS
<1>2. \A j \in 1 .. Len(cs) : Matching(kind, cs, rs, j) = {j}
  BY <1>1 DEF Matching
<1> QED BY <1>1, <1>2 DEF Paired

LEMMA UnderstoodGrows ==
  ASSUME NEW kind \in Kinds, NEW wire \in Seq(WireItem), NEW m \in Message,
         NEW rs \in Seq(Result), NEW gone, rs # <<>>, Len(rs) = Len(m.calls),
         \A k \in 1 .. Len(rs) :
           /\ rs[k].id = m.calls[k].id /\ rs[k].name = m.calls[k].name
           /\ rs[k].of = m.calls[k].of /\ rs[k].error = (m.calls[k].of \in gone)
           /\ \A i \in 1 .. Len(rs) : m.calls[i].id = m.calls[k].id => i = k,
         Understood(kind, wire, gone), NEW asked, NEW whole,
         asked = Append(wire, Item("assistant", CallBlocks(m, kind # "ollama"))),
         whole = asked \o ItemsOf(kind, ResultsTurn(rs))
  PROVE  Understood(kind, whole, gone)
<1> DEFINE bs == CallBlocks(m, kind # "ollama")
           p == Len(wire) + 1
<1>1. /\ bs \in Seq(BlockRec) /\ Len(bs) = Len(rs) /\ Len(rs) \in Nat
      /\ \A j \in 1 .. Len(rs) :
           /\ bs[j].of = m.calls[j].of /\ bs[j].name = m.calls[j].name
           /\ kind # "ollama" => bs[j].id = m.calls[j].id
  <2>1. (kind # "ollama") \in BOOLEAN
    OBVIOUS
  <2>2. bs \in Seq(BlockRec) /\ Len(bs) = Len(m.calls)
    BY <2>1, CallBlocksAre
  <2>3. \A j \in 1 .. Len(m.calls) :
          /\ bs[j].of = m.calls[j].of /\ bs[j].name = m.calls[j].name
          /\ kind # "ollama" => bs[j].id = m.calls[j].id
    <3> DEFINE withId == kind # "ollama"
    <3>1. bs = CallBlocks(m, withId) /\ withId \in BOOLEAN /\ (kind # "ollama" => withId)
      OBVIOUS
    <3> HIDE DEF bs, withId
    <3>2. \A j \in 1 .. Len(m.calls) :
            /\ bs[j].of = m.calls[j].of /\ bs[j].name = m.calls[j].name
            /\ withId => bs[j].id = m.calls[j].id
      BY ONLY m \in Message, <3>1, CallBlocksAre
    <3> QED BY ONLY <3>1, <3>2
  <2>4. Len(rs) \in Nat
    OBVIOUS
  <2> HIDE DEF bs
  <2> QED BY <2>2, <2>3, <2>4
<1> HIDE DEF bs
<1>2. /\ Item("assistant", bs) \in WireItem
      /\ Item("assistant", bs).role = "assistant" /\ Item("assistant", bs).blocks = bs
  BY <1>1, ItemIsWire
<1>3. /\ asked \in Seq(WireItem) /\ Len(asked) = p /\ p \in Nat /\ p > 0
      /\ \A i \in 1 .. Len(wire) : asked[i] = wire[i]
      /\ asked[p] = Item("assistant", bs)
  <2> DEFINE item == Item("assistant", bs)
  <2>1. item \in WireItem /\ asked = Append(wire, item)
    BY <1>2 DEF bs
  <2> HIDE DEF item
  <2> QED BY <2>1 DEF item
<1>4. /\ whole \in Seq(WireItem) /\ p <= Len(whole)
      /\ Following(kind, whole, p) = ResultBlocks(kind, rs)
      /\ \A i \in 1 .. p : whole[i] = asked[i]
      /\ \A i \in p + 1 .. Len(whole) : whole[i].role # "assistant"
  <2> DEFINE items == ItemsOf(kind, ResultsTurn(rs))
  <2>1. items \in Seq(WireItem) /\ Len(items) \in Nat
    <3>1. ResultsTurn(rs) \in Message
      BY DEF ResultsTurn, Message
    <3>2. items \in Seq(WireItem)
      BY <3>1, ItemsType
    <3> QED BY <3>2, LenProperties
  <2> HIDE DEF items, p
  <2>2. /\ whole \in Seq(WireItem) /\ Len(whole) = p + Len(items)
        /\ \A i \in 1 .. p + Len(items) :
             whole[i] = IF i <= p THEN asked[i] ELSE items[i - p]
    <3>1. whole = asked \o items /\ Len(asked) = p /\ asked \in Seq(WireItem)
      BY <1>3 DEF items
    <3> QED BY ONLY <2>1, <3>1, ConcatProperties
  <2>3. \A i \in 1 .. p : i \in 1 .. p + Len(items) /\ i <= p
    BY <1>3, <2>1
  <2>4. \A j \in 1 .. Len(items) : /\ p + j \in 1 .. p + Len(items) /\ ~ (p + j <= p)
                                   /\ (p + j) - p = j
    BY <1>3, <2>1
  <2>5. \A j \in 1 .. Len(items) : whole[p + j] = items[j]
    BY <2>2, <2>4
  <2>6. p \in 1 .. Len(whole)
    BY <1>3, <2>1, <2>2
  <2>7. /\ Following(kind, whole, p) = ResultBlocks(kind, rs)
        /\ \A i \in p + 1 .. Len(whole) : whole[i].role # "assistant"
    BY ONLY kind \in Kinds, rs \in Seq(Result), rs # <<>>, <2>2, <2>5, <2>6, ResultsFollow
       DEF items
  <2>8. p <= Len(whole) /\ \A i \in 1 .. p : whole[i] = asked[i]
    BY ONLY <2>2, <2>3, <2>6
  <2> QED BY ONLY <2>2, <2>7, <2>8
<1>5. /\ ResultBlocks(kind, rs) \in Seq(BlockRec) /\ Len(ResultBlocks(kind, rs)) = Len(rs)
      /\ \A j \in 1 .. Len(rs) : ResultBlocks(kind, rs)[j] = ResultBlock(kind, rs[j])
  BY ResultBlocksAre
<1>6. Paired(kind, bs, ResultBlocks(kind, rs), gone)
  <2> DEFINE as == ResultBlocks(kind, rs)
  <2>1. \A j \in 1 .. Len(rs) :
          /\ as[j].of = rs[j].of /\ as[j].error = rs[j].error
          /\ kind = "ollama" => as[j].name = rs[j].name
          /\ kind # "ollama" => as[j].id = rs[j].id
    <3>1. \A j \in 1 .. Len(rs) : rs[j] \in Result
      OBVIOUS
    <3> QED BY <1>5, <3>1, ResultBlockIs
  <2> HIDE DEF as
  <2>2. as \in Seq(BlockRec) /\ Len(as) = Len(bs)
    BY <1>1, <1>5 DEF as
  <2>3. ASSUME NEW j \in 1 .. Len(bs)
        PROVE  /\ as[j].of = bs[j].of
               /\ as[j].error = (bs[j].of \in gone)
               /\ kind = "ollama" => as[j].name = bs[j].name
               /\ kind # "ollama" => \A i \in 1 .. Len(bs) : as[i].id = bs[j].id <=> i = j
    <3>1. j \in 1 .. Len(rs)
      BY <1>1
    <3>2. as[j].of = bs[j].of /\ as[j].error = (bs[j].of \in gone)
      <4>1. as[j].of = rs[j].of /\ as[j].error = rs[j].error
        BY <2>1, <3>1
      <4> QED BY <1>1, <3>1, <4>1
    <3>3. kind = "ollama" => as[j].name = bs[j].name
      BY <1>1, <2>1, <3>1
    <3>4. ASSUME kind # "ollama", NEW i \in 1 .. Len(rs)
          PROVE  as[i].id = bs[j].id <=> i = j
      <4>1. as[i].id = m.calls[i].id /\ bs[j].id = m.calls[j].id
        BY <1>1, <2>1, <3>1, <3>4
      <4> QED BY <3>1, <4>1
    <3> QED BY <1>1, <3>2, <3>3, <3>4
  <2> QED BY <1>1, <2>2, <2>3, PairedByPosition DEF as
<1>7. ASSUME NEW i \in DOMAIN whole, whole[i].role = "assistant"
      PROVE  Paired(kind, whole[i].blocks, Following(kind, whole, i), gone)
  <2>1. i \in 1 .. Len(whole) /\ Len(whole) \in Nat /\ Len(wire) \in Nat
    BY <1>4
  <2>2. i \in 1 .. p
    BY <1>3, <1>4, <1>7, <2>1
  <2>3. CASE i = p
    BY <1>2, <1>3, <1>4, <1>6, <2>2, <2>3
  <2>4. CASE i \in 1 .. Len(wire)
    <3>1. \A k \in 1 .. Len(wire) : whole[k] = wire[k]
      BY <1>3, <1>4, <2>1
    <3>2. Len(wire) < Len(whole) /\ whole[Len(wire) + 1].role = "assistant"
      BY <1>2, <1>3, <1>4, <2>1
    <3>3. Following(kind, whole, i) = Following(kind, wire, i)
      BY ONLY kind \in Kinds, wire \in Seq(WireItem), <1>4, <2>4, <3>1, <3>2,
              FollowingEarlier
    <3>4. i \in DOMAIN wire /\ whole[i] = wire[i]
      BY <2>4, <3>1
    <3>5. Paired(kind, wire[i].blocks, Following(kind, wire, i), gone)
      BY <1>7, <3>4, UnderstoodIs
    <3> QED BY <3>3, <3>4, <3>5
  <2> QED BY <2>1, <2>2, <2>3, <2>4
<1> QED BY <1>7, UnderstoodIs

(* A conversation of plain text.                                           *)
LEMMA PlainUnderstood ==
  ASSUME NEW kind \in Kinds, NEW wire \in Seq(WireItem), NEW gone, NEW n,
         \A p \in DOMAIN wire : wire[p].blocks = <<>>
  PROVE  Understood(kind, wire, gone) /\ Told(wire, n)
<1>1. ASSUME NEW p \in DOMAIN wire
      PROVE  Paired(kind, wire[p].blocks, Following(kind, wire, p), gone)
  <2>1. p \in 1 .. Len(wire) /\ Len(wire) \in Nat
    OBVIOUS
  <2>2. PICK k \in Ends(kind, wire, p) : \A l \in Ends(kind, wire, p) : l <= k
    BY <2>1, LastEnd
  <2>3. k \in p .. Len(wire)
    BY DEF Ends
  <2> DEFINE lists == [i \in 1 .. k - p |-> wire[p + i].blocks]
  <2>4. Following(kind, wire, p) = FlattenSeq(lists)
    BY <2>1, <2>2, FollowingIs
  <2>5. \A i \in 1 .. k - p : lists[i] = <<>>
    <3>1. \A i \in 1 .. k - p : p + i \in DOMAIN wire
      BY <2>1, <2>3
    <3> QED BY <3>1
  <2>6. lists \in [1 .. k - p -> Seq(BlockRec)] /\ k - p \in Nat
    <3>1. <<>> \in Seq(BlockRec)
      BY EmptySeq
    <3>2. lists = [i \in 1 .. k - p |-> lists[i]]
      OBVIOUS
    <3>3. k - p \in Nat
      BY <2>1, <2>3
    <3> HIDE DEF lists
    <3> QED BY <2>5, <3>1, <3>2, <3>3
  <2> HIDE DEF lists
  <2>7. lists \in Seq(Seq(BlockRec)) /\ DOMAIN lists = 1 .. k - p
    BY <2>6, ListOf
  <2>8. FlattenSeq(lists) = <<>>
    BY <2>5, <2>7, FlattenEmpties
  <2> QED BY <2>4, <2>8 DEF Paired
<1> QED BY <1>1, UnderstoodIs DEF Told

LEMMA WireOfNone ==
  ASSUME NEW kind \in Kinds
  PROVE  convertMessages(kind, <<>>) =
           IF kind = "anthropic" THEN <<>> ELSE << Item("system", <<>>) >>
<1>1. /\ [i \in DOMAIN <<>> |-> AnthropicItems(<<>>[i])] = <<>>
      /\ [i \in DOMAIN <<>> |-> OpenAIItems(<<>>[i])] = <<>>
      /\ [i \in DOMAIN <<>> |-> OllamaItems(<<>>[i])] = <<>>
  OBVIOUS
<1>2. FlattenSeq(<<>>) = <<>>
  BY FlattenNone, EmptySeq
<1>3. << Item("system", <<>>) >> \o <<>> = << Item("system", <<>>) >>
  <2>1. Item("system", <<>>) \in WireItem
    BY ItemIsWire, EmptySeq
  <2> QED BY <2>1, OneItem, ConcatEmptySeq
<1> QED BY <1>1, <1>2, <1>3 DEF convertMessages, Kinds

LEMMA HistoryWire ==
  ASSUME NEW kind \in Kinds
  PROVE  /\ convertMessages(kind, History) \in Seq(WireItem)
         /\ \A p \in DOMAIN convertMessages(kind, History) :
              convertMessages(kind, History)[p].blocks = <<>>
<1> DEFINE a == Turn("assistant")
           u == Turn("user")
           none == convertMessages(kind, <<>>)
           one == convertMessages(kind, << a >>)
           two == convertMessages(kind, History)
           Plain(w) == w \in Seq(WireItem) /\ \A p \in DOMAIN w : w[p].blocks = <<>>
<1>1. \A role \in {"user", "assistant"} :
        /\ Turn(role) \in Message
        /\ ItemsOf(kind, Turn(role)) = << Item(role, <<>>) >>
  <2> TAKE role \in {"user", "assistant"}
  <2>1. /\ Turn(role) \in Message /\ Turn(role).results = <<>> /\ Turn(role).calls = <<>>
        /\ Turn(role).role = role
    BY EmptySeq DEF Turn, Message
  <2> QED BY <2>1, TextItems
<1>2. \A role \in {"user", "assistant", "system"} :
        Item(role, <<>>) \in WireItem /\ Item(role, <<>>).blocks = <<>>
  <2>1. <<>> \in Seq(BlockRec)
    BY EmptySeq
  <2> QED BY <2>1 DEF Item, WireItem
<1>3. Plain(none)
  <2>1. Plain(<<>>)
    BY EmptySeq
  <2>2. Plain(<< Item("system", <<>>) >>)
    <3> DEFINE item == Item("system", <<>>)
    <3>1. item \in WireItem /\ item.blocks = <<>>
      BY <1>2
    <3> HIDE DEF item
    <3>2. /\ << item >> \in Seq(WireItem)
          /\ \A p \in DOMAIN << item >> : << item >>[p] = item
      BY <3>1
    <3> QED BY <3>1, <3>2 DEF item
  <2> HIDE DEF Plain
  <2> QED BY <2>1, <2>2, WireOfNone
<1>4. ASSUME NEW w, Plain(w), NEW item \in WireItem, item.blocks = <<>>
      PROVE  Plain(w \o << item >>)
  <2>1. w \o << item >> = Append(w, item)
    BY <1>4, AppendIsConcat
  <2>2. /\ Append(w, item) \in Seq(WireItem)
        /\ \A p \in DOMAIN Append(w, item) : Append(w, item)[p] = item \/ p \in DOMAIN w
        /\ \A p \in DOMAIN w : Append(w, item)[p] = w[p]
    BY <1>4
  <2>3. \A p \in DOMAIN Append(w, item) : Append(w, item)[p].blocks = <<>>
    BY <1>4, <2>2
  <2> QED BY <2>1, <2>2, <2>3
<1>5. a \in Message /\ u \in Message
  BY <1>1
<1>6. History = Append(<< a >>, u) /\ << a >> = Append(<<>>, a)
      /\ << a >> \in Seq(Message) /\ <<>> \in Seq(Message)
  <2> HIDE DEF a, u
  <2> QED BY <1>5 DEF History, a, u
<1>7. one = none \o << Item("assistant", <<>>) >>
  BY <1>1, <1>5, <1>6, WireGrows
<1>8. two = one \o << Item("user", <<>>) >>
  BY <1>1, <1>5, <1>6, WireGrows
<1> HIDE DEF none, one, two
<1>9. Plain(one)
  BY <1>2, <1>3, <1>4, <1>7
<1>10. Plain(two)
  BY <1>2, <1>4, <1>8, <1>9
<1> QED BY <1>10 DEF two

-----------------------------------------------------------------------------
(* What every step keeps: the results so far belong to the calls before    *)
(* them, the calls of a round can be told apart, failures are of calls     *)
(* that have been run, and all that was sent before this round is paired.  *)
Wire == convertMessages(pinned.kind, messages)

AnsweredOK ==
  \A k \in DOMAIN results :
    /\ results[k].id = calls[k].id /\ results[k].name = calls[k].name
    /\ results[k].of = calls[k].of /\ results[k].error = (calls[k].of \in failed)

IdsOK == \A k \in DOMAIN calls : calls[k].id = CallId(pinned.kind, pinned.ids, calls[k].of)

FailedOK ==
  \A of \in failed : of[1] <= iteration /\ (Busy /\ of[1] = iteration => of[2] <= Len(results))

CallsItem == Item("assistant", CallBlocks(CallsTurn(calls), pinned.kind # "ollama"))

WireOK ==
  /\ pc = "chat" => Told(Wire, iteration) /\ Understood(pinned.kind, Wire, failed)
  /\ Busy => \E w \in Seq(WireItem) :
       /\ Wire = Append(w, CallsItem)
       /\ Told(w, iteration - 1) /\ Understood(pinned.kind, w, failed)

PairInv == AnsweredOK /\ IdsOK /\ FailedOK /\ WireOK

LEMMA KindIsKind == TypeOK => pinned.kind \in Kinds /\ pinned.ids \in BOOLEAN
BY QueryAssumption DEF TypeOK

LEMMA PairInit == Init /\ TypeOK => PairInv
<1> SUFFICES ASSUME Init, TypeOK PROVE PairInv
  OBVIOUS
<1>1. pinned.kind \in Kinds
  BY KindIsKind
<1>2. /\ Wire \in Seq(WireItem) /\ \A p \in DOMAIN Wire : Wire[p].blocks = <<>>
  BY <1>1, HistoryWire DEF Init, Wire
<1>3. Understood(pinned.kind, Wire, failed) /\ Told(Wire, iteration)
  BY <1>1, <1>2, PlainUnderstood
<1> QED BY <1>3 DEF Init, PairInv, AnsweredOK, IdsOK, FailedOK, WireOK, Busy

(* The model's calls begin a round.                                        *)
LEMMA PairChat ==
  ASSUME IInv, PairInv, NEW text \in BOOLEAN, NEW names \in Answers, names # <<>>,
         ChatAnswers(text, names)
  PROVE  PairInv'
<1> DEFINE asked == Calls(names)
           turn == CallsTurn(asked)
<1>1. /\ pc = "chat" /\ pc' = "tool" /\ messages' = Append(messages, turn)
      /\ calls' = asked /\ results' = <<>> /\ failed' = failed
      /\ iteration' = iteration + 1 /\ pinned' = pinned /\ iteration < MaxIterations
  BY DEF ChatAnswers
<1>2. /\ asked \in Seq(Call) /\ Len(asked) \in Nat /\ 0 < Len(asked)
      /\ \A k \in DOMAIN asked : asked[k].of = <<iteration + 1, k>>
  <2>1. TypeOK /\ iteration < MaxIterations
    BY <1>1 DEF IInv
  <2>2. iteration \in 0 .. MaxIterations /\ iteration + 1 \in 0 .. MaxIterations
    BY <2>1, QueryAssumption DEF TypeOK
  <2> QED BY <2>1, <2>2, CallsOfRound, LenProperties
<1>3. \A k \in DOMAIN asked : asked[k].id = CallId(pinned.kind, pinned.ids, asked[k].of)
  BY DEF Calls
<1>4. /\ turn \in Message /\ turn.calls = asked /\ turn.results = <<>>
      /\ messages \in Seq(Message) /\ pinned.kind \in Kinds /\ iteration \in Nat
      /\ failed \in SUBSET Of
  <2> HIDE DEF asked
  <2>1. turn \in Message /\ turn.calls = asked /\ turn.results = <<>>
    BY <1>2, EmptySeq DEF CallsTurn, Message
  <2> QED BY <2>1, KindIsKind DEF IInv, TypeOK, Message
<1> HIDE DEF asked
<1>5. AnsweredOK' /\ IdsOK'
  BY <1>1, <1>3 DEF AnsweredOK, IdsOK
<1>6. FailedOK'
  <2>1. \A of \in failed : of[1] \in Int /\ of[1] <= iteration
    BY <1>4, QueryAssumption DEF PairInv, FailedOK, Of
  <2> QED BY <1>1, <1>4, <2>1 DEF FailedOK
<1>7. WireOK'
  <2>1. Wire \in Seq(WireItem) /\ Wire' = Wire \o ItemsOf(pinned.kind, turn)
    <3>1. Wire' = convertMessages(pinned.kind, Append(messages, turn))
      BY <1>1 DEF Wire
    <3> HIDE DEF turn
    <3> QED BY <1>4, <3>1, WireGrows DEF Wire
  <2>2. CallsItem' = Item("assistant", CallBlocks(turn, pinned.kind # "ollama"))
    BY <1>1 DEF CallsItem
  <2>3. ItemsOf(pinned.kind, turn) = << CallsItem' >>
    <3>1. turn.calls # <<>>
      BY <1>2, <1>4
    <3> HIDE DEF turn
    <3> QED BY <1>4, <2>2, <3>1, CallItems
  <2>4. CallsItem' \in WireItem
    <3>1. (pinned.kind # "ollama") \in BOOLEAN
      OBVIOUS
    <3>2. CallBlocks(turn, pinned.kind # "ollama") \in Seq(BlockRec)
      BY <1>4, <3>1, CallBlocksAre
    <3> QED BY <2>2, <3>2, ItemIsWire
  <2>5. Wire' = Append(Wire, CallsItem')
    BY <2>1, <2>3, <2>4, AppendIsConcat
  <2>6. Told(Wire, iteration) /\ Understood(pinned.kind, Wire, failed)
    BY <1>1 DEF PairInv, WireOK
  <2>7. iteration' - 1 = iteration
    BY <1>1, <1>4
  <2> QED BY <1>1, <2>1, <2>5, <2>6, <2>7 DEF WireOK, Busy
<1> QED BY <1>5, <1>6, <1>7 DEF PairInv

(* The calls of a round can be told apart by their IDs.                    *)
LEMMA IdsDiffer ==
  ASSUME IInv, PairInv, NEW i \in DOMAIN calls, NEW k \in DOMAIN calls,
         calls[i].id = calls[k].id
  PROVE  i = k
<1>1. /\ calls[i].of = <<iteration, i>> /\ calls[k].of = <<iteration, k>>
      /\ calls[i].id = CallId(pinned.kind, pinned.ids, calls[i].of)
      /\ calls[k].id = CallId(pinned.kind, pinned.ids, calls[k].of)
  BY DEF IInv, RoundOK, PairInv, IdsOK
<1>2. \A of : CallId(pinned.kind, pinned.ids, of)[2] = of[2]
  BY DEF CallId
<1>3. calls[i].id[2] = i /\ calls[k].id[2] = k
  <2>1. <<iteration, i>>[2] = i /\ <<iteration, k>>[2] = k
    OBVIOUS
  <2> QED BY <1>1, <1>2, <2>1
<1> QED BY <1>3

(* What a request holds of the results of a round.                         *)
LEMMA ResultsTold ==
  ASSUME NEW kind \in Kinds, NEW rs \in Seq(Result), rs # <<>>, NEW n,
         \A k \in 1 .. Len(rs) : rs[k].of[1] <= n, NEW items,
         items = ItemsOf(kind, ResultsTurn(rs))
  PROVE  items \in Seq(WireItem) /\ Told(items, n)
<1>1. ResultsTurn(rs) \in Message /\ ResultsTurn(rs).results = rs
  BY EmptySeq DEF ResultsTurn, Message
<1>2. /\ items \in Seq(WireItem)
      /\ kind = "anthropic" => items = << Item("user", ResultBlocks(kind, rs)) >>
      /\ kind # "anthropic" =>
           /\ Len(items) = Len(rs)
           /\ \A j \in 1 .. Len(rs) :
                items[j] = Item("tool", << ResultBlock(kind, rs[j]) >>)
  BY <1>1, ResultItems
<1>3. \A j \in 1 .. Len(rs) : ResultBlock(kind, rs[j]).of = rs[j].of
  <2>1. \A j \in 1 .. Len(rs) : rs[j] \in Result
    OBVIOUS
  <2> QED BY <2>1, ResultBlockIs
<1>4. CASE kind = "anthropic"
  <2> DEFINE bs == ResultBlocks(kind, rs)
             item == Item("user", bs)
  <2>1. bs \in Seq(BlockRec) /\ Len(bs) = Len(rs)
        /\ \A j \in 1 .. Len(rs) : bs[j] = ResultBlock(kind, rs[j])
    BY ResultBlocksAre
  <2>2. item.blocks = bs /\ items = << item >>
    BY <1>2, <1>4 DEF Item
  <2> HIDE DEF item, bs
  <2>3. \A p \in DOMAIN items : items[p] = item
    BY <2>2
  <2>4. DOMAIN bs = 1 .. Len(rs)
    BY <2>1
  <2>5. \A j \in DOMAIN bs : bs[j].of[1] <= n
    BY <1>3, <2>1, <2>4
  <2> QED BY <1>2, <2>2, <2>3, <2>5 DEF Told
<1>5. CASE kind # "anthropic"
  <2>1. DOMAIN items = 1 .. Len(rs)
    BY <1>2, <1>5
  <2>2. ASSUME NEW p \in 1 .. Len(rs), NEW j \in DOMAIN items[p].blocks
        PROVE  items[p].blocks[j].of[1] <= n
    <3> DEFINE b == ResultBlock(kind, rs[p])
    <3>1. items[p] = Item("tool", << b >>)
      BY <1>2, <1>5
    <3>2. items[p].blocks = << b >>
      BY <3>1 DEF Item
    <3>3. b.of[1] <= n
      BY <1>3
    <3> HIDE DEF b
    <3>4. items[p].blocks[j] = b
      BY <3>2
    <3> QED BY <3>3, <3>4
  <2> QED BY <1>2, <2>1, <2>2 DEF Told
<1> QED BY <1>4, <1>5

LEMMA ToldConcat ==
  ASSUME NEW v \in Seq(WireItem), NEW w \in Seq(WireItem), NEW n, Told(v, n), Told(w, n)
  PROVE  Told(v \o w, n)
<1> DEFINE vw == v \o w
<1>1. /\ vw \in Seq(WireItem) /\ Len(vw) = Len(v) + Len(w)
      /\ \A i \in 1 .. Len(v) + Len(w) : vw[i] = IF i <= Len(v) THEN v[i] ELSE w[i - Len(v)]
  BY ConcatProperties
<1>2. /\ Len(v) \in Nat /\ Len(w) \in Nat /\ DOMAIN v = 1 .. Len(v) /\ DOMAIN w = 1 .. Len(w)
  BY LenProperties
<1> HIDE DEF vw
<1>3. ASSUME NEW p \in DOMAIN vw
      PROVE  \/ \E i \in DOMAIN v : vw[p] = v[i]
             \/ \E i \in DOMAIN w : vw[p] = w[i]
  <2>1. p \in 1 .. Len(v) + Len(w)
    BY <1>1, LenProperties
  <2>2. CASE p <= Len(v)
    <3>1. p \in DOMAIN v
      BY <1>2, <2>1, <2>2
    <3> QED BY <1>1, <2>1, <2>2, <3>1
  <2>3. CASE ~ (p <= Len(v))
    <3>1. p - Len(v) \in DOMAIN w
      BY <1>2, <2>1, <2>3
    <3> QED BY <1>1, <2>1, <2>3, <3>1
  <2> QED BY <2>2, <2>3
<1>4. Told(vw, n)
  BY <1>3 DEF Told
<1> QED BY <1>4 DEF vw

(* A call is answered: between two calls, and at the end of a round.       *)
LEMMA PairAnswer ==
  ASSUME IInv, PairInv, Busy, NEW ok \in BOOLEAN, Answer(Running, ok),
         iteration' = iteration, pinned' = pinned
  PROVE  PairInv'
<1> DEFINE res == [id |-> Running.id, name |-> Running.name,
                   of |-> Running.of, error |-> ~ ok]
           all == Append(results, res)
           n == Len(results) + 1
<1>1. /\ Running \in Call /\ Running = calls[n] /\ n \in DOMAIN calls
      /\ Running.of = <<iteration, n>>
  BY RunningCall DEF IInv, Running
<1>2. /\ results \in Seq(Result) /\ calls \in Seq(Call) /\ messages \in Seq(Message)
      /\ Len(results) \in Nat /\ Len(calls) \in Nat /\ DOMAIN calls = 1 .. Len(calls)
      /\ DOMAIN results = 1 .. Len(results) /\ iteration \in Nat /\ n <= Len(calls)
      /\ pinned.kind \in Kinds /\ failed \in SUBSET Of
  BY <1>1, KindIsKind DEF IInv, TypeOK, Message
<1>3. res \in Result /\ res.id = calls[n].id /\ res.name = calls[n].name
      /\ res.of = calls[n].of /\ res.error = ~ ok
  BY <1>1 DEF Call, Result
<1>4. /\ failed' = IF ok THEN failed ELSE failed \cup {<<iteration, n>>}
      /\ IF Len(all) < Len(calls)
         THEN pc' = "tool" /\ results' = all /\ UNCHANGED <<messages, calls>>
         ELSE /\ pc' = "chat" /\ messages' = Append(messages, ResultsTurn(all))
              /\ calls' = <<>> /\ results' = <<>>
  BY <1>1 DEF Answer
<1> HIDE DEF res
<1>5. /\ all \in Seq(Result) /\ Len(all) = n /\ DOMAIN all = 1 .. n
      /\ \A k \in 1 .. Len(results) : all[k] = results[k]
      /\ all[n] = res
  BY <1>2, <1>3
<1> HIDE DEF all
<1>6. \A of : of[1] <= iteration - 1 => (of \in failed <=> of \in failed')
  BY <1>2, <1>4
<1>7. <<iteration, n>> \notin failed
  BY <1>2 DEF PairInv, FailedOK
<1>8. \A k \in 1 .. n :
        /\ all[k].id = calls[k].id /\ all[k].name = calls[k].name
        /\ all[k].of = calls[k].of /\ all[k].error = (calls[k].of \in failed')
  <2> TAKE k \in 1 .. n
  <2>1. CASE k = n
    <3>1. (<<iteration, n>> \in failed') = (~ ok)
      BY <1>4, <1>7
    <3> QED BY <1>1, <1>3, <1>5, <2>1, <3>1
  <2>2. CASE k # n
    <3>1. k \in DOMAIN results /\ k \in DOMAIN calls
      BY <1>2, <2>2
    <3>2. calls[k].of = <<iteration, k>>
      BY <3>1 DEF IInv, RoundOK
    <3>3. calls[k].of \in failed <=> calls[k].of \in failed'
      BY <1>4, <2>2, <3>2
    <3> QED BY <1>2, <1>5, <3>1, <3>3 DEF PairInv, AnsweredOK
  <2> QED BY <2>1, <2>2
<1>9. PICK w \in Seq(WireItem) :
        /\ Wire = Append(w, CallsItem)
        /\ Told(w, iteration - 1) /\ Understood(pinned.kind, w, failed)
  BY DEF PairInv, WireOK
<1>10. Understood(pinned.kind, w, failed')
  BY <1>2, <1>6, <1>9, UnderstoodKept
<1>11. \A of \in failed' : of[1] <= iteration /\ (of[1] = iteration => of[2] <= n)
  <2>1. \A of \in failed : of[2] \in Int /\ of[1] \in Int
    BY <1>2, QueryAssumption DEF Of
  <2>2. \A of \in failed : of[1] <= iteration /\ (of[1] = iteration => of[2] <= Len(results))
    BY DEF PairInv, FailedOK
  <2> QED BY <1>2, <1>4, <2>1, <2>2
<1>12. CASE Len(all) < Len(calls)
  <2>1. pc' = "tool" /\ results' = all /\ UNCHANGED <<messages, calls>>
    BY <1>4, <1>12
  <2>2. AnsweredOK'
    BY <1>5, <1>8, <2>1 DEF AnsweredOK
  <2>3. IdsOK'
    BY <2>1 DEF PairInv, IdsOK
  <2>4. FailedOK'
    BY <1>5, <1>11, <2>1 DEF FailedOK
  <2>5. Wire' = Wire /\ CallsItem' = CallsItem
    BY <2>1 DEF Wire, CallsItem
  <2>6. WireOK'
    BY <1>9, <1>10, <2>1, <2>5 DEF WireOK, Busy
  <2> QED BY <2>2, <2>3, <2>4, <2>6 DEF PairInv
<1>13. CASE ~ (Len(all) < Len(calls))
  <2>1. /\ pc' = "chat" /\ messages' = Append(messages, ResultsTurn(all))
        /\ calls' = <<>> /\ results' = <<>>
    BY <1>4, <1>13
  <2>2. n = Len(calls) /\ all # <<>>
    <3>1. Len(all) # 0
      BY <1>2, <1>5
    <3>2. n = Len(calls)
      <4>1. Len(all) = n /\ n <= Len(calls) /\ Len(calls) \in Nat /\ n \in Nat
        BY <1>2, <1>5
      <4>2. ~ (n < Len(calls))
        BY ONLY <1>13, <4>1
      <4> HIDE DEF n
      <4> QED BY ONLY <4>1, <4>2
    <3> QED BY <3>1, <3>2, EmptySeq
  <2>3. AnsweredOK' /\ IdsOK' /\ FailedOK'
    BY <1>11, <2>1 DEF AnsweredOK, IdsOK, FailedOK, Busy
  <2> DEFINE turn == CallsTurn(calls)
             items == ItemsOf(pinned.kind, ResultsTurn(all))
  <2>4. turn \in Message /\ turn.calls = calls
    BY <1>2, EmptySeq DEF CallsTurn, Message
  <2>5. ResultsTurn(all) \in Message
    BY <1>5, EmptySeq DEF ResultsTurn, Message
  <2>6. Wire' = Wire \o items
    <3>1. Wire' = convertMessages(pinned.kind, Append(messages, ResultsTurn(all)))
      BY <2>1 DEF Wire
    <3> QED BY <1>2, <2>5, <3>1, WireGrows DEF Wire
  <2>7. CallsItem = Item("assistant", CallBlocks(turn, pinned.kind # "ollama"))
    BY DEF CallsItem
  <2> HIDE DEF turn
  <2>8. Understood(pinned.kind, Wire', failed')
    <3>1. \A k \in 1 .. Len(all) :
            /\ all[k].id = turn.calls[k].id /\ all[k].name = turn.calls[k].name
            /\ all[k].of = turn.calls[k].of /\ all[k].error = (turn.calls[k].of \in failed')
            /\ \A i \in 1 .. Len(all) : turn.calls[i].id = turn.calls[k].id => i = k
      BY <1>2, <1>5, <1>8, <2>2, <2>4, IdsDiffer
    <3>2. Len(all) = Len(turn.calls)
      BY <1>5, <2>2, <2>4
    <3>3. pinned.kind \in Kinds /\ all \in Seq(Result)
      BY <1>2, <1>5
    <3>4. Wire' = Wire \o ItemsOf(pinned.kind, ResultsTurn(all))
      BY <2>6
    <3> QED BY ONLY <1>9, <1>10, <2>2, <2>4, <2>7, <3>1, <3>2, <3>3, <3>4, UnderstoodGrows
  <2>9. Told(Wire', iteration)
    <3>1. items \in Seq(WireItem) /\ Told(items, iteration)
      <4>1. \A k \in 1 .. Len(all) : all[k].of[1] <= iteration
        <5>1. \A k \in 1 .. Len(all) : k \in DOMAIN calls /\ all[k].of = calls[k].of
          BY <1>2, <1>5, <1>8, <2>2
        <5>2. \A k \in DOMAIN calls : calls[k].of = <<iteration, k>>
          BY DEF IInv, RoundOK
        <5>3. \A k \in 1 .. Len(all) : all[k].of = <<iteration, k>>
          BY ONLY <5>1, <5>2
        <5>4. iteration <= iteration
          BY <1>2
        <5> QED BY ONLY <5>3, <5>4
      <4> QED BY <1>2, <1>5, <2>2, <4>1, ResultsTold
    <3> DEFINE one == << CallsItem >>
               bs == CallBlocks(turn, pinned.kind # "ollama")
    <3>2. /\ bs \in Seq(BlockRec) /\ Len(bs) = Len(calls)
          /\ \A j \in 1 .. Len(calls) : bs[j].of = calls[j].of
      <4>1. (pinned.kind # "ollama") \in BOOLEAN
        OBVIOUS
      <4>2. bs \in Seq(BlockRec) /\ Len(bs) = Len(turn.calls)
            /\ \A j \in 1 .. Len(turn.calls) : bs[j].of = turn.calls[j].of
        BY <2>4, <4>1, CallBlocksAre
      <4> HIDE DEF bs
      <4> QED BY <2>4, <4>2
    <3>3. CallsItem \in WireItem /\ CallsItem.blocks = bs
      BY <2>7, <3>2, ItemIsWire
    <3> HIDE DEF bs
    <3>4. \A j \in DOMAIN bs : bs[j].of[1] <= iteration
      <4>1. DOMAIN bs = DOMAIN calls
        BY <1>2, <3>2
      <4>2. \A k \in DOMAIN calls : calls[k].of = <<iteration, k>>
        BY DEF IInv, RoundOK
      <4>3. \A j \in DOMAIN bs : bs[j].of = <<iteration, j>>
        BY ONLY <3>2, <4>1, <4>2, DOMAIN calls = 1 .. Len(calls)
      <4>4. iteration <= iteration
        BY <1>2
      <4> QED BY ONLY <4>3, <4>4
    <3>5. one \in Seq(WireItem) /\ \A p \in DOMAIN one : one[p] = CallsItem
      BY <3>3
    <3>6. Told(one, iteration)
      BY <3>3, <3>4, <3>5 DEF Told
    <3>7. Told(w, iteration)
      <4>1. ASSUME NEW p \in DOMAIN w, NEW j \in DOMAIN w[p].blocks
            PROVE  w[p].blocks[j].of[1] <= iteration
        <5>1. w[p] \in WireItem
          BY <1>9
        <5>2. w[p].blocks[j] \in BlockRec
          BY <5>1 DEF WireItem
        <5>3. w[p].blocks[j].of[1] \in Int
          BY <5>2, QueryAssumption DEF BlockRec, Of
        <5>4. w[p].blocks[j].of[1] <= iteration - 1
          BY <1>9 DEF Told
        <5> QED BY <1>2, <5>3, <5>4
      <4> QED BY <4>1 DEF Told
    <3>8. Wire = w \o one
      BY <1>9, <3>3, AppendIsConcat
    <3> HIDE DEF one, items
    <3>9. Told(Wire, iteration) /\ Wire \in Seq(WireItem)
      BY <1>9, <3>5, <3>6, <3>7, <3>8, ToldConcat, ConcatProperties
    <3> QED BY <2>6, <3>1, <3>9, ToldConcat
  <2>10. WireOK'
    BY <2>1, <2>8, <2>9 DEF WireOK, Busy
  <2> QED BY <2>3, <2>10 DEF PairInv
<1> QED BY <1>12, <1>13

(* A step that leaves the round as it is, or forgets it.                   *)
LEMMA PairRoundKept ==
  ASSUME PairInv, UNCHANGED <<pinned, round, failed>>, Busy, Busy'
  PROVE  PairInv'
<1>1. UNCHANGED <<iteration, messages, calls, results>>
  BY DEF round
<1>2. UNCHANGED <<Wire, CallsItem>> /\ pc' # "chat"
  BY <1>1 DEF Wire, CallsItem, Busy
<1> QED BY <1>1, <1>2 DEF PairInv, AnsweredOK, IdsOK, FailedOK, WireOK

LEMMA PairForget ==
  ASSUME Forget, pc' \in {"over", "gone"}
  PROVE  PairInv'
BY DEF Forget, PairInv, AnsweredOK, IdsOK, FailedOK, WireOK, Busy

LEMMA PairStep == IInv /\ PairInv /\ [Next]_vars => PairInv'
<1> SUFFICES ASSUME IInv, PairInv, [Next]_vars PROVE PairInv'
  OBVIOUS
<1>1. ASSUME NEW text \in BOOLEAN, NEW names \in Answers, ChatAnswers(text, names)
      PROVE  PairInv'
  <2>1. CASE names = <<>>
    <3>1. Forget /\ pc' = "over"
      BY <1>1, <2>1 DEF ChatAnswers
    <3> QED BY <3>1, PairForget
  <2>2. CASE names # <<>>
    BY <1>1, <2>2, PairChat
  <2> QED BY <2>1, <2>2
<1>2. CASE Stop
  BY <1>2, PairForget DEF Stop
<1>3. CASE RunTool
  BY <1>3, PairAnswer DEF RunTool, Busy
<1>4. CASE CheckChange
  <2>1. CASE pc' = "save" /\ UNCHANGED <<round, failed>>
    BY <1>4, <2>1, PairRoundKept DEF CheckChange, Busy
  <2>2. CASE Answer(Running, FALSE) /\ UNCHANGED iteration
    BY <1>4, <2>2, PairAnswer DEF CheckChange, Busy
  <2> QED BY <1>4, <2>1, <2>2 DEF CheckChange
<1>5. CASE SaveChange
  <2>1. CASE pc' = "card" /\ UNCHANGED <<round, failed>>
    BY <1>5, <2>1, PairRoundKept DEF SaveChange, Busy
  <2>2. CASE Answer(Running, FALSE) /\ UNCHANGED <<iteration, proposed>>
    BY <1>5, <2>2, PairAnswer DEF SaveChange, Busy
  <2> QED BY <1>5, <2>1, <2>2 DEF SaveChange
<1>6. CASE ShowChange
  BY <1>6, PairAnswer DEF ShowChange, Busy
<1>7. CASE Crash
  BY <1>7, PairForget DEF Crash
<1>8. ASSUME UNCHANGED <<pinned, pc, round, failed>>
      PROVE  PairInv'
  <2>1. UNCHANGED <<iteration, messages, calls, results>>
    BY <1>8 DEF round
  <2>2. UNCHANGED <<Wire, CallsItem>>
    BY <1>8, <2>1 DEF Wire, CallsItem
  <2> QED BY <1>8, <2>1, <2>2 DEF PairInv, AnsweredOK, IdsOK, FailedOK, WireOK, Busy
<1>9. CASE Expire
  BY <1>8, <1>9 DEF Expire
<1>10. CASE UNCHANGED vars
  BY <1>8, <1>10 DEF vars
<1> QED BY <1>1, <1>2, <1>3, <1>4, <1>5, <1>6, <1>7, <1>9, <1>10 DEF Next, Run

(* Whatever the provider and however many rounds a query takes, the        *)
(* service at the other end pairs every call it made with the result of    *)
(* that call and no other, and is told of a failure exactly where a tool   *)
(* failed (convertMessages and the call IDs of the three adapters, Run).   *)
THEOREM ResultsPaired == Spec => []ResultsAnswerCalls
<1>1. Init => IInv /\ PairInv
  BY InitInv, PairInit DEF IInv
<1>2. IInv /\ PairInv /\ [Next]_vars => IInv' /\ PairInv'
  BY StepInv, PairStep
<1>3. PairInv => ResultsAnswerCalls
  BY DEF PairInv, WireOK, ResultsAnswerCalls, Wire
<1> QED BY <1>1, <1>2, <1>3, PTL DEF Spec
=============================================================================
