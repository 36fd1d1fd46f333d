------------------------ MODULE AgentSettings_proofs ------------------------
(***************************************************************************)
(* Proofs about AgentSettings.tla, for every number of callers, providers, *)
(* secrets and payloads, and any number of failed saves and restarts.      *)
(***************************************************************************)
EXTENDS AgentSettings, TLAPS

(* What AlwaysValid needs to survive a step: an update under way has been  *)
(* validated, however long ago.                                            *)
ValidInFlight ==
  \A c \in Callers : InFlight(c) => Valid(call[c].next)

(* What ReviewProviderIsCurrent needs: the settings and the provider, read *)
(* in two sections, are those of one update at any moment, and the live    *)
(* provider is never one the loop could not yet have read.                 *)
ProviderMatches == provider = buildProvider(settings)

LoopCurrent == provider \in current /\ ReviewProviderIsCurrent

Inv == TypeOK /\ ProviderMatches /\ LoopCurrent /\ AlwaysValid /\ ValidInFlight
         /\ NoLostWakeup

-----------------------------------------------------------------------------
LEMMA MergedType ==
  ASSUME NEW s \in Settings, NEW u \in Payloads
  PROVE  merge(s, u) \in Settings
<1>1. ASSUME NEW old \in Optional, NEW new \in Optional
      PROVE  Replace(old, new) \in Optional
  BY <1>1 DEF Replace
<1>2. (IF u.provider \in Clouds
       THEN [s.keys EXCEPT ![u.provider] = Replace(@, u.key)]
       ELSE s.keys) \in [Clouds -> Optional]
  BY <1>1 DEF Settings, Payloads
<1>3. Replace(s.hook, u.hook) \in Optional
  BY <1>1 DEF Settings, Payloads
<1>4. (IF u.days > 0 THEN u.days ELSE s.days) \in Nat
  BY DEF Settings, Payloads
<1> QED BY <1>2, <1>3, <1>4 DEF merge, Settings, Payloads

LEMMA BuiltType ==
  ASSUME NEW s \in Settings
  PROVE  buildProvider(s) \in Built
BY DEF buildProvider, Built, Settings, Optional

LEMMA BootType ==
  ASSUME NEW row \in SUBSET Settings
  PROVE  /\ BootSettings(row) \in Settings
         /\ BootSettings(row) \in row \cup {Defaults}
BY SettingsAssumption DEF BootSettings

LEMMA InitInv == Init => Inv
<1> SUFFICES ASSUME Init PROVE Inv
  OBVIOUS
<1>1. Defaults \in Settings /\ Defaults.days \in Nat
  BY SettingsAssumption DEF Settings
<1>2. TypeOK
  BY <1>1, BuiltType DEF Init, TypeOK, Calls, Loops
<1>3. ProviderMatches /\ LoopCurrent /\ AlwaysValid /\ NoLostWakeup
  BY <1>1 DEF Init, ProviderMatches, LoopCurrent, ReviewProviderIsCurrent,
              AlwaysValid, NoLostWakeup
<1>4. ValidInFlight
  BY DEF Init, ValidInFlight, InFlight
<1> QED BY <1>2, <1>3, <1>4 DEF Inv

-----------------------------------------------------------------------------
(* One lemma per handler: the updates, the review loop, and a restart.     *)

LEMMA MergeInv ==
  ASSUME Inv, NEW c \in Callers, NEW u \in Updates, Merge(c, u)
  PROVE  Inv'
<1> USE DEF Inv
<1> DEFINE next == merge(settings, u)
<1>1. next \in Settings
  BY MergedType, SettingsAssumption DEF TypeOK
<1> HIDE DEF next
<1>2. /\ call' = [call EXCEPT ![c] =
                    IF Valid(next) THEN [pc |-> "commit", next |-> next]
                    ELSE Ended]
      /\ UNCHANGED <<settings, provider, signal, saved, retention, loop, live,
                     current, failures>>
      /\ call[c].pc = "idle"
  BY DEF Merge, Accepted, next
<1>3. Ended \in Calls
  BY SettingsAssumption DEF Ended, Calls
<1>4. call' \in [Callers -> Calls]
  BY <1>1, <1>2, <1>3 DEF TypeOK, Calls
<1>5. alone' \in BOOLEAN
  BY DEF Merge, TypeOK
<1>6. TypeOK'
  BY <1>2, <1>4, <1>5 DEF TypeOK
<1>7. ValidInFlight'
  BY <1>2 DEF ValidInFlight, InFlight, TypeOK, Ended
<1>8. NoLostWakeup'
  BY <1>2 DEF NoLostWakeup, TypeOK
<1> QED BY <1>2, <1>6, <1>7, <1>8
        DEF ProviderMatches, LoopCurrent, ReviewProviderIsCurrent, AlwaysValid

LEMMA ApplyInv ==
  ASSUME Inv, NEW c \in Callers, Apply(c)
  PROVE  Inv'
<1> USE DEF Inv
<1>1. call[c].next \in Settings /\ call[c].next.days \in Nat
  BY DEF TypeOK, Calls, Settings
<1>2. ASSUME NEW from \in {"commit", "save", "retain"},
             NEW to \in {"save", "retain", "signal"}, Step(c, from, to)
      PROVE  /\ call' \in [Callers -> Calls]
             /\ Valid(call[c].next) /\ ValidInFlight'
             /\ call'[c].pc = to
             /\ \A d \in Callers : d # c => call'[d] = call[d]
  <2>1. call' \in [Callers -> Calls]
    BY <1>2 DEF Step, TypeOK, Calls
  <2>2. Valid(call[c].next)
    BY <1>2 DEF Step, ValidInFlight, InFlight
  <2>3. /\ call'[c].pc = to /\ call'[c].next = call[c].next
        /\ \A d \in Callers : d # c => call'[d] = call[d]
    BY <1>2 DEF Step, TypeOK, Calls
  <2> QED BY <2>1, <2>2, <2>3 DEF ValidInFlight, InFlight
<1>3. CASE Commit(c)
  <2>1. /\ call' \in [Callers -> Calls]
        /\ Valid(call[c].next) /\ ValidInFlight' /\ call'[c].pc = "save"
    BY <1>2, <1>3 DEF Commit
  <2>2. TypeOK'
    BY <1>1, <1>3, <2>1, BuiltType DEF Commit, TypeOK
  <2>3. NoLostWakeup'
    BY <2>1 DEF NoLostWakeup
  <2>4. LoopCurrent'
    BY <1>3 DEF Commit, LoopCurrent, ReviewProviderIsCurrent
  <2> QED BY <1>3, <2>1, <2>2, <2>3, <2>4
          DEF Commit, ProviderMatches, AlwaysValid
<1>4. CASE Save(c)
  <2>1. /\ call' \in [Callers -> Calls]
        /\ Valid(call[c].next) /\ ValidInFlight' /\ call'[c].pc = "retain"
    BY <1>2, <1>4 DEF Save
  <2>2. /\ saved' = saved \/ saved' = {call[c].next}
        /\ failures' \in Nat /\ alone' \in BOOLEAN
    <3>1. alone \in BOOLEAN /\ failures \in Nat
      BY DEF TypeOK
    <3>2. alone' \in BOOLEAN
      BY <1>4, <3>1, Zenon DEF Save
    <3>3. saved' = saved \/ saved' = {call[c].next}
      BY <1>4, Zenon DEF Save
    <3>4. failures' = failures \/ failures' = failures + 1
      BY <1>4, Zenon DEF Save
    <3> QED BY <3>1, <3>2, <3>3, <3>4
  <2>3. TypeOK'
    BY <1>1, <1>4, <2>1, <2>2 DEF Save, TypeOK
  <2>4. NoLostWakeup'
    BY <2>1 DEF NoLostWakeup
  <2> QED BY <1>4, <2>1, <2>2, <2>3, <2>4
          DEF Save, ProviderMatches, LoopCurrent, ReviewProviderIsCurrent,
              AlwaysValid
<1>5. CASE SetRetentionDays(c)
  <2>1. call' \in [Callers -> Calls] /\ ValidInFlight' /\ call'[c].pc = "signal"
    BY <1>2, <1>5 DEF SetRetentionDays
  <2>2. TypeOK'
    BY <1>1, <1>5, <2>1 DEF SetRetentionDays, TypeOK
  <2>3. NoLostWakeup'
    BY <2>1 DEF NoLostWakeup
  <2> QED BY <1>5, <2>1, <2>2, <2>3
          DEF SetRetentionDays, ProviderMatches, LoopCurrent,
              ReviewProviderIsCurrent, AlwaysValid
<1>6. CASE Signal(c)
  <2>1. Ended \in Calls
    BY SettingsAssumption DEF Ended, Calls
  <2>2. TypeOK'
    BY <1>6, <2>1 DEF Signal, TypeOK
  <2>3. ValidInFlight'
    BY <1>6 DEF Signal, ValidInFlight, InFlight, TypeOK, Ended
  <2> QED BY <1>6, <2>2, <2>3
          DEF Signal, ProviderMatches, LoopCurrent, ReviewProviderIsCurrent,
              AlwaysValid, NoLostWakeup
<1> QED BY <1>3, <1>4, <1>5, <1>6 DEF Apply

LEMMA LoopInv ==
  ASSUME Inv, Loop \/ Tick
  PROVE  Inv'
<1> USE DEF Inv
<1>1. CASE ReadSettings
  <2>1. TypeOK'
    BY <1>1, BuiltType DEF ReadSettings, TypeOK, Loops, applied
  <2>2. NoLostWakeup'
    BY <1>1 DEF ReadSettings, NoLostWakeup, TypeOK, Loops, applied
  <2>3. LoopCurrent'
    BY <1>1 DEF ReadSettings, LoopCurrent, ReviewProviderIsCurrent,
                ProviderMatches, TypeOK, Loops, applied
  <2> QED BY <1>1, <2>1, <2>2, <2>3
          DEF ReadSettings, ProviderMatches, AlwaysValid, ValidInFlight,
              InFlight, applied
<1>2. CASE ReadProvider
  <2>1. TypeOK' /\ loop'.seen = loop.seen /\ loop'.using = provider
    BY <1>2 DEF ReadProvider, TypeOK, Loops, applied
  <2>2. NoLostWakeup'
    BY <1>2, <2>1 DEF ReadProvider, NoLostWakeup, applied
  <2>3. LoopCurrent'
    BY <1>2, <2>1 DEF ReadProvider, LoopCurrent, ReviewProviderIsCurrent, applied
  <2> QED BY <1>2, <2>1, <2>2, <2>3
          DEF ReadProvider, ProviderMatches, AlwaysValid, ValidInFlight,
              InFlight, applied
<1>3. CASE FinishReview \/ Woken \/ Tick
  <2>1. TypeOK' /\ loop'.pc \in {"read", "wait"} /\ loop'.seen = loop.seen
    BY <1>3 DEF FinishReview, Woken, Tick, LoopStep, TypeOK, Loops, applied
  <2>2. NoLostWakeup'
    BY <1>3, <2>1
    DEF FinishReview, Woken, Tick, LoopStep, NoLostWakeup, TypeOK, Loops, applied
  <2>3. LoopCurrent'
    BY <1>3, <2>1
    DEF FinishReview, Woken, Tick, LoopCurrent, ReviewProviderIsCurrent, applied
  <2> QED BY <1>3, <2>1, <2>2, <2>3
          DEF FinishReview, Woken, Tick, ProviderMatches, AlwaysValid,
              ValidInFlight, InFlight, applied
<1> QED BY <1>1, <1>2, <1>3 DEF Loop

LEMMA RestartInv ==
  ASSUME Inv, Restart
  PROVE  Inv'
<1> USE DEF Inv
<1>1. /\ settings' \in Settings /\ settings' \in saved \cup {Defaults}
      /\ settings'.days \in Nat
  BY BootType DEF Restart, TypeOK, Settings
<1>2. settings' = Defaults \/ Valid(settings')
  BY <1>1 DEF AlwaysValid
<1>3. Ended \in Calls
  BY SettingsAssumption DEF Ended, Calls
<1>4. call' \in [Callers -> Calls]
  BY <1>3 DEF Restart, TypeOK
<1>5. loop' \in Loops /\ loop'.pc = "read"
  BY DEF Restart, TypeOK, Loops
<1>6. provider' \in Built
  BY <1>1, BuiltType DEF Restart
<1>7. TypeOK'
  BY <1>1, <1>4, <1>5, <1>6 DEF Restart, TypeOK
<1>8. ValidInFlight'
  BY DEF Restart, ValidInFlight, InFlight, Ended
<1>9. NoLostWakeup' /\ LoopCurrent'
  BY <1>5 DEF Restart, NoLostWakeup, LoopCurrent, ReviewProviderIsCurrent
<1>10. ProviderMatches' /\ AlwaysValid'
  BY <1>2 DEF Restart, ProviderMatches, AlwaysValid
<1> QED BY <1>7, <1>8, <1>9, <1>10

LEMMA InvHolds == Spec => []Inv
<1>1. ASSUME Inv, UNCHANGED vars
      PROVE  Inv'
  BY <1>1 DEF vars, Inv, TypeOK, ProviderMatches, LoopCurrent,
              ReviewProviderIsCurrent, AlwaysValid, ValidInFlight, InFlight,
              NoLostWakeup
<1>2. Inv /\ [Next]_vars => Inv'
  BY <1>1, MergeInv, ApplyInv, LoopInv, RestartInv DEF Next
<1> QED BY <1>2, InitInv, PTL DEF Spec

(* The runtime's state, its row in the database, the requests and the loop *)
(* keep their types.                                                       *)
THEOREM TypeCorrect == Spec => []TypeOK
<1>1. Inv => TypeOK
  BY DEF Inv
<1> QED BY <1>1, InvHolds, PTL

(* A review never runs with a provider older than the settings the loop    *)
(* has just read (reviewOnce, Apply).                                      *)
THEOREM ReviewsUseCurrentProvider == Spec => []ReviewProviderIsCurrent
<1>1. Inv => ReviewProviderIsCurrent
  BY DEF Inv, LoopCurrent
<1> QED BY <1>1, InvHolds, PTL

(* However updates race and whatever the deployment's unchecked settings   *)
(* are, what is saved validates as a whole, and what is live does unless   *)
(* it is still the deployment's (merge, validateSettings, NewRuntime).     *)
THEOREM SettingsAlwaysValid == Spec => []AlwaysValid
<1>1. Inv => AlwaysValid
  BY DEF Inv
<1> QED BY <1>1, InvHolds, PTL

(* A change is never lost on the review loop: as long as the loop has not  *)
(* read it, a signal is pending or on its way (Apply, Changed, Run).       *)
THEOREM WakeupNeverLost == Spec => []NoLostWakeup
<1>1. Inv => NoLostWakeup
  BY DEF Inv
<1> QED BY <1>1, InvHolds, PTL

-----------------------------------------------------------------------------
(* Updates that do not overlap.                                            *)

KeptAll(old, new) ==
  /\ Kept(old.hook, new.hook)
  /\ \A k \in Clouds : Kept(old.keys[k], new.keys[k])

(* The store has what is live, as far as it has anything.                  *)
Stored ==
  /\ saved # {} => saved = {settings}
  /\ retention = settings.days

(* How far an update has come that has the runtime to itself.              *)
StageOK(c) ==
  /\ call[c].pc = "commit" => Stored /\ KeptAll(settings, call[c].next)
  /\ call[c].pc \in {"save", "retain", "signal"} => settings = call[c].next
  /\ call[c].pc \in {"retain", "signal"} => saved = {settings}
  /\ call[c].pc = "signal" => retention = settings.days

OneRow == saved # {} => \E s \in Settings : saved = {s}

Solo ==
  /\ OneRow
  /\ alone =>
       /\ \A c, d \in Callers : InFlight(c) /\ InFlight(d) => c = d
       /\ \A c \in Callers : StageOK(c)
       /\ (\A c \in Callers : ~ InFlight(c)) => Stored

LEMMA MergeKeeps ==
  ASSUME NEW s \in Settings, NEW u \in Payloads
  PROVE  KeptAll(s, merge(s, u))
<1>1. merge(s, u).hook = Replace(s.hook, u.hook)
  BY DEF merge
<1>2. Kept(s.hook, merge(s, u).hook)
  BY <1>1 DEF Kept, Replace
<1>3. ASSUME NEW k \in Clouds
      PROVE  merge(s, u).keys[k] \in {s.keys[k], Replace(s.keys[k], u.key)}
  <2>1. s.keys \in [Clouds -> Optional]
    BY DEF Settings
  <2>2. merge(s, u).keys = IF u.provider \in Clouds
                           THEN [s.keys EXCEPT ![u.provider] = Replace(@, u.key)]
                           ELSE s.keys
    BY DEF merge
  <2> QED BY <2>1, <2>2
<1>4. \A k \in Clouds : Kept(s.keys[k], merge(s, u).keys[k])
  BY <1>3 DEF Kept, Replace
<1> QED BY <1>2, <1>4 DEF KeptAll

LEMMA SoloInit == Init => Solo
BY DEF Init, Solo, OneRow, Stored, StageOK, InFlight

LEMMA SoloMerge ==
  ASSUME Inv, Solo, NEW c \in Callers, NEW u \in Updates, Merge(c, u)
  PROVE  Solo'
<1> DEFINE next == merge(settings, u)
<1>1. KeptAll(settings, next)
  BY MergeKeeps, SettingsAssumption DEF Inv, TypeOK
<1> HIDE DEF next
<1>2. /\ call' = [call EXCEPT ![c] =
                    IF Valid(next) THEN [pc |-> "commit", next |-> next]
                    ELSE Ended]
      /\ alone' = (alone /\ \A d \in Callers : ~ InFlight(d))
      /\ UNCHANGED <<settings, saved, retention>>
  BY DEF Merge, Accepted, next
<1>3. OneRow'
  BY <1>2 DEF Solo, OneRow
<1>4. ASSUME alone'
      PROVE  /\ \A d, e \in Callers : InFlight(d)' /\ InFlight(e)' => d = e
             /\ \A d \in Callers : StageOK(d)'
             /\ Stored'
  <2>1. alone /\ \A d \in Callers : ~ InFlight(d)
    BY <1>2, <1>4
  <2>2. Stored
    BY <2>1 DEF Solo
  <2>3. Stored'
    BY <1>2, <2>2 DEF Stored
  <2>4. \A d \in Callers : d # c => call'[d] = call[d]
    BY <1>2 DEF Inv, TypeOK
  <2>5. call'[c] = IF Valid(next) THEN [pc |-> "commit", next |-> next] ELSE Ended
    BY <1>2 DEF Inv, TypeOK
  <2>6. \A d \in Callers : d # c => ~ InFlight(d)'
    BY <2>1, <2>4 DEF InFlight
  <2>7. \A d \in Callers : d # c => StageOK(d)'
    BY <2>6 DEF StageOK, InFlight
  <2>8. StageOK(c)'
    BY <1>1, <1>2, <2>3, <2>5 DEF StageOK, Ended
  <2> QED BY <2>3, <2>6, <2>7, <2>8
<1> QED BY <1>3, <1>4 DEF Solo

(* The step of an update that is alone leaves every other request where it *)
(* is: not under way.                                                      *)
LEMMA OthersIdle ==
  ASSUME Inv, Solo, NEW c \in Callers, InFlight(c), alone,
         \A d \in Callers : d # c => call'[d] = call[d]
  PROVE  /\ \A d \in Callers : d # c => ~ InFlight(d)' /\ StageOK(d)'
         /\ \A d, e \in Callers : InFlight(d)' /\ InFlight(e)' => d = e
<1>1. \A d \in Callers : d # c => ~ InFlight(d)
  BY DEF Solo
<1>2. \A d \in Callers : d # c => ~ InFlight(d)'
  BY <1>1 DEF InFlight
<1>3. \A d \in Callers : d # c => StageOK(d)'
  BY <1>2 DEF StageOK, InFlight
<1> QED BY <1>2, <1>3

LEMMA SoloApply ==
  ASSUME Inv, Solo, NEW c \in Callers, Apply(c)
  PROVE  Solo'
<1>1. call \in [Callers -> Calls] /\ call[c].next \in Settings
  BY DEF Inv, TypeOK, Calls
<1>2. ASSUME NEW from, NEW to, Step(c, from, to)
      PROVE  /\ call[c].pc = from /\ call'[c].pc = to
             /\ call'[c].next = call[c].next
             /\ \A d \in Callers : d # c => call'[d] = call[d]
  BY <1>1, <1>2 DEF Step, Calls
<1>3. CASE Commit(c)
  <2>1. /\ call[c].pc = "commit" /\ call'[c].pc = "save"
        /\ call'[c].next = call[c].next
        /\ \A d \in Callers : d # c => call'[d] = call[d]
        /\ settings' = call[c].next /\ UNCHANGED <<saved, alone>>
    BY <1>2, <1>3 DEF Commit
  <2>2. StageOK(c)' /\ InFlight(c) /\ InFlight(c)'
    BY <2>1 DEF StageOK, InFlight
  <2> QED BY <2>1, <2>2, OthersIdle DEF Solo, OneRow
<1>4. CASE Save(c)
  <2>1. /\ call[c].pc = "save" /\ call'[c].pc = "retain"
        /\ call'[c].next = call[c].next
        /\ \A d \in Callers : d # c => call'[d] = call[d]
        /\ UNCHANGED settings
    BY <1>2, <1>4 DEF Save
  <2>2. \/ saved' = {call[c].next} /\ alone' = alone
        \/ alone' = FALSE /\ saved' = saved
    BY <1>4, Zenon DEF Save
  <2>3. OneRow'
    BY <1>1, <2>2 DEF Solo, OneRow
  <2>4. CASE saved' = {call[c].next} /\ alone' = alone
    <3>1. alone => StageOK(c)'
      BY <2>1, <2>4 DEF Solo, StageOK
    <3>2. InFlight(c) /\ InFlight(c)'
      BY <2>1 DEF InFlight
    <3> QED BY <2>1, <2>3, <2>4, <3>1, <3>2, OthersIdle DEF Solo
  <2>5. CASE alone' = FALSE
    BY <2>3, <2>5 DEF Solo
  <2> QED BY <2>2, <2>4, <2>5
<1>5. CASE SetRetentionDays(c)
  <2>1. /\ call[c].pc = "retain" /\ call'[c].pc = "signal"
        /\ call'[c].next = call[c].next
        /\ \A d \in Callers : d # c => call'[d] = call[d]
        /\ retention' = call[c].next.days
        /\ UNCHANGED <<settings, saved, alone>>
    BY <1>2, <1>5 DEF SetRetentionDays
  <2>2. alone => StageOK(c)'
    BY <2>1 DEF Solo, StageOK
  <2>3. InFlight(c) /\ InFlight(c)'
    BY <2>1 DEF InFlight
  <2> QED BY <2>1, <2>2, <2>3, OthersIdle DEF Solo, OneRow
<1>6. CASE Signal(c)
  <2>1. /\ call[c].pc = "signal" /\ call'[c] = Ended
        /\ \A d \in Callers : d # c => call'[d] = call[d]
        /\ UNCHANGED <<settings, saved, retention, alone>>
    BY <1>1, <1>6 DEF Signal
  <2>2. InFlight(c) /\ StageOK(c)'
    BY <2>1 DEF InFlight, StageOK, Ended
  <2>3. alone => Stored'
    BY <2>1 DEF Solo, StageOK, Stored
  <2> QED BY <2>1, <2>2, <2>3, OthersIdle DEF Solo, OneRow
<1> QED BY <1>3, <1>4, <1>5, <1>6 DEF Apply

LEMMA SoloRestart ==
  ASSUME Inv, Solo, Restart
  PROVE  Solo'
<1>1. /\ settings' = BootSettings(saved) /\ retention' = settings'.days
      /\ UNCHANGED <<saved, alone>>
  BY DEF Restart
<1>2. saved # {} => saved = {settings'}
  <2> SUFFICES ASSUME NEW s \in Settings, saved = {s}
               PROVE  settings' = s
    BY DEF Solo, OneRow
  <2>1. Buildable(s)
    BY DEF Inv, AlwaysValid, Valid, Buildable
  <2> QED BY <1>1, <2>1 DEF BootSettings
<1>3. Stored'
  BY <1>1, <1>2 DEF Stored
<1>4. \A c \in Callers : ~ InFlight(c)'
  BY DEF Restart, InFlight, Ended
<1>5. \A c \in Callers : StageOK(c)'
  BY <1>4 DEF StageOK, InFlight
<1> QED BY <1>1, <1>3, <1>4, <1>5 DEF Solo, OneRow

LEMMA SoloHolds == Spec => []Solo
<1>1. ASSUME Solo, UNCHANGED <<settings, saved, retention, call, alone>>
      PROVE  Solo'
  BY <1>1 DEF Solo, OneRow, Stored, StageOK, InFlight
<1>2. ASSUME Loop \/ Tick \/ UNCHANGED vars
      PROVE  UNCHANGED <<settings, saved, retention, call, alone>>
  BY <1>2 DEF Loop, ReadSettings, ReadProvider, FinishReview, Woken, Tick,
              applied, vars
<1>3. Inv /\ Solo /\ [Next]_vars => Solo'
  BY <1>1, <1>2, SoloMerge, SoloApply, SoloRestart DEF Next
<1> QED BY <1>3, SoloInit, InvHolds, PTL DEF Spec

(* Updates that do not overlap, and whose saves succeed, survive a restart *)
(* whole, wherever it strikes (Apply, NewRuntime).                         *)
THEOREM AloneIsDurable == Spec => []DurableWhenAlone
<1>1. Solo => DurableWhenAlone
  BY DEF Solo, Stored, DurableWhenAlone
<1> QED BY <1>1, SoloHolds, PTL

(* An update that nothing has overlapped drops no secret: what merge kept  *)
(* is still what is live when the lock is taken (merge, Apply).            *)
THEOREM AloneKeepsSecrets == Spec => SecretsKeptWhenAlone
<1> DEFINE Step1 == alone /\ live' # live
                      => /\ Kept(settings.hook, settings'.hook)
                         /\ \A k \in Clouds : Kept(settings.keys[k], settings'.keys[k])
<1>1. ASSUME Inv, Solo, [Next]_vars, alone, live' # live
      PROVE  KeptAll(settings, settings')
  <2>1. PICK c \in Callers : Commit(c)
    BY <1>1 DEF Next, Apply, Merge, Save, SetRetentionDays, Signal, Loop,
                ReadSettings, ReadProvider, FinishReview, Woken, Tick, Restart,
                applied, vars
  <2>2. call[c].pc = "commit" /\ settings' = call[c].next
    BY <2>1 DEF Commit, Step
  <2>3. StageOK(c)
    BY <1>1 DEF Solo
  <2> QED BY <2>2, <2>3 DEF StageOK
<1>2. Inv /\ Solo /\ [Next]_vars => [Step1]_vars
  BY <1>1 DEF KeptAll
<1> HIDE DEF Step1
<1>3. Spec => [][Step1]_vars
  BY <1>2, InvHolds, SoloHolds, PTL DEF Spec
<1> QED BY <1>3 DEF Step1, SecretsKeptWhenAlone
=============================================================================
