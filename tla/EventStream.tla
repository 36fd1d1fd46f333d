---------------------------- MODULE EventStream -----------------------------
(***************************************************************************)
(* What one query promises to whoever reads its event stream: progress,    *)
(* then one last event and nothing after it; and a change that was         *)
(* proposed is shown, as a card to approve, before anything else happens.  *)
(* A stream may break off at any moment, also between the two.             *)
(*                                                                         *)
(* QueryEngine.tla, the model of the tool loop, implements this.           *)
(***************************************************************************)
EXTENDS Naturals, Sequences

CONSTANTS
  Changes,  (* names of changes that may be proposed                        *)
  Nothing   (* what an event without one is about                           *)

VARIABLES
  log,      (* the events so far                                            *)
  open,     (* more may come                                                *)
  stored    (* the changes that were proposed                               *)

vars == <<log, open, stored>>

Init ==
  /\ log = <<>>
  /\ open = TRUE
  /\ stored = {}

Ev(type, of) == [type |-> type, of |-> of]

Shown ==
  {log[i].of : i \in {j \in 1 .. Len(log) : log[j].type = "proposal"}}

Quiet == open /\ stored = Shown

(* The model said something.                                               *)
Say ==
  /\ Quiet
  /\ log' = Append(log, Ev("text", Nothing))
  /\ UNCHANGED <<open, stored>>

(* A tool is called, perhaps the one that proposes a change.               *)
CallTool ==
  /\ Quiet
  /\ \E p \in Changes : log' = Append(log, Ev("tool", p))
  /\ UNCHANGED <<open, stored>>

(* A change is proposed by the tool just announced.                        *)
Propose ==
  /\ Quiet
  /\ \E p \in Changes \ stored :
       /\ log # <<>> /\ log[Len(log)] = Ev("tool", p)
       /\ stored' = stored \cup {p}
  /\ UNCHANGED <<log, open>>

Show ==
  /\ open
  /\ \E p \in stored \ Shown : log' = Append(log, Ev("proposal", p))
  /\ UNCHANGED <<open, stored>>

(* The last event, perhaps with the model's last words before it.          *)
End(type) ==
  /\ Quiet
  /\ log' \in {log \o << Ev(type, Nothing) >>,
               log \o << Ev("text", Nothing), Ev(type, Nothing) >>}
  /\ open' = FALSE
  /\ UNCHANGED stored

Break ==
  /\ open
  /\ open' = FALSE
  /\ UNCHANGED <<log, stored>>

Next ==
  \/ Say \/ CallTool \/ Propose \/ Show
  \/ End("done") \/ End("error")
  \/ Break

Spec == Init /\ [][Next]_vars

-----------------------------------------------------------------------------
(* Who reads on to the last event has missed nothing, and no change is     *)
(* shown twice.                                                            *)
EndIsLast ==
  \A i \in 1 .. Len(log) : log[i].type \in {"done", "error"} =>
    i = Len(log) /\ ~ open /\ stored = Shown

ShownOnce ==
  \A i, j \in 1 .. Len(log) : log[i].type = "proposal" /\ log[j] = log[i] => i = j
=============================================================================
