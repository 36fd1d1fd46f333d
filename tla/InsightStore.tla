---------------------------- MODULE InsightStore ----------------------------
(***************************************************************************)
(* The history of reviews (internal/agent/store.go): a ring of the last    *)
(* reviews in memory, which the dashboard's verdict comes from, and a      *)
(* table on disk, which the trend, the history and the daily report come   *)
(* from. Add fills the ring, inserts the row and prunes old rows, three    *)
(* steps that a restart, a settings change or a reader can fall between.   *)
(*                                                                         *)
(* A review is named by the instant it was created at. The table compares  *)
(* instants as RFC 3339 text with trailing zeros left out.                 *)
(***************************************************************************)
EXTENDS Integers, FiniteSets, Sequences

CONSTANTS
  Second,     (* instants in a second                                       *)
  Day,        (* instants in a day                                          *)
  Capacity,   (* size of the ring                                           *)
  MaxDays     (* longest retention the settings allow                       *)

ASSUME StoreAssumption ==
  /\ Second \in Nat \ {0}
  /\ Day \in Nat /\ Day >= Second /\ Day % Second = 0
  /\ Capacity \in Nat \ {0}
  /\ MaxDays \in Nat \ {0}

VARIABLES
  now,        (* the clock                                                  *)
  db,         (* whether this process could open the database               *)
  ring,       (* Store.insights, newest first                               *)
  table,      (* the rows on disk                                           *)
  add,        (* the frame of Add; at is the newest review's instant        *)
  retention,  (* the pruning window, in days                                *)
  warm,       (* history: this process restored the ring from the table     *)
  inserted    (* history: every row ever inserted                           *)

storeVars == <<db, ring, table, add, retention, warm, inserted>>

Retentions == 1 .. MaxDays

StoreTypeOK ==
  /\ now \in Nat
  /\ db \in BOOLEAN
  /\ ring \in Seq(Nat) /\ Len(ring) <= Capacity
  /\ table \in SUBSET Nat
  /\ add \in [pc : {"idle", "insert", "prune"}, at : Nat]
  /\ retention \in Retentions
  /\ warm \in BOOLEAN
  /\ inserted \in SUBSET Nat

-----------------------------------------------------------------------------
SecondOf(t) == t \div Second

(* Of the texts of one second, "...:05Z" sorts after "...:05.2Z".          *)
Text(t) == IF t % Second = 0 THEN t + Second ELSE t

(* ORDER BY created_at DESC LIMIT Capacity.                                *)
Newest(rows, n) ==
  [i \in 1 .. (IF Cardinality(rows) < n THEN Cardinality(rows) ELSE n) |->
     CHOOSE t \in rows : Cardinality({u \in rows : Text(u) > Text(t)}) = i - 1]

Ring == {ring[i] : i \in 1 .. Len(ring)}

(* The reviews of the last window.                                         *)
Timeline(window) ==
  IF db THEN {t \in table : Text(t) >= Text(now - window)}
        ELSE {t \in Ring : t > now - window}

-----------------------------------------------------------------------------
StoreInit ==
  /\ now = 0
  /\ db \in BOOLEAN
  /\ ring = <<>>
  /\ table = {}
  /\ add = [pc |-> "idle", at |-> 0]
  /\ retention \in Retentions
  /\ warm = db
  /\ inserted = {}

RestoreOldest ==                                                    (* mutant *)
  [i \in 1 .. Len(Newest(table, Capacity)) |->
     CHOOSE t \in table :
       Cardinality({u \in table : Text(u) < Text(t)}) = i - 1]

Restore == Newest(table, Capacity)

(* NewPersistentStore and the retention NewRuntime gives it. A database    *)
(* that cannot be opened or read leaves a memory-only or an empty store.   *)
Reopen ==
  /\ \/ db' = TRUE  /\ warm' = TRUE  /\ ring' = Restore
     \/ db' \in BOOLEAN /\ warm' = FALSE /\ ring' = <<>>
  /\ add' = [add EXCEPT !.pc = "idle"]
  /\ retention' \in Retentions
  /\ UNCHANGED <<now, table, inserted>>

CacheUncapped ==                                                    (* mutant *)
  /\ add.pc = "idle"
  /\ now > add.at
  /\ ring' = <<now>> \o ring
  /\ add' = [pc |-> IF db THEN "insert" ELSE "idle", at |-> now]
  /\ UNCHANGED <<now, db, table, retention, warm, inserted>>

(* Add: the ring. A review takes time, so no two end at one instant.       *)
Cache ==
  /\ add.pc = "idle"
  /\ now > add.at
  /\ ring' = SubSeq(<<now>> \o ring, 1,
                    IF Len(ring) < Capacity THEN Len(ring) + 1 ELSE Capacity)
  /\ add' = [pc |-> IF db THEN "insert" ELSE "idle", at |-> now]
  /\ UNCHANGED <<now, db, table, retention, warm, inserted>>

(* The row. A failure is logged, and nothing is pruned then.               *)
Insert ==
  /\ add.pc = "insert"
  /\ \/ /\ table' = table \cup {add.at}
        /\ inserted' = inserted \cup {add.at}
        /\ add' = [add EXCEPT !.pc = "prune"]
     \/ /\ add' = [add EXCEPT !.pc = "idle"]
        /\ UNCHANGED <<table, inserted>>
  /\ UNCHANGED <<now, db, ring, retention, warm>>

PruneHours ==                                                       (* mutant *)
  /\ add.pc = "prune"
  /\ table' = {t \in table : Text(t) >= Text(now - retention * Second)}
  /\ add' = [add EXCEPT !.pc = "idle"]
  /\ UNCHANGED <<now, db, ring, retention, warm, inserted>>

(* DELETE ... WHERE created_at < cutoff, by the retention of this moment.  *)
Prune ==
  /\ add.pc = "prune"
  /\ \/ table' = {t \in table : Text(t) >= Text(now - retention * Day)}
     \/ UNCHANGED table
  /\ add' = [add EXCEPT !.pc = "idle"]
  /\ UNCHANGED <<now, db, ring, retention, warm, inserted>>

(* A save of the Settings page, on a goroutine of its own.                 *)
SetRetentionDays(days) ==
  /\ retention' = days
  /\ UNCHANGED <<now, db, ring, table, add, warm, inserted>>

StoreNext ==
  \/ Cache
  \/ Insert
  \/ Prune
  \/ \E days \in Retentions : SetRetentionDays(days)

-----------------------------------------------------------------------------
(* The ring and the table agree on what is newest: the verdict shown       *)
(* (Latest) is never older, by a second or more, than a review the history *)
(* shows, also after restarts and failed inserts; and the ring is what a   *)
(* restart would restore: it misses rows only when it is full, and none    *)
(* younger than one it holds. Within a second the table's order, that of   *)
(* the texts, may be wrong.                                                *)
RingHoldsNewest ==
  /\ ring # <<>> =>
       \A t \in Ring \cup (IF db THEN table ELSE {}) :
         SecondOf(t) <= SecondOf(ring[1])
  /\ warm => \A t \in table \ Ring :
               /\ Len(ring) = Capacity
               /\ \A r \in Ring : SecondOf(t) <= SecondOf(r)
=============================================================================
