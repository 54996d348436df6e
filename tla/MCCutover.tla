----------------------------- MODULE MCCutover ------------------------------
(* Instances of Cutover: from the end of the copy, and from the switch.      *)
EXTENDS Cutover

CONSTANTS s1, s2, t, w1

OneSource == {s1}
TwoSources == {s1, s2}
OneWriter == {w1}

(* A two-phase writer, a pass that dies once or an operation that fails, and *)
(* a copy that agrees or does not; and a reverted spec.shards.               *)
Faulty == [writers |-> {w1}, twophase |-> {w1}, differs |-> FALSE,
           rollback |-> FALSE, revert |-> FALSE, faults |-> 1, lost |-> 0]
Reverting == [Faulty EXCEPT !.faults = 0, !.revert = TRUE, !.writers = {}]
Switching == {Faulty, [Faulty EXCEPT !.differs = TRUE], Reverting}

(* A timing assumption: no target set is dropped from the catalog, or left   *)
(* unmarked, when the journal id is allocated.                               *)
DroppedInTime == row.journal => cat.target

(* A promotion that loses a pause.                                           *)
Ending == {[Faulty EXCEPT !.faults = 0, !.lost = 1]}

(* A rollback after the switch, of writes that do not prepare.               *)
RollingBack == [Faulty EXCEPT !.twophase = {}, !.rollback = TRUE]

(* The state a switch without writes ends in: the release step is saved, and *)
(* no router or pooler has reloaded the catalog yet.                         *)
SwitchedInit ==
  /\ row = [state |-> "running", stage |-> "switched", step |-> "release",
            fenced |-> TRUE, journal |-> TRUE, disabling |-> TRUE,
            mismatch |-> FALSE, positions |-> [s \in Sources |-> 0],
            attempts |-> 0, refused |-> FALSE, retries |-> 0]
  /\ ctl = Idle
  /\ cat = [serving |-> "target", gen |-> 2, fence |-> {}, ddl |-> FALSE,
            journal |-> TRUE, claim |-> {}, instant |-> {}, target |-> TRUE]
  /\ paused = {}
  /\ log = [s \in Shards |-> <<>>]
  /\ fwd = [s \in Sources |-> "off"] /\ fwdAt = [s \in Sources |-> 0]
  /\ rev = [s \in Sources |-> "on"] /\ revAt = [s \in Sources |-> 0]
  /\ carried = {"source", "target"}
  /\ tx = [w \in Writers |-> NoTx]
  /\ view = [w \in Writers |-> [set |-> "source", gen |-> 1, fenced |-> FALSE]]
  /\ pview = [s \in Shards |-> [gen |-> 1, migrating |-> FALSE]]
  /\ plan = RollingBack /\ expired = FALSE /\ drift = FALSE /\ mig = FALSE
  /\ revert = FALSE /\ faults = 0 /\ lost = 0 /\ swept = {}

Goes == [][Next]_vars /\ Fairness /\ TransactionsEnd
EndingSpec == (Init \/ SwitchedInit) /\ Goes
=============================================================================
