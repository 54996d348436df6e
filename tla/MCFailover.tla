----------------------------- MODULE MCFailover -----------------------------
(* Small instances of Failover: groups of three members.                     *)
EXTENDS Failover
CONSTANTS a, b, c

(* One acknowledgement and two commits; and the acknowledgement of all.      *)
Durable == [sync |-> 1, writes |-> 2, epochs |-> 2, faults |-> 2]
Unanimous == [sync |-> 2, writes |-> 0, epochs |-> 3, faults |-> 2]
Both == {Durable, Unanimous}
OneWrite == {[Durable EXCEPT !.writes = 1]}

(* A group in its second reign: b took over from a at epoch 1, the status  *)
(* and the Lease say so, and a failover from b was begun and abandoned,    *)
(* which left the Lease without the name of the primary.                   *)
AbandonedInit ==
  /\ wal = [m \in Members |-> <<>>] /\ written = 0 /\ acked = {}
  /\ pod = [m \in Members |-> TRUE]
  /\ pg = [m \in Members |-> IF m = b THEN "primary" ELSE "standby"]
  /\ signal = [m \in Members |-> m # b]
  /\ pending = [m \in Members |-> FALSE]
  /\ src = [m \in Members |-> IF m = b THEN None ELSE b]
  /\ epoch = [m \in Members |-> IF m = b THEN 1 ELSE 0]
  /\ job = [m \in Members |-> "none"]
  /\ hold = [m \in Members |-> m = b]
  /\ lease = [holder |-> b, expired |-> FALSE]
  /\ note = [primary |-> None, epoch |-> 1]
  /\ row = [primary |-> b, epoch |-> 1]
  /\ status = [primary |-> b, epoch |-> 1]
  /\ seen = Members /\ kept = Members \ {b}
  /\ rw = {b} /\ conf = b /\ op = Idle /\ faults = 0 /\ plan \in Plans

LossSpec == AbandonedInit /\ [][LossNext]_vars

=============================================================================
