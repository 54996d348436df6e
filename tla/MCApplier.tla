----------------------------- MODULE MCApplier -----------------------------
EXTENDS Applier

Plan(k, crash, lost, fault, flip) ==
    [kind |-> k, crash |-> crash, lost |-> lost, fault |-> fault, flip |-> flip]

(* A crash and a failure for every statement; two failures where a shard's  *)
(* answer is asked for twice; a crash and a cutover; a lock lost by a       *)
(* process that lives on.                                                   *)
MCPlans ==
    {Plan(k, 1, 0, 1, 0): k \in Statements}
      \cup {Plan(k, 0, 0, 2, 0): k \in {"index", "rewrite"}}
      \cup {Plan(k, 1, 0, 0, 1): k \in {"create", "rewrite"}}
      \cup {Plan(k, 0, 1, 0, 0): k \in {"create", "rewrite"}}
=============================================================================
