-------------------------- MODULE MCTwoPhaseCommit --------------------------
(* A small instance of TwoPhaseCommit: one transaction writing on two        *)
(* shards, met by the loop's pass over every shard and, beside it, by a pass *)
(* over the shard set of s2 alone.                                           *)
EXTENDS TwoPhaseCommit, TLC
CONSTANTS t1, s1, s2, loop, other

Writers2 == t1 :> {s1, s2}
LeadS1 == t1 :> s1
SetPass == loop :> Shards @@ other :> {s2}
=============================================================================
