---------------------------- MODULE MCPlacement ----------------------------
(* Two shards, one key on each, and two controllers.  One client updates   *)
(* the key that moves, another one deletes it.  The first plan may be      *)
(* cancelled, two have both clients and no faults, and in the last two     *)
(* another table has the retired name on the second shard.                 *)
EXTENDS Placement, TLC

CONSTANTS s1, s2, k1, k2, w1, w2

TwoShards == <<s1, s2>>
HashOwner == (k1 :> s1) @@ (k2 :> s2)
UpdateDelete == (w1 :> [key |-> k2, val |-> w1]) @@ (w2 :> [key |-> k2, val |-> None])

Move(from, to, home, writers, cancel, n) ==
    [from |-> from, to |-> to, home |-> home, writers |-> writers, taken |-> {},
     cancel |-> cancel, faults |-> n, overlap |-> FALSE]
Clash(m, S) == [m EXCEPT !.taken = S]

(* Everywhere but the copy, the replay and the raising of the flag, where  *)
(* the pass does not look at its claim before it changes a shard or the    *)
(* catalog.                                                                *)
HangPoints == Checked \cup {"start", "swap", "rename", "publish", "lower", "aborted", "retire", "finish"}

Moves == {Move("unsharded", "sharded", s1, {w1}, TRUE, 1),
          Move("sharded", "unsharded", s1, {w1}, FALSE, 1),
          Move("sharded", "unsharded", s2, {w1}, FALSE, 1),
          Move("unsharded", "sharded", s2, {w1, w2}, FALSE, 0),
          Move("sharded", "unsharded", s2, {w1, w2}, FALSE, 0),
          Clash(Move("unsharded", "sharded", s2, {w1}, FALSE, 1), {s2}),
          Clash(Move("sharded", "unsharded", s2, {w1}, FALSE, 1), {s2})}
=============================================================================
