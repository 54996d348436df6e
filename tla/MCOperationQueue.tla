-------------------------- MODULE MCOperationQueue --------------------------
(* Instances of OperationQueue for TLC. Each plan brings together the parts *)
(* that meet in one hazard; together they use every action.                 *)
EXTENDS OperationQueue

CONSTANTS c1, c2

Two(a, b) == [c \in {c1, c2} |-> IF c = c1 THEN a ELSE b]
A(sends, work, giveup, meddle, fault, stuck) ==
    [sends |-> sends, work |-> work, giveup |-> giveup, meddle |-> meddle, fault |-> fault, stuck |-> stuck]

(* Clients that repeat, overtake and give up. *)
Retried == {A(Two(<<"create", "drop", "create">>, <<"create">>), {}, 2, 0, 0, FALSE),
            A(Two(<<"restart", "restart">>, <<"restart">>), {}, 1, 0, 0, FALSE),
            A(Two(<<"elsewhere", "role", "elsewhere">>, <<"elsewhere">>), {}, 1, 0, 0, FALSE)}

(* A placement among schema changes. *)
Placing == {A(Two(<<"alter">>, <<"alter">>), {"placement"}, 0, 1, 1, FALSE),
            A(Two(<<"alter">>, <<"create">>), {"placement"}, 0, 0, 0, FALSE)}

(* Everything that moves data, with an administrator. *)
Moving == {A(Two(<<"create">>, <<>>), {"reshard", "placement"}, 0, 1, 0, FALSE),
           A(Two(<<"role">>, <<>>), {"reshard", "edit"}, 0, 2, 1, FALSE)}

(* A placement whose description fails every time. *)
Stuck == {A(Two(<<"alter">>, <<"create">>), {"placement"}, 0, 0, 0, TRUE),
          A(Two(<<"alter">>, <<>>), {"placement", "reshard"}, 0, 0, 0, TRUE)}

MCPlans == Retried \cup Placing \cup Moving \cup Stuck

=============================================================================
