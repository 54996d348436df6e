------------------------ MODULE OperationQueueProofs ------------------------
(***************************************************************************)
(* For every value of the constants: conflicting operations never overlap, *)
(* a migration runs under the placement it was planned for, a placement    *)
(* restores the shape its table has, and a client is told the truth.       *)
(***************************************************************************)
EXTENDS OperationQueue, TLAPS

(* What the state of an operation says about its stage, and the reverse.    *)
(* An operation at work that is not over reads as started.                  *)
DDLOK(o) ==
    /\ o.state \in {"queued", "running", "complete", "failed"}
    /\ o.stage \in {"unset", "applied", "error"}
    /\ o.begun => o.state # "queued"
    /\ o.state = "running" => o.begun
    /\ o.stamped => o.state # "queued"
    /\ o.stamped /\ o.state = "running" => o.stage # "unset"

ReshardOK(o) ==
    o.begun => /\ o.stage \notin {"unset", "provisioning", "ready_for_copy"}
               /\ o.state # "provisioning"

PlacementOK(o) ==
    /\ o.begun => o.stage # "preparing" /\ o.state \notin {"queued", "provisioning"}
    /\ o.state = "pending" \/ (o.state = "paused" /\ o.from = "pending") =>
         o.stage = "preparing" /\ ~o.begun
    /\ o.state = "running" \/ (o.state = "paused" /\ o.from = "running") => o.begun
    /\ o.stage \in {"moving", "buffering", "swapping", "retiring"} =>
         o.begun /\ o.state \in {"running", "paused"}

OpOK(o) ==
    /\ o.begun => o.seen
    /\ o.kind # "ddl" => o.key = "unset"
    /\ o.state = "paused" => o.from # "unset"
    /\ o.kind = "ddl" => DDLOK(o)
    /\ o.kind = "reshard" => ReshardOK(o)
    /\ o.kind = "edit" => ~o.begun
    /\ o.kind = "placement" => PlacementOK(o)

(* A pass holds a workflow that has not started; while the workflow is in   *)
(* the state the pass listed it in, it is still where the pass found it.    *)
Before(o) == IF o.kind = "reshard" THEN "ready_for_copy" ELSE "preparing"
Fits(p, o) ==
    /\ o.seen /\ ~o.begun /\ o.kind \in {"reshard", "placement"}
    /\ p.fence = IF o.kind = "reshard" THEN "running" ELSE "pending"
    /\ o.state \in {p.fence, "paused", "cancelled"}
    /\ o.state = "paused" => o.from = p.fence
    /\ o.state # "cancelled" => o.stage = Before(o)

(* A schema change of the placed table's database that has begun or ended. *)
Touches(o) ==
    /\ o.kind = "ddl" /\ o.seen /\ o.state \in {"running", "complete", "failed"}
    /\ cluster_scoped(o) \/ "here" \in Databases(o)

ClockOK(n) == \A m \in pass[n].clock : m \in DOMAIN op /\ op[m].kind = "ddl" /\ op[m].stamped

(* The shape a pass has read is the table's, or a change shows that the     *)
(* clock did not.                                                           *)
ShapeOK(n) ==
    pass[n].at = "checked" /\ op[n].kind = "placement" =>
      \/ pass[n].shape = schema.shape
      \/ \E m \in DOMAIN op : Touches(op[m]) /\ m \notin pass[n].clock

PassOK(n) ==
    /\ pass[n].at # "none" => n \in DOMAIN op /\ Fits(pass[n], op[n]) /\ ShapeOK(n)
    /\ ClockOK(n)

(* The inductive invariant. *)
IInv ==
    /\ TypeOK
    /\ \A c \in Clients : client[c].at # "idle" => todo[c] # <<>>
    /\ \A n \in DOMAIN op : OpOK(op[n])
    /\ \A n \in 1..MaxOps : PassOK(n)
    /\ NoOverlap /\ PlanHolds /\ ShapeIsCurrent

-----------------------------------------------------------------------------
(***************************************************************************)
(* The rule, operation by operation.                                       *)
(***************************************************************************)

Moving == {"reshard", "edit"}
Shared(a, b) == cluster_scoped(a) \/ cluster_scoped(b) \/ Databases(a) \cap Databases(b) # {}

LEMMA ConflictIs ==
    ASSUME NEW a \in Operations, NEW b \in Operations
    PROVE  operations_conflict(a, b) <=>
             \/ a.kind \in Moving \/ b.kind \in Moving
             \/ a.kind = "ddl" /\ b.kind = "ddl" /\ Shared(a, b)
             \/ /\ {a.kind, b.kind} = {"ddl", "placement"}
                /\ Shared(a, b) /\ ~ddl_hold_ends(a) /\ ~ddl_hold_ends(b)
  <1>1. a.kind \in {"ddl", "reshard", "edit", "placement"} /\ b.kind \in {"ddl", "reshard", "edit", "placement"}
    BY ZenonT(30) DEF Operations, Workflows
  <1>2. CASE a.kind = "ddl"
    BY <1>1, <1>2, SMTT(30) DEF operations_conflict, Shared, Moving
  <1>3. CASE a.kind = "placement"
    BY <1>1, <1>3, SMTT(30) DEF operations_conflict, Shared, Moving
  <1>4. CASE a.kind \in Moving
    BY <1>1, <1>4, ZenonT(30) DEF operations_conflict, Shared, Moving
  <1>5. QED
    BY <1>1, <1>2, <1>3, <1>4, ZenonT(30) DEF Moving

LEMMA ConflictSymmetric ==
    ASSUME NEW a \in Operations, NEW b \in Operations, operations_conflict(a, b)
    PROVE  operations_conflict(b, a)
  <1>1. Shared(a, b) <=> Shared(b, a)
    BY ZenonT(30) DEF Shared
  <1>2. {a.kind, b.kind} = {b.kind, a.kind}
    BY ZenonT(30)
  <1>3. QED
    BY <1>1, <1>2, ConflictIs, ZenonT(30)

(* A change of an operation that keeps what it is about makes no conflict,  *)
(* unless it ends the part of a placement that schema changes need not wait *)
(* for.                                                                     *)
LEMMA ConflictKept ==
    ASSUME NEW x \in Operations, NEW o \in Operations, NEW b \in Operations,
           o.kind = x.kind, o.key = x.key, ddl_hold_ends(x) => ddl_hold_ends(o),
           operations_conflict(o, b)
    PROVE  operations_conflict(x, b)
  <1>1. Shared(o, b) <=> Shared(x, b)
    BY ZenonT(30) DEF Shared, cluster_scoped, Databases
  <1>2. QED
    BY <1>1, ConflictIs, ZenonT(30)

(* An operation at work reads as started. *)
LEMMA BegunStarted ==
    ASSUME NEW o \in Operations, OpOK(o), o.begun, Unfinished(o)
    PROVE  started(o)
  <1>1. o.kind \in {"ddl", "reshard", "edit", "placement"}
    BY ZenonT(30) DEF Operations, Workflows
  <1>2. CASE o.kind = "ddl"
    BY <1>2, ZenonT(30) DEF OpOK, DDLOK, Unfinished, started
  <1>3. CASE o.kind = "placement"
    BY <1>3, ZenonT(30) DEF OpOK, PlacementOK, Unfinished, started, Operations
  <1>4. CASE o.kind = "reshard"
    BY <1>4, ZenonT(30) DEF OpOK, ReshardOK, Unfinished, started
  <1>5. QED
    BY <1>1, <1>2, <1>3, <1>4, ZenonT(30) DEF OpOK

LEMMA Domain ==
    ASSUME TypeOK
    PROVE  /\ DOMAIN op = 1..Len(op) /\ Len(op) \in Nat /\ MaxOps \in Nat
           /\ \A n \in DOMAIN op : n \in 1..MaxOps /\ op[n] \in Operations
  BY QueueConstants, SMTT(30) DEF TypeOK

(* One element of the queue is replaced. *)
LEMMA Changes ==
    ASSUME TypeOK, NEW n \in DOMAIN op, NEW o \in Operations, Change(n, o)
    PROVE  /\ op' \in Seq(Operations) /\ Len(op') = Len(op) /\ DOMAIN op' = DOMAIN op
           /\ op'[n] = o /\ \A k \in DOMAIN op \ {n} : op'[k] = op[k]
  BY SMTT(30) DEF TypeOK, Change

-----------------------------------------------------------------------------
(***************************************************************************)
(* Steps that start nothing.                                               *)
(***************************************************************************)

Unswapped == {"moving", "buffering", "swapping"}

(* The operation x becomes o, which forgets nothing ... *)
Grows(x, o) ==
    /\ o.kind = x.kind /\ o.key = x.key
    /\ x.seen => o.seen
    /\ x.stamped => o.stamped
    /\ o.kind = "ddl" /\ x.state \in {"running", "complete", "failed"} =>
         o.state \in {"running", "complete", "failed"}

(* ... and begins nothing. *)
Quiet(x, o) ==
    /\ Grows(x, o)
    /\ o.begun => x.begun
    /\ o.begun /\ Unfinished(o) => Unfinished(x) /\ (ddl_hold_ends(x) => ddl_hold_ends(o))
    /\ o.kind = "ddl" /\ o.state = "running" => x.state = "running" /\ o.basis = x.basis
    /\ o.kind = "placement" /\ o.stage \in Unswapped => x.stage \in Unswapped /\ o.basis = x.basis

LEMMA QuietOps ==
    ASSUME IInv, NEW n \in DOMAIN op, NEW o \in Operations, Change(n, o),
           OpOK(o), Quiet(op[n], o)
    PROVE  /\ \A k \in DOMAIN op' : OpOK(op'[k])
           /\ NoOverlap'
           /\ schema'.placed = schema.placed => PlanHolds'
           /\ schema'.shape = schema.shape => ShapeIsCurrent'
  <1>1. TypeOK /\ NoOverlap /\ PlanHolds /\ ShapeIsCurrent /\ \A k \in DOMAIN op : OpOK(op[k])
    BY ZenonT(30) DEF IInv
  <1>2. /\ DOMAIN op' = DOMAIN op /\ op'[n] = o
        /\ \A k \in DOMAIN op \ {n} : op'[k] = op[k]
        /\ \A k \in DOMAIN op : op[k] \in Operations
    BY <1>1, Changes, Domain, ZenonT(30)
  <1>3. \A k \in DOMAIN op' : OpOK(op'[k])
    BY <1>1, <1>2, ZenonT(30)
  <1>4. NoOverlap'
    <2>1. SUFFICES ASSUME NEW a \in DOMAIN op, NEW b \in DOMAIN op, a # b,
                          op'[a].begun, op'[b].begun, Unfinished(op'[a]), Unfinished(op'[b]),
                          operations_conflict(op'[a], op'[b])
                   PROVE  FALSE
      BY <1>2, ZenonT(30) DEF NoOverlap
    <2>2. op[a].begun /\ Unfinished(op[a]) /\ op[b].begun /\ Unfinished(op[b])
      BY <1>2, <2>1, ZenonT(30) DEF Quiet
    <2>3. CASE a = n
      <3>1. operations_conflict(op[a], op[b])
        BY <1>2, <2>1, <2>3, ConflictKept, ZenonT(30) DEF Quiet, Grows
      <3>2. QED
        BY <1>1, <2>1, <2>2, <3>1, ZenonT(30) DEF NoOverlap
    <2>4. CASE b = n
      <3>1. operations_conflict(o, op[a])
        BY <1>2, <2>1, <2>4, ConflictSymmetric, ZenonT(30)
      <3>2. operations_conflict(op[b], op[a])
        BY <1>2, <2>1, <2>4, <3>1, ConflictKept, ZenonT(30) DEF Quiet, Grows
      <3>3. QED
        BY <1>1, <2>1, <2>2, <3>2, ZenonT(30) DEF NoOverlap
    <2>5. CASE a # n /\ b # n
      BY <1>1, <1>2, <2>1, <2>2, <2>5, SMTT(30) DEF NoOverlap
    <2>6. QED
      BY <2>3, <2>4, <2>5, ZenonT(30)
  <1>5. ASSUME schema'.placed = schema.placed PROVE PlanHolds'
    BY <1>1, <1>2, <1>5, SMTT(30) DEF PlanHolds, Drifted, Quiet, Grows
  <1>6. ASSUME schema'.shape = schema.shape PROVE ShapeIsCurrent'
    BY <1>1, <1>2, <1>6, SMTT(30) DEF ShapeIsCurrent, Quiet, Grows, Unswapped
  <1>7. QED
    BY <1>3, <1>4, <1>5, <1>6, ZenonT(30)

LEMMA OtherPasses ==
    ASSUME IInv, NEW n \in DOMAIN op, NEW o \in Operations, Change(n, o), Grows(op[n], o),
           NEW k \in 1..MaxOps, pass'[k] = pass[k],
           k = n /\ pass[n].at # "none" => Fits(pass[n], o)
    PROVE  schema'.shape = schema.shape => PassOK(k)'
  <1>1. TypeOK /\ PassOK(k)
    BY ZenonT(30) DEF IInv
  <1>2. /\ DOMAIN op' = DOMAIN op /\ op'[n] = o
        /\ \A m \in DOMAIN op \ {n} : op'[m] = op[m]
    BY <1>1, Changes, ZenonT(30)
  <1>3. ClockOK(k)'
    BY <1>1, <1>2, SMTT(30) DEF PassOK, ClockOK, Grows
  <1>4. \A m \in DOMAIN op : Touches(op[m]) => Touches(op'[m])
    BY <1>2, SMTT(30) DEF Touches, Grows, cluster_scoped, Databases
  <1>5. ASSUME schema'.shape = schema.shape, pass[k].at # "none"
        PROVE  k \in DOMAIN op' /\ Fits(pass'[k], op'[k]) /\ ShapeOK(k)'
    <2>1. k \in DOMAIN op /\ Fits(pass[k], op[k]) /\ ShapeOK(k)
      BY <1>1, <1>5, ZenonT(30) DEF PassOK
    <2>2. Fits(pass'[k], op'[k])
      BY <1>2, <1>5, <2>1, ZenonT(30)
    <2>3. op'[k].kind = op[k].kind
      BY <1>2, <2>1, ZenonT(30) DEF Grows
    <2>4. ShapeOK(k)'
      BY <1>2, <1>4, <1>5, <2>1, <2>3, ZenonT(30) DEF ShapeOK
    <2>5. QED
      BY <1>2, <2>1, <2>2, <2>4, ZenonT(30)
  <1>6. QED
    BY <1>3, <1>5, ZenonT(30) DEF PassOK

LEMMA NoPassIsPass == NoPass \in Passes
  BY ZenonT(30) DEF NoPass, Passes

LEMMA NoPassOK ==
    ASSUME NEW k \in 1..MaxOps, pass'[k] = NoPass
    PROVE  PassOK(k)'
  BY SMTT(30) DEF PassOK, ClockOK, NoPass

(* A quiet change of one operation, which may end the pass over it. *)
LEMMA QuietStep ==
    ASSUME IInv, NEW n \in DOMAIN op, NEW o \in Operations, Change(n, o),
           OpOK(o), Quiet(op[n], o),
           elock' \in Clients \cup {NoOne}, UNCHANGED <<todo, client, schema>>,
           \/ UNCHANGED pass /\ (pass[n].at # "none" => Fits(pass[n], o))
           \/ Over(n)
    PROVE  IInv'
  <1>1. TypeOK /\ n \in 1..MaxOps
    BY Domain, ZenonT(30) DEF IInv
  <1>2. TypeOK'
    <2>1. pass' \in [1..MaxOps -> Passes]
      BY <1>1, NoPassIsPass, ZenonT(30) DEF TypeOK, Over
    <2>2. QED
      BY <1>1, <2>1, Changes, ZenonT(30) DEF TypeOK
  <1>3. ASSUME NEW k \in 1..MaxOps PROVE PassOK(k)'
    <2>1. CASE pass'[k] = pass[k] /\ (k = n /\ pass[n].at # "none" => Fits(pass[n], o))
      BY <2>1, OtherPasses, ZenonT(30) DEF Quiet
    <2>2. CASE pass'[k] = NoPass
      BY <2>2, NoPassOK, ZenonT(30)
    <2>3. QED
      BY <1>1, <1>3, <2>1, <2>2, ZenonT(30) DEF Over, TypeOK
  <1>4. QED
    BY <1>2, <1>3, QuietOps, ZenonT(30) DEF IInv

(* A turn of the wheel that leaves the queue and the passes alone. *)
LEMMA IdleStep ==
    ASSUME IInv, UNCHANGED <<op, pass>>, TypeOK',
           \A c \in Clients : client'[c].at # "idle" => todo'[c] # <<>>,
           schema'.shape = schema.shape, schema'.placed = schema.placed
    PROVE  IInv'
  <1>1. NoOverlap' /\ PlanHolds' /\ ShapeIsCurrent'
    <2>1. NoOverlap'
      BY ZenonT(30) DEF IInv, NoOverlap
    <2>2. PlanHolds'
      BY ZenonT(30) DEF IInv, PlanHolds, Drifted
    <2>3. ShapeIsCurrent'
      BY ZenonT(30) DEF IInv, ShapeIsCurrent
    <2>4. QED
      BY <2>1, <2>2, <2>3, ZenonT(30)
  <1>2. \A n \in 1..MaxOps : PassOK(n)'
    BY ZenonT(30) DEF IInv, PassOK, ClockOK, ShapeOK
  <1>3. QED
    BY <1>1, <1>2, ZenonT(30) DEF IInv

-----------------------------------------------------------------------------
(***************************************************************************)
(* The router.                                                             *)
(***************************************************************************)

LEMMA PlanInv ==
    ASSUME IInv, NEW c \in Clients, Plan(c)
    PROVE  IInv'
  <1>1. TypeOK
    BY ZenonT(30) DEF IInv
  <1>2. InForce(Sent(c), schema) \in BOOLEAN
    BY <1>1, ZenonT(30) DEF InForce, TypeOK
  <1>3. TypeOK'
    BY <1>1, <1>2, ZenonT(30) DEF Plan, TypeOK, Sessions
  <1>4. \A d \in Clients : client'[d].at # "idle" => todo'[d] # <<>>
    BY <1>1, ZenonT(30) DEF Plan, TypeOK, IInv
  <1>5. QED
    BY <1>3, <1>4, IdleStep, ZenonT(30) DEF Plan

LEMMA WaitEndsInv ==
    ASSUME IInv, NEW c \in Clients, WaitEnds(c)
    PROVE  IInv'
  <1>1. TypeOK /\ todo[c] # <<>>
    BY ZenonT(30) DEF IInv, WaitEnds
  <1>2. TypeOK'
    <2>1. todo' \in [Clients -> Seq(Statements)]
      BY <1>1, SMTT(30) DEF WaitEnds, TypeOK
    <2>2. QED
      BY <1>1, <2>1, ZenonT(30) DEF WaitEnds, TypeOK, Idle, Sessions
  <1>3. \A d \in Clients : client'[d].at # "idle" => todo'[d] # <<>>
    BY <1>1, ZenonT(30) DEF WaitEnds, TypeOK, IInv, Idle
  <1>4. QED
    BY <1>2, <1>3, IdleStep, ZenonT(30) DEF WaitEnds

LEMMA SequenceUsedInv ==
    ASSUME IInv, SequenceUsed
    PROVE  IInv'
  <1>1. TypeOK' /\ schema'.shape = schema.shape /\ schema'.placed = schema.placed
    BY ZenonT(30) DEF IInv, SequenceUsed, TypeOK
  <1>2. \A d \in Clients : client'[d].at # "idle" => todo'[d] # <<>>
    BY ZenonT(30) DEF SequenceUsed, IInv
  <1>3. QED
    BY <1>1, <1>2, IdleStep, ZenonT(30) DEF SequenceUsed

(* An operation that has only arrived is in nobody's way. *)
LEMMA Arrives ==
    ASSUME IInv, NEW o \in Operations, op' = Append(op, o), Len(op) < MaxOps,
           OpOK(o), ~o.begun, o.kind = "ddl" => o.state = "queued",
           o.stage \notin Unswapped,
           elock' \in Clients \cup {NoOne}, UNCHANGED <<todo, schema, pass>>,
           client' \in [Clients -> Sessions],
           \A c \in Clients : client'[c].at # "idle" => client[c].at # "idle"
    PROVE  IInv'
  <1>1. TypeOK
    BY ZenonT(30) DEF IInv
  <1>2. /\ op' \in Seq(Operations) /\ Len(op') = Len(op) + 1
        /\ op'[Len(op) + 1] = o /\ \A k \in DOMAIN op : op'[k] = op[k]
        /\ DOMAIN op' = DOMAIN op \cup {Len(op) + 1} /\ Len(op) + 1 \notin DOMAIN op
    BY <1>1, SMTT(30) DEF TypeOK
  <1>3. TypeOK'
    <2>1. Len(op') <= MaxOps
      BY <1>1, <1>2, Domain, SMTT(30)
    <2>2. QED
      BY <1>1, <1>2, <2>1, ZenonT(30) DEF TypeOK
  <1>4. \A k \in DOMAIN op' : OpOK(op'[k])
    BY <1>2, ZenonT(30) DEF IInv
  <1>5. NoOverlap'
    BY <1>2, SMTT(30) DEF IInv, NoOverlap
  <1>6. PlanHolds'
    BY <1>2, SMTT(30) DEF IInv, PlanHolds, Drifted
  <1>7. ShapeIsCurrent'
    BY <1>2, ZenonT(30) DEF IInv, ShapeIsCurrent, Unswapped
  <1>8. ASSUME NEW k \in 1..MaxOps PROVE PassOK(k)'
    <2>1. PassOK(k)
      BY <1>8, ZenonT(30) DEF IInv
    <2>2. ClockOK(k)'
      BY <1>2, <2>1, ZenonT(30) DEF PassOK, ClockOK
    <2>3. ASSUME pass[k].at # "none" PROVE k \in DOMAIN op' /\ Fits(pass'[k], op'[k]) /\ ShapeOK(k)'
      <3>1. k \in DOMAIN op /\ Fits(pass[k], op[k]) /\ ShapeOK(k)
        BY <2>1, <2>3, ZenonT(30) DEF PassOK
      <3>2. ShapeOK(k)'
        BY <1>2, <3>1, ZenonT(30) DEF ShapeOK
      <3>3. QED
        BY <1>2, <3>1, <3>2, ZenonT(30)
    <2>4. QED
      BY <2>2, <2>3, ZenonT(30) DEF PassOK
  <1>9. \A c \in Clients : client'[c].at # "idle" => todo'[c] # <<>>
    BY ZenonT(30) DEF IInv
  <1>10. QED
    BY <1>3, <1>4, <1>5, <1>6, <1>7, <1>8, <1>9, ZenonT(30) DEF IInv

LEMMA EnqueueInv ==
    ASSUME IInv, NEW c \in Clients, Enqueue(c)
    PROVE  IInv'
  <1>1. TypeOK /\ client[c].at = "planned" /\ todo[c] # <<>>
    BY ZenonT(30) DEF IInv, Enqueue
  <1>2. Sent(c) \in Statements
    BY <1>1, SMTT(30) DEF TypeOK, Sent
  <1>3. CASE UNCHANGED op
    <2>1. PICK n \in Standing(Sent(c)) :
            client' = [client EXCEPT ![c].at = "attached", ![c].on = n] /\ UNCHANGED elock
      <3>1. op # Append(op, [NewOp EXCEPT !.key = Sent(c), !.basis = client[c].placed])
        BY <1>1, SMTT(30) DEF TypeOK
      <3>2. QED
        BY <1>3, <3>1, ZenonT(30) DEF Enqueue
    <2>2. n \in Nat
      BY <1>1, Domain, SMTT(30) DEF Standing, Identical
    <2>3. TypeOK'
      <3>1. client' \in [Clients -> Sessions]
        BY <1>1, <2>1, <2>2, ZenonT(30) DEF TypeOK, Sessions
      <3>2. QED
        BY <1>1, <1>3, <2>1, <3>1, ZenonT(30) DEF Enqueue, TypeOK
    <2>4. \A d \in Clients : client'[d].at # "idle" => todo'[d] # <<>>
      BY <1>1, <2>1, ZenonT(30) DEF Enqueue, TypeOK, IInv
    <2>5. QED
      BY <1>3, <2>3, <2>4, IdleStep, ZenonT(30) DEF Enqueue
  <1>4. CASE ~UNCHANGED op
    <2> DEFINE o == [NewOp EXCEPT !.key = Sent(c), !.basis = client[c].placed]
    <2>1. /\ op' = Append(op, o) /\ Len(op) < MaxOps
          /\ client' = [client EXCEPT ![c].at = "waiting", ![c].on = Len(op) + 1]
          /\ elock' = c /\ UNCHANGED <<todo, schema, pass>>
      BY <1>4, ZenonT(30) DEF Enqueue
    <2>2. o \in Operations /\ OpOK(o) /\ ~o.begun /\ o.kind = "ddl" /\ o.state = "queued" /\ o.stage \notin Unswapped
      <3>1. client[c].placed \in Nat
        BY <1>1, ZenonT(30) DEF TypeOK, Sessions
      <3>2. NewOp \in Operations
        BY ZenonT(30) DEF NewOp, Operations
      <3>3. o \in Operations
        BY <1>2, <3>1, <3>2, ZenonT(30) DEF Operations
      <3>4. /\ o.kind = "ddl" /\ o.state = "queued" /\ o.stage = "unset" /\ ~o.begun
            /\ ~o.stamped
        BY ZenonT(30) DEF NewOp
      <3> HIDE DEF o
      <3>5. QED
        BY <3>3, <3>4, ZenonT(30) DEF OpOK, DDLOK, Unswapped
    <2>3. client' \in [Clients -> Sessions]
      <3>1. Len(op) + 1 \in Nat
        BY <1>1, Domain, SMTT(30)
      <3>2. QED
        BY <1>1, <2>1, <3>1, ZenonT(60) DEF TypeOK, Sessions
    <2>4. \A d \in Clients : client'[d].at # "idle" => client[d].at # "idle"
      BY <1>1, <2>1, ZenonT(30) DEF TypeOK
    <2> HIDE DEF o
    <2>5. QED
      BY <2>1, <2>2, <2>3, <2>4, Arrives, ZenonT(30)
  <1>5. QED
    BY <1>3, <1>4, ZenonT(30)

-----------------------------------------------------------------------------
(***************************************************************************)
(* One operation changes and nothing starts.                               *)
(***************************************************************************)

LEMMA Facts ==
    ASSUME IInv, NEW n \in DOMAIN op
    PROVE  /\ op[n] \in Operations /\ OpOK(op[n]) /\ n \in 1..MaxOps
           /\ pass[n].at # "none" => Fits(pass[n], op[n])
           /\ pass[n] \in Passes /\ elock \in Clients \cup {NoOne}
  <1>1. TypeOK /\ n \in 1..MaxOps /\ op[n] \in Operations /\ OpOK(op[n])
    BY Domain, ZenonT(30) DEF IInv
  <1>2. PassOK(n)
    BY <1>1, ZenonT(30) DEF IInv
  <1>3. QED
    BY <1>1, <1>2, ZenonT(30) DEF PassOK, TypeOK

LEMMA WindowEndsInv ==
    ASSUME IInv, NEW n \in DOMAIN op, WindowEnds(n)
    PROVE  IInv'
  <1> DEFINE o == [op[n] EXCEPT !.recent = FALSE]
  <1>1. o \in Operations
    <2>1. op[n] \in Operations
      BY Facts, ZenonT(30) DEF WindowEnds
    <2>2. QED
      BY <2>1, ZenonT(30) DEF Operations
  <1>2. OpOK(o)
    BY Facts, SMTT(30) DEF WindowEnds, Operations, OpOK, DDLOK, ReshardOK, PlacementOK
  <1>3. Quiet(op[n], o)
    BY Facts, SMTT(30) DEF WindowEnds, Operations, Quiet, Grows, Unfinished, ddl_hold_ends, Unswapped, OpOK, DDLOK, ReshardOK, PlacementOK
  <1>4. pass[n].at # "none" => Fits(pass[n], o)
    BY Facts, SMTT(30) DEF WindowEnds, Operations, Fits, Before, OpOK, DDLOK, ReshardOK, PlacementOK
  <1>5. QED
    BY <1>1, <1>2, <1>3, <1>4, Facts, QuietStep, ZenonT(30) DEF WindowEnds

LEMMA DriftFailsInv ==
    ASSUME IInv, NEW n \in DOMAIN op, DriftFails(n)
    PROVE  IInv'
  <1> DEFINE o == [op[n] EXCEPT !.state = "failed", !.stamped = TRUE]
  <1>1. o \in Operations
    <2>1. op[n] \in Operations
      BY Facts, ZenonT(30) DEF DriftFails
    <2>2. QED
      BY <2>1, ZenonT(30) DEF Operations
  <1>2. OpOK(o)
    BY Facts, SMTT(30) DEF DriftFails, Operations, OpOK, DDLOK, ReshardOK, PlacementOK
  <1>3. Quiet(op[n], o)
    BY Facts, SMTT(30) DEF DriftFails, Operations, Quiet, Grows, Unfinished, ddl_hold_ends, Unswapped, OpOK, DDLOK, ReshardOK, PlacementOK
  <1>4. pass[n].at # "none" => Fits(pass[n], o)
    BY Facts, ZenonT(30) DEF DriftFails, Operations, Fits, Before, OpOK, DDLOK, ReshardOK, PlacementOK
  <1>5. QED
    BY <1>1, <1>2, <1>3, <1>4, Facts, QuietStep, ZenonT(30) DEF DriftFails

LEMMA StampInv ==
    ASSUME IInv, NEW n \in DOMAIN op, Stamp(n)
    PROVE  IInv'
  <1> DEFINE o == [op[n] EXCEPT !.stamped = TRUE]
  <1>1. o \in Operations
    <2>1. op[n] \in Operations
      BY Facts, ZenonT(30) DEF Stamp
    <2>2. QED
      BY <2>1, ZenonT(30) DEF Operations
  <1>2. OpOK(o)
    BY Facts, SMTT(30) DEF Stamp, Operations, OpOK, DDLOK, ReshardOK, PlacementOK
  <1>3. Quiet(op[n], o)
    BY Facts, SMTT(30) DEF Stamp, Operations, Quiet, Grows, Unfinished, ddl_hold_ends, Unswapped, OpOK, DDLOK, ReshardOK, PlacementOK
  <1>4. pass[n].at # "none" => Fits(pass[n], o)
    BY Facts, ZenonT(30) DEF Stamp, Operations, Fits, Before, OpOK, DDLOK, ReshardOK, PlacementOK
  <1>5. QED
    BY <1>1, <1>2, <1>3, <1>4, Facts, QuietStep, ZenonT(30) DEF Stamp

LEMMA FinishMigrationInv ==
    ASSUME IInv, NEW n \in DOMAIN op, FinishMigration(n)
    PROVE  IInv'
  <1> DEFINE o == [op[n] EXCEPT !.state = IF op[n].stage = "applied" THEN "complete" ELSE "failed",
                              !.recent = op[n].stage = "applied"]
  <1>1. o \in Operations
    <2>1. op[n] \in Operations
      BY Facts, ZenonT(30) DEF FinishMigration
    <2>2. CASE op[n].stage = "applied"
      BY <2>1, <2>2, ZenonT(30) DEF Operations
    <2>3. CASE op[n].stage # "applied"
      BY <2>1, <2>3, ZenonT(60) DEF Operations
    <2>4. QED
      BY <2>2, <2>3, ZenonT(30)
  <1>2. OpOK(o)
    BY Facts, SMTT(30) DEF FinishMigration, Operations, OpOK, DDLOK, ReshardOK, PlacementOK
  <1>3. Quiet(op[n], o)
    BY Facts, SMTT(30) DEF FinishMigration, Operations, Quiet, Grows, Unfinished, ddl_hold_ends, Unswapped, OpOK, DDLOK, ReshardOK, PlacementOK
  <1>4. pass[n].at # "none" => Fits(pass[n], o)
    BY Facts, ZenonT(30) DEF FinishMigration, Operations, Fits, Before, OpOK, DDLOK, ReshardOK, PlacementOK
  <1>5. QED
    BY <1>1, <1>2, <1>3, <1>4, Facts, QuietStep, ZenonT(30) DEF FinishMigration

LEMMA DeclaredInv ==
    ASSUME IInv, NEW n \in DOMAIN op, Declared(n)
    PROVE  IInv'
  <1> DEFINE o == [op[n] EXCEPT !.seen = TRUE]
  <1>1. o \in Operations
    <2>1. op[n] \in Operations
      BY Facts, ZenonT(30)
    <2>2. QED
      BY <2>1, ZenonT(30) DEF Operations
  <1>2. OpOK(o)
    BY Facts, SMTT(30) DEF Declared, Operations, OpOK, DDLOK, ReshardOK, PlacementOK
  <1>3. Quiet(op[n], o)
    BY Facts, SMTT(30) DEF Declared, Operations, Quiet, Grows, Unfinished, ddl_hold_ends, Unswapped, OpOK, DDLOK, ReshardOK, PlacementOK
  <1>4. pass[n].at # "none" => Fits(pass[n], o)
    BY Facts, ZenonT(30) DEF Declared, Operations, Fits, Before, OpOK, DDLOK, ReshardOK, PlacementOK
  <1>5. QED
    BY <1>1, <1>2, <1>3, <1>4, Facts, QuietStep, ZenonT(30) DEF Declared

LEMMA TargetsReadyInv ==
    ASSUME IInv, NEW n \in DOMAIN op, TargetsReady(n)
    PROVE  IInv'
  <1> DEFINE o == [op[n] EXCEPT !.state = "running", !.stage = "ready_for_copy"]
  <1>1. o \in Operations
    <2>1. op[n] \in Operations
      BY Facts, ZenonT(30) DEF TargetsReady
    <2>2. QED
      BY <2>1, ZenonT(60) DEF Operations
  <1>2. OpOK(o)
    BY Facts, SMTT(30) DEF TargetsReady, Operations, OpOK, DDLOK, ReshardOK, PlacementOK
  <1>3. Quiet(op[n], o)
    BY Facts, SMTT(30) DEF TargetsReady, Operations, Quiet, Grows, Unfinished, ddl_hold_ends, Unswapped, OpOK, DDLOK, ReshardOK, PlacementOK
  <1>4. pass[n].at # "none" => Fits(pass[n], o)
    BY Facts, ZenonT(30) DEF TargetsReady, Operations, Fits, Before, OpOK, DDLOK, ReshardOK, PlacementOK
  <1>5. QED
    BY <1>1, <1>2, <1>3, <1>4, Facts, QuietStep, ZenonT(30) DEF TargetsReady

LEMMA FailWorkflowInv ==
    ASSUME IInv, NEW n \in DOMAIN op, FailWorkflow(n)
    PROVE  IInv'
  <1> DEFINE o == [op[n] EXCEPT !.state = "failed", !.stage = "failed"]
  <1>1. o \in Operations
    <2>1. op[n] \in Operations
      BY Facts, ZenonT(30)
    <2>2. QED
      BY <2>1, ZenonT(60) DEF Operations
  <1>2. OpOK(o)
    BY Facts, SMTT(30) DEF FailWorkflow, Operations, OpOK, DDLOK, ReshardOK, PlacementOK, started
  <1>3. Quiet(op[n], o)
    BY Facts, SMTT(30) DEF FailWorkflow, Operations, Quiet, Grows, Unfinished, ddl_hold_ends, Unswapped, OpOK, DDLOK, ReshardOK, PlacementOK, started
  <1>4. pass[n].at # "none" => Fits(pass[n], o)
    BY Facts, ZenonT(30) DEF FailWorkflow, Operations, Fits, Before, OpOK, DDLOK, ReshardOK, PlacementOK, started
  <1>5. QED
    BY <1>1, <1>2, <1>3, <1>4, Facts, QuietStep, ZenonT(30) DEF FailWorkflow

LEMMA PauseWorkflowInv ==
    ASSUME IInv, NEW n \in DOMAIN op, PauseWorkflow(n)
    PROVE  IInv'
  <1> DEFINE o == [op[n] EXCEPT !.state = "paused", !.from = op[n].state]
  <1>1. o \in Operations
    <2>1. op[n] \in Operations /\ op[n].state \in {"pending", "running"}
      BY Facts, ZenonT(30) DEF PauseWorkflow
    <2>2. QED
      BY <2>1, ZenonT(60) DEF Operations
  <1>2. OpOK(o)
    BY Facts, SMTT(30) DEF PauseWorkflow, Operations, OpOK, DDLOK, ReshardOK, PlacementOK
  <1>3. Quiet(op[n], o)
    BY Facts, SMTT(30) DEF PauseWorkflow, Operations, Quiet, Grows, Unfinished, ddl_hold_ends, Unswapped, OpOK, DDLOK, ReshardOK, PlacementOK
  <1>4. pass[n].at # "none" => Fits(pass[n], o)
    BY Facts, SMTT(30) DEF PauseWorkflow, Operations, Fits, Before, OpOK, DDLOK, ReshardOK, PlacementOK
  <1>5. QED
    BY <1>1, <1>2, <1>3, <1>4, Facts, QuietStep, ZenonT(30) DEF PauseWorkflow

LEMMA ResumeWorkflowInv ==
    ASSUME IInv, NEW n \in DOMAIN op, ResumeWorkflow(n)
    PROVE  IInv'
  <1> DEFINE o == [op[n] EXCEPT !.state = op[n].from, !.from = "unset"]
  <1>1. o \in Operations
    <2>1. op[n] \in Operations /\ op[n].from # "unset"
      BY Facts, ZenonT(30) DEF ResumeWorkflow, OpOK
    <2>2. op[n].from \in {"pending", "running"}
      BY <2>1, ZenonT(30) DEF Operations
    <2>3. QED
      BY <2>1, <2>2, ZenonT(30) DEF Operations
  <1>2. OpOK(o)
    BY Facts, SMTT(30) DEF ResumeWorkflow, Operations, OpOK, DDLOK, ReshardOK, PlacementOK
  <1>3. Quiet(op[n], o)
    BY Facts, SMTT(30) DEF ResumeWorkflow, Operations, Quiet, Grows, Unfinished, ddl_hold_ends, Unswapped, OpOK, DDLOK, ReshardOK, PlacementOK
  <1>4. pass[n].at # "none" => Fits(pass[n], o)
    BY Facts, SMTT(30) DEF ResumeWorkflow, Operations, Fits, Before, OpOK, DDLOK, ReshardOK, PlacementOK
  <1>5. QED
    BY <1>1, <1>2, <1>3, <1>4, Facts, QuietStep, ZenonT(30) DEF ResumeWorkflow

LEMMA CancelWorkflowInv ==
    ASSUME IInv, NEW n \in DOMAIN op, CancelWorkflow(n)
    PROVE  IInv'
  <1> DEFINE o == [op[n] EXCEPT !.state = "cancelled", !.from = "unset"]
  <1>1. o \in Operations
    <2>1. op[n] \in Operations
      BY Facts, ZenonT(30) DEF CancelWorkflow
    <2>2. QED
      BY <2>1, ZenonT(60) DEF Operations
  <1>2. OpOK(o)
    BY Facts, SMTT(30) DEF CancelWorkflow, Operations, OpOK, DDLOK, ReshardOK, PlacementOK
  <1>3. Quiet(op[n], o)
    BY Facts, SMTT(30) DEF CancelWorkflow, Operations, Quiet, Grows, Unfinished, ddl_hold_ends, Unswapped, OpOK, DDLOK, ReshardOK, PlacementOK
  <1>4. pass[n].at # "none" => Fits(pass[n], o)
    BY Facts, SMTT(30) DEF CancelWorkflow, Operations, Fits, Before, OpOK, DDLOK, ReshardOK, PlacementOK
  <1>5. QED
    BY <1>1, <1>2, <1>3, <1>4, Facts, QuietStep, ZenonT(30) DEF CancelWorkflow

LEMMA RevertInv ==
    ASSUME IInv, NEW n \in DOMAIN op, Revert(n)
    PROVE  IInv'
  <1> DEFINE o == [op[n] EXCEPT !.state = "cancelled",
                              !.stage = IF op[n].state = "provisioning" THEN "cancelled" ELSE "cancelling"]
  <1>1. o \in Operations
    <2>1. op[n] \in Operations
      BY Facts, ZenonT(30)
    <2>2. CASE op[n].state = "provisioning"
      BY <2>1, <2>2, ZenonT(30) DEF Operations
    <2>3. CASE op[n].state # "provisioning"
      BY <2>1, <2>3, ZenonT(60) DEF Operations
    <2>4. QED
      BY <2>2, <2>3, ZenonT(30)
  <1>2. OpOK(o)
    BY Facts, SMTT(30) DEF Revert, Operations, OpOK, DDLOK, ReshardOK, PlacementOK
  <1>3. Quiet(op[n], o)
    BY Facts, SMTT(30) DEF Revert, Operations, Quiet, Grows, Unfinished, ddl_hold_ends, Unswapped, OpOK, DDLOK, ReshardOK, PlacementOK
  <1>4. pass[n].at # "none" => Fits(pass[n], o)
    BY Facts, SMTT(30) DEF Revert, Operations, Fits, Before, OpOK, DDLOK, ReshardOK, PlacementOK
  <1>5. QED
    BY <1>1, <1>2, <1>3, <1>4, Facts, QuietStep, ZenonT(30) DEF Revert

LEMMA CleanupInv ==
    ASSUME IInv, NEW n \in DOMAIN op, Cleanup(n)
    PROVE  IInv'
  <1> DEFINE o == [op[n] EXCEPT !.stage = "cancelled"]
  <1>1. o \in Operations
    <2>1. op[n] \in Operations
      BY Facts, ZenonT(30) DEF Cleanup
    <2>2. QED
      BY <2>1, ZenonT(30) DEF Operations
  <1>2. OpOK(o)
    BY Facts, SMTT(30) DEF Cleanup, Operations, OpOK, DDLOK, ReshardOK, PlacementOK
  <1>3. Quiet(op[n], o)
    BY Facts, SMTT(30) DEF Cleanup, Operations, Quiet, Grows, Unfinished, ddl_hold_ends, Unswapped, OpOK, DDLOK, ReshardOK, PlacementOK
  <1>4. pass[n].at # "none" => Fits(pass[n], o)
    BY Facts, SMTT(30) DEF Cleanup, Operations, Fits, Before, OpOK, DDLOK, ReshardOK, PlacementOK
  <1>5. QED
    BY <1>1, <1>2, <1>3, <1>4, Facts, QuietStep, ZenonT(30) DEF Cleanup

(* The save of a pass that did not start its workflow. *)
LEMMA PassSavesInv ==
    ASSUME IInv, NEW n \in DOMAIN op, NEW e \in BOOLEAN, PassSaves(n, e)
    PROVE  IInv'
  <1> DEFINE o == IF op[n].state = pass[n].fence THEN [op[n] EXCEPT !.start_error = e] ELSE op[n]
  <1>1. op[n] \in Operations /\ OpOK(op[n])
    BY Facts, ZenonT(30)
  <1>2. o \in Operations
    <2>1. [op[n] EXCEPT !.start_error = e] \in Operations
      BY <1>1, ZenonT(30) DEF Operations
    <2>2. QED
      BY <1>1, <2>1, ZenonT(30)
  <1>3. /\ o.kind = op[n].kind /\ o.key = op[n].key /\ o.seen = op[n].seen /\ o.state = op[n].state
        /\ o.stage = op[n].stage /\ o.from = op[n].from /\ o.begun = op[n].begun
        /\ o.stamped = op[n].stamped /\ o.basis = op[n].basis
    BY <1>1, ZenonT(30) DEF Operations
  <1>4. Change(n, o) /\ Over(n) /\ UNCHANGED <<elock, todo, client, schema>>
    BY ZenonT(30) DEF PassSaves
  <1> HIDE DEF o
  <1>5. OpOK(o)
    BY <1>1, <1>3, SMTT(30) DEF OpOK, DDLOK, ReshardOK, PlacementOK
  <1>6. Quiet(op[n], o)
    BY <1>3, ZenonT(30) DEF Quiet, Grows, Unfinished, ddl_hold_ends
  <1>7. QED
    BY <1>2, <1>4, <1>5, <1>6, Facts, QuietStep, ZenonT(30)

(* The insert of a client's statement commits. *)
LEMMA InsertedInv ==
    ASSUME IInv, NEW c \in Clients, Inserted(c)
    PROVE  IInv'
  <1> DEFINE n == client[c].on
             o == [op[n] EXCEPT !.seen = TRUE]
  <1>1. Change(n, o) /\ elock' = NoOne /\ UNCHANGED <<todo, client, schema, pass>>
    BY ZenonT(30) DEF Inserted
  <1> HIDE DEF n
  <1>2. CASE n \in DOMAIN op
    <2>1. op[n] \in Operations /\ OpOK(op[n])
      BY <1>2, Facts, ZenonT(30)
    <2>2. o \in Operations
      BY <2>1, ZenonT(30) DEF Operations
    <2>3. OpOK(o)
      BY <2>1, SMTT(30) DEF Operations, OpOK, DDLOK, ReshardOK, PlacementOK
    <2>4. Quiet(op[n], o)
      BY <2>1, SMTT(30) DEF Operations, Quiet, Grows, Unfinished, ddl_hold_ends, OpOK
    <2>5. pass[n].at # "none" => Fits(pass[n], o)
      BY <1>2, <2>1, Facts, ZenonT(30) DEF Operations, Fits, Before
    <2> HIDE DEF o
    <2>6. QED
      BY <1>1, <1>2, <2>2, <2>3, <2>4, <2>5, QuietStep, ZenonT(30)
  <1>3. CASE n \notin DOMAIN op
    <2>1. TypeOK
      BY ZenonT(30) DEF IInv
    <2>2. op' = op
      BY <1>1, <1>3, <2>1, SMTT(30) DEF Change, TypeOK
    <2>3. TypeOK'
      BY <1>1, <2>1, <2>2, ZenonT(30) DEF TypeOK
    <2>4. QED
      BY <1>1, <2>2, <2>3, IdleStep, ZenonT(30) DEF IInv
  <1>4. QED
    BY <1>2, <1>3, ZenonT(30)

-----------------------------------------------------------------------------
(***************************************************************************)
(* Steps of a pass that leave the queue alone.                             *)
(***************************************************************************)

LEMMA PassStep ==
    ASSUME IInv, NEW n \in DOMAIN op, NEW p \in Passes, pass' = [pass EXCEPT ![n] = p],
           UNCHANGED <<op, elock, todo, client, schema>>,
           p.at # "none" => Fits(p, op[n]),
           p.at = "checked" /\ op[n].kind = "placement" =>
             \/ p.shape = schema.shape
             \/ \E m \in DOMAIN op : Touches(op[m]) /\ m \notin p.clock,
           \A m \in p.clock : m \in DOMAIN op /\ op[m].kind = "ddl" /\ op[m].stamped
    PROVE  IInv'
  <1>1. TypeOK /\ n \in 1..MaxOps
    BY Domain, ZenonT(30) DEF IInv
  <1>2. /\ pass' \in [1..MaxOps -> Passes] /\ pass'[n] = p
        /\ \A k \in 1..MaxOps \ {n} : pass'[k] = pass[k]
    BY <1>1, ZenonT(30) DEF TypeOK
  <1>3. TypeOK'
    BY <1>1, <1>2, ZenonT(30) DEF TypeOK
  <1>4. ASSUME NEW k \in 1..MaxOps PROVE PassOK(k)'
    <2>1. CASE k = n
      BY <1>2, <2>1, ZenonT(30) DEF PassOK, ClockOK, ShapeOK
    <2>2. CASE k # n
      <3>1. PassOK(k) /\ pass'[k] = pass[k]
        BY <1>2, <2>2, ZenonT(30) DEF IInv
      <3>2. QED
        BY <3>1, ZenonT(30) DEF PassOK, ClockOK, ShapeOK
    <2>3. QED
      BY <2>1, <2>2, ZenonT(30)
  <1>5. NoOverlap'
    BY ZenonT(30) DEF IInv, NoOverlap
  <1>6. PlanHolds'
    BY ZenonT(30) DEF IInv, PlanHolds, Drifted
  <1>7. ShapeIsCurrent'
    BY ZenonT(30) DEF IInv, ShapeIsCurrent
  <1>8. QED
    BY <1>3, <1>4, <1>5, <1>6, <1>7, ZenonT(30) DEF IInv

LEMMA ListInv ==
    ASSUME IInv, NEW n \in DOMAIN op, List(n)
    PROVE  IInv'
  <1> DEFINE p == [NoPass EXCEPT !.at = "listed", !.fence = op[n].state]
  <1>1. op[n] \in Operations /\ OpOK(op[n])
    BY Facts, ZenonT(30)
  <1>2. op[n].state \in {"pending", "running"}
    BY ZenonT(30) DEF List, Startable
  <1>3. p \in Passes /\ p.at = "listed" /\ p.fence = op[n].state /\ p.clock = {}
    BY <1>2, ZenonT(30) DEF NoPass, Passes
  <1>4. Startable(op[n]) /\ pass' = [pass EXCEPT ![n] = p] /\ UNCHANGED <<op, elock, todo, client, schema>>
    BY ZenonT(30) DEF List
  <1> HIDE DEF p
  <1>5. Fits(p, op[n])
    BY <1>1, <1>3, <1>4, ZenonT(30) DEF Fits, Before, Startable, OpOK, ReshardOK, PlacementOK
  <1>6. QED
    BY <1>3, <1>4, <1>5, PassStep, ZenonT(30)

LEMMA TurnInv ==
    ASSUME IInv, NEW n \in DOMAIN op, Turn(n)
    PROVE  IInv'
  <1>1. CASE PassSaves(n, FALSE)
    BY <1>1, PassSavesInv, ZenonT(30)
  <1>2. CASE ~PassSaves(n, FALSE)
    <2> DEFINE p == [pass[n] EXCEPT !.at = IF op[n].kind = "placement" THEN "clear" ELSE "checked"]
    <2>1. /\ pass[n].at = "listed" /\ UNCHANGED <<op, elock, todo, client, schema>>
          /\ pass' = [pass EXCEPT ![n].at = IF op[n].kind = "placement" THEN "clear" ELSE "checked"]
      BY <1>2, ZenonT(30) DEF Turn
    <2>2. pass[n] \in Passes /\ Fits(pass[n], op[n]) /\ n \in 1..MaxOps
      BY <2>1, Facts, ZenonT(30)
    <2>3. pass' = [pass EXCEPT ![n] = p]
      BY <2>1, <2>2, ZenonT(30) DEF IInv, TypeOK, Passes
    <2>4. /\ p \in Passes /\ p.fence = pass[n].fence /\ p.clock = pass[n].clock
          /\ op[n].kind = "placement" => p.at = "clear"
      BY <2>2, ZenonT(30) DEF Passes
    <2>5. ClockOK(n)
      BY <2>2, ZenonT(30) DEF IInv, PassOK
    <2> HIDE DEF p
    <2>6. Fits(p, op[n])
      BY <2>2, <2>4, ZenonT(30) DEF Fits
    <2>7. QED
      BY <2>1, <2>3, <2>4, <2>5, <2>6, PassStep, ZenonT(30) DEF ClockOK
  <1>3. QED
    BY <1>1, <1>2, ZenonT(30)

LEMMA ClockInv ==
    ASSUME IInv, NEW n \in DOMAIN op, Clock(n)
    PROVE  IInv'
  <1> DEFINE C == {m \in DOMAIN op: op[m].kind = "ddl" /\ op[m].stamped}
             p == [pass[n] EXCEPT !.at = "clocked", !.clock = C]
  <1>1. /\ pass[n].at = "clear" /\ UNCHANGED <<op, elock, todo, client, schema>>
        /\ pass' = [pass EXCEPT ![n].at = "clocked", ![n].clock = C]
    BY ZenonT(30) DEF Clock
  <1>2. pass[n] \in Passes /\ Fits(pass[n], op[n]) /\ n \in 1..MaxOps
    BY <1>1, Facts, ZenonT(30)
  <1>3. pass' = [pass EXCEPT ![n] = p]
    BY <1>1, <1>2, ZenonT(30) DEF IInv, TypeOK, Passes
  <1>4. C \in SUBSET (1..MaxOps)
    BY Domain, ZenonT(30) DEF IInv
  <1>5. p \in Passes /\ p.fence = pass[n].fence /\ p.clock = C /\ p.at = "clocked"
    BY <1>2, <1>4, ZenonT(30) DEF Passes
  <1> HIDE DEF p
  <1>6. Fits(p, op[n])
    BY <1>2, <1>5, ZenonT(30) DEF Fits
  <1>7. QED
    BY <1>1, <1>3, <1>5, <1>6, PassStep, ZenonT(30)

LEMMA DescribeInv ==
    ASSUME IInv, NEW n \in DOMAIN op, Describe(n)
    PROVE  IInv'
  <1> DEFINE p == [pass[n] EXCEPT !.at = "checked", !.shape = schema.shape]
  <1>1. /\ pass[n].at = "clocked" /\ UNCHANGED <<op, elock, todo, client, schema>>
        /\ pass' = [pass EXCEPT ![n].at = "checked", ![n].shape = schema.shape]
    BY ZenonT(30) DEF Describe
  <1>2. pass[n] \in Passes /\ Fits(pass[n], op[n]) /\ n \in 1..MaxOps
    BY <1>1, Facts, ZenonT(30)
  <1>3. pass' = [pass EXCEPT ![n] = p]
    BY <1>1, <1>2, ZenonT(30) DEF IInv, TypeOK, Passes
  <1>4. schema.shape \in Nat
    BY ZenonT(30) DEF IInv, TypeOK
  <1>5. p \in Passes /\ p.fence = pass[n].fence /\ p.clock = pass[n].clock /\ p.shape = schema.shape
    BY <1>2, <1>4, ZenonT(30) DEF Passes
  <1>6. ClockOK(n)
    BY <1>2, ZenonT(30) DEF IInv, PassOK
  <1> HIDE DEF p
  <1>7. Fits(p, op[n])
    BY <1>2, <1>5, ZenonT(30) DEF Fits
  <1>8. QED
    BY <1>1, <1>3, <1>5, <1>6, <1>7, PassStep, ZenonT(30) DEF ClockOK

-----------------------------------------------------------------------------
(***************************************************************************)
(* Starts: the rule under the move gate.                                   *)
(***************************************************************************)

(* What starts with no blocker is in nobody's way. *)
LEMMA Starts ==
    ASSUME IInv, NEW n \in DOMAIN op, NEW o \in Operations, Change(n, o),
           Unfinished(op[n]), ~started(op[n]), operation_blockers(n) = {},
           o.kind = op[n].kind, o.key = op[n].key, ~ddl_hold_ends(op[n])
    PROVE  NoOverlap'
  <1>1. TypeOK /\ NoOverlap /\ \A k \in DOMAIN op : OpOK(op[k])
    BY ZenonT(30) DEF IInv
  <1>2. /\ DOMAIN op' = DOMAIN op /\ op'[n] = o
        /\ \A k \in DOMAIN op \ {n} : op'[k] = op[k]
        /\ \A k \in DOMAIN op : op[k] \in Operations
    BY <1>1, Changes, Domain, ZenonT(30)
  <1>3. ASSUME NEW b \in DOMAIN op \ {n}, op[b].begun, Unfinished(op[b]), operations_conflict(o, op[b])
        PROVE  FALSE
    <2>1. started(op[b])
      BY <1>1, <1>2, <1>3, BegunStarted, ZenonT(30)
    <2>2. operations_conflict(op[n], op[b])
      BY <1>2, <1>3, ConflictKept, ZenonT(30)
    <2>3. b \in operation_blockers(n)
      BY <1>3, <2>1, <2>2, ZenonT(30) DEF operation_blockers
    <2>4. QED
      BY <2>3, ZenonT(30)
  <1>4. SUFFICES ASSUME NEW a \in DOMAIN op, NEW b \in DOMAIN op, a # b,
                        op'[a].begun, op'[b].begun, Unfinished(op'[a]), Unfinished(op'[b]),
                        operations_conflict(op'[a], op'[b])
                 PROVE  FALSE
    BY <1>2, ZenonT(30) DEF NoOverlap
  <1>5. CASE a = n
    BY <1>2, <1>3, <1>4, <1>5, ZenonT(30)
  <1>6. CASE b = n
    <2>1. operations_conflict(o, op[a])
      BY <1>2, <1>4, <1>6, ConflictSymmetric, ZenonT(30)
    <2>2. QED
      BY <1>2, <1>3, <1>4, <1>6, <2>1, ZenonT(30)
  <1>7. CASE a # n /\ b # n
    BY <1>1, <1>2, <1>4, <1>7, ZenonT(30) DEF NoOverlap
  <1>8. QED
    BY <1>5, <1>6, <1>7, ZenonT(30)

LEMMA StartMigrationInv ==
    ASSUME IInv, NEW n \in DOMAIN op, StartMigration(n)
    PROVE  IInv'
  <1> DEFINE o == [op[n] EXCEPT !.state = "running", !.begun = TRUE]
  <1>1. /\ op[n] \in Operations /\ OpOK(op[n]) /\ n \in 1..MaxOps
        /\ pass[n].at # "none" => Fits(pass[n], op[n])
    BY Facts, ZenonT(30)
  <1>2. /\ op[n].kind = "ddl" /\ op[n].seen /\ op[n].state = "queued"
        /\ operation_blockers(n) = {} /\ ~Drifted(n) /\ Change(n, o)
        /\ UNCHANGED <<elock, todo, client, schema, pass>>
    BY ZenonT(30) DEF StartMigration
  <1>3. o \in Operations
    BY <1>1, ZenonT(30) DEF Operations
  <1>4. /\ o.kind = "ddl" /\ o.key = op[n].key /\ o.seen /\ o.state = "running" /\ o.begun
        /\ o.stage = op[n].stage /\ o.stamped = op[n].stamped /\ o.basis = op[n].basis
    BY <1>1, <1>2, ZenonT(30) DEF Operations
  <1> HIDE DEF o
  <1>5. OpOK(o)
    BY <1>1, <1>2, <1>4, ZenonT(30) DEF OpOK, DDLOK
  <1>6. Grows(op[n], o)
    BY <1>2, <1>4, ZenonT(30) DEF Grows
  <1>7. NoOverlap'
    <2>1. Unfinished(op[n]) /\ ~started(op[n]) /\ ~ddl_hold_ends(op[n])
      BY <1>2, ZenonT(30) DEF Unfinished, started, ddl_hold_ends
    <2>2. QED
      BY <1>2, <1>3, <1>4, <2>1, Starts, ZenonT(30)
  <1>8. TypeOK
    BY ZenonT(30) DEF IInv
  <1>9. /\ op' \in Seq(Operations) /\ Len(op') = Len(op) /\ DOMAIN op' = DOMAIN op
        /\ op'[n] = o /\ \A k \in DOMAIN op \ {n} : op'[k] = op[k]
    BY <1>2, <1>3, <1>8, Changes, ZenonT(30)
  <1>10. TypeOK'
    BY <1>2, <1>8, <1>9, ZenonT(30) DEF TypeOK
  <1>11. \A k \in DOMAIN op' : OpOK(op'[k])
    BY <1>5, <1>9, ZenonT(30) DEF IInv
  <1>12. PlanHolds'
    BY <1>2, <1>4, <1>9, SMTT(30) DEF IInv, PlanHolds, Drifted
  <1>13. ShapeIsCurrent'
    BY <1>2, <1>4, <1>9, SMTT(30) DEF IInv, ShapeIsCurrent
  <1>14. ASSUME NEW k \in 1..MaxOps PROVE PassOK(k)'
    <2>1. pass[n].at = "none"
      BY <1>1, <1>2, ZenonT(30) DEF Fits
    <2>2. QED
      BY <1>2, <1>3, <1>6, <2>1, OtherPasses, ZenonT(30)
  <1>15. \A c \in Clients : client'[c].at # "idle" => todo'[c] # <<>>
    BY <1>2, ZenonT(30) DEF IInv
  <1>16. QED
    BY <1>7, <1>10, <1>11, <1>12, <1>13, <1>14, <1>15, ZenonT(30) DEF IInv

LEMMA BeginInv ==
    ASSUME IInv, NEW n \in DOMAIN op, pass[n].at = "checked", operation_blockers(n) = {},
           ~Changed(n), op[n].state = pass[n].fence, Begin(n)
    PROVE  IInv'
  <1> DEFINE g == IF op[n].kind = "placement" THEN "moving" ELSE "copying"
             o == [op[n] EXCEPT !.state = "running", !.begun = TRUE, !.start_error = FALSE,
                                !.basis = pass[n].shape, !.stage = g]
  <1>1. /\ op[n] \in Operations /\ OpOK(op[n]) /\ n \in 1..MaxOps
        /\ pass[n] \in Passes /\ Fits(pass[n], op[n])
    BY Facts, ZenonT(30)
  <1>2. Change(n, o) /\ Over(n) /\ UNCHANGED <<elock, todo, client, schema>>
    BY ZenonT(30) DEF Begin
  <1>3. g \in {"moving", "copying"} /\ (g = "moving" <=> op[n].kind = "placement")
    BY ZenonT(30)
  <1> HIDE DEF g
  <1>4. o \in Operations
    BY <1>1, <1>3, ZenonT(60) DEF Operations, Passes
  <1>5. /\ o.kind = op[n].kind /\ o.key = op[n].key /\ o.seen = op[n].seen /\ o.state = "running"
        /\ o.begun /\ o.stage = g /\ o.stamped = op[n].stamped /\ o.basis = pass[n].shape
        /\ o.from = op[n].from
    BY <1>1, ZenonT(30) DEF Operations
  <1> HIDE DEF o
  <1>6. op[n].seen /\ ~op[n].begun /\ op[n].kind \in {"reshard", "placement"} /\ op[n].stage = Before(op[n])
    BY <1>1, <1>4, ZenonT(30) DEF Fits, Passes
  <1>7. OpOK(o)
    BY <1>1, <1>3, <1>5, <1>6, ZenonT(30) DEF OpOK, ReshardOK, PlacementOK
  <1>8. Grows(op[n], o)
    BY <1>5, <1>6, ZenonT(30) DEF Grows
  <1>9. NoOverlap'
    <2>1. op[n].state \in {"pending", "running"}
      BY <1>1, ZenonT(30) DEF Fits
    <2>2. Unfinished(op[n]) /\ ~started(op[n]) /\ ~ddl_hold_ends(op[n])
      BY <1>6, <2>1, ZenonT(30) DEF Unfinished, started, ddl_hold_ends, Before
    <2>3. QED
      BY <1>2, <1>4, <1>5, <2>2, Starts, ZenonT(30)
  <1>10. TypeOK
    BY ZenonT(30) DEF IInv
  <1>11. /\ op' \in Seq(Operations) /\ Len(op') = Len(op) /\ DOMAIN op' = DOMAIN op
         /\ op'[n] = o /\ \A k \in DOMAIN op \ {n} : op'[k] = op[k]
    BY <1>2, <1>4, <1>10, Changes, ZenonT(30)
  <1>12. /\ pass' \in [1..MaxOps -> Passes] /\ pass'[n] = NoPass
         /\ \A k \in 1..MaxOps \ {n} : pass'[k] = pass[k]
    BY <1>1, <1>2, <1>10, NoPassIsPass, ZenonT(30) DEF TypeOK, Over
  <1>13. TypeOK'
    BY <1>2, <1>10, <1>11, <1>12, ZenonT(30) DEF TypeOK
  <1>14. \A k \in DOMAIN op' : OpOK(op'[k])
    BY <1>7, <1>11, ZenonT(30) DEF IInv
  <1>15. PlanHolds'
    BY <1>2, <1>5, <1>6, <1>11, SMTT(30) DEF IInv, PlanHolds, Drifted
  <1>16. op[n].kind = "placement" => pass[n].shape = schema.shape
    <2>1. ShapeOK(n)
      BY <1>1, ZenonT(30) DEF IInv, PassOK
    <2>2. op[n].kind = "placement" => ~\E m \in DOMAIN op : Touches(op[m]) /\ m \notin pass[n].clock
      BY ZenonT(30) DEF Changed, Touches
    <2>3. QED
      BY <2>1, <2>2, ZenonT(30) DEF ShapeOK
  <1>17. ShapeIsCurrent'
    BY <1>2, <1>5, <1>11, <1>16, SMTT(30) DEF IInv, ShapeIsCurrent
  <1>18. ASSUME NEW k \in 1..MaxOps PROVE PassOK(k)'
    <2>1. CASE k = n
      BY <1>12, <2>1, NoPassOK, ZenonT(30)
    <2>2. CASE k # n
      BY <1>2, <1>4, <1>8, <1>12, <2>2, OtherPasses, ZenonT(30)
    <2>3. QED
      BY <2>1, <2>2, ZenonT(30)
  <1>19. \A c \in Clients : client'[c].at # "idle" => todo'[c] # <<>>
    BY <1>2, ZenonT(30) DEF IInv
  <1>20. QED
    BY <1>9, <1>13, <1>14, <1>15, <1>17, <1>18, <1>19, ZenonT(30) DEF IInv

LEMMA StartWorkflowInv ==
    ASSUME IInv, NEW n \in DOMAIN op, StartWorkflow(n)
    PROVE  IInv'
  <1>1. CASE PassSaves(n, FALSE)
    BY <1>1, PassSavesInv, ZenonT(30)
  <1>2. CASE Over(n) /\ UNCHANGED <<op, elock, todo, client, schema>>
    BY <1>2, PassStep, NoPassIsPass, ZenonT(30) DEF Over, NoPass
  <1>3. CASE /\ operation_blockers(n) = {} /\ ~Changed(n)
             /\ op[n].state = pass[n].fence /\ Begin(n)
    BY <1>3, BeginInv, ZenonT(30) DEF StartWorkflow
  <1>4. QED
    BY <1>1, <1>2, <1>3, ZenonT(30) DEF StartWorkflow

(* A pass whose checks fail, for now or for good. *)
LEMMA CheckFailsInv ==
    ASSUME IInv, NEW n \in DOMAIN op, CheckFails(n)
    PROVE  IInv'
  <1> DEFINE o == [op[n] EXCEPT !.state = "failed", !.stage = "failed"]
  <1>1. op[n] \in Operations /\ OpOK(op[n]) /\ Fits(pass[n], op[n])
    BY Facts, ZenonT(30) DEF CheckFails
  <1>2. CASE PassSaves(n, TRUE)
    BY <1>2, PassSavesInv, ZenonT(30)
  <1>3. CASE ~PassSaves(n, TRUE)
    <2>1. /\ Change(n, IF op[n].state # pass[n].fence THEN op[n] ELSE o)
          /\ Over(n) /\ UNCHANGED <<elock, todo, client, schema>>
      BY <1>3, ZenonT(30) DEF CheckFails
    <2>2. CASE op[n].state # pass[n].fence
      <3>1. Quiet(op[n], op[n])
        BY ZenonT(30) DEF Quiet, Grows
      <3>2. Change(n, op[n])
        BY <2>1, <2>2, ZenonT(30)
      <3>3. QED
        BY <1>1, <2>1, <3>1, <3>2, Facts, QuietStep, ZenonT(30)
    <2>3. CASE op[n].state = pass[n].fence
      <3>1. o \in Operations
        BY <1>1, ZenonT(60) DEF Operations
      <3>2. /\ o.kind = op[n].kind /\ o.key = op[n].key /\ o.seen = op[n].seen /\ o.state = "failed"
            /\ o.stage = "failed" /\ o.begun = op[n].begun /\ o.stamped = op[n].stamped
        BY <1>1, ZenonT(30) DEF Operations
      <3>3. Change(n, o)
        BY <2>1, <2>3, ZenonT(30)
      <3> HIDE DEF o
      <3>4. OpOK(o)
        BY <1>1, <3>2, ZenonT(30) DEF Fits, OpOK, ReshardOK, PlacementOK
      <3>5. Quiet(op[n], o)
        BY <1>1, <3>2, ZenonT(30) DEF Fits, Quiet, Grows, Unfinished, Unswapped
      <3>6. QED
        BY <2>1, <3>1, <3>3, <3>4, <3>5, Facts, QuietStep, ZenonT(30)
    <2>4. QED
      BY <2>2, <2>3, ZenonT(30)
  <1>4. QED
    BY <1>2, <1>3, ZenonT(30)

-----------------------------------------------------------------------------
(***************************************************************************)
(* The two steps that change the database under other operations.          *)
(***************************************************************************)

(* A migration that runs and a placement before its swap are not about the  *)
(* same database.                                                           *)
LEMMA Apart ==
    ASSUME IInv, NEW m \in DOMAIN op, NEW k \in DOMAIN op,
           op[m].kind = "ddl", op[m].state = "running", op[m].key \notin {"role", "elsewhere"},
           op[k].kind = "placement", op[k].stage \in Unswapped
    PROVE  FALSE
  <1>1. op[m] \in Operations /\ op[k] \in Operations /\ OpOK(op[m]) /\ OpOK(op[k])
    BY Facts, ZenonT(30)
  <1>2. op[m].begun /\ Unfinished(op[m]) /\ op[k].begun /\ Unfinished(op[k])
    BY <1>1, ZenonT(30) DEF OpOK, DDLOK, PlacementOK, Unfinished, Unswapped
  <1>3. Shared(op[m], op[k])
    BY <1>1, ZenonT(30) DEF OpOK, Shared, Databases
  <1>4. ~ddl_hold_ends(op[m]) /\ ~ddl_hold_ends(op[k])
    BY ZenonT(30) DEF ddl_hold_ends, Unswapped
  <1>5. operations_conflict(op[m], op[k])
    BY <1>1, <1>3, <1>4, ConflictIs, ZenonT(30)
  <1>6. m # k
    BY ZenonT(30)
  <1>7. QED
    BY <1>2, <1>5, <1>6, ZenonT(30) DEF IInv, NoOverlap

LEMMA ApplyMigrationInv ==
    ASSUME IInv, NEW n \in DOMAIN op, ApplyMigration(n)
    PROVE  IInv'
  <1> DEFINE bad == (op[n].key = "create" /\ schema.there) \/ (op[n].key = "drop" /\ ~schema.there)
             g == IF bad THEN "error" ELSE "applied"
             o == [op[n] EXCEPT !.stage = g]
  <1>1. /\ op[n] \in Operations /\ OpOK(op[n]) /\ n \in 1..MaxOps
        /\ pass[n].at # "none" => Fits(pass[n], op[n])
    BY Facts, ZenonT(30)
  <1>2. /\ op[n].kind = "ddl" /\ op[n].state = "running" /\ op[n].stage = "unset"
        /\ Change(n, o) /\ UNCHANGED <<elock, todo, pass>>
    BY ZenonT(30) DEF ApplyMigration
  <1>3. g \in {"error", "applied"}
    BY ZenonT(30)
  <1>4. TypeOK
    BY ZenonT(30) DEF IInv
  <1>5. /\ schema' \in [there: BOOLEAN, fresh: BOOLEAN, shape: Nat, placed: Nat]
        /\ schema'.placed = schema.placed
        /\ schema'.shape # schema.shape => op[n].key \notin {"role", "elsewhere"}
    <2>1. schema \in [there: BOOLEAN, fresh: BOOLEAN, shape: Nat, placed: Nat]
      BY <1>4, ZenonT(30) DEF TypeOK
    <2>2. CASE schema' = schema
      BY <2>1, <2>2, ZenonT(30)
    <2>3. CASE schema' # schema
      <3>1. /\ op[n].key \notin {"role", "elsewhere"}
            /\ schema' = [schema EXCEPT !.there = op[n].key = "create" \/ (@ /\ op[n].key # "drop"),
                                        !.fresh = @ \/ op[n].key = "restart", !.shape = @ + 1]
        BY <2>3, ZenonT(30) DEF ApplyMigration
      <3> DEFINE t == op[n].key = "create" \/ (schema.there /\ op[n].key # "drop")
                 f == schema.fresh \/ op[n].key = "restart"
      <3>2. schema' = [schema EXCEPT !.there = t, !.fresh = f, !.shape = schema.shape + 1]
        BY <2>1, <3>1, ZenonT(30)
      <3>3. t \in BOOLEAN /\ f \in BOOLEAN /\ schema.shape + 1 \in Nat
        BY <2>1, SMTT(30)
      <3> HIDE DEF t, f
      <3>4. QED
        BY <2>1, <3>1, <3>2, <3>3, ZenonT(30)
    <2>4. QED
      BY <2>2, <2>3, ZenonT(30)
  <1>6. /\ client' \in [Clients -> Sessions]
        /\ \A c \in Clients : client'[c].at = client[c].at
    <2>1. client' = [c \in Clients |->
                       IF client[c].at = "idle" THEN client[c]
                       ELSE [client[c] EXCEPT !.held = @ \/ InForce(Sent(c), schema')]]
      BY ZenonT(30) DEF ApplyMigration
    <2>2. \A c \in Clients : client[c] \in Sessions
      BY <1>4, ZenonT(30) DEF TypeOK
    <2>3. \A c \in Clients : (client[c].held \/ InForce(Sent(c), schema')) \in BOOLEAN
      BY ZenonT(30)
    <2>4. QED
      BY <2>1, <2>2, <2>3, ZenonT(30) DEF Sessions
  <1> HIDE DEF g
  <1>7. o \in Operations
    BY <1>1, <1>3, ZenonT(30) DEF Operations
  <1>8. /\ o.kind = "ddl" /\ o.key = op[n].key /\ o.seen = op[n].seen /\ o.state = "running"
        /\ o.begun = op[n].begun /\ o.stage = g /\ o.stamped = op[n].stamped /\ o.basis = op[n].basis
    BY <1>1, <1>2, ZenonT(30) DEF Operations
  <1> HIDE DEF o
  <1>9. OpOK(o)
    BY <1>1, <1>2, <1>3, <1>8, ZenonT(30) DEF OpOK, DDLOK
  <1>10. Quiet(op[n], o)
    BY <1>2, <1>8, ZenonT(30) DEF Quiet, Grows, Unfinished, ddl_hold_ends
  <1>11. /\ op' \in Seq(Operations) /\ Len(op') = Len(op) /\ DOMAIN op' = DOMAIN op
         /\ op'[n] = o /\ \A k \in DOMAIN op \ {n} : op'[k] = op[k]
    BY <1>2, <1>4, <1>7, Changes, ZenonT(30)
  <1>12. TypeOK'
    BY <1>2, <1>4, <1>5, <1>6, <1>11, ZenonT(30) DEF TypeOK
  <1>13. (\A k \in DOMAIN op' : OpOK(op'[k])) /\ NoOverlap' /\ PlanHolds'
    BY <1>2, <1>5, <1>7, <1>9, <1>10, QuietOps, ZenonT(30)
  <1>14. ShapeIsCurrent'
    <2>1. CASE schema'.shape = schema.shape
      BY <1>2, <1>7, <1>9, <1>10, <2>1, QuietOps, ZenonT(30)
    <2>2. CASE schema'.shape # schema.shape
      <3>1. \A k \in DOMAIN op : ~(op[k].kind = "placement" /\ op[k].stage \in Unswapped)
        BY <1>2, <1>5, <2>2, Apart, ZenonT(30)
      <3>2. QED
        BY <1>8, <1>11, <3>1, ZenonT(30) DEF ShapeIsCurrent, Unswapped
    <2>3. QED
      BY <2>1, <2>2, ZenonT(30)
  <1>15. ASSUME NEW k \in 1..MaxOps PROVE PassOK(k)'
    <2>1. pass[n].at = "none" /\ pass' = pass
      BY <1>1, <1>2, ZenonT(30) DEF Fits
    <2>2. CASE schema'.shape = schema.shape
      BY <1>2, <1>7, <1>10, <2>1, <2>2, OtherPasses, ZenonT(30) DEF Quiet
    <2>3. CASE schema'.shape # schema.shape
      <3>1. PassOK(k)
        BY ZenonT(30) DEF IInv
      <3>2. n \notin pass[k].clock
        BY <1>1, <1>2, <3>1, ZenonT(30) DEF PassOK, ClockOK, OpOK, DDLOK
      <3>3. Touches(op'[n])
        BY <1>1, <1>2, <1>5, <1>8, <1>11, <2>3, ZenonT(30) DEF Touches, Databases, OpOK, DDLOK
      <3>4. ClockOK(k)'
        BY <1>2, <1>8, <1>11, <3>1, SMTT(30) DEF PassOK, ClockOK
      <3>5. ASSUME pass[k].at # "none" PROVE k \in DOMAIN op' /\ Fits(pass'[k], op'[k]) /\ ShapeOK(k)'
        <4>1. k \in DOMAIN op /\ Fits(pass[k], op[k]) /\ k # n
          BY <2>1, <3>1, <3>5, ZenonT(30) DEF PassOK
        <4>2. ShapeOK(k)'
          BY <1>11, <2>1, <3>2, <3>3, ZenonT(30) DEF ShapeOK
        <4>3. QED
          BY <1>11, <2>1, <4>1, <4>2, ZenonT(30)
      <3>6. QED
        BY <2>1, <3>4, <3>5, ZenonT(30) DEF PassOK
    <2>4. QED
      BY <2>2, <2>3, ZenonT(30)
  <1>16. \A c \in Clients : client'[c].at # "idle" => todo'[c] # <<>>
    BY <1>2, <1>6, ZenonT(30) DEF IInv
  <1>17. QED
    BY <1>12, <1>13, <1>14, <1>15, <1>16, ZenonT(30) DEF IInv

(* The stages of a workflow at work, in order. *)
LEMMA StageOrder ==
    ASSUME NEW k \in {"reshard", "placement"}, NEW i \in 1..Len(Stages(k)) - 1
    PROVE  <<Stages(k)[i], Stages(k)[i + 1]>> \in
             IF k = "placement"
               THEN {<<"moving", "buffering">>, <<"buffering", "swapping">>,
                     <<"swapping", "retiring">>, <<"retiring", "completed">>}
               ELSE {<<"copying", "switching">>, <<"switching", "completed">>}
  <1>1. CASE k = "placement"
    <2>1. Len(Stages(k)) = 5
      BY <1>1, ZenonT(30) DEF Stages
    <2>2. i \in {1, 2, 3, 4}
      BY <2>1, SMTT(30)
    <2>3. QED
      BY <1>1, <2>2, SMTT(30) DEF Stages
  <1>2. CASE k = "reshard"
    <2>1. Len(Stages(k)) = 3
      BY <1>2, ZenonT(30) DEF Stages
    <2>2. i \in {1, 2}
      BY <2>1, SMTT(30)
    <2>3. QED
      BY <1>2, <2>2, SMTT(30) DEF Stages
  <1>3. QED
    BY <1>1, <1>2, ZenonT(30)

LEMMA AdvanceInv ==
    ASSUME IInv, NEW n \in DOMAIN op, Advance(n)
    PROVE  IInv'
  <1>1. /\ op[n] \in Operations /\ OpOK(op[n]) /\ n \in 1..MaxOps
        /\ pass[n].at # "none" => Fits(pass[n], op[n])
    BY Facts, ZenonT(30)
  <1>2. /\ op[n].kind \in {"reshard", "placement"} /\ op[n].state = "running" /\ started(op[n])
        /\ UNCHANGED <<elock, todo, client, pass>>
    BY ZenonT(30) DEF Advance
  <1>3. PICK i \in 1..Len(Stages(op[n].kind)) - 1 :
          LET next == Stages(op[n].kind)[i + 1] IN
          /\ op[n].stage = Stages(op[n].kind)[i]
          /\ Change(n, [op[n] EXCEPT !.stage = next,
                                     !.state = IF next = "completed" THEN "completed" ELSE @])
          /\ schema' = [schema EXCEPT !.placed = IF next = "retiring" THEN @ + 1 ELSE @]
    BY ZenonT(30) DEF Advance
  <1> DEFINE next == Stages(op[n].kind)[i + 1]
             st == IF next = "completed" THEN "completed" ELSE op[n].state
             o == [op[n] EXCEPT !.stage = next, !.state = st]
  <1>4. <<op[n].stage, next>> \in
          IF op[n].kind = "placement"
            THEN {<<"moving", "buffering">>, <<"buffering", "swapping">>,
                  <<"swapping", "retiring">>, <<"retiring", "completed">>}
            ELSE {<<"copying", "switching">>, <<"switching", "completed">>}
    BY <1>2, <1>3, StageOrder, SMTT(30)
  <1>5. /\ next \in {"buffering", "swapping", "retiring", "switching", "completed"}
        /\ op[n].kind = "placement" => next # "switching"
        /\ op[n].kind = "reshard" => next \in {"switching", "completed"}
        /\ next = "retiring" => op[n].kind = "placement" /\ op[n].stage = "swapping"
        /\ next \in Unswapped => op[n].stage \in Unswapped
        /\ op[n].stage = "retiring" => next = "completed"
    BY <1>2, <1>4, ZenonT(30) DEF Unswapped
  <1>6. Change(n, o) /\ schema' = [schema EXCEPT !.placed = IF next = "retiring" THEN @ + 1 ELSE @]
    BY <1>1, <1>3, ZenonT(30)
  <1> HIDE DEF next
  <1>7. st \in {"running", "completed"} /\ (st = "completed" <=> next = "completed")
    BY <1>2, ZenonT(30)
  <1> HIDE DEF st
  <1>8. o \in Operations
    BY <1>1, <1>5, <1>7, ZenonT(60) DEF Operations
  <1>9. /\ o.kind = op[n].kind /\ o.key = op[n].key /\ o.seen = op[n].seen /\ o.state = st
        /\ o.stage = next /\ o.begun = op[n].begun /\ o.stamped = op[n].stamped
        /\ o.basis = op[n].basis /\ o.from = op[n].from
    BY <1>1, ZenonT(30) DEF Operations
  <1> HIDE DEF o
  <1>10. OpOK(o)
    BY <1>1, <1>2, <1>5, <1>7, <1>9, ZenonT(30) DEF OpOK, ReshardOK, PlacementOK
  <1>11. Quiet(op[n], o)
    BY <1>2, <1>5, <1>7, <1>9, ZenonT(30) DEF Quiet, Grows, Unfinished, ddl_hold_ends
  <1>12. TypeOK /\ schema \in [there: BOOLEAN, fresh: BOOLEAN, shape: Nat, placed: Nat]
    BY ZenonT(30) DEF IInv, TypeOK
  <1>13. /\ op' \in Seq(Operations) /\ Len(op') = Len(op) /\ DOMAIN op' = DOMAIN op
         /\ op'[n] = o /\ \A k \in DOMAIN op \ {n} : op'[k] = op[k]
    BY <1>6, <1>8, <1>12, Changes, ZenonT(30)
  <1>14. /\ schema' \in [there: BOOLEAN, fresh: BOOLEAN, shape: Nat, placed: Nat]
         /\ schema'.shape = schema.shape
         /\ next # "retiring" => schema'.placed = schema.placed
    <2>1. CASE next = "retiring"
      BY <1>6, <1>12, <2>1, SMTT(30)
    <2>2. CASE next # "retiring"
      BY <1>6, <1>12, <2>2, ZenonT(30)
    <2>3. QED
      BY <2>1, <2>2, ZenonT(30)
  <1>15. TypeOK'
    BY <1>2, <1>12, <1>13, <1>14, ZenonT(30) DEF TypeOK
  <1>16. (\A k \in DOMAIN op' : OpOK(op'[k])) /\ NoOverlap' /\ ShapeIsCurrent'
    BY <1>6, <1>8, <1>10, <1>11, <1>14, QuietOps, ZenonT(30)
  <1>17. PlanHolds'
    <2>1. CASE next # "retiring"
      BY <1>6, <1>8, <1>10, <1>11, <1>14, <2>1, QuietOps, ZenonT(30)
    <2>2. CASE next = "retiring"
      <3>1. op[n].kind = "placement" /\ op[n].stage \in Unswapped
        BY <1>5, <2>2, ZenonT(30) DEF Unswapped
      <3>2. \A m \in DOMAIN op :
              op[m].kind = "ddl" /\ op[m].state = "running" => op[m].key \in {"role", "elsewhere"}
        BY <3>1, Apart, ZenonT(30)
      <3>3. \A m \in DOMAIN op' :
              op'[m].kind = "ddl" /\ op'[m].state = "running" => op'[m].key \in {"role", "elsewhere"}
        BY <1>2, <1>9, <1>13, <3>2, ZenonT(30)
      <3>4. QED
        BY <3>3, ZenonT(30) DEF PlanHolds, Drifted
    <2>3. QED
      BY <2>1, <2>2, ZenonT(30)
  <1>18. ASSUME NEW k \in 1..MaxOps PROVE PassOK(k)'
    <2>1. pass[n].at = "none"
      BY <1>1, <1>2, ZenonT(30) DEF Fits, Before, started
    <2>2. QED
      BY <1>2, <1>6, <1>8, <1>11, <1>14, <2>1, OtherPasses, ZenonT(30) DEF Quiet
  <1>19. \A c \in Clients : client'[c].at # "idle" => todo'[c] # <<>>
    BY <1>2, ZenonT(30) DEF IInv
  <1>20. QED
    BY <1>15, <1>16, <1>17, <1>18, <1>19, ZenonT(30) DEF IInv

-----------------------------------------------------------------------------
(***************************************************************************)
(* The invariant, and what follows from it.                                *)
(***************************************************************************)

LEMMA DeclareInv ==
    ASSUME IInv, NEW k \in Workflows, Declare(k)
    PROVE  IInv'
  <1> DEFINE st == IF k = "reshard" THEN "provisioning" ELSE "pending"
             g == CASE k = "reshard" -> "provisioning" [] k = "edit" -> "unset" [] OTHER -> "preparing"
             o == [NewOp EXCEPT !.kind = k, !.state = st, !.stage = g]
  <1>1. /\ st \in {"provisioning", "pending"} /\ g \in {"provisioning", "unset", "preparing"}
        /\ k = "placement" => st = "pending" /\ g = "preparing"
    BY ZenonT(30) DEF Workflows
  <1>2. op' = Append(op, o) /\ Len(op) < MaxOps /\ UNCHANGED <<elock, todo, client, schema, pass>>
    BY ZenonT(30) DEF Declare
  <1> HIDE DEF st, g
  <1>3. o \in Operations
    BY <1>1, ZenonT(30) DEF NewOp, Operations
  <1>4. /\ o.kind = k /\ o.key = "unset" /\ o.state = st /\ o.stage = g /\ o.from = "unset"
        /\ ~o.begun /\ ~o.seen /\ ~o.stamped
    BY ZenonT(30) DEF NewOp
  <1> HIDE DEF o
  <1>5. k # "ddl"
    BY ZenonT(30) DEF Workflows
  <1>6. OpOK(o)
    BY <1>1, <1>4, <1>5, ZenonT(30) DEF OpOK, ReshardOK, PlacementOK
  <1>7. TypeOK
    BY ZenonT(30) DEF IInv
  <1>8. QED
    BY <1>1, <1>2, <1>3, <1>4, <1>5, <1>6, <1>7, Arrives, ZenonT(30) DEF TypeOK, Unswapped

LEMMA InitInv ==
    ASSUME Init
    PROVE  IInv
  <1>1. op = <<>> /\ DOMAIN op = {} /\ op \in Seq(Operations) /\ Len(op) = 0
    BY SMTT(30) DEF Init
  <1>2. todo \in [Clients -> Seq(Statements)]
    BY QueueConstants, ZenonT(30) DEF Init
  <1>3. client \in [Clients -> Sessions] /\ \A c \in Clients : client[c].at = "idle"
    BY ZenonT(30) DEF Init, Idle, Sessions
  <1>4. pass \in [1..MaxOps -> Passes] /\ \A n \in 1..MaxOps : pass[n] = NoPass
    BY NoPassIsPass, ZenonT(30) DEF Init
  <1>5. TypeOK
    <2>1. schema \in [there: BOOLEAN, fresh: BOOLEAN, shape: Nat, placed: Nat]
      BY ZenonT(30) DEF Init
    <2>2. elock \in Clients \cup {NoOne} /\ Len(op) <= MaxOps
      BY <1>1, QueueConstants, SMTT(30) DEF Init
    <2>3. QED
      BY <1>1, <1>2, <1>3, <1>4, <2>1, <2>2, ZenonT(30) DEF TypeOK
  <1>6. \A n \in 1..MaxOps : PassOK(n)
    BY <1>4, SMTT(30) DEF PassOK, ClockOK, NoPass
  <1>7. NoOverlap /\ PlanHolds /\ ShapeIsCurrent
    BY <1>1, ZenonT(30) DEF NoOverlap, PlanHolds, ShapeIsCurrent
  <1>8. QED
    BY <1>1, <1>3, <1>5, <1>6, <1>7, ZenonT(30) DEF IInv

LEMMA InvNext ==
    ASSUME IInv, [Next]_vars
    PROVE  IInv'
  <1>1. ASSUME NEW c \in Clients, Router(c) PROVE IInv'
    BY <1>1, PlanInv, EnqueueInv, InsertedInv, WaitEndsInv, ZenonT(30) DEF Router
  <1>2. ASSUME NEW k \in Workflows, Declare(k) PROVE IInv'
    BY <1>2, DeclareInv, ZenonT(30)
  <1>3. ASSUME NEW n \in DOMAIN op, WindowEnds(n) PROVE IInv'
    BY <1>3, WindowEndsInv, ZenonT(30)
  <1>4. ASSUME NEW n \in DOMAIN op, Applies(n) PROVE IInv'
    BY <1>4, StartMigrationInv, DriftFailsInv, ApplyMigrationInv, StampInv, FinishMigrationInv, ZenonT(30) DEF Applies
  <1>5. ASSUME NEW n \in DOMAIN op, Drives(n) PROVE IInv'
    BY <1>5, DeclaredInv, TargetsReadyInv, ListInv, TurnInv, ClockInv, DescribeInv, CheckFailsInv,
       StartWorkflowInv, AdvanceInv, FailWorkflowInv, CleanupInv, ZenonT(30) DEF Drives
  <1>6. ASSUME NEW n \in DOMAIN op, Meddles(n) PROVE IInv'
    BY <1>6, PauseWorkflowInv, ResumeWorkflowInv, CancelWorkflowInv, RevertInv, ZenonT(30) DEF Meddles
  <1>7. CASE SequenceUsed
    BY <1>7, SequenceUsedInv, ZenonT(30)
  <1>8. CASE UNCHANGED vars
    <2>1. UNCHANGED <<op, elock, todo, client, schema, pass>>
      BY <1>8, ZenonT(30) DEF vars
    <2>2. TypeOK' /\ \A c \in Clients : client'[c].at # "idle" => todo'[c] # <<>>
      BY <2>1, ZenonT(30) DEF IInv, TypeOK
    <2>3. QED
      BY <2>1, <2>2, IdleStep, ZenonT(30)
  <1>9. QED
    BY <1>1, <1>2, <1>3, <1>4, <1>5, <1>6, <1>7, <1>8, ZenonT(30) DEF Next

(* Every behaviour of the queue keeps the inductive invariant: what a row's *)
(* state says of its stage, what a pass still has right about the row it    *)
(* listed, and the three properties below.                                  *)
THEOREM Invariance == Spec => []IInv
  BY InitInv, InvNext, PTL DEF Spec

(* No two conflicting operations are ever at work together, whatever the    *)
(* clients send, the workflows declared, the passes that fail and the       *)
(* administrator's pauses, cancellations and reverts (operation_blockers    *)
(* asked under the move gate).                                              *)
THEOREM NeverOverlap == Spec => []NoOverlap
  <1>1. IInv => NoOverlap
    BY ZenonT(30) DEF IInv
  <1>2. QED
    BY <1>1, Invariance, PTL

(* A migration runs on the shards only under the placement it was planned   *)
(* for (PlacementDrift in the save that starts it).                         *)
THEOREM RunsAsPlanned == Spec => []PlanHolds
  <1>1. IInv => PlanHolds
    BY ZenonT(30) DEF IInv
  <1>2. QED
    BY <1>1, Invariance, PTL

(* Until its swap a placement holds the shape its table has, though the     *)
(* shape was read before the gate was taken (prepareAndStart's clock, and   *)
(* the check for schema changes since in the transaction of the start).     *)
THEOREM RestoresShape == Spec => []ShapeIsCurrent
  <1>1. IInv => ShapeIsCurrent
    BY ZenonT(30) DEF IInv
  <1>2. QED
    BY <1>1, Invariance, PTL

-----------------------------------------------------------------------------
(***************************************************************************)
(* AnsweredTrue has an inductive invariant of its own, AInv, on top of     *)
(* IInv: the migrations of one scope run in the order of their arrival,    *)
(* which is the order their inserts commit in, so the last CREATE or DROP  *)
(* that was applied tells whether the object is there, and a migration     *)
(* that nothing followed in its scope still stands for what it did.        *)
(***************************************************************************)

(* A migration that is applied has begun, and one that is complete was      *)
(* applied.                                                                 *)
Outcome(o) ==
    o.kind = "ddl" =>
      /\ o.key \in Statements
      /\ o.stage # "unset" => o.begun
      /\ o.state = "complete" => o.stage = "applied"

(* Only the holder of the enqueue lock has an insert that is not committed, *)
(* and nobody draws an arrival for a migration after it.                    *)
LastInsert(n) ==
    op[n].kind = "ddl" /\ ~op[n].seen =>
      /\ elock \in Clients /\ client[elock].at = "waiting" /\ client[elock].on = n
      /\ \A k \in DOMAIN op : op[k].kind = "ddl" => k <= n

(* The migrations of one scope run in the order of their arrival. *)
InOrder ==
    \A m, n \in DOMAIN op :
       m < n /\ op[m].kind = "ddl" /\ op[n].kind = "ddl" /\ op[n].begun /\ Shared(op[m], op[n])
         => op[m].state \in {"complete", "failed"}

(* CREATE and DROP that were applied: the last of them tells whether the    *)
(* object is there.                                                         *)
Toggles == {n \in DOMAIN op : op[n].kind = "ddl" /\ op[n].key \in {"create", "drop"} /\ op[n].stage = "applied"}
LastTells ==
    \A n \in Toggles :
       (\A y \in Toggles : y > n => op[y].key = op[n].key) => (schema.there <=> op[n].key = "create")

(* What a client is told of the operation that stands for its statement. *)
Told(c) ==
    /\ client[c].at # "idle" /\ InForce(Sent(c), schema) => client[c].held
    /\ client[c].at \in {"waiting", "attached"} =>
         /\ client[c].on \in DOMAIN op /\ op[client[c].on].kind = "ddl" /\ op[client[c].on].key = Sent(c)
         /\ op[client[c].on].stage = "applied" /\ ~(client[c].at = "attached" /\ Sent(c) = "restart")
              => client[c].held

AInv ==
    /\ \A n \in DOMAIN op : Outcome(op[n]) /\ LastInsert(n)
    /\ InOrder /\ LastTells
    /\ \A c \in Clients : Told(c)

LEMMA AnswersFollow == ASSUME AInv PROVE AnsweredTrue
  BY ZenonT(30) DEF AInv, AnsweredTrue, Told, Outcome

LEMMA SharedKept ==
    ASSUME NEW a, NEW b, NEW x, NEW y,
           x.kind = a.kind, x.key = a.key, y.kind = b.kind, y.key = b.key
    PROVE  Shared(x, y) <=> Shared(a, b)
  <1>1. cluster_scoped(x) = cluster_scoped(a) /\ cluster_scoped(y) = cluster_scoped(b)
      BY ZenonT(30) DEF cluster_scoped
  <1>2. Databases(x) = Databases(a) /\ Databases(y) = Databases(b)
      BY ZenonT(30) DEF Databases
  <1> QED
      BY <1>1, <1>2, Zenon DEF Shared

(* What the invariant looks at in a migration is as it was. *)
Alike(x, o) ==
    /\ o.kind = x.kind /\ o.key = x.key /\ o.seen = x.seen
    /\ o.state = x.state /\ o.stage = x.stage /\ o.begun = x.begun

LEMMA SameDDL ==
    ASSUME AInv, DOMAIN op \subseteq DOMAIN op',
           \A k \in DOMAIN op : op[k].kind = "ddl" => Alike(op[k], op'[k]),
           \A k \in DOMAIN op' : op'[k].kind = "ddl" => k \in DOMAIN op /\ op[k].kind = "ddl",
           UNCHANGED <<elock, todo, client>>,
           schema'.there = schema.there, schema'.fresh => schema.fresh
    PROVE  AInv'
  <1>0. elock' = elock /\ todo' = todo /\ client' = client
      BY Zenon
  <1>1. \A k \in DOMAIN op' : Outcome(op'[k])
      BY ZenonT(30) DEF AInv, Outcome, Alike
  <1>2. \A k \in DOMAIN op' : LastInsert(k)'
      BY <1>0, ZenonT(30) DEF AInv, LastInsert, Alike
  <1>3. InOrder'
    <2> SUFFICES ASSUME NEW m \in DOMAIN op', NEW n \in DOMAIN op', m < n,
                        op'[m].kind = "ddl", op'[n].kind = "ddl", op'[n].begun, Shared(op'[m], op'[n])
                 PROVE  op'[m].state \in {"complete", "failed"}
        BY ZenonT(30) DEF InOrder
    <2>1. m \in DOMAIN op /\ n \in DOMAIN op /\ Alike(op[m], op'[m]) /\ Alike(op[n], op'[n])
        BY ZenonT(30)
    <2>2. Shared(op[m], op[n])
        BY <2>1, SharedKept, ZenonT(30) DEF Alike
    <2> QED
        BY <2>1, <2>2, ZenonT(30) DEF AInv, InOrder, Alike
  <1>4. LastTells'
    <2>1. Toggles' = Toggles /\ \A n \in Toggles : op'[n].key = op[n].key
      <3>1. ASSUME NEW n PROVE n \in Toggles' <=> n \in Toggles
          BY ZenonT(30) DEF Toggles, Alike
      <3> QED
          BY <3>1, ZenonT(30) DEF Toggles, Alike
    <2> SUFFICES ASSUME NEW n \in Toggles, \A y \in Toggles : y > n => op'[y].key = op'[n].key
                 PROVE  schema'.there <=> op'[n].key = "create"
        BY <2>1, Zenon DEF LastTells
    <2>2. \A y \in Toggles : y > n => op[y].key = op[n].key
        BY <2>1, Zenon
    <2>3. schema.there <=> op[n].key = "create"
        BY <2>2, Zenon DEF AInv, LastTells
    <2> QED
        BY <2>1, <2>3, Zenon
  <1>5. ASSUME NEW c \in Clients PROVE Told(c)'
    <2>1. InForce(Sent(c), schema') => InForce(Sent(c), schema)
        BY ZenonT(30) DEF InForce
    <2>2. Sent(c)' = Sent(c)
        BY <1>0, ZenonT(30) DEF Sent
    <2>3. Told(c)
        BY ZenonT(30) DEF AInv
    <2> QED
        BY <1>0, <2>1, <2>2, <2>3, ZenonT(30) DEF Told, Alike
  <1> QED
      BY <1>1, <1>2, <1>3, <1>4, <1>5, ZenonT(30) DEF AInv

(* A step of a workflow is none of a migration's. *)
LEMMA WorkflowOnly ==
    ASSUME IInv, NEW n \in DOMAIN op, Drives(n) \/ Meddles(n)
    PROVE  /\ op[n].kind # "ddl" /\ UNCHANGED <<elock, todo, client>>
           /\ schema'.there = schema.there /\ schema'.fresh = schema.fresh
           /\ op' = op \/ \E o : Change(n, o) /\ o.kind = op[n].kind
  <1>1. TypeOK /\ OpOK(op[n]) /\ op[n] \in Operations /\ n \in 1..MaxOps /\ PassOK(n)
      BY Domain, ZenonT(30) DEF IInv
  <1>2. pass[n].at # "none" => op[n].kind # "ddl"
      BY <1>1, ZenonT(30) DEF PassOK, Fits
  <1>3. op[n].kind = "ddl" => DDLOK(op[n])
      BY <1>1, ZenonT(30) DEF OpOK
  <1>4. CASE Declared(n)
    <2>1. [op[n] EXCEPT !.seen = TRUE].kind = op[n].kind
        BY <1>1, ZenonT(30) DEF Operations
    <2> QED
        BY <1>4, <2>1, ZenonT(30) DEF Declared
  <1>5. CASE TargetsReady(n)
    <2>1. [op[n] EXCEPT !.state = "running", !.stage = "ready_for_copy"].kind = op[n].kind
        BY <1>1, ZenonT(30) DEF Operations
    <2> QED
        BY <1>5, <2>1, ZenonT(30) DEF TargetsReady
  <1>6. CASE List(n) \/ Clock(n) \/ Describe(n)
    <2>1. List(n) => op[n].kind # "ddl"
        BY ZenonT(30) DEF List, Startable
    <2>2. Clock(n) \/ Describe(n) => pass[n].at # "none"
        BY ZenonT(30) DEF Clock, Describe
    <2> QED
        BY <1>6, <1>2, <2>1, <2>2, ZenonT(30) DEF List, Clock, Describe
  <1>7. ASSUME NEW e \in BOOLEAN, PassSaves(n, e)
        PROVE  UNCHANGED <<elock, todo, client, schema>> /\ \E o : Change(n, o) /\ o.kind = op[n].kind
    <2>1. (IF op[n].state = pass[n].fence THEN [op[n] EXCEPT !.start_error = e] ELSE op[n]).kind = op[n].kind
        BY <1>1, ZenonT(30) DEF Operations
    <2> QED
        BY <1>7, <2>1, ZenonT(30) DEF PassSaves
  <1>8. CASE Turn(n)
    <2>1. pass[n].at # "none" /\ (PassSaves(n, FALSE) \/ UNCHANGED <<op, elock, todo, client, schema>>)
        BY <1>8, ZenonT(30) DEF Turn
    <2> QED
        BY <1>2, <1>7, <2>1, ZenonT(30)
  <1>9. CASE CheckFails(n)
    <2> DEFINE f == IF op[n].state # pass[n].fence THEN op[n] ELSE [op[n] EXCEPT !.state = "failed", !.stage = "failed"]
    <2>1. /\ pass[n].at # "none"
          /\ PassSaves(n, TRUE) \/ (Change(n, f) /\ UNCHANGED <<elock, todo, client, schema>>)
        BY <1>9, ZenonT(30) DEF CheckFails
    <2>2. f.kind = op[n].kind
        BY <1>1, ZenonT(30) DEF Operations
    <2> QED
        BY <1>2, <1>7, <2>1, <2>2, ZenonT(30)
  <1>10. CASE StartWorkflow(n)
    <2> DEFINE b == [op[n] EXCEPT !.state = "running", !.begun = TRUE, !.start_error = FALSE, !.basis = pass[n].shape,
                                  !.stage = IF op[n].kind = "placement" THEN "moving" ELSE "copying"]
    <2>1. /\ pass[n].at # "none"
          /\ \/ PassSaves(n, FALSE) \/ UNCHANGED <<op, elock, todo, client, schema>>
             \/ Change(n, b) /\ UNCHANGED <<elock, todo, client, schema>>
        BY <1>10, ZenonT(30) DEF StartWorkflow, Begin
    <2>2. b.kind = op[n].kind
        BY <1>1, ZenonT(30) DEF Operations
    <2> QED
        BY <1>2, <1>7, <2>1, <2>2, ZenonT(30)
  <1>11. CASE Advance(n)
    <2>1. PICK i \in 1..Len(Stages(op[n].kind)) - 1 :
            LET next == Stages(op[n].kind)[i + 1] IN
            /\ Change(n, [op[n] EXCEPT !.stage = next, !.state = IF next = "completed" THEN "completed" ELSE @])
            /\ schema' = [schema EXCEPT !.placed = IF next = "retiring" THEN @ + 1 ELSE @]
        BY <1>11, ZenonT(30) DEF Advance
    <2> DEFINE next == Stages(op[n].kind)[i + 1]
               o == [op[n] EXCEPT !.stage = next, !.state = IF next = "completed" THEN "completed" ELSE @]
    <2>2. o.kind = op[n].kind
        BY <1>1, ZenonT(30) DEF Operations
    <2>3. schema'.there = schema.there /\ schema'.fresh = schema.fresh
        BY <1>1, <2>1, ZenonT(30) DEF TypeOK
    <2> QED
        BY <1>11, <2>1, <2>2, <2>3, ZenonT(30) DEF Advance
  <1>12. CASE FailWorkflow(n)
    <2>1. [op[n] EXCEPT !.state = "failed", !.stage = "failed"].kind = op[n].kind
        BY <1>1, ZenonT(30) DEF Operations
    <2> QED
        BY <1>12, <2>1, ZenonT(30) DEF FailWorkflow
  <1>13. CASE Cleanup(n)
    <2>1. [op[n] EXCEPT !.stage = "cancelled"].kind = op[n].kind
        BY <1>1, ZenonT(30) DEF Operations
    <2> QED
        BY <1>13, <1>3, <2>1, ZenonT(30) DEF Cleanup, DDLOK
  <1>14. CASE PauseWorkflow(n)
    <2>1. [op[n] EXCEPT !.state = "paused", !.from = op[n].state].kind = op[n].kind
        BY <1>1, ZenonT(30) DEF Operations
    <2> QED
        BY <1>14, <2>1, ZenonT(30) DEF PauseWorkflow
  <1>15. CASE ResumeWorkflow(n)
    <2>1. [op[n] EXCEPT !.state = op[n].from, !.from = "unset"].kind = op[n].kind
        BY <1>1, ZenonT(30) DEF Operations
    <2> QED
        BY <1>15, <1>3, <2>1, ZenonT(30) DEF ResumeWorkflow, DDLOK
  <1>16. CASE CancelWorkflow(n)
    <2>1. [op[n] EXCEPT !.state = "cancelled", !.from = "unset"].kind = op[n].kind
        BY <1>1, ZenonT(30) DEF Operations
    <2> QED
        BY <1>16, <2>1, ZenonT(30) DEF CancelWorkflow
  <1>17. CASE Revert(n)
    <2> DEFINE o == [op[n] EXCEPT !.state = "cancelled",
                                  !.stage = IF op[n].state = "provisioning" THEN "cancelled" ELSE "cancelling"]
    <2>1. o.kind = op[n].kind
        BY <1>1, ZenonT(30) DEF Operations
    <2> QED
        BY <1>17, <2>1, ZenonT(30) DEF Revert
  <1> QED
      BY <1>4, <1>5, <1>6, <1>8, <1>9, <1>10, <1>11, <1>12, <1>13, <1>14, <1>15, <1>16, <1>17, ZenonT(30)
      DEF Drives, Meddles

LEMMA WorkflowAnswers ==
    ASSUME IInv, AInv, NEW n \in DOMAIN op, Drives(n) \/ Meddles(n)
    PROVE  AInv'
  <1>1. /\ op[n].kind # "ddl" /\ UNCHANGED <<elock, todo, client>>
        /\ schema'.there = schema.there /\ schema'.fresh = schema.fresh
        /\ op' = op \/ \E o : Change(n, o) /\ o.kind = op[n].kind
      BY WorkflowOnly, ZenonT(30)
  <1>2. DOMAIN op' = DOMAIN op /\ op'[n].kind # "ddl" /\ \A k \in DOMAIN op : k # n => op'[k] = op[k]
    <2>1. CASE op' = op
        BY <1>1, <2>1, Zenon
    <2>2. ASSUME NEW o, Change(n, o), o.kind = op[n].kind
          PROVE  DOMAIN op' = DOMAIN op /\ op'[n] = o /\ \A k \in DOMAIN op : k # n => op'[k] = op[k]
        BY <2>2, ZenonT(30) DEF Change
    <2> QED
        BY <1>1, <2>1, <2>2, ZenonT(30)
  <1> QED
      BY <1>1, <1>2, SameDDL, ZenonT(30) DEF Alike

LEMMA SequenceAnswers == ASSUME AInv, TypeOK, SequenceUsed PROVE AInv'
  <1>1. UNCHANGED <<op, elock, todo, client>> /\ schema' = [schema EXCEPT !.fresh = FALSE]
      BY Zenon DEF SequenceUsed
  <1>2. schema'.there = schema.there /\ ~schema'.fresh
      BY <1>1, ZenonT(30) DEF TypeOK
  <1> QED
      BY <1>1, <1>2, SameDDL, ZenonT(30) DEF Alike

LEMMA DeclareAnswers == ASSUME AInv, TypeOK, NEW w \in Workflows, Declare(w) PROVE AInv'
  <1> DEFINE o == [NewOp EXCEPT !.kind = w,
                     !.state = IF w = "reshard" THEN "provisioning" ELSE "pending",
                     !.stage = CASE w = "reshard" -> "provisioning" [] w = "edit" -> "unset" [] OTHER -> "preparing"]
  <1>1. UNCHANGED <<elock, todo, client, schema>> /\ op' = Append(op, o)
      BY Zenon DEF Declare
  <1>2. o.kind # "ddl"
      BY ZenonT(30) DEF NewOp, Workflows
  <1> HIDE DEF o
  <1>3. /\ DOMAIN op' = DOMAIN op \cup {Len(op) + 1} /\ op'[Len(op) + 1] = o
        /\ \A k \in DOMAIN op : op'[k] = op[k]
      BY <1>1, SMTT(30) DEF TypeOK
  <1> QED
      BY <1>1, <1>2, <1>3, SameDDL, ZenonT(30) DEF Alike

(* A step of the applier that leaves the stage. *)
LEMMA StageKept ==
    ASSUME TypeOK, AInv, NEW n \in DOMAIN op, NEW o \in Operations, Change(n, o), op[n].kind = "ddl",
           o.kind = "ddl", o.key = op[n].key, o.seen = op[n].seen, o.stage = op[n].stage, Outcome(o),
           op[n].state \in {"complete", "failed"} => o.state \in {"complete", "failed"},
           o.begun /\ ~op[n].begun =>
             /\ op[n].state \notin {"complete", "failed"}
             /\ \A m \in DOMAIN op : m < n /\ op[m].kind = "ddl" /\ Shared(op[m], op[n]) => op[m].state \in {"complete", "failed"},
           UNCHANGED <<elock, todo, client, schema>>
    PROVE  AInv'
  <1>0. elock' = elock /\ todo' = todo /\ client' = client /\ schema' = schema
      BY Zenon
  <1>1. DOMAIN op' = DOMAIN op /\ op'[n] = o /\ \A k \in DOMAIN op : k # n => op'[k] = op[k]
      BY Changes, ZenonT(30)
  <1>2. \A k \in DOMAIN op' : Outcome(op'[k])
      BY <1>1, ZenonT(30) DEF AInv
  <1>3. \A k \in DOMAIN op' : op'[k].kind = op[k].kind /\ op'[k].key = op[k].key /\ op'[k].seen = op[k].seen /\ op'[k].stage = op[k].stage
      BY <1>1, ZenonT(30)
  <1>4. \A k \in DOMAIN op' : LastInsert(k)'
      BY <1>0, <1>1, <1>3, ZenonT(30) DEF AInv, LastInsert
  <1>5. InOrder'
    <2> SUFFICES ASSUME NEW m \in DOMAIN op, NEW k \in DOMAIN op, m < k,
                        op[m].kind = "ddl", op[k].kind = "ddl", op'[k].begun, Shared(op'[m], op'[k])
                 PROVE  op'[m].state \in {"complete", "failed"}
        BY <1>1, <1>3, ZenonT(30) DEF InOrder
    <2>1. Shared(op[m], op[k])
        BY <1>1, <1>3, SharedKept, ZenonT(30)
    <2>2. op[k].begun => op[m].state \in {"complete", "failed"}
        BY <2>1, ZenonT(30) DEF AInv, InOrder
    <2>3. op[m].state \in {"complete", "failed"}
        BY <1>1, <2>1, <2>2, ZenonT(30)
    <2> QED
        BY <1>1, <2>3, ZenonT(30)
  <1>6. LastTells'
    <2>1. Toggles' = Toggles
        BY <1>1, <1>3, ZenonT(30) DEF Toggles
    <2>2. \A k \in Toggles : op'[k].key = op[k].key
        BY <1>1, <1>3, ZenonT(30) DEF Toggles
    <2> SUFFICES ASSUME NEW k \in Toggles, \A y \in Toggles : y > k => op'[y].key = op'[k].key
                 PROVE  schema.there <=> op'[k].key = "create"
        BY <1>0, <2>1, Zenon DEF LastTells
    <2>3. \A y \in Toggles : y > k => op[y].key = op[k].key
        BY <2>2, Zenon
    <2>4. schema.there <=> op[k].key = "create"
        BY <2>3, Zenon DEF AInv, LastTells
    <2> QED
        BY <2>2, <2>4, Zenon
  <1>7. ASSUME NEW c \in Clients PROVE Told(c)'
    <2>1. Sent(c)' = Sent(c) /\ Told(c)
        BY <1>0, ZenonT(30) DEF Sent, AInv
    <2> QED
        BY <1>0, <1>1, <1>3, <2>1, ZenonT(30) DEF Told
  <1> QED
      BY <1>2, <1>4, <1>5, <1>6, <1>7, ZenonT(30) DEF AInv

LEMMA SmallAnswers ==
    ASSUME IInv, AInv, NEW n \in DOMAIN op, WindowEnds(n) \/ Stamp(n)
    PROVE  AInv'
  <1>1. op[n] \in Operations /\ TypeOK
      BY Facts, Zenon DEF IInv
  <1> DEFINE x == [op[n] EXCEPT !.recent = FALSE]
             y == [op[n] EXCEPT !.stamped = TRUE]
  <1>2. Alike(op[n], x) /\ Alike(op[n], y)
      BY <1>1, ZenonT(30) DEF Operations, Alike
  <1>3. (Change(n, x) \/ Change(n, y)) /\ UNCHANGED <<elock, todo, client, schema>>
      BY ZenonT(30) DEF WindowEnds, Stamp
  <1> HIDE DEF x, y
  <1>4. DOMAIN op' = DOMAIN op /\ Alike(op[n], op'[n]) /\ \A k \in DOMAIN op : k # n => op'[k] = op[k]
      BY <1>2, <1>3, ZenonT(30) DEF Change
  <1> QED
      BY <1>3, <1>4, SameDDL, ZenonT(30) DEF Alike

LEMMA StartAnswers ==
    ASSUME IInv, AInv, NEW n \in DOMAIN op, StartMigration(n)
    PROVE  AInv'
  <1> DEFINE o == [op[n] EXCEPT !.state = "running", !.begun = TRUE]
  <1>1. TypeOK /\ op[n] \in Operations /\ Outcome(op[n]) /\ \A m \in DOMAIN op : op[m] \in Operations /\ OpOK(op[m])
      BY Facts, Domain, ZenonT(30) DEF IInv, AInv
  <1>i. \A m \in DOMAIN op : m \in Int
      BY <1>1, Domain, SMTT(30)
  <1>2. /\ op[n].kind = "ddl" /\ op[n].seen /\ op[n].state = "queued" /\ operation_blockers(n) = {} /\ Change(n, o)
        /\ UNCHANGED <<elock, todo, client, schema>>
      BY ZenonT(30) DEF StartMigration
  <1>3. /\ o \in Operations /\ o.kind = "ddl" /\ o.key = op[n].key /\ o.seen = op[n].seen /\ o.stage = op[n].stage
        /\ o.begun /\ o.state = "running"
      BY <1>1, <1>2, ZenonT(30) DEF Operations
  <1> HIDE DEF o
  <1>4. Outcome(o)
      BY <1>1, <1>2, <1>3, ZenonT(30) DEF Outcome
  <1>5. ASSUME NEW m \in DOMAIN op, m < n, op[m].kind = "ddl", Shared(op[m], op[n])
        PROVE  op[m].state \in {"complete", "failed"}
    <2>1. op[m].seen
      <3>1. ~op[m].seen => n <= m
          BY <1>2, <1>5, ZenonT(30) DEF AInv, LastInsert
      <3> QED
          BY <1>i, <1>5, <3>1, SMTT(30)
    <2>2. operations_conflict(op[n], op[m])
        BY <1>1, <1>2, <1>5, ConflictIs, ConflictSymmetric, ZenonT(30)
    <2>3. ~Unfinished(op[m])
      <3>1. Unfinished(op[n]) /\ ~started(op[n])
          BY <1>2, ZenonT(30) DEF Unfinished, started
      <3>2. holds_queue(op[m]) /\ m # n
          BY <1>i, <1>5, SMTT(30) DEF holds_queue
      <3> QED
          BY <1>2, <1>5, <2>2, <3>1, <3>2, ZenonT(30) DEF operation_blockers
    <2>4. DDLOK(op[m])
        BY <1>1, <1>5, ZenonT(30) DEF OpOK
    <2> QED
        BY <2>1, <2>3, <2>4, ZenonT(30) DEF Unfinished, DDLOK
  <1> QED
      BY <1>1, <1>2, <1>3, <1>4, <1>5, StageKept, ZenonT(30)

LEMMA EndAnswers ==
    ASSUME IInv, AInv, NEW n \in DOMAIN op, DriftFails(n) \/ FinishMigration(n)
    PROVE  AInv'
  <1> DEFINE x == [op[n] EXCEPT !.state = "failed", !.stamped = TRUE]
             y == [op[n] EXCEPT !.state = IF op[n].stage = "applied" THEN "complete" ELSE "failed",
                                !.recent = op[n].stage = "applied"]
             Ends(o) == /\ o \in Operations /\ o.kind = "ddl" /\ o.key = op[n].key /\ o.seen = op[n].seen
                        /\ o.stage = op[n].stage /\ o.begun = op[n].begun /\ o.state \in {"complete", "failed"}
                        /\ o.state = "complete" => o.stage = "applied"
  <1>1. TypeOK /\ op[n] \in Operations /\ Outcome(op[n])
      BY Facts, ZenonT(30) DEF IInv, AInv
  <1>2. /\ op[n].kind = "ddl" /\ (Change(n, x) \/ Change(n, y))
        /\ UNCHANGED <<elock, todo, client, schema>>
      BY ZenonT(30) DEF DriftFails, FinishMigration
  <1>3. Ends(x)
      BY <1>1, <1>2, ZenonT(30) DEF Operations
  <1>4. Ends(y)
    <2>1. CASE op[n].stage = "applied"
        BY <1>1, <1>2, <2>1, ZenonT(30) DEF Operations
    <2>2. CASE op[n].stage # "applied"
        BY <1>1, <1>2, <2>2, ZenonT(30) DEF Operations
    <2> QED
        BY <2>1, <2>2, Zenon
  <1> HIDE DEF x, y
  <1>5. ASSUME NEW o, Ends(o), Change(n, o) PROVE AInv'
    <2>1. Outcome(o)
        BY <1>1, <1>2, <1>5, ZenonT(30) DEF Outcome
    <2> QED
        BY <1>1, <1>2, <1>5, <2>1, StageKept, ZenonT(30)
  <1> HIDE DEF Ends
  <1> QED
      BY <1>2, <1>3, <1>4, <1>5, ZenonT(30)

(* The outcome of a statement is seen by every client that waits for it;    *)
(* CREATE and DROP of one object follow each other in their arrivals.       *)
LEMMA ApplyAnswers ==
    ASSUME IInv, AInv, NEW n \in DOMAIN op, ApplyMigration(n)
    PROVE  AInv'
  <1> DEFINE key == op[n].key
             bad == (key = "create" /\ schema.there) \/ (key = "drop" /\ ~schema.there)
             o == [op[n] EXCEPT !.stage = IF bad THEN "error" ELSE "applied"]
             new == [schema EXCEPT !.there = key = "create" \/ (@ /\ key # "drop"),
                                   !.fresh = @ \/ key = "restart", !.shape = @ + 1]
  <1>1. /\ TypeOK /\ op[n] \in Operations /\ Outcome(op[n]) /\ OpOK(op[n])
        /\ schema \in [there : BOOLEAN, fresh : BOOLEAN, shape : Nat, placed : Nat]
        /\ client \in [Clients -> Sessions] /\ \A m \in DOMAIN op : Outcome(op[m])
      BY Facts, Domain, ZenonT(30) DEF IInv, AInv, TypeOK
  <1>i. \A m \in DOMAIN op : m \in Int
      BY <1>1, Domain, SMTT(30)
  <1>2. /\ op[n].kind = "ddl" /\ op[n].state = "running" /\ op[n].stage = "unset" /\ op[n].begun
        /\ Change(n, o) /\ schema' = (IF bad \/ key \in {"role", "elsewhere"} THEN schema ELSE new)
        /\ elock' = elock /\ todo' = todo
        /\ client' = [c \in Clients |-> IF client[c].at = "idle" THEN client[c]
                                        ELSE [client[c] EXCEPT !.held = @ \/ InForce(Sent(c), schema')]]
      BY <1>1, ZenonT(30) DEF ApplyMigration, OpOK, DDLOK
  <1>3. /\ o \in Operations /\ o.kind = "ddl" /\ o.key = key /\ o.seen = op[n].seen /\ o.state = "running" /\ o.begun = op[n].begun
        /\ o.stage = IF bad THEN "error" ELSE "applied"
      BY <1>1, <1>2, ZenonT(30) DEF Operations
  <1>4. /\ new.there = (key = "create" \/ (schema.there /\ key # "drop"))
        /\ new.fresh = (schema.fresh \/ key = "restart")
      BY <1>1, ZenonT(30)
  <1>5. /\ ~bad => InForce(key, schema')
        /\ schema'.there # schema.there => ~bad /\ key \in {"create", "drop"}
        /\ ~bad /\ key \in {"create", "drop"} => (schema'.there <=> key = "create")
    <2>1. key \in Statements
        BY <1>1, <1>2, Zenon DEF Outcome
    <2> HIDE DEF new
    <2>2. bad \/ key \in {"role", "elsewhere"} => schema' = schema
        BY <1>2, Zenon
    <2>3. ~bad /\ key \notin {"role", "elsewhere"} => schema' = new
        BY <1>2, Zenon
    <2> QED
        BY <1>1, <1>4, <2>1, <2>2, <2>3, ZenonT(30) DEF InForce, Statements
  <1>6. ASSUME NEW c \in Clients
        PROVE  /\ client'[c].at = client[c].at /\ client'[c].on = client[c].on
               /\ client[c].at # "idle" => client'[c].held = (client[c].held \/ InForce(Sent(c), schema'))
    <2>1. client[c] \in Sessions
        BY <1>1, Zenon
    <2>2. client'[c] = IF client[c].at = "idle" THEN client[c] ELSE [client[c] EXCEPT !.held = @ \/ InForce(Sent(c), schema')]
        BY <1>2, Zenon
    <2> QED
        BY <2>1, <2>2, ZenonT(30) DEF Sessions
  <1> HIDE DEF o, new, bad, key
  <1>7. DOMAIN op' = DOMAIN op /\ op'[n] = o /\ \A k \in DOMAIN op : k # n => op'[k] = op[k]
      BY <1>1, <1>2, <1>3, Changes, ZenonT(30)
  <1>8. \A k \in DOMAIN op' : /\ op'[k].kind = op[k].kind /\ op'[k].key = op[k].key /\ op'[k].seen = op[k].seen
                              /\ op'[k].state = op[k].state /\ op'[k].begun = op[k].begun
      BY <1>2, <1>3, <1>7, ZenonT(30) DEF key
  <1>9. ASSUME NEW k \in DOMAIN op' PROVE Outcome(op'[k])
    <2>1. Outcome(o)
        BY <1>1, <1>2, <1>3, ZenonT(30) DEF Outcome, key
    <2> QED
        BY <1>1, <1>7, <2>1, ZenonT(30)
  <1>10. ASSUME NEW k \in DOMAIN op' PROVE LastInsert(k)'
    <2>1. LastInsert(k)
        BY <1>7, ZenonT(30) DEF AInv
    <2> SUFFICES ASSUME op[k].kind = "ddl", ~op[k].seen
                 PROVE  /\ elock \in Clients /\ client'[elock].at = "waiting" /\ client'[elock].on = k
                        /\ \A j \in DOMAIN op : op'[j].kind = "ddl" => j <= k
        BY <1>2, <1>7, <1>8, ZenonT(30) DEF LastInsert
    <2> QED
        BY <2>1, <1>6, <1>7, <1>8, ZenonT(30) DEF LastInsert
  <1>11. InOrder'
    <2> SUFFICES ASSUME NEW m \in DOMAIN op, NEW k \in DOMAIN op, m < k,
                        op[m].kind = "ddl", op[k].kind = "ddl", op[k].begun, Shared(op'[m], op'[k])
                 PROVE  op[m].state \in {"complete", "failed"}
        BY <1>7, <1>8, ZenonT(30) DEF InOrder
    <2>1. Shared(op[m], op[k])
        BY <1>7, <1>8, SharedKept, ZenonT(30)
    <2> QED
        BY <2>1, ZenonT(30) DEF AInv, InOrder
  <1>12. LastTells'
    <2> SUFFICES ASSUME NEW k \in Toggles', \A y \in Toggles' : y > k => op'[y].key = op'[k].key
                 PROVE  schema'.there <=> op'[k].key = "create"
        BY Zenon DEF LastTells
    <2>1. k \in DOMAIN op /\ op[k].kind = "ddl" /\ op[k].key \in {"create", "drop"} /\ op'[k].key = op[k].key /\ op'[k].stage = "applied"
        BY <1>7, <1>8, ZenonT(30) DEF Toggles
    <2>2. CASE k = n
        BY <2>1, <2>2, <1>3, <1>5, <1>7, ZenonT(30) DEF key
    <2>3. CASE k # n
      <3>1. k \in Toggles
          BY <2>1, <2>3, <1>7, ZenonT(30) DEF Toggles
      <3>2. \A y \in Toggles : y \in Toggles' /\ op'[y].key = op[y].key
          BY <1>2, <1>7, <1>8, ZenonT(30) DEF Toggles
      <3>3. schema.there <=> op[k].key = "create"
          BY <2>1, <3>1, <3>2, ZenonT(30) DEF AInv, LastTells
      <3>4. CASE ~bad /\ key \in {"create", "drop"}
        <4>1. n \in Toggles'
            BY <3>4, <1>2, <1>3, <1>7, ZenonT(30) DEF Toggles
        <4>2. ~(n < k)
          <5>1. Shared(op[n], op[k])
            <6>1. "here" \in Databases(op[n]) /\ "here" \in Databases(op[k])
                BY <2>1, <3>4, <1>2, ZenonT(30) DEF Databases, key
            <6> QED
                BY <6>1, Zenon DEF Shared
          <5>2. op[k].begun
              BY <2>1, <2>3, <1>1, <1>7, ZenonT(30) DEF Outcome
          <5>3. n < k => op[n].state \in {"complete", "failed"}
              BY <2>1, <5>1, <5>2, <1>2, ZenonT(30) DEF AInv, InOrder
          <5> QED
              BY <5>3, <1>2, ZenonT(30)
        <4>3. n > k
            BY <4>2, <2>1, <2>3, <1>i, SMTT(30)
        <4>4. op'[n].key = op'[k].key
            BY <4>1, <4>3, ZenonT(30)
        <4> QED
            BY <4>4, <3>4, <2>1, <1>3, <1>5, <1>7, ZenonT(30) DEF key
      <3>5. CASE schema'.there = schema.there
          BY <3>5, <3>3, <2>1, ZenonT(30)
      <3> QED
          BY <3>4, <3>5, <1>5, ZenonT(30)
    <2> QED
        BY <2>2, <2>3, Zenon
  <1>13. ASSUME NEW c \in Clients PROVE Told(c)'
    <2>1. Sent(c)' = Sent(c) /\ Told(c)
        BY <1>2, ZenonT(30) DEF Sent, AInv
    <2>2. client[c].at \in {"waiting", "attached"} /\ client[c].on = n /\ op'[n].stage = "applied" => InForce(Sent(c), schema')
        BY <2>1, <1>3, <1>5, <1>7, ZenonT(30) DEF Told, key
    <2> QED
      <3>1. client[c].at \in {"waiting", "attached"} =>
              /\ client[c].on \in DOMAIN op' /\ op'[client[c].on].kind = "ddl" /\ op'[client[c].on].key = Sent(c)
          BY <1>7, <1>8, <2>1, ZenonT(30) DEF Told
      <3>2. client[c].at \in {"waiting", "attached"} /\ op'[client[c].on].stage = "applied"
              /\ ~(client[c].at = "attached" /\ Sent(c) = "restart") => client'[c].held
        <4>1. CASE client[c].on = n
            BY <4>1, <1>6, <2>2, ZenonT(30)
        <4>2. CASE client[c].on # n
            BY <4>2, <1>6, <1>7, <2>1, ZenonT(30) DEF Told
        <4> QED
            BY <4>1, <4>2, Zenon
      <3>3. client[c].at # "idle" /\ InForce(Sent(c), schema') => client'[c].held
          BY <1>6, ZenonT(30)
      <3> QED
          BY <1>6, <2>1, <3>1, <3>2, <3>3, ZenonT(30) DEF Told
  <1> QED
      BY <1>9, <1>10, <1>11, <1>12, <1>13, ZenonT(30) DEF AInv

LEMMA PlanAnswers == ASSUME IInv, AInv, NEW c \in Clients, Plan(c) PROVE AInv'
  <1> DEFINE x == [at |-> "planned", on |-> 0, placed |-> schema.placed, held |-> InForce(Sent(c), schema)]
  <1>1. client[c].at = "idle" /\ client' = [client EXCEPT ![c] = x] /\ UNCHANGED <<op, elock, todo, schema>> /\ TypeOK
      BY Zenon DEF Plan, IInv
  <1>0. op' = op /\ elock' = elock /\ todo' = todo /\ schema' = schema
      BY <1>1, Zenon
  <1>2. /\ client'[c].at = "planned" /\ client'[c].held = InForce(Sent(c), schema)
        /\ \A d \in Clients : d # c => client'[d] = client[d]
      BY <1>1, ZenonT(30) DEF TypeOK
  <1>3. ASSUME NEW d \in Clients PROVE Told(d)'
    <2>1. CASE d = c
        BY <1>0, <1>2, <2>1, ZenonT(30) DEF Told, Sent
    <2>2. CASE d # c
        BY <1>1, <1>2, <2>2, ZenonT(30) DEF Told, Sent, AInv
    <2> QED
        BY <2>1, <2>2, Zenon
  <1>4. \A n \in DOMAIN op' : Outcome(op'[n]) /\ LastInsert(n)'
      BY <1>1, <1>2, ZenonT(30) DEF AInv, LastInsert
  <1>5. InOrder' /\ LastTells'
      BY <1>0, SMTT(30) DEF AInv, InOrder, LastTells, Toggles
  <1> QED
      BY <1>3, <1>4, <1>5, ZenonT(30) DEF AInv

LEMMA WaitAnswers == ASSUME IInv, AInv, NEW c \in Clients, WaitEnds(c) PROVE AInv'
  <1>1. /\ elock # c /\ client' = [client EXCEPT ![c] = Idle] /\ todo' = [todo EXCEPT ![c] = Tail(@)]
        /\ UNCHANGED <<op, elock, schema>> /\ TypeOK
      BY Zenon DEF WaitEnds, IInv
  <1>0. op' = op /\ elock' = elock /\ schema' = schema
      BY <1>1, Zenon
  <1>2. client'[c].at = "idle" /\ \A d \in Clients : d # c => client'[d] = client[d] /\ todo'[d] = todo[d]
      BY <1>1, ZenonT(30) DEF TypeOK, Idle
  <1>3. ASSUME NEW d \in Clients PROVE Told(d)'
    <2>1. CASE d = c
        BY <1>2, <2>1, ZenonT(30) DEF Told
    <2>2. CASE d # c
        BY <1>1, <1>2, <2>2, ZenonT(30) DEF Told, Sent, AInv
    <2> QED
        BY <2>1, <2>2, Zenon
  <1>4. \A n \in DOMAIN op' : Outcome(op'[n]) /\ LastInsert(n)'
      BY <1>1, <1>2, ZenonT(30) DEF AInv, LastInsert
  <1>5. InOrder' /\ LastTells'
      BY <1>0, SMTT(30) DEF AInv, InOrder, LastTells, Toggles
  <1> QED
      BY <1>3, <1>4, <1>5, ZenonT(30) DEF AInv

LEMMA InsertedAnswers == ASSUME IInv, AInv, NEW c \in Clients, Inserted(c) PROVE AInv'
  <1> DEFINE n == client[c].on
             o == [op[n] EXCEPT !.seen = TRUE]
  <1>1. elock = c /\ Change(n, o) /\ client' = client /\ todo' = todo /\ schema' = schema /\ TypeOK
      BY Zenon DEF Inserted, IInv
  <1>2. ASSUME n \in DOMAIN op
        PROVE  /\ o.kind = op[n].kind /\ o.key = op[n].key /\ o.seen /\ o.state = op[n].state
               /\ o.stage = op[n].stage /\ o.begun = op[n].begun
    <2>1. op[n] \in Operations
        BY <1>2, Facts, Zenon
    <2> QED
        BY <2>1, ZenonT(30) DEF Operations
  <1>3. DOMAIN op' = DOMAIN op /\ (n \in DOMAIN op => op'[n] = o) /\ \A k \in DOMAIN op : k # n => op'[k] = op[k]
      BY <1>1, ZenonT(30) DEF Change
  <1> HIDE DEF o
  <1>4. /\ \A k \in DOMAIN op' : /\ op'[k].kind = op[k].kind /\ op'[k].key = op[k].key /\ op'[k].state = op[k].state
                                 /\ op'[k].stage = op[k].stage /\ op'[k].begun = op[k].begun
        /\ n \in DOMAIN op => op'[n].seen
        /\ \A k \in DOMAIN op' : k # n => op'[k].seen = op[k].seen
      BY <1>2, <1>3, ZenonT(30)
  <1>5. \A k \in DOMAIN op' : Outcome(op'[k])
      BY <1>3, <1>4, ZenonT(30) DEF AInv, Outcome
  <1>6. ASSUME NEW k \in DOMAIN op', op'[k].kind = "ddl" PROVE op'[k].seen
    <2>1. ~op[k].seen => k = n
        BY <1>1, <1>3, <1>4, <1>6, ZenonT(30) DEF AInv, LastInsert
    <2>2. k \in DOMAIN op
        BY <1>3, <1>6, Zenon
    <2> HIDE DEF n
    <2> QED
        BY <1>4, <2>1, <2>2, ZenonT(30)
  <1>7. \A k \in DOMAIN op' : LastInsert(k)'
      BY <1>6, ZenonT(30) DEF LastInsert
  <1>8. InOrder'
    <2> SUFFICES ASSUME NEW m \in DOMAIN op, NEW k \in DOMAIN op, m < k,
                        op[m].kind = "ddl", op[k].kind = "ddl", op[k].begun, Shared(op'[m], op'[k])
                 PROVE  op[m].state \in {"complete", "failed"}
        BY <1>3, <1>4, ZenonT(30) DEF InOrder
    <2> HIDE DEF n
    <2>0. op'[m].kind = op[m].kind /\ op'[m].key = op[m].key /\ op'[k].kind = op[k].kind /\ op'[k].key = op[k].key
        BY <1>3, <1>4, ZenonT(30)
    <2>1. Shared(op[m], op[k])
        BY <2>0, SharedKept, ZenonT(30)
    <2> QED
        BY <2>1, ZenonT(30) DEF AInv, InOrder
  <1>9. LastTells'
    <2>1. Toggles' = Toggles /\ \A k \in Toggles : op'[k].key = op[k].key
        BY <1>3, <1>4, ZenonT(30) DEF Toggles
    <2> SUFFICES ASSUME NEW k \in Toggles, \A y \in Toggles : y > k => op'[y].key = op'[k].key
                 PROVE  schema.there <=> op'[k].key = "create"
        BY <1>1, <2>1, Zenon DEF LastTells
    <2>3. \A y \in Toggles : y > k => op[y].key = op[k].key
        BY <2>1, Zenon
    <2>4. schema.there <=> op[k].key = "create"
        BY <2>3, Zenon DEF AInv, LastTells
    <2> QED
        BY <2>1, <2>4, Zenon
  <1>10. ASSUME NEW d \in Clients PROVE Told(d)'
    <2>1. Sent(d)' = Sent(d) /\ Told(d)
        BY <1>1, ZenonT(30) DEF Sent, AInv
    <2> QED
        BY <1>1, <1>3, <1>4, <2>1, ZenonT(30) DEF Told
  <1> QED
      BY <1>5, <1>7, <1>8, <1>9, <1>10, ZenonT(30) DEF AInv

(* A client attaches to a migration that was applied only when what it      *)
(* asks for is still so: nothing undid it, for that would have arrived      *)
(* later.                                                                   *)
LEMMA AttachAnswers ==
    ASSUME IInv, AInv, NEW c \in Clients, client[c].at = "planned", elock = NoOne, NEW n \in Standing(Sent(c)),
           client' = [client EXCEPT ![c].at = "attached", ![c].on = n],
           UNCHANGED <<op, elock, todo, schema>>
    PROVE  AInv'
  <1>0. op' = op /\ elock' = elock /\ todo' = todo /\ schema' = schema /\ TypeOK
      BY Zenon DEF IInv
  <1>1. /\ client'[c].at = "attached" /\ client'[c].on = n /\ client'[c].held = client[c].held
        /\ \A d \in Clients : d # c => client'[d] = client[d]
      BY <1>0, ZenonT(30) DEF TypeOK, Sessions
  <1>2. n \in DOMAIN op /\ op[n].kind = "ddl" /\ op[n].key = Sent(c)
      BY ZenonT(30) DEF Standing, Identical
  <1>3. Told(c) /\ Outcome(op[n])
      BY <1>2, ZenonT(30) DEF AInv
  <1>4. ASSUME op[n].stage = "applied", Sent(c) # "restart" PROVE InForce(Sent(c), schema)
    <2>1. CASE Sent(c) \in {"create", "drop"}
      <3>1. n \in Toggles
          BY <1>2, <1>4, <2>1, ZenonT(30) DEF Toggles
      <3>2. ASSUME NEW y \in Toggles, y > n PROVE op[y].key = op[n].key
        <4>1. y \in DOMAIN op /\ op[y].kind = "ddl" /\ op[y].key \in {"create", "drop"}
            BY ZenonT(30) DEF Toggles
        <4>2. Databases([NewOp EXCEPT !.key = Sent(c)]) = Databases(op[y])
            BY <2>1, <4>1, ZenonT(30) DEF Databases, NewOp
        <4> QED
            BY <1>2, <3>2, <4>1, <4>2, ZenonT(30) DEF Standing
      <3>3. schema.there <=> Sent(c) = "create"
          BY <1>2, <3>1, <3>2, ZenonT(30) DEF AInv, LastTells
      <3> QED
          BY <2>1, <3>3, ZenonT(30) DEF InForce
    <2>2. CASE Sent(c) \notin {"create", "drop"}
        BY <1>4, <2>2, ZenonT(30) DEF InForce
    <2> QED
        BY <2>1, <2>2, Zenon
  <1>5. ASSUME NEW d \in Clients PROVE Told(d)'
    <2>1. Sent(d)' = Sent(d)
        BY <1>0, ZenonT(30) DEF Sent
    <2>2. CASE d = c
        BY <1>0, <1>1, <1>2, <1>3, <1>4, <2>1, <2>2, ZenonT(30) DEF Told
    <2>3. CASE d # c
        BY <1>0, <1>1, <2>1, <2>3, ZenonT(30) DEF Told, AInv
    <2> QED
        BY <2>2, <2>3, Zenon
  <1>6. \A k \in DOMAIN op' : Outcome(op'[k]) /\ LastInsert(k)'
      BY <1>0, QueueConstants, ZenonT(30) DEF AInv, LastInsert
  <1>7. InOrder' /\ LastTells'
      BY <1>0, SMTT(30) DEF AInv, InOrder, LastTells, Toggles
  <1> QED
      BY <1>5, <1>6, <1>7, ZenonT(30) DEF AInv

(* The holder of the enqueue lock inserts last of all: nobody else's insert *)
(* is uncommitted when it draws its arrival.                                *)
LEMMA AppendAnswers ==
    ASSUME IInv, AInv, NEW c \in Clients, client[c].at = "planned", elock = NoOne,
           NEW o, op' = Append(op, o), o.kind = "ddl", o.key = Sent(c), Sent(c) \in Statements,
           ~o.begun, o.stage = "unset", o.state = "queued",
           client' = [client EXCEPT ![c].at = "waiting", ![c].on = Len(op) + 1],
           elock' = c, todo' = todo, schema' = schema
    PROVE  AInv'
  <1>0. TypeOK
      BY Zenon DEF IInv
  <1> DEFINE n == Len(op) + 1
  <1>1. /\ client'[c].at = "waiting" /\ client'[c].on = n /\ client'[c].held = client[c].held
        /\ \A d \in Clients : d # c => client'[d] = client[d]
      BY <1>0, ZenonT(30) DEF TypeOK, Sessions
  <1>2. /\ DOMAIN op' = DOMAIN op \cup {n} /\ n \notin DOMAIN op /\ op'[n] = o
        /\ \A k \in DOMAIN op : op'[k] = op[k]
        /\ \A k \in DOMAIN op : k < n /\ ~(n < k) /\ k <= n
        /\ n <= n /\ ~(n < n)
      BY <1>0, SMTT(30) DEF TypeOK
  <1> HIDE DEF n
  <1>3. \A k \in DOMAIN op : op[k].kind = "ddl" => op[k].seen
      BY QueueConstants, ZenonT(30) DEF AInv, LastInsert
  <1>4. ASSUME NEW k \in DOMAIN op' PROVE Outcome(op'[k])
    <2>1. Outcome(o)
        BY ZenonT(30) DEF Outcome
    <2> QED
        BY <1>2, <2>1, ZenonT(30) DEF AInv
  <1>5. ASSUME NEW k \in DOMAIN op' PROVE LastInsert(k)'
    <2>1. CASE k = n
        BY <1>1, <1>2, <2>1, ZenonT(30) DEF LastInsert
    <2>2. CASE k # n
        BY <1>2, <1>3, <2>2, ZenonT(30) DEF LastInsert
    <2> QED
        BY <2>1, <2>2, Zenon
  <1>6. InOrder'
    <2> SUFFICES ASSUME NEW m \in DOMAIN op', NEW k \in DOMAIN op', m < k, op'[m].kind = "ddl",
                        op'[k].kind = "ddl", op'[k].begun, Shared(op'[m], op'[k])
                 PROVE  op'[m].state \in {"complete", "failed"}
        BY ZenonT(30) DEF InOrder
    <2>1. k \in DOMAIN op /\ op'[k] = op[k]
        BY <1>2, ZenonT(30)
    <2>2. m \in DOMAIN op /\ op'[m] = op[m]
        BY <1>2, <2>1, ZenonT(30)
    <2> QED
        BY <2>1, <2>2, ZenonT(30) DEF AInv, InOrder
  <1>7. LastTells'
    <2>1. Toggles' = Toggles /\ \A k \in Toggles : op'[k] = op[k]
      <3>1. ASSUME NEW k PROVE k \in Toggles' <=> k \in Toggles
        <4>1. CASE k = n
            BY <1>2, <4>1, ZenonT(30) DEF Toggles
        <4>2. CASE k # n
            BY <1>2, <4>2, ZenonT(30) DEF Toggles
        <4> QED
            BY <4>1, <4>2, Zenon
      <3> QED
          BY <1>2, <3>1, ZenonT(30) DEF Toggles
    <2> SUFFICES ASSUME NEW k \in Toggles, \A y \in Toggles : y > k => op'[y].key = op'[k].key
                 PROVE  schema.there <=> op'[k].key = "create"
        BY <2>1, Zenon DEF LastTells
    <2>2. \A y \in Toggles : y > k => op[y].key = op[k].key
        BY <2>1, Zenon
    <2>3. schema.there <=> op[k].key = "create"
        BY <2>2, Zenon DEF AInv, LastTells
    <2> QED
        BY <2>1, <2>3, Zenon
  <1>8. ASSUME NEW d \in Clients PROVE Told(d)'
    <2>1. Sent(d)' = Sent(d) /\ Told(d)
        BY ZenonT(30) DEF Sent, AInv
    <2>2. CASE d = c
        BY <1>1, <1>2, <2>1, <2>2, ZenonT(30) DEF Told
    <2>3. CASE d # c
        BY <1>1, <1>2, <2>1, <2>3, ZenonT(30) DEF Told
    <2> QED
        BY <2>2, <2>3, Zenon
  <1> QED
      BY <1>4, <1>5, <1>6, <1>7, <1>8, ZenonT(30) DEF AInv

LEMMA EnqueueAnswers == ASSUME IInv, AInv, NEW c \in Clients, Enqueue(c) PROVE AInv'
  <1>1. client[c].at = "planned" /\ elock = NoOne /\ todo' = todo /\ schema' = schema
      BY Zenon DEF Enqueue
  <1>2. CASE \E n \in Standing(Sent(c)) : /\ client' = [client EXCEPT ![c].at = "attached", ![c].on = n]
                                          /\ UNCHANGED <<op, elock>>
    <2>1. PICK n \in Standing(Sent(c)) : /\ client' = [client EXCEPT ![c].at = "attached", ![c].on = n]
                                         /\ UNCHANGED <<op, elock>>
        BY <1>2, Zenon
    <2> QED
        BY <1>1, <2>1, AttachAnswers, ZenonT(30)
  <1> DEFINE o == [NewOp EXCEPT !.key = Sent(c), !.basis = client[c].placed]
  <1>3. CASE /\ op' = Append(op, o) /\ elock' = c
             /\ client' = [client EXCEPT ![c].at = "waiting", ![c].on = Len(op) + 1]
    <2>1. Sent(c) \in Statements
      <3>1. todo[c] \in Seq(Statements) /\ todo[c] # <<>>
          BY <1>1, Zenon DEF IInv, TypeOK
      <3> QED
          BY <3>1, SMTT(30) DEF Sent
    <2>2. o.kind = "ddl" /\ o.key = Sent(c) /\ ~o.begun /\ o.stage = "unset" /\ o.state = "queued"
        BY ZenonT(30) DEF NewOp
    <2> HIDE DEF o
    <2> QED
        BY <1>1, <1>3, <2>1, <2>2, AppendAnswers, ZenonT(30)
  <1> QED
      BY <1>2, <1>3, Zenon DEF Enqueue

LEMMA InitAnswers == Init => AInv
  <1> SUFFICES ASSUME Init PROVE AInv
      BY Zenon
  <1>1. op = <<>> /\ DOMAIN op = {}
      BY SMTT(30) DEF Init
  <1>2. \A c \in Clients : client[c].at = "idle"
      BY ZenonT(30) DEF Init, Idle
  <1>3. \A c \in Clients : Told(c)
      BY <1>2, Zenon DEF Told
  <1>4. InOrder /\ LastTells
      BY <1>1, Zenon DEF InOrder, LastTells, Toggles
  <1> QED
      BY <1>1, <1>3, <1>4, Zenon DEF AInv

LEMMA AnswersNext == ASSUME IInv, AInv, [Next]_vars PROVE AInv'
  <1>1. ASSUME NEW c \in Clients, Router(c) PROVE AInv'
      BY <1>1, PlanAnswers, EnqueueAnswers, InsertedAnswers, WaitAnswers, Zenon DEF Router
  <1>2. ASSUME NEW k \in Workflows, Declare(k) PROVE AInv'
      BY <1>2, DeclareAnswers, Zenon DEF IInv
  <1>3. ASSUME NEW n \in DOMAIN op, WindowEnds(n) \/ Applies(n) PROVE AInv'
      BY <1>3, SmallAnswers, StartAnswers, EndAnswers, ApplyAnswers, Zenon DEF Applies
  <1>4. ASSUME NEW n \in DOMAIN op, Drives(n) \/ Meddles(n) PROVE AInv'
      BY <1>4, WorkflowAnswers, Zenon
  <1>5. CASE SequenceUsed
      BY <1>5, SequenceAnswers, Zenon DEF IInv
  <1>6. CASE UNCHANGED vars
    <2>1. op' = op /\ elock' = elock /\ todo' = todo /\ client' = client /\ schema' = schema
        BY <1>6, Zenon DEF vars
    <2> QED
        BY <2>1, SMTT(30) DEF AInv, Outcome, LastInsert, InOrder, LastTells, Toggles, Told, Sent
  <1> QED
      BY <1>1, <1>2, <1>3, <1>4, <1>5, <1>6, Zenon DEF Next

(* A client that is told its statement is done is told the truth, whichever *)
(* migration stood for it, for every number of clients, statements and      *)
(* operations: EnqueueMigrationOnce attaches only to the last migration of  *)
(* its scope, and the migrations of a scope run in the order of their       *)
(* arrival.                                                                 *)
THEOREM Answered == Spec => []AnsweredTrue
  <1>1. Init => IInv /\ AInv
    BY InitInv, InitAnswers, ZenonT(30)
  <1>2. (IInv /\ AInv) /\ [Next]_vars => (IInv /\ AInv)'
    BY InvNext, AnswersNext, ZenonT(30)
  <1>3. IInv /\ AInv => AnsweredTrue
    BY AnswersFollow, ZenonT(30)
  <1>4. QED
    BY <1>1, <1>2, <1>3, PTL DEF Spec

=============================================================================
