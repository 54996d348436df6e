--------------------------- MODULE OperationQueue ---------------------------
(***************************************************************************)
(* The operation queue (catalog/schema/0058_operation_queue.sql and 0061,  *)
(* catalog/queue.go, controller/queuegate.go, controller/movegate.go): DDL *)
(* migrations, reshards and upgrades, and table placements each draw an    *)
(* arrival, and one rule, asked under the move gate lock in the            *)
(* transaction that starts an operation, decides whether it may start.     *)
(*                                                                         *)
(* Around the rule: routers that enqueue a statement once however often it *)
(* is sent, the applier's saves, the passes of the copier and of the       *)
(* placer with what they read before they start, and the administrator who *)
(* pauses, resumes, cancels and reverts.                                   *)
(***************************************************************************)
EXTENDS Integers, Sequences, FiniteSets

CONSTANTS
    Clients,   \* client sessions that send DDL through a router
    Plans,     \* what a behaviour is about: statements, workflows, bounds
    NoOne,     \* the holder of a free lock
    MaxOps     \* the operations of a behaviour at most

(* A statement of the database the placement is in: "create" and "drop" of  *)
(* one object and "alter" of the table that is placed, "restart" of a       *)
(* sequence (its second run is the work again); "role" is about the whole   *)
(* cluster and "elsewhere" about another database.                          *)
Statements == {"create", "drop", "alter", "restart", "role", "elsewhere"}

(* "edit" is the reshard row an in-place edit of shard_ranges records. *)
Workflows == {"reshard", "edit", "placement"}

(* A plan: the statements each client sends, in order; the workflows that   *)
(* are declared; how many waits are given up, how often a workflow is       *)
(* meddled with, how many passes fail; and whether every pass of the        *)
(* placement fails before its start.                                        *)
ASSUME QueueConstants ==
    /\ NoOne \notin Clients /\ MaxOps \in Nat
    /\ \A p \in Plans: /\ p.sends \in [Clients -> Seq(Statements)]
                       /\ p.work \subseteq Workflows
                       /\ {p.giveup, p.meddle, p.fault} \subseteq Nat
                       /\ p.stuck \in BOOLEAN

VARIABLES
    op,       \* the operations, in the order of their arrival
    elock,    \* the holder of EnqueueLockKey
    todo,     \* todo[c]: the statements c has yet to see through
    client,   \* client[c]: what c's router has in hand
    schema,   \* the database: an object, a sequence, a shape, a placement
    pass,     \* pass[n]: what the pass over workflow n has in hand
    left      \* what is left of the plan

vars == <<op, elock, todo, client, schema, pass, left>>

----------------------------------------------------------------------------
(* pgshard.operations, operations_conflict and operation_blockers *)

cluster_scoped(o) == o.key = "role"
Databases(o) ==
    CASE o.kind \in {"reshard", "edit"} -> {}
      [] o.key = "elsewhere" -> {"other"}
      [] OTHER -> {"here"}

Unfinished(o) ==
    /\ o.seen
    /\ o.state \in {"queued", "pending", "provisioning", "running", "paused"} \/ o.stage = "cancelling"

(* Mutant: a paused workflow reads as one that has not started. *)
started_Driven(o) ==
    CASE o.kind = "ddl" -> o.state = "running"
      [] o.kind = "placement" -> o.stage # "preparing" /\ (o.state = "running" \/ o.stage = "cancelling")
      [] OTHER -> o.state # "paused" /\ o.stage \notin {"unset", "provisioning", "ready_for_copy"}

started(o) ==
    CASE o.kind = "ddl" -> o.state = "running"
      [] o.kind = "placement" -> /\ o.stage # "preparing"
                                 /\ o.state \in {"running", "paused"} \/ o.stage = "cancelling"
      [] OTHER -> o.stage \notin {"unset", "provisioning", "ready_for_copy"}

(* Mutant: a workflow whose own checks fail keeps its place. *)
holds_queue_Failing(o) ==
    \/ o.kind = "ddl"
    \/ started(o)
    \/ ~(o.state = "paused" \/ o.kind = "edit")

(* Paused before its start, driven by nobody, or failing before its start:  *)
(* the three that keep no later operation behind them.                      *)
holds_queue(o) ==
    \/ o.kind = "ddl"
    \/ started(o)
    \/ ~(o.state = "paused" \/ o.kind = "edit" \/ o.start_error)

ddl_hold_ends(o) == o.kind = "placement" /\ o.stage = "retiring"

operations_conflict(a, b) ==
    LET scope == cluster_scoped(a) \/ cluster_scoped(b) \/ Databases(a) \cap Databases(b) # {} IN
    CASE {a.kind, b.kind} = {"ddl"} -> scope
      [] {a.kind, b.kind} = {"ddl", "placement"} -> scope /\ ~ddl_hold_ends(a) /\ ~ddl_hold_ends(b)
      [] {a.kind, b.kind} = {"placement"} -> FALSE
      [] OTHER -> TRUE

operation_blockers(n) ==
    IF ~Unfinished(op[n]) \/ started(op[n]) THEN {}
    ELSE {b \in DOMAIN op \ {n}:
            /\ Unfinished(op[b])
            /\ operations_conflict(op[n], op[b])
            /\ started(op[b]) \/ (b < n /\ holds_queue(op[b]))}

----------------------------------------------------------------------------
(* The router: a statement is planned, enqueued once, and waited for *)

(* An operation as it is inserted. A column that holds nothing is "unset". *)
NewOp == [kind |-> "ddl", key |-> "unset", seen |-> FALSE, state |-> "queued", stage |-> "unset",
          from |-> "unset", start_error |-> FALSE, begun |-> FALSE, stamped |-> FALSE,
          recent |-> FALSE, basis |-> 0]
Idle == [at |-> "idle", on |-> 0, placed |-> 0, held |-> FALSE]

Change(n, o) == op' = [op EXCEPT ![n] = o]
Sent(c) == Head(todo[c])

(* Whether what a statement asks for is so. *)
InForce(key, s) ==
    CASE key = "create" -> s.there
      [] key = "drop" -> ~s.there
      [] key = "restart" -> s.fresh
      [] OTHER -> TRUE

(* The statement is planned against the placement in force; what it asks    *)
(* for is looked at from here on.                                           *)
Plan(c) ==
    /\ todo[c] # <<>> /\ client[c].at = "idle"
    /\ client' = [client EXCEPT ![c] = [at |-> "planned", on |-> 0, placed |-> schema.placed,
                                        held |-> InForce(Sent(c), schema)]]
    /\ UNCHANGED <<op, elock, todo, schema, pass, left>>

Identical(key) ==
    {n \in DOMAIN op:
       /\ op[n].kind = "ddl" /\ op[n].key = key
       /\ \/ op[n].state \in {"queued", "running"}
          \/ op[n].state = "complete" /\ op[n].recent /\ key # "restart"}

(* Mutant: the last identical migration stands for the statement whatever   *)
(* arrived after it.                                                        *)
Standing_Overtaken(key) ==
    {n \in Identical(key): \A m \in Identical(key): m <= n}

(* The migration that can stand for a statement sent now: the last          *)
(* identical one, unless a different one arrived after it in its scope.     *)
Standing(key) ==
    {n \in Identical(key):
       /\ \A m \in Identical(key): m <= n
       /\ ~\E y \in DOMAIN op:
             /\ y > n /\ op[y].kind = "ddl" /\ op[y].key # key
             /\ \/ cluster_scoped([NewOp EXCEPT !.key = key]) \/ cluster_scoped(op[y])
                \/ Databases([NewOp EXCEPT !.key = key]) = Databases(op[y])}

(* EnqueueMigrationOnce under the enqueue lock: attach, or draw an arrival  *)
(* and insert.                                                              *)
Enqueue(c) ==
    /\ client[c].at = "planned" /\ elock = NoOne
    /\ \/ \E n \in Standing(Sent(c)):
            /\ client' = [client EXCEPT ![c].at = "attached", ![c].on = n]
            /\ UNCHANGED <<op, elock>>
       \/ /\ Standing(Sent(c)) = {} /\ Len(op) < MaxOps
          /\ op' = Append(op, [NewOp EXCEPT !.key = Sent(c), !.basis = client[c].placed])
          /\ client' = [client EXCEPT ![c].at = "waiting", ![c].on = Len(op) + 1]
          /\ elock' = c
    /\ UNCHANGED <<todo, schema, pass, left>>

(* The insert commits, and the lock goes with it. *)
Inserted(c) ==
    /\ elock = c
    /\ Change(client[c].on, [op[client[c].on] EXCEPT !.seen = TRUE])
    /\ elock' = NoOne
    /\ UNCHANGED <<todo, client, schema, pass, left>>

(* The client has its answer, or no more patience. *)
WaitEnds(c) ==
    /\ client[c].at \in {"waiting", "attached"} /\ elock # c
    /\ \/ op[client[c].on].state \in {"complete", "failed"} /\ UNCHANGED left
       \/ /\ op[client[c].on].state \in {"queued", "running"} /\ left.giveup > 0
          /\ left' = [left EXCEPT !.giveup = @ - 1]
    /\ client' = [client EXCEPT ![c] = Idle]
    /\ todo' = [todo EXCEPT ![c] = Tail(@)]
    /\ UNCHANGED <<op, elock, schema, pass>>

(* DefaultRetryWindow passes. *)
WindowEnds(n) ==
    /\ op[n].recent
    /\ Change(n, [op[n] EXCEPT !.recent = FALSE])
    /\ UNCHANGED <<elock, todo, client, schema, pass, left>>

(* An application draws from the sequence. *)
SequenceUsed ==
    /\ schema.fresh
    /\ schema' = [schema EXCEPT !.fresh = FALSE]
    /\ UNCHANGED <<op, elock, todo, client, pass, left>>

----------------------------------------------------------------------------
(* The applier *)

(* PlacementDrift: the statement was planned under another placement. *)
Drifted(n) == op[n].key = "alter" /\ op[n].basis # schema.placed

(* Mutant: the start does not look at the placement again. *)
StartMigration_Undrifted(n) ==
    /\ op[n].kind = "ddl" /\ op[n].seen /\ op[n].state = "queued"
    /\ operation_blockers(n) = {}
    /\ Change(n, [op[n] EXCEPT !.state = "running", !.begun = TRUE])
    /\ UNCHANGED <<elock, todo, client, schema, pass, left>>

(* SaveQueuedMigrationProgress: the gate, and the rule in the statement     *)
(* that starts it.                                                          *)
StartMigration(n) ==
    /\ op[n].kind = "ddl" /\ op[n].seen /\ op[n].state = "queued"
    /\ operation_blockers(n) = {} /\ ~Drifted(n)
    /\ Change(n, [op[n] EXCEPT !.state = "running", !.begun = TRUE])
    /\ UNCHANGED <<elock, todo, client, schema, pass, left>>

(* drive: a migration whose placement moved while it waited fails. *)
DriftFails(n) ==
    /\ op[n].kind = "ddl" /\ op[n].seen /\ op[n].state = "queued" /\ Drifted(n)
    /\ Change(n, [op[n] EXCEPT !.state = "failed", !.stamped = TRUE])
    /\ UNCHANGED <<elock, todo, client, schema, pass, left>>

(* The statement runs on the shards. CREATE fails when the object is there, *)
(* DROP when it is not. The outcome is kept in the migration's stage.       *)
ApplyMigration(n) ==
    /\ op[n].kind = "ddl" /\ op[n].state = "running" /\ op[n].stage = "unset"
    /\ LET key == op[n].key
           bad == (key = "create" /\ schema.there) \/ (key = "drop" /\ ~schema.there)
       IN /\ schema' = IF bad \/ key \in {"role", "elsewhere"} THEN schema
                       ELSE [schema EXCEPT !.there = key = "create" \/ (@ /\ key # "drop"),
                                           !.fresh = @ \/ key = "restart",
                                           !.shape = @ + 1]
          /\ Change(n, [op[n] EXCEPT !.stage = IF bad THEN "error" ELSE "applied"])
          /\ client' = [c \in Clients |->
                          IF client[c].at = "idle" THEN client[c]
                          ELSE [client[c] EXCEPT !.held = @ \/ InForce(Sent(c), schema')]]
    /\ UNCHANGED <<elock, todo, pass, left>>

(* The last save has its finished_at from when it begins ... *)
Stamp(n) ==
    /\ op[n].kind = "ddl" /\ op[n].state = "running" /\ op[n].stage # "unset" /\ ~op[n].stamped
    /\ Change(n, [op[n] EXCEPT !.stamped = TRUE])
    /\ UNCHANGED <<elock, todo, client, schema, pass, left>>

(* ... and is seen when it commits. *)
FinishMigration(n) ==
    /\ op[n].kind = "ddl" /\ op[n].state = "running" /\ op[n].stamped
    /\ Change(n, [op[n] EXCEPT !.state = IF op[n].stage = "applied" THEN "complete" ELSE "failed",
                               !.recent = op[n].stage = "applied"])
    /\ UNCHANGED <<elock, todo, client, schema, pass, left>>

----------------------------------------------------------------------------
(* Workflows before their start: the reconciler, the copier, the placer *)

NoPass == [at |-> "none", fence |-> "unset", clock |-> {}, shape |-> 0]

(* The reconciler's transaction draws an arrival ... *)
Declare(k) ==
    /\ k \in left.work /\ Len(op) < MaxOps
    /\ op' = Append(op, [NewOp EXCEPT !.kind = k,
                           !.state = IF k = "reshard" THEN "provisioning" ELSE "pending",
                           !.stage = CASE k = "reshard" -> "provisioning" [] k = "edit" -> "unset" [] OTHER -> "preparing"])
    /\ left' = [left EXCEPT !.work = @ \ {k}]
    /\ UNCHANGED <<elock, todo, client, schema, pass>>

(* ... and commits. *)
Declared(n) ==
    /\ op[n].kind # "ddl" /\ ~op[n].seen
    /\ Change(n, [op[n] EXCEPT !.seen = TRUE])
    /\ UNCHANGED <<elock, todo, client, schema, pass, left>>

(* reconcileReshards: the target groups are up. *)
TargetsReady(n) ==
    /\ op[n].kind = "reshard" /\ op[n].seen /\ op[n].state = "provisioning"
    /\ Change(n, [op[n] EXCEPT !.state = "running", !.stage = "ready_for_copy"])
    /\ UNCHANGED <<elock, todo, client, schema, pass, left>>

Startable(o) ==
    /\ o.seen
    /\ \/ o.kind = "reshard" /\ o.state = "running" /\ o.stage = "ready_for_copy"
       \/ o.kind = "placement" /\ o.state = "pending" /\ o.stage = "preparing"

(* Pass lists the workflow with the state its saves are fenced by. *)
List(n) ==
    /\ Startable(op[n]) /\ pass[n].at = "none"
    /\ pass' = [pass EXCEPT ![n] = [NoPass EXCEPT !.at = "listed", !.fence = op[n].state]]
    /\ UNCHANGED <<op, elock, todo, client, schema, left>>

Over(n) == pass' = [pass EXCEPT ![n] = NoPass]

(* save of a pass that did not start the workflow: start_error is what this *)
(* pass found, and another state than the pass listed leaves the row alone. *)
PassSaves(n, start_error) ==
    /\ Change(n, IF op[n].state = pass[n].fence THEN [op[n] EXCEPT !.start_error = start_error] ELSE op[n])
    /\ Over(n)
    /\ UNCHANGED <<elock, todo, client, schema>>

(* The first waitInQueue. *)
Turn(n) ==
    /\ pass[n].at = "listed"
    /\ \/ operation_blockers(n) # {} /\ PassSaves(n, FALSE)
       \/ /\ operation_blockers(n) = {}
          /\ pass' = [pass EXCEPT ![n].at = IF op[n].kind = "placement" THEN "clear" ELSE "checked"]
          /\ UNCHANGED <<op, elock, todo, client, schema>>
    /\ UNCHANGED left

(* prepareAndStart's clock_timestamp: the migrations finished before it. *)
Clock(n) ==
    /\ pass[n].at = "clear"
    /\ pass' = [pass EXCEPT ![n].at = "clocked",
                            ![n].clock = {m \in DOMAIN op: op[m].kind = "ddl" /\ op[m].stamped}]
    /\ UNCHANGED <<op, elock, todo, client, schema, left>>

(* describe reads the table's shape. *)
Describe(n) ==
    /\ pass[n].at = "clocked" /\ ~left.stuck
    /\ pass' = [pass EXCEPT ![n].at = "checked", ![n].shape = schema.shape]
    /\ UNCHANGED <<op, elock, todo, client, schema, left>>

(* A check of the workflow's own fails: preconditions, describe, the        *)
(* table's lock. The workflow is tried again, or fails for good.            *)
CheckFails(n) ==
    /\ pass[n].at \in {"clocked", "checked"}
    /\ \/ left.stuck /\ UNCHANGED left
       \/ ~left.stuck /\ left.fault > 0 /\ left' = [left EXCEPT !.fault = @ - 1]
    /\ \/ PassSaves(n, TRUE)
       \/ /\ ~left.stuck
          /\ Change(n, IF op[n].state # pass[n].fence THEN op[n]
                       ELSE [op[n] EXCEPT !.state = "failed", !.stage = "failed"])
          /\ Over(n)
          /\ UNCHANGED <<elock, todo, client, schema>>

(* A schema change of the table's database is running, or finished since    *)
(* the clock was read.                                                      *)
Changed(n) ==
    /\ op[n].kind = "placement"
    /\ \E m \in DOMAIN op:
         /\ op[m].kind = "ddl" /\ op[m].seen
         /\ op[m].state = "running" \/ (op[m].state \in {"complete", "failed"} /\ m \notin pass[n].clock)
         /\ cluster_scoped(op[m]) \/ "here" \in Databases(op[m])

Begin(n) ==
    /\ Change(n, [op[n] EXCEPT !.state = "running", !.begun = TRUE, !.start_error = FALSE,
                               !.basis = pass[n].shape,
                               !.stage = IF op[n].kind = "placement" THEN "moving" ELSE "copying"])
    /\ Over(n)
    /\ UNCHANGED <<elock, todo, client, schema>>

(* Mutant: the start does not ask what changed while describe read. *)
StartWorkflow_Unchanged(n) ==
    /\ pass[n].at = "checked"
    /\ \/ operation_blockers(n) # {} /\ PassSaves(n, FALSE)
       \/ /\ operation_blockers(n) = {} /\ op[n].state # pass[n].fence
          /\ Over(n) /\ UNCHANGED <<op, elock, todo, client, schema>>
       \/ operation_blockers(n) = {} /\ op[n].state = pass[n].fence /\ Begin(n)
    /\ UNCHANGED left

(* startCopy and start, under the move gate: the rule again, for a          *)
(* placement what changed since, and the fence.                             *)
StartWorkflow(n) ==
    /\ pass[n].at = "checked"
    /\ LET waits == operation_blockers(n) # {} \/ Changed(n) IN
         \/ waits /\ PassSaves(n, FALSE)
         \/ /\ ~waits /\ op[n].state # pass[n].fence
            /\ Over(n) /\ UNCHANGED <<op, elock, todo, client, schema>>
         \/ ~waits /\ op[n].state = pass[n].fence /\ Begin(n)
    /\ UNCHANGED left

----------------------------------------------------------------------------
(* Workflows after their start, and what is done to them *)

Stages(k) == IF k = "placement" THEN <<"moving", "buffering", "swapping", "retiring", "completed">>
             ELSE <<"copying", "switching", "completed">>

(* A pass takes a started workflow to its next stage; the swap publishes    *)
(* the table's new placement.                                               *)
Advance(n) ==
    /\ op[n].kind \in {"reshard", "placement"} /\ op[n].state = "running" /\ started(op[n])
    /\ \E i \in 1..Len(Stages(op[n].kind)) - 1:
         LET next == Stages(op[n].kind)[i + 1] IN
         /\ op[n].stage = Stages(op[n].kind)[i]
         /\ Change(n, [op[n] EXCEPT !.stage = next,
                                    !.state = IF next = "completed" THEN "completed" ELSE @])
         /\ schema' = [schema EXCEPT !.placed = IF next = "retiring" THEN @ + 1 ELSE @]
    /\ UNCHANGED <<elock, todo, client, pass, left>>

(* fail: a pass of a started workflow meets a fatal error. *)
FailWorkflow(n) ==
    /\ op[n].kind \in {"reshard", "placement"} /\ op[n].state = "running" /\ started(op[n])
    /\ left.fault > 0 /\ left' = [left EXCEPT !.fault = @ - 1]
    /\ Change(n, [op[n] EXCEPT !.state = "failed", !.stage = "failed"])
    /\ UNCHANGED <<elock, todo, client, schema, pass>>

Meddle == left.meddle > 0 /\ left' = [left EXCEPT !.meddle = @ - 1]

PauseWorkflow(n) ==
    /\ op[n].kind # "ddl" /\ op[n].seen /\ op[n].state \in {"pending", "running"}
    /\ op[n].stage \notin {"switching", "buffering", "swapping"}
    /\ Meddle
    /\ Change(n, [op[n] EXCEPT !.state = "paused", !.from = op[n].state])
    /\ UNCHANGED <<elock, todo, client, schema, pass>>

ResumeWorkflow(n) ==
    /\ op[n].state = "paused"
    /\ Change(n, [op[n] EXCEPT !.state = op[n].from, !.from = "unset"])
    /\ UNCHANGED <<elock, todo, client, schema, pass, left>>

CancelWorkflow(n) ==
    /\ op[n].kind # "ddl" /\ op[n].seen
    /\ op[n].state = "pending" \/ (op[n].state = "paused" /\ op[n].from = "pending")
    /\ Meddle
    /\ Change(n, [op[n] EXCEPT !.state = "cancelled", !.from = "unset"])
    /\ UNCHANGED <<elock, todo, client, schema, pass>>

(* The reconciler undoes what is no longer desired: the target set of a     *)
(* reshard is removed, the placement of a table is declared as it was.      *)
Revert(n) ==
    /\ op[n].seen
    /\ \/ op[n].kind = "reshard" /\ op[n].state \in {"provisioning", "running", "paused"}
       \/ /\ op[n].kind = "placement" /\ op[n].state \in {"pending", "running", "paused"}
          /\ op[n].stage \notin {"swapping", "retiring"}
    /\ Meddle
    /\ Change(n, [op[n] EXCEPT !.state = "cancelled",
                               !.stage = IF op[n].state = "provisioning" THEN "cancelled" ELSE "cancelling"])
    /\ UNCHANGED <<elock, todo, client, schema, pass>>

(* cancel and cleanup: what the workflow built is dropped. *)
Cleanup(n) ==
    /\ op[n].stage = "cancelling"
    /\ Change(n, [op[n] EXCEPT !.stage = "cancelled"])
    /\ UNCHANGED <<elock, todo, client, schema, pass, left>>

----------------------------------------------------------------------------
Init ==
    /\ left \in Plans
    /\ op = <<>> /\ elock = NoOne
    /\ todo = left.sends
    /\ client = [c \in Clients |-> Idle]
    /\ schema = [there |-> FALSE, fresh |-> FALSE, shape |-> 1, placed |-> 0]
    /\ pass = [n \in 1..MaxOps |-> NoPass]

Router(c) == Plan(c) \/ Enqueue(c) \/ Inserted(c) \/ WaitEnds(c)
Applies(n) == StartMigration(n) \/ DriftFails(n) \/ ApplyMigration(n) \/ Stamp(n) \/ FinishMigration(n)
Drives(n) == \/ Declared(n) \/ TargetsReady(n) \/ List(n) \/ Turn(n) \/ Clock(n) \/ Describe(n)
             \/ CheckFails(n) \/ StartWorkflow(n) \/ Advance(n) \/ FailWorkflow(n) \/ Cleanup(n)
Meddles(n) == PauseWorkflow(n) \/ ResumeWorkflow(n) \/ CancelWorkflow(n) \/ Revert(n)

Next ==
    \/ \E c \in Clients: Router(c)
    \/ \E k \in Workflows: Declare(k)
    \/ \E n \in DOMAIN op: WindowEnds(n) \/ Applies(n) \/ Drives(n) \/ Meddles(n)
    \/ SequenceUsed

Spec == Init /\ [][Next]_vars

(* The router's insert commits; whoever drives an operation (the applier,   *)
(* the reconciler, a pass) comes back to it on its ticker; a workflow       *)
(* paused after its start is resumed, one paused before it need not be.     *)
Driven(n) == \/ Applies(n) \/ Declared(n) \/ TargetsReady(n) \/ List(n) \/ Turn(n) \/ Clock(n)
             \/ Describe(n) \/ CheckFails(n) \/ StartWorkflow(n) \/ Advance(n) \/ Cleanup(n)
Fairness ==
    /\ WF_vars(\E c \in Clients: Inserted(c))
    /\ \A n \in 1..MaxOps: /\ WF_vars(n \in DOMAIN op /\ Driven(n))
                          /\ WF_vars(n \in DOMAIN op /\ op[n].begun /\ ResumeWorkflow(n))

FairSpec == Spec /\ Fairness

----------------------------------------------------------------------------
Operations ==
    [kind: {"ddl"} \cup Workflows, key: Statements \cup {"unset"}, seen: BOOLEAN,
     state: {"queued", "pending", "provisioning", "running", "paused",
             "complete", "failed", "completed", "cancelled"},
     stage: {"unset", "applied", "error", "provisioning", "ready_for_copy", "copying", "switching",
             "preparing", "moving", "buffering", "swapping", "retiring",
             "completed", "failed", "cancelling", "cancelled"},
     from: {"unset", "pending", "running"}, start_error: BOOLEAN, begun: BOOLEAN,
     stamped: BOOLEAN, recent: BOOLEAN, basis: Nat]

Sessions == [at: {"idle", "planned", "waiting", "attached"}, on: Nat, placed: Nat, held: BOOLEAN]

Passes == [at: {"none", "listed", "clear", "clocked", "checked"},
           fence: {"unset", "pending", "running"}, clock: SUBSET (1..MaxOps), shape: Nat]

(* Every variable has its type. *)
TypeOK ==
    /\ op \in Seq(Operations) /\ Len(op) <= MaxOps
    /\ elock \in Clients \cup {NoOne}
    /\ todo \in [Clients -> Seq(Statements)]
    /\ client \in [Clients -> Sessions]
    /\ schema \in [there: BOOLEAN, fresh: BOOLEAN, shape: Nat, placed: Nat]
    /\ pass \in [1..MaxOps -> Passes]

(* Two operations that conflict are never both at work: whatever the order  *)
(* they arrived, committed, were paused or were looked at in, the rule of   *)
(* operation_blockers under the move gate keeps one of them back.           *)
NoOverlap ==
    \A a, b \in DOMAIN op:
       a # b /\ op[a].begun /\ op[b].begun /\ Unfinished(op[a]) /\ Unfinished(op[b])
         => ~operations_conflict(op[a], op[b])

(* The shape a placement restores at its swap is the shape the table has:   *)
(* no schema change lands between the describe its start used and the swap. *)
ShapeIsCurrent ==
    \A n \in DOMAIN op:
       op[n].kind = "placement" /\ op[n].stage \in {"moving", "buffering", "swapping"}
         => op[n].basis = schema.shape

(* A migration runs only under the placement it was planned for, though it  *)
(* waited for exactly the swap that changes it.                             *)
PlanHolds ==
    \A n \in DOMAIN op: op[n].kind = "ddl" /\ op[n].state = "running" => ~Drifted(n)

(* Success reported to a client is true: what its statement asks for has    *)
(* been so at some moment since the client sent it, though the migration    *)
(* that stood for it may be another client's or an earlier one. A RESTART   *)
(* that attached to a running migration is the exception: the sequence may  *)
(* have been used since that migration ran on the shards.                   *)
AnsweredTrue ==
    \A c \in Clients:
       client[c].at = "waiting" \/ (client[c].at = "attached" /\ Sent(c) # "restart")
         => (op[client[c].on].state = "complete" => client[c].held)

(* A migration that is enqueued ends: a reshard row nobody drives, a        *)
(* workflow paused before its start and one whose own checks keep failing   *)
(* do not hold it, and no two operations wait for each other.               *)
DDLEnds ==
    \A n \in 1..MaxOps:
       (n \in DOMAIN op /\ op[n].kind = "ddl")
         ~> (n \in DOMAIN op /\ op[n].state \in {"complete", "failed"})

=============================================================================
