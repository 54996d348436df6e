# A verification of pgshard

pgshard runs PostgreSQL as a sharded cluster: a router that speaks the PostgreSQL protocol and plans
statements over shards, a pooler beside every shard primary, an agent that supervises each PostgreSQL
member, a controller that runs workflows against a catalog database, and a Kubernetes operator. This
directory holds TLA+ modules of those parts, configurations that model-check them with TLC, and theorems
about them that TLAPS checks. `PROJECT.json` maps every definition to the lines it models, and lists the
runs, the hazards and the results.

## 1. The system: components, state, and what makes them hard

| Component (source) | State | Operations | Hard behaviour | What has to hold |
|---|---|---|---|---|
| Two-phase commit: coordinator `router/txn.go`, log `router/decisions.go`, resolver `controller/resolver.go` | decision rows, prepared transactions, coordinator sessions, resolver passes | prepare, decide, apply, heartbeat, scan, finish, sweep | lost answers, statements that run late, router death, passes side by side | all writers end alike; what the client was told stays true; everything settles |
| Failover: `operator/failover.go`, `operator/reconciler.go`, `agent/{server,instance,lease,epoch,run}.go` | WAL per member, Lease, epochs, group status, catalog row, labels | observe, fence, quiesce, confirm, publish, promote, boot, rejoin, demote | cut-off primaries, Promote calls outliving their caller, a pass dying anywhere | acknowledged commits survive; one writable member; the group gets a primary |
| Cutover of a reshard: `controller/{cutover,cutoverpg,upgrade,pausesweep}.go`, `router/fence.go`, `pooler/source.go` | workflow row, serving set, fences, write pauses and their claims, subscriptions, router and pooler snapshots | 13 switch steps, abort, retire, rollback, cancel, sweep | a pass dying anywhere, old snapshots, prepared transactions, promotions that drop a pause | no acknowledged write is lost or reordered, sequences never go back, writes resume |
| Backend pool: `pooler/pool.go` | idle lists, two semaphores, wait queues | Acquire, Release, Discard, Abandon, reaper, Close | goroutine interleavings, Go's select, drain beside relays | slots are conserved; no lost wake-up; nothing survives Close |
| Barrier: `controller/barrier.go`, `operator/restore*.go` | barrier row, shard pauses, restore points, archive positions | pause, drain, verify, record, resume, recover | failure of one shard of many, a controller death with writes paused | a recorded barrier is a consistent cut; pauses end |
| Online DDL and the operation queue: `controller/{applier,rewrite,queuegate}.go`, `router/migrations.go`, `catalog/{migrations,queue}.go` | queue rows, migration steps per shard | enqueue, apply, retry, cancel, hold | one shard of several fails, a reshard in between | shards converge to one schema, in queue order |
| Table placement: `controller/placement*.go`, `controller/movegate.go` | placement rows, fences, copies | move a table between shards | as a cutover, per table | as a cutover |
| Change streams: `router/vstream/*` | positions per shard, merge buffers, journals | read, merge, switch at a journal, resume | a reshard under a reader, restarts | every change once, in commit order per shard |
| Session: `pgwire/session.go`, `router/session.go`, `pooler/{server,stream}.go` | pipeline, transaction block, streams, prepared statements | parse, bind, execute, sync, drain, cancel | failure of one stream of several, pipelined errors | a session's replies match its requests; a transaction stays on its backends |
| Planner, scatter and merge: `router/plan/*`, `router/scatter/*`, `router/copysplit`, `placement/*` | none (pure) | route, merge, aggregate, split | boundaries of key ranges, NULLs and ties | same answer as one database would give |
| Leadership and ownership: `controller/{leader,ownership,workflowowner}.go` | advisory lock, workflow lease | claim, renew, hand over | a paused replica that comes back | one owner writes the workflow row |
| Rollout and upgrades: `operator/{rollout,upgrade,catalogupgrade}.go` | Pods, versions | roll one member, switch over | failure half way | quorum is kept while members restart |
| Catalog and snapshots: `catalog/*`, `catalog/snapshot/*` | tables, notifications | load, watch, validate | missed notifications | a snapshot is one catalog state |
| Rendering, tuning, TLS, parser bindings, wire formats, admin UI, API types | none, or generated | | | not modelled: no protocol |

How they interact: the router reads the shard map from catalog snapshots, sends statements with a map
generation to poolers, and keeps the decision log in the catalog. The controller changes the shard map in
the catalog and pauses primaries directly. The operator owns which member of a group is primary and tells the
agents. A pause set by the controller (an ALTER SYSTEM) lives on a member that the operator may replace.

## 2. Modules

| Part | Model | Instance for TLC | Proofs |
|---|---|---|---|
| two-phase commit, its log and its resolver | `TwoPhaseCommit`, promise `AtomicCommit` | `MCTwoPhaseCommit` | `TwoPhaseCommitInvariant`, `TwoPhaseCommitProofs` |
| failover of a group | `Failover` | `MCFailover` | `FailoverProofs` |
| DDL applier, leadership, online rewrite | `Applier` | `MCApplier` | `ApplierProofs`, `ApplierClean` |
| operation queue | `OperationQueue` | `MCOperationQueue` | `OperationQueueProofs` |
| certified restore points | `Barrier` | `MCBarrier` | `BarrierProofs` |
| change streams | `ChangeStream` | `MCChangeStream` | `ChangeStreamProofs` |
| write switch of a reshard | `Cutover` | `MCCutover` | |
| table placement, workflow ownership | `Placement` | `MCPlacement` | |
| backend pool | `Pool` | `MCPool` | |

Most modules have a constant `Plans`: a plan is the workload and the faults of one behaviour, chosen in Init
and kept in a variable, so that one run covers several scenarios and each only pays for the faults it is about.

**`TwoPhaseCommit`** starts when COMMIT arrives at a router session that wrote on several shards. `row`,
`stale` and `verdict` are the decision log, `part` the transaction on each shard, `pc`, `ack`, `broken` and
`reply` the coordinator, `net` the statements on their way, `late` catalog statements whose caller gave up,
and the `r...` variables one resolver pass each. A statement can be lost, run without its answer arriving, or
run after its sender gave up. Several passes run side by side; `Scope` says which shards a pass lists, since a
pass over less than the topology must not delete a commit's row. Time is one bit per row: fresh or stale.
**`AtomicCommit`** is what the client is promised, without coordinator, log or resolver; the property
`ImplementsAtomicCommit` is that specification under the refinement mapping at the end of `TwoPhaseCommit`.

**`Failover`** models one group: the operator's pass as `op` (one Kubernetes, agent or catalog call per
action), the agents as `job`, `hold`, `epoch`, `signal` and `pending`, and the shared objects as `lease`,
`note`, `row`, `status`, `seen`, `kept`, `rw` and `conf`. WAL is a sequence of distinct commits, so two
histories of one length differ. One timing fact is assumed, at `FencePod`: after the waits of quiesce and
fencePod (30 s each) an old primary that cannot renew a 15 s Lease has been stopped by its own agent. Each
member's agent, PostgreSQL and the pass interleave freely.

**`Applier`** is one migration and the controllers that drive it. `lock`, `term` and `published` are leadership,
`row` the migration in the catalog, `mem` the copy of it a pass works with, `loc` and `pc` where the pass
stands, `obj` and `tab` the shards' schemas and the column an online rewrite converts. Each statement sent to a
shard, each dial and each save is an action that can fail with its effect kept or lost; a process can die
between any two, and a lock session can end under a process that goes on. `handover` only observes how
leadership has passed. The queue in front of the start is the gate `QueueMoves`.

**`OperationQueue`** is that queue: `op` holds DDL migrations, reshards, in-place edits and placements in the
order of arrival, `operation_blockers` is the rule, asked under the move gate in the action that starts an
operation. Around it are clients that send a statement again or give up (`client`, `todo`), the enqueue lock,
passes that list, read a clock and a shape and only then start (`pass`), and an administrator who pauses,
resumes, cancels and reverts. What the applier does on the shards is one step here.

**`Barrier`** has one record per attempt (`run`), the advisory lock, the catalog's fence and `restore_points`
(`point`), what a restore would bring back (`cut`), the recovery pass (`rec`), pauses and who else wants them
(`paused`, `own`, `armed`), transactions with their branches and decision rows, and per group the WAL position,
the archiver's last report and the archive. It composes the barrier with two-phase commits (the rows of the
decision log and COMMIT PREPARED), with the operator that pauses a shard again, with promotions that lose a
pause, and with the switch that claims one. `FenceIsOld` is a timing assumption: recovery waits until the fence
is `maxRunTime` old (four minutes), and by then the drains of the run that raised it (30 s each) are over. The
recovery pass reads the fence and its age first and takes the lock afterwards, so a run may start in between; it
resumes the groups one by one, goes on when one fails, and leaves the fence up after such a pass.

**`ChangeStream`** goes from a logical slot per shard to a consumer. `slot`, `epoch`, `cut` and `pool` are the
members' slots and the pooler's reader of one, `rd` and `conn` the router's reader and its call, `queue` the
units between it and the merger, `mrg`, `acker` and `una` the merger, the acks it forwards and the unary Ack in
flight, `status` the standby statuses written to a walsender that has not read them, `saved` and `replica` the
consumer. The pooler answers an ack when its status is written (`awaitSent`), not when the slot has moved; a
status is lost with the primary it was written to. An LSN is an index in the WAL and the value of a row the LSN that
wrote it, so "nothing is lost" compares numbers. A shard has one table, copied a row at a time; a transaction
comes in two batches, so that a call can break in the middle. A shard sees at most one promotion.

**`Cutover`** starts after the copy. `row` is the saved workflow record, `ctl` the pass that drives it; a pass
may die between any two operations and the next one starts from `row`. `cat` is the catalog, `paused` the
primaries that refuse writes, `fwd`/`rev` the subscriptions, `log` the committed client writes per shard.
Clients go through a router snapshot (`view`) and a pooler snapshot (`pview`) of any age. The target set is
one shard, the sources are separate. The sweep of orphaned pauses is a process of its own: it unpauses a shard
and then drops the claim (`swept` is a shard between the two), and may die in between. A revert of spec.shards is
seen before the switch and of a failed workflow. Abstracted: databases, lease ownership of the workflow (one controller
runs), a source set retired by another workflow, clients that override a read-only default, the pause points
an operator sets between steps, `abandonSwitch`, a resume without a schema, the clearing of `spec.rollback`,
objects that a failed drop leaves behind, and what Verify compares (the copy agrees or it does not).

**`Placement`** moves a table between one shard and all of them: `live`, `shadow` and `old` are the relations
under the three names on each shard, `slot` and `wal` the replay, `cat` the catalog's flag and placement, `row`
the workflow with its owner, `ctl` the pass of each replica with the owner token it holds, `txn`, `truth` and
`view` the clients and the router's snapshot. A pass can fail, hang past its lease (at the steps `Stalls`
names) or die, another replica takes over, and a shard where another table has the retired name (`taken`)
refuses its rename, after others were renamed. Left out: reference placement, the checks of the table's shape,
and the refusals of `load` when the serving set or the database changed under the move, which the operation
queue prevents (`placement.go:741`, `:755`).

**`Pool`** models every step of Acquire, Release, Discard, Abandon, the reaper and Close as one critical
section, channel operation or call out. It keeps Go's rules: a select takes any ready case on entry, and a
freed slot goes to the goroutine blocked longest. A goroutine carries the steps it still has to run.

## 3. Runs

| Run | Instance | Shows |
|---|---|---|
| `twopc` | one transaction on two shards, a pass over all shards beside one over a shard set, one fault; 0.2 M states | `Atomic`; `CommitRowOutlivesHolders`; the refinement `ImplementsAtomicCommit`; everything `Settles` |
| `failover` | three members; one acknowledgement, two commits, two epochs, or all acknowledge and three epochs; two faults; 0.3 M | `AckedSurvive`; `OneWriter`; `FencePublishedFirst`; a designated primary that runs as a standby is promoted or replaced (`DesignatedPromoted`) |
| `failover_loss` | the state an abandoned failover leaves, and a status that is lost | `AckedSurvive` is violated (section 5) |
| `applier` | two controllers, two shards, every kind of statement, with a crash, failures, a cutover of the serving set or a lost lock; 0.3 M | `StatementCompleteIsDone`; `CutoverKeepsRows`; `CleanFailureIsClean`; `FinishedStays`; `MigrationEnds`; `ArtifactsGo` |
| `queue` | two clients, four operations, nine workloads with retries, placements, reshards and a placement that never starts; 0.1 M | `NoOverlap`; `ShapeIsCurrent`; `PlanHolds`; `AnsweredTrue`; `DDLEnds` |
| `barrier` | two shards; one run beside the operator and two transactions on one shard each or one on both; two runs that overlap beside one prepared by hand; one fault; 1.8 M under symmetry of the runs | `ConsistentCut`; `CertifiedRestorable` |
| `barrier_recovery` | the same shards, two faults, or two runs with a fault beside a switch and a retired set; 0.3 M | `StandingPauseKept`; `WritesResume` |
| `stream` | one shard, two keys, a buffer of two units, four workloads (copy, copy without a primary key, copy with unary acks, follow), up to two faults; 0.5 M | `NothingLost`; `OnceInOrder`; `AcksTrue`; `CatchesUp` |
| `cutover` | two sources, one two-phase writer, two attempts, one death or failure, a copy that may differ, a revert; 0.9 M | `CancelUndone`; `ForwardStopsAtFlip`; `NothingLeftBehind`; `SequencesCarried` |
| `cutover_live` | one source; a lost pause, or a rollback from a finished switch with one death or failure; 0.2 M | `StageEnds`; `WritesResume`; `RollbackKeepsWrites` |
| `placement` | two shards, a key on each, an updating and a deleting client, two replicas, both directions, one fault, a cancellation or a refused rename; 0.2 M | `RowsKept`; `EndsClean`; `CancelledNeverSwaps`; `FencesLift` |
| `pool` | three goroutines, two roles with a quota of one, one backend; 0.7 M under symmetry | `SlotsAccounted`; `WaiterServed` |

Bounds. One transaction is enough for `twopc` because transactions share nothing but the passes, and the
theorems below cover any number. Two faults are what it takes in `failover` to lose a primary and then the pass
that replaces it. `cutover` needs two sources so that a pass can die between pausing or disabling the first and
the second, and two attempts so that a first one is undone and repeated. In `pool` three goroutines give a
holder, a waiter and one that comes in between. In `applier` two controllers give a deposed leader and its
successor, two shards a first one done and a second one not, and a plan with two failures reaches an answer
lost twice. In `queue` four operations suffice for a migration behind a placement behind a reshard, with a
repeated statement. `barrier` needs two shards for a cut, a transaction on each for one seen by the other, and
two runs for a lock that is lost. In `stream` two units of buffer let a copy's end and a change be queued
together, and two faults break a copy that was already resumed. `placement` needs two shards, and two replicas
for a takeover. Where a theorem covers a property the bound does not matter to it. Deadlock is not checked where the
system may stop: a workflow that is over, a pool that is closed, a group out of faults and writes, clients that
sent all they had.

The type invariant of each module, and the inductive invariants of section 6, were checked with TLC on these
instances before they were proved or left. Larger instances were tried while the modules were written:
`Placement` with other homes and writers, `ChangeStream` with longer scripts, with unary acks and two faults and
with two shards, `Barrier` under the hypothesis of `VerifiedCut` and with two runs beside a transaction on each
shard or a two-phase commit (3.8 M and 3.0 M states).

## 4. Fairness and assumptions about the surroundings

Goroutines run, shards and the catalog answer, the controller and the operator are requeued by their tickers,
apply workers and snapshot reloads run for good, a timeout comes, and faults are finite (each plan bounds them,
and nothing obliges one to happen). What the code does not guarantee itself, and a run assumes:
- `Cutover`: `TransactionsEnd`. A drain polls until its timeout, so of endless chances to end a transaction
  while a drain waits a client takes some. Without it neither a switch past its journal nor a rollback ends.
  `DroppedInTime` in `MCCutover`: the target set is not dropped in the moment the journal is written.
- `Barrier`: `FenceIsOld`, above.
- `Failover`: the timing of `FencePod`, above.
- `OperationQueue`: the targets of a reshard become ready (`TargetsReady`), and a workflow paused after its
  start is resumed. A reshard whose targets never come up holds the queue.
- `ChangeStream`: the consumer comes back, the router reloads its snapshot, and the pooler lets go of the slot
  of a call that ended. `SlotLost = {"streaming"}`: a slot survives a promotion during a copy (section 5).
- `Placement`: `HangPoints`, the steps at which a pass may hang past its lease; the others do not look at their
  claim before they change a shard. A writer's transaction ends. After publish the shards' fences are released
  at once, so a router with the old placement is assumed to have been refused by then.

## 5. Where the code disagrees with its own comments

`failover_loss` is expected to fail and is a finding in `PROJECT.json`: an abandoned failover leaves the Lease
without the primary's name, and a status lost then designates a member that lacks commits.

Others were seen while modelling. They are not kept as runs; the passing runs leave these cases out by the
constants named in section 4, by `ExpireInDrain = FALSE` (pool), `lost = 0` and `twophase = {}` in the plans
(cutover), or by what a property says.

- `Failover`: the candidate is chosen by WAL position alone, across timelines (`operator/failover.go:206`,
  comment at `:923`), so with few acknowledgements a longer diverged WAL wins. When a pass dies between
  publishing its choice and promoting it, the designated primary streams from nobody, is not Ready, converge
  does not run, and with one acknowledgement a failover away from it is refused (`operator/reconciler.go:1134`):
  `DesignatedPromoted` is stated of groups all of whose standbys acknowledge. A demotion that fails is not
  tried again (`failover.go:1042`).
- `Pool`: a drain frees the slots of a backend popIdle is dropping (`pooler/pool.go:475`, comment at `:673`); a
  waiter of a role in another database sleeps on when the role's backend becomes idle (`:452`); a budget waiter
  that takes a free slot after its wake-up does not hand the wake-up on (`:378`); an acquirer that parks for the
  budget after Close is woken by nobody (`:389`).
- `Cutover`: a promotion of a source after quiesce drops its pause (`agent/pgconf.go:316`), so a write can be
  carried to targets that serve, or take a sequence value after the sequences were carried; a router and a
  pooler that both have not reloaded commit on a retired source once its pause is lifted
  (`controller/cutoverpg.go:1183`); a rollback does not look for prepared transactions (`upgrade.go:419`,
  comment at `cutover.go:963`), and a drain that times out in it is not counted as a retry; a rollback that
  gives up is saved as switched with both sets fenced (`cutover.go:448`, `upgrade.go:383`), against
  `cutover.go:440` and `upgrade.go:352`, which is why `WritesResume` excepts a refused row; a revert read before
  the switch drops the target set after the journal (`operator/reshard.go:301`, comment at `:63`); a switch
  aborted once and then cancelled leaves its reverse subscriptions (`copy.go:1641`, `:1688`); the sweep can drop
  the claim of a cancelled workflow whose pass is about to pause (`pausesweep.go:165`); after a flip back whose
  acknowledgement was lost a write on the unpaused targets can be dropped (`upgrade.go:341`).
- `Barrier`: the operator re-pauses a shard from a fence it read before a run released it
  (`operator/reconciler.go:1313`, comment at `:1299`); with two runs and two faults `WritesResume` fails. A pause
  lost and set again between two checks of a run goes unseen by verify (`barrier.go:493`, against the comment at
  `:479`): with the operator and a transaction prepared by hand one lost pause is enough for a certified point
  that is not a cut, so the plan with such a transaction has no operator (section 6).
- `Applier`: between the steps of a multistep statement a shard's entry is saved as `applied`
  (`applier.go:836`), so after a crash the next pass skips its remaining steps; driveRewrite saves a failed
  shard's entry before failRewrite runs (`rewrite.go:89`), so after a crash in between the next pass skips that
  shard and cuts the others over. Both end as complete with work missing, against `docs/ddl.md:261`, and
  `StatementCompleteIsDone` is stated of statements sent whole. A leader deposed while it lives on works
  beside its successor until a save is refused (`applier.go:938`; its failRewrite and its sweep can also revert
  what the successor built), so the properties on the shards say `NoZombie`; and one deposed between its tick
  and the latch of its term writes without a term, which `FinishedStays` excepts.
- `OperationQueue`: a RESTART that attaches to a running migration may be answered though the sequence was used
  since (`catalog/queue.go:163`, `docs/operation-queue.md:122`); the check of DDL on the home shard takes no
  lock (`router/migrations.go:779`); a blocked pass clears the error of the one before.
- `Placement`: Pass lists workflows before it claims one, and save compares only owner and state, so a stale
  listing can put an old stage back (`placement.go:275`, comment at `:132`), reproduced with `overlap = TRUE`;
  catchUp does not look at the claim; a hang in copy, widen, slot or fill leaves a slot or a widened replica
  identity behind; with a home shard that is not the first in range order, a crash after a rename elsewhere and
  before the home's makes verifyPlacement fail for ever with the table fenced (`placementpg.go:2562`); a pass
  that dies in fail, after it dropped the slots of a refused swap and before it recorded the failure, leaves the
  workflow swapping, and every later pass arms the fences and ends at the missing slot (`placement.go:441`,
  comment at `:409`); `FencesLift` excepts these two (`Stranded`). A swap refused on a later shard lifts the
  fences of a table that has partly moved and keeps what it renamed without naming it in the record
  (`placement.go:449`); reads between the first swap and publish see such a table too.
- `ChangeStream`: a slot lost in the middle of a copy is recreated at a later point (`pooler/copy.go:68`) and
  the router ignores that (`vstream/copy.go:105`), so changes of rows already copied are lost, against
  `docs/streams.md:96` and `:341`; a failed ack is not tried again until a higher one comes (`server.go:551`,
  comment at `:594`); the reshard journal is written under the name of the target set (`cutoverpg.go:1138`) and
  looked up by the stream's own set (`vstream/merge.go:220`, comment at `:209`); an ack is answered when its
  status is written (`pooler/stream.go:166`), so one lost with its primary counts as done for the acker and the
  slot stays behind until a higher one comes, which is why `AcksTrue` says only how far a slot may move; and the
  stream keeps its promise only to a consumer that acks what it has saved.

## 6. Proofs

TLAPS checks every theorem below for every value of the constants: any transactions, shards, members,
controllers, clients, runs and workloads, and any number of faults. The only assumptions on the constants are
the named ASSUMEs of the modules (`TxnsAssumption`, `WritersAssumption`, `ScopeAssumption`, `FaultsAssumption`;
`MembersAssumption`, `BoundsAssumption`; `ApplierConstants`; `QueueConstants`; `BarrierAssumption`;
`StreamAssumption`), which TLC evaluates in the runs. Where a theorem has a hypothesis of its own, the table
says so.

| Module | Theorem | Establishes |
|---|---|---|
| `TwoPhaseCommitInvariant` | `TypeCorrect` | the types |
| `TwoPhaseCommitProofs` | `Invariance` | the inductive invariant |
| | `AtomicCorrect`, `CommitHonouredCorrect`, `RetrySafeCorrect`, `CommitRowCorrect` | `Atomic`, `CommitHonoured`, `RetrySafe`, `CommitRowOutlivesHolders` |
| | `DecisionStableCorrect` | the action property `DecisionStable` |
| | `Refinement` | `ImplementsAtomicCommit`: the detailed specification implements `AtomicCommit` |
| `FailoverProofs` | `Invariance`, `NoSplitBrain`, `PublishedFirst` | the invariant, `OneWriter`, `FencePublishedFirst` |
| | `UnanimousSurvives` | `AckedSurvive` in a group all of whose standbys acknowledge |
| `ApplierProofs` | `FinishedKept` | the action property `FinishedStays` |
| `ApplierClean` | `CompleteMeansDone`, `RowsSurviveCutover`, `CleanFailures` | `StatementCompleteIsDone`, `CutoverKeepsRows`, `CleanFailureIsClean` |
| `OperationQueueProofs` | `Invariance`, `NeverOverlap`, `RunsAsPlanned`, `RestoresShape` | the invariant, `NoOverlap`, `PlanHolds`, `ShapeIsCurrent` |
| | `Answered` | `AnsweredTrue` |
| `BarrierProofs` | `Invariance`, `ArchiveComplete`, `StandingPauses` | the invariant, `CertifiedRestorable`, the action property `StandingPauseKept` |
| | `VerifiedCut` | `ConsistentCut`, given `WritesApart` and steps that satisfy `NotPausedAgain` |
| | `HeldCut` | `ConsistentCut`, given `WritesApart` and steps that satisfy `HeldToPoints` |
| `ChangeStreamProofs` | `Invariance`, `SentOnce`, `AckedIsSent` | the invariant, `OnceInOrder`, the action property `AcksTrue` |

None of the properties is inductive as it stands. What each proof adds:

**Two-phase commit.** `IInv` says what the actors know of each other. `LogInv`: the row agrees with the verdict,
and what a late catalog statement may still do. `PartInv`: prepared means a row was begun, committed means
commit was decided, and a commit's row is gone only when all committed. `NetInv`: statements in flight agree
with the decision, also those of a sender that is gone. `CoordInv`: what the coordinator heard is true by the
time it acts on it. `PassInv`: what a pass read stays true until it acts on it. This is the heart: a pass that
listed every shard and read `commit` knows every participant that is not committed. The key notion is
`Dead(t)`: nothing that can still run decides commit. It is stable, a rollback is only sent when it holds, and
an abort is only answered when it holds. The refinement follows step by step: a step of the coordinator, the
log, a shard or a pass is a decision, a commit, a rollback or an answer of `AtomicCommit`, or changes nothing
the mapping sees.

**Failover.** `Control` follows the pass: from fencePod until another member is designated the old primary has
no Pod, only the designated member is writable or on its way to be, and a ConfigMap that names another names
one without a Pod to read it. `EpochOK` orders the row, the status and the Leases. `StreamOK` says that a
standby that streams has the beginning of its primary's WAL, so that where every standby acknowledges every
member has what was acknowledged (`AllHave`). With fewer acknowledgements durability is not a theorem: a
promotion begun again works with an old synchronous set, and a longer diverged WAL can win (section 5).

**Applier.** `FinishedKept` rests on terms alone (`TermInv`): a term belongs to one process, and once a pass of
the newest term has finished the row every pass still at work carries an older one. The other three hold while
leadership passes only when its holder dies (`NoZombie`, in the properties): then there is one pass at a time
(`OnePass`), an entry of its memory or of the row says done only of a shard that is (`Sure`), a rewrite's step
says what the shard's table has (`StepTrue`), and the pass never runs ahead of the step (`RewritePass`).

**Operation queue.** `IInv` relates an operation's state to its stage (`OpOK`), and says what a pass still has
right about the workflow it listed (`Fits`) and about the shape it read: it is the table's, or a schema change
shows that the pass's clock lacks (`ShapeOK`). `AInv` adds that the migrations of a scope run in the order of
their arrival, which is the order in which their inserts commit, so that the last CREATE or DROP applied tells
whether the object is there.

**Barrier.** The archive part says that the archiver's last report is of the primary's timeline with every
segment before it in the archive (`ReportOK`) and that a point lies on a timeline that is over or in what its
primary wrote (`PointOK`). For the cut, `Facts` follows a run through its steps: on a shard that has stayed
paused the older transactions are known (`Known`), then have no writer (`NoWriter`), then are over (`Frozen`),
so the points take the same transactions everywhere. `Facts` holds only while every shard the run counts on is
still paused (`Sound`), and Barrier.verify looks for exactly that. It cannot see a pause that was lost and set
again. Two theorems say what is enough. `VerifiedCut` lets pauses be lost and asks that no shard that lost one is
paused again behind the run (`NotPausedAgain`). `HeldCut` lets the operator pause again what it likes and asks
that no shard loses its pause between the turn in which the run paused it and the run's last point
(`HeldToPoints`): its invariant is that a run before its points counts on paused shards only, whatever the other
runs, the recovery and the switches do, and what happens after the last point no longer matters to the cut.
`WritesApart` says that transactions keep away from sets that are retired or being switched. Without a hypothesis
on pauses `ConsistentCut` is false: one lost pause is enough beside the operator and a transaction prepared by
hand, and two faults are with the others.

**Change stream.** `Ordered` says that what is queued for the merger is above its position, increasing, whole
and not above what the reader counts as delivered; `Acks` that everything on its way to a slot, in the stream
or beside it or in a status the walsender has not read, is at or below what the consumer was sent, and that an
Ack taken while a stream copies counts only after the copy.

Only model-checked:
- liveness, which needs fairness and ENABLED: `Settles`, `DesignatedPromoted`, `MigrationEnds`, `ArtifactsGo`,
  `DDLEnds`, `WritesResume` (twice), `StageEnds`, `FencesLift`, `CatchesUp`;
- `NothingLost`: it needs in addition what the copy delivered and what the slot kept, and a consumer that acks
  only what it saved;
- `Pool`: `SlotsAccounted` is a sum over goroutines and lists, whose proof needs induction over their number,
  and `WaiterServed` speaks of states in which nothing moves;
- `Cutover` and `Placement`: with more faults, writers or attempts than the runs have, the cases of section 5
  (a lost pause, a stale listing) violate their properties, so they are statements about the instances.

## 7. Not modelled

`PROJECT.json` lists every part with the reason. Sessions, planning, scatter and merge, COPY splitting and
DDL rewriting are walks of syntax trees, message handling or pure computations over typed values: their size is
in cases that an abstraction would remove. The bulk of the repository is of that kind, or generated code, SQL
text, wire formats, rendered Kubernetes objects, certificates, tuning, the admin UI and metrics, which is why
the modules map a small share of its lines. Inside the modelled parts: savepoints and the one-phase path of a commit;
logical slots and the barrier's pause in a failover; the buffer of writers waiting at a fence; how the pool's
limits are computed; the order in which a stream interleaves units of different shards, its two-phase events
and its end at a reshard; the copy phase ahead of the switch; rollouts and upgrades, of which only the
switchover is in `Failover`.
