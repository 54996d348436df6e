------------------------------ MODULE Cutover -------------------------------
(***************************************************************************)
(* The cutover of one reshard: the workflow that moves a cluster's writes  *)
(* from a source shard set to a target set, and back                       *)
(* (internal/controller: cutover.go, cutoverpg.go, upgrade.go), with the   *)
(* clients that write meanwhile (internal/router/fence.go and              *)
(* internal/pooler/source.go) and the sweep of orphaned write pauses       *)
(* (pausesweep.go).                                                        *)
(*                                                                         *)
(* The copy is over when the model starts.  The controller's pass is the   *)
(* process ctl: each action is one operation against the catalog or one    *)
(* shard, and a pass may die between any two.  What a pass keeps across a  *)
(* death is row, the saved workflow record.                                *)
(*                                                                         *)
(* A shard's log is the sequence of client writes committed on it, a       *)
(* position is a length of that sequence, and a subscription is how far    *)
(* it has applied.  The target primaries are one shard, Target; the        *)
(* sources are separate, so that pausing and disabling them one by one can *)
(* be cut short.  A client transaction makes one write, on one shard.      *)
(* Routers (view) and poolers (pview) act on snapshots of the catalog that *)
(* may be old.                                                             *)
(*                                                                         *)
(* Abstracted: databases, lease ownership (one controller runs), a set     *)
(* retired by another workflow, clients that override a read-only default, *)
(* the lengths of timeouts.                                                *)
(***************************************************************************)
EXTENDS Naturals, Sequences, FiniteSets

CONSTANTS
  Sources,      \* the primaries of the source set
  Target,       \* the target set
  Writers,      \* client transactions
  MaxAttempts,  \* cutoverAttempts
  Plans         \* what a behaviour may be about

(* A plan: who writes, and whose transactions span shards and prepare;     *)
(* whether the copy left a target that differs, and an operator may ask    *)
(* for a rollback or revert spec.shards; how often a pass dies or an       *)
(* operation of it fails, and a promotion drops a shard's write pause.     *)
PlanType == [writers : SUBSET Writers, twophase : SUBSET Writers, differs : BOOLEAN,
             rollback : BOOLEAN, revert : BOOLEAN, faults : Nat, lost : Nat]

ASSUME ShardsAssumption == Sources # {} /\ Target \notin Sources

ASSUME BoundsAssumption ==
  MaxAttempts \in Nat \ {0} /\ \A p \in Plans : p \in PlanType

VARIABLES
  row,      \* the workflow's saved record
  ctl,      \* the pass that drives it
  cat,      \* the catalog: serving set, fence, locks, pause claims
  paused,   \* the shards whose primaries refuse writing transactions
  log,      \* log[s]: the client writes committed on s
  fwd,      \* fwd[s]: the subscription of the target to s
  fwdAt,    \* fwdAt[s]: how much of log[s] the target applied
  rev,      \* rev[s]: the subscription of s to the target
  revAt,    \* revAt[s]: how much of the target's log s applied
  carried,  \* the sets whose sequences are past all the other handed out
  tx,       \* tx[w]: w's transaction
  view,     \* view[w]: the catalog as w's router last loaded it
  pview,    \* pview[s]: the catalog as s's pooler last loaded it
  expired,  \* the fence has stood for longer than the cutover timeout
  plan,     \* the plan of this behaviour
  drift,    \* a migration changed the target's schema after the switch
  mig,      \* a migration is being applied
  revert,   \* the operator saw a phase in which spec.shards can be reverted
  faults,   \* the deaths and failures so far
  lost,     \* the pauses lost so far
  swept     \* the shard the sweep unpaused, its claim not yet dropped

controlVars == <<row, ctl>>
replVars == <<fwd, fwdAt, rev, revAt>>
clientVars == <<log, tx, view, pview>>
envVars == <<expired, plan, drift, mig, revert, faults, lost, swept>>
vars == <<controlVars, cat, paused, replVars, carried, clientVars, envVars>>

Shards == Sources \union {Target}
Primaries(set) == IF set = "source" THEN Sources ELSE {Target}
SetOf(s) == IF s = Target THEN "target" ELSE "source"
Other(set) == IF set = "source" THEN "target" ELSE "source"

(* Mutant: the sequences are carried before the sources are quiesced.      *)
StepsSequencesEarly ==
  <<"fence", "drain", "sweep", "positions", "catch_up", "verify", "reverse",
    "sequences", "quiesce", "journal", "flip", "swap", "release">>

Steps == <<"fence", "drain", "sweep", "positions", "catch_up", "verify",
           "reverse", "quiesce", "sequences", "journal", "flip", "swap",
           "release">>
StepIndex(step) == CHOOSE i \in DOMAIN Steps : Steps[i] = step
Stages == {"awaiting", "switching", "switched", "rolling_back",
           "completing", "completed", "rolled_back", "cancelling",
           "cancelled", "failed"}
Terminal == {"completed", "cancelled", "failed"}
Ops == {Steps[i] : i \in DOMAIN Steps} \union
       {"idle", "waited", "claim", "pause", "instants", "lift", "drop",
        "fenceClaim", "drainSources", "drainPrepared", "position",
        "caughtUp", "quiesced", "journalRows", "flipDrain", "flipMap",
        "swapDrain", "swapSequences", "disabling", "disable",
        "enableReverse", "abort", "aborted", "fatal", "fail",
        "rollback", "rbDrain", "rbPosition", "rbBehind", "rbSequences",
        "rbFlip", "rbRelease", "rbRetry", "rbRefused", "dropReverse",
        "dropForward", "retirePause", "finish", "cancel", "unwind",
        "cancelled"}

Idle == [op |-> "idle", todo |-> {}, then |-> "idle", stood |-> FALSE,
         resuming |-> FALSE, pos |-> [s \in Shards |-> 0]]

(* What a snapshot of the catalog says: Migrating() of the serving set to  *)
(* a router, the shard's own fence to a pooler.                            *)
RouterView == [set |-> cat.serving, gen |-> cat.gen,
               fenced |-> cat.serving \in cat.fence]
PoolerView(s) == [gen |-> cat.gen, migrating |-> SetOf(s) \in cat.fence]

NoTx == [st |-> "none", at |-> Target, rw |-> FALSE, early |-> FALSE,
         pre |-> FALSE]

Init ==
  /\ row = [state |-> "running", stage |-> "awaiting", step |-> "none",
            fenced |-> FALSE, journal |-> FALSE, disabling |-> FALSE,
            mismatch |-> FALSE, positions |-> [s \in Sources |-> 0],
            attempts |-> 0, refused |-> FALSE, retries |-> 0]
  /\ ctl = Idle
  /\ cat = [serving |-> "source", gen |-> 1, fence |-> {}, ddl |-> FALSE,
            journal |-> FALSE, claim |-> {}, instant |-> {},
            target |-> TRUE]
  /\ paused = {}
  /\ log = [s \in Shards |-> <<>>]
  /\ fwd = [s \in Sources |-> "on"] /\ fwdAt = [s \in Sources |-> 0]
  /\ rev = [s \in Sources |-> "none"] /\ revAt = [s \in Sources |-> 0]
  /\ carried = {"source"}
  /\ tx = [w \in Writers |-> NoTx]
  /\ view = [w \in Writers |-> RouterView]
  /\ pview = [s \in Shards |-> PoolerView(s)]
  /\ plan \in Plans
  /\ expired = FALSE /\ drift = FALSE /\ mig = FALSE /\ revert = FALSE
  /\ faults = 0 /\ lost = 0 /\ swept = {}

-----------------------------------------------------------------------------
(* Clients.                                                                *)

(* The pooler's fence: a statement is admitted when it carries the map     *)
(* generation of the pooler's own view.                                    *)
Admitted(w, s) == view[w].gen = pview[s].gen

On(S, states) == {w \in Writers : tx[w].at \in S /\ tx[w].st \in states}

(* BEGIN reaches a backend: default_transaction_read_only is read here,    *)
(* and the router notes whether its own view was fenced (txnPreFence).     *)
Begin(w, s) ==
  /\ w \in plan.writers /\ tx[w].st = "none"
  /\ s \in Primaries(view[w].set) /\ Admitted(w, s)
  /\ tx' = [tx EXCEPT ![w] = [st |-> "open", at |-> s, rw |-> s \notin paused,
                              early |-> FALSE, pre |-> ~view[w].fenced]]
  /\ UNCHANGED <<controlVars, cat, paused, replVars, carried, log, view,
                 pview, envVars>>

(* gateWrite holds a write while the fence is up in the router's view,     *)
(* except in a transaction opened before it.                               *)
GateOpenTo(w) == tx[w].pre \/ ~view[w].fenced

(* A write takes a sequence value, which no subscription carries.          *)
Write(w) ==
  LET s == tx[w].at IN
  /\ tx[w].st = "open" /\ tx[w].rw /\ GateOpenTo(w) /\ Admitted(w, s)
  /\ tx' = [tx EXCEPT ![w].st = "written"]
  /\ carried' = carried \ {Other(SetOf(s))}
  /\ UNCHANGED <<controlVars, cat, paused, replVars, log, view, pview,
                 envVars>>

Committed(w) ==
  /\ log' = [log EXCEPT ![tx[w].at] = Append(@, w)]
  /\ tx' = [tx EXCEPT ![w] = [NoTx EXCEPT !.st = "done"]]

Commit(w) ==
  /\ tx[w].st = "written" /\ w \notin plan.twophase /\ Admitted(w, tx[w].at)
  /\ Committed(w)
  /\ UNCHANGED <<controlVars, cat, paused, replVars, carried, view, pview,
                 envVars>>

(* PREPARE TRANSACTION, which fenceMigrating refuses on a migrating shard. *)
Prepare(w) ==
  LET s == tx[w].at IN
  /\ tx[w].st = "written" /\ w \in plan.twophase
  /\ Admitted(w, s) /\ ~pview[s].migrating
  /\ tx' = [tx EXCEPT ![w].st = "prepared"]
  /\ UNCHANGED <<controlVars, cat, paused, replVars, carried, log, view,
                 pview, envVars>>

(* COMMIT PREPARED, by the router or the resolver; no pause stops it.      *)
CommitPrepared(w) ==
  /\ tx[w].st = "prepared"
  /\ Committed(w)
  /\ UNCHANGED <<controlVars, cat, paused, replVars, carried, view, pview,
                 envVars>>

(* The transaction ends without its write: rolled back, refused by the     *)
(* pooler, failed with 25006 on a paused shard or timed out.               *)
Abandon(w) ==
  /\ tx[w].st \in {"open", "written", "prepared"}
  /\ tx' = [tx EXCEPT ![w] = NoTx]
  /\ UNCHANGED <<controlVars, cat, paused, replVars, carried, log, view,
                 pview, envVars>>

RouterReload(w) ==
  /\ view[w] # RouterView
  /\ view' = [view EXCEPT ![w] = RouterView]
  /\ UNCHANGED <<controlVars, cat, paused, replVars, carried, log, tx, pview,
                 envVars>>

PoolerReload(s) ==
  /\ pview[s] # PoolerView(s)
  /\ pview' = [pview EXCEPT ![s] = PoolerView(s)]
  /\ UNCHANGED <<controlVars, cat, paused, replVars, carried, log, tx, view,
                 envVars>>

-----------------------------------------------------------------------------
(* Logical replication: an enabled subscription applies the next write of  *)
(* its publisher, on a subscriber that takes writes.                       *)
Forward(s) ==
  /\ fwd[s] = "on" /\ fwdAt[s] < Len(log[s]) /\ Target \notin paused
  /\ fwdAt' = [fwdAt EXCEPT ![s] = @ + 1]
  /\ UNCHANGED <<controlVars, cat, paused, fwd, rev, revAt, carried,
                 clientVars, envVars>>

Reverse(s) ==
  /\ rev[s] = "on" /\ revAt[s] < Len(log[Target]) /\ s \notin paused
  /\ revAt' = [revAt EXCEPT ![s] = @ + 1]
  /\ UNCHANGED <<controlVars, cat, paused, fwd, fwdAt, rev, carried,
                 clientVars, envVars>>

(* A standby of the shard is promoted.  The pause is an ALTER SYSTEM, and  *)
(* the agent rewrites postgresql.auto.conf on promotion; the old primary's *)
(* open transactions are gone, its prepared ones are not.                  *)
LosePause(s) ==
  /\ s \in paused /\ lost < plan.lost
  /\ paused' = paused \ {s} /\ lost' = lost + 1
  /\ tx' = [w \in Writers |->
              IF w \in On({s}, {"open", "written"}) THEN NoTx ELSE tx[w]]
  /\ UNCHANGED <<controlVars, cat, replVars, carried, log, view, pview,
                 expired, plan, drift, mig, revert, faults, swept>>

-----------------------------------------------------------------------------
(* The pass: saving, waiting, pausing.                                     *)

shardVars == <<paused, replVars, carried, clientVars>>

Goto(op) == ctl' = [ctl EXCEPT !.op = op]

(* Save and Finish write the row only while its state is the one the pass  *)
(* claimed it in; a pass that finds another gives up (errNotOwner).        *)
Save(r, next) ==
  IF row.state = "running" THEN row' = r /\ ctl' = next
                           ELSE ctl' = Idle /\ UNCHANGED row

BeforeJournal(step) == StepIndex(step) < StepIndex("journal")

(* mayAbort, and the timeout that makes it so.                             *)
MustAbort == row.fenced /\ ~row.journal /\ BeforeJournal(row.step) /\ expired

(* The set whose primaries the pass pauses: the sources for a switch, the  *)
(* targets for a rollback.                                                 *)
Pausing == Primaries(IF row.stage = "rolling_back" THEN "target" ELSE "source")

LiftThen(op) == [ctl EXCEPT !.op = "lift", !.todo = Pausing \intersect cat.claim,
                            !.then = op]
PauseThen(op) == [ctl EXCEPT !.op = "claim", !.then = op]

(* A step is done: the next one is saved, or the switch is undone because  *)
(* the fence has stood too long.                                           *)
StepDone(r) ==
  LET i == StepIndex(row.step) IN
  IF MustAbort
    THEN ctl' = LiftThen("abort") /\ UNCHANGED row
    ELSE IF i = Len(Steps)
      THEN Save([r EXCEPT !.stage = "switched"], Idle)
      ELSE Save([r EXCEPT !.step = Steps[i + 1]], [Idle EXCEPT !.op = Steps[i + 1]])

(* A step has to run again: in the next pass, unless it ran out of time.   *)
Waited ==
  /\ ctl.op = "waited"
  /\ ctl' = IF MustAbort THEN LiftThen("abort") ELSE Idle
  /\ UNCHANGED <<row, cat, shardVars, envVars>>

(* pauseSetClaimed(true): claim, pause each primary, record when.  The     *)
(* instant a pause is confirmed makes every transaction then open early.   *)
PauseClaim ==
  /\ ctl.op = "claim"
  /\ cat' = [cat EXCEPT !.claim = @ \union Pausing, !.instant = @ \ Pausing]
  /\ ctl' = [ctl EXCEPT !.op = "pause", !.todo = Pausing]
  /\ UNCHANGED <<row, shardVars, envVars>>

PauseOne(s) ==
  /\ ctl.op = "pause" /\ s \in ctl.todo
  /\ paused' = paused \union {s}
  /\ tx' = [w \in Writers |->
              IF w \in On({s}, {"open", "written"})
                THEN [tx[w] EXCEPT !.early = TRUE] ELSE tx[w]]
  /\ ctl' = [ctl EXCEPT !.todo = @ \ {s},
                        !.op = IF ctl.todo = {s} THEN "instants" ELSE "pause"]
  /\ UNCHANGED <<row, cat, replVars, carried, log, view, pview, envVars>>

PauseInstants ==
  /\ ctl.op = "instants"
  /\ cat' = [cat EXCEPT !.instant = @ \union (Pausing \intersect cat.claim)]
  /\ Goto(ctl.then)
  /\ UNCHANGED <<row, shardVars, envVars>>

(* pauseSetClaimed(false): unpause what the workflow claimed, then drop    *)
(* the claim.                                                              *)
LiftOne(s) ==
  /\ ctl.op = "lift" /\ s \in ctl.todo
  /\ paused' = paused \ {s}
  /\ ctl' = [ctl EXCEPT !.todo = @ \ {s}]
  /\ UNCHANGED <<row, cat, replVars, carried, clientVars, envVars>>

LiftDrop ==
  /\ ctl.op = "lift" /\ ctl.todo = {}
  /\ cat' = [cat EXCEPT !.claim = @ \ Pausing, !.instant = @ \ Pausing]
  /\ Goto(ctl.then)
  /\ UNCHANGED <<row, shardVars, envVars>>

(* SourcesPaused: claimed, dated, and refusing writes.                     *)
SourcesPaused == Sources \subseteq (cat.claim \intersect cat.instant \intersect paused)

(* drainWriters found no backend that has written or that began before the *)
(* pause.                                                                  *)
Drained(S) == \A w \in On(S, {"open", "written"}) :
                tx[w].st = "open" /\ ~tx[w].early
NonePrepared == On(Sources, {"prepared"}) = {}
Positions == [s \in Sources |-> Len(log[s])]
CaughtUp(pos) == \A s \in Sources : fwdAt[s] >= pos[s]

-----------------------------------------------------------------------------
(* The gate and the switch steps, in order.                                *)

(* The gate is open while every forward subscription is enabled and the    *)
(* lag is low; a closed gate is a pass that changes nothing.               *)
Gate ==
  /\ ctl.op = "idle" /\ row.stage = "awaiting"
  /\ \A s \in Sources : fwd[s] = "on"
  /\ Save([row EXCEPT !.stage = "switching", !.step = "fence"], Idle)
  /\ UNCHANGED <<cat, shardVars, envVars>>

SwitchWrites ==
  /\ ctl.op = "idle" /\ row.stage = "switching"
  /\ Goto(row.step)
  /\ UNCHANGED <<row, cat, shardVars, envVars>>

(* The DDL locks are committed before the fence is claimed.                *)
FenceLock ==
  /\ ctl.op = "fence"
  /\ cat' = [cat EXCEPT !.ddl = TRUE]
  /\ Goto("fenceClaim")
  /\ UNCHANGED <<row, shardVars, envVars>>

Fence ==
  /\ ctl.op = "fenceClaim" /\ ~mig
  /\ cat' = [cat EXCEPT !.fence = @ \union {"source"}]
  /\ StepDone([row EXCEPT !.fenced = TRUE])
  /\ UNCHANGED <<shardVars, envVars>>

Drain ==
  /\ ctl.op = "drain"
  /\ IF NonePrepared THEN StepDone(row) ELSE Goto("waited") /\ UNCHANGED row
  /\ UNCHANGED <<cat, shardVars, envVars>>

(* Sweep takes a SHARE lock on every table, which a writer's lock refuses. *)
Sweep ==
  /\ ctl.op = "sweep"
  /\ IF On(Sources, {"written", "prepared"}) = {}
       THEN StepDone(row) ELSE Goto("waited") /\ UNCHANGED row
  /\ UNCHANGED <<cat, shardVars, envVars>>

RecordPositions ==
  /\ ctl.op = "positions"
  /\ StepDone([row EXCEPT !.positions = Positions])
  /\ UNCHANGED <<cat, shardVars, envVars>>

CatchUp ==
  /\ ctl.op = "catch_up"
  /\ IF CaughtUp(row.positions)
       THEN StepDone(row) ELSE Goto("waited") /\ UNCHANGED row
  /\ UNCHANGED <<cat, shardVars, envVars>>

(* A first disagreement, or one a moving source explains, is asked again;  *)
(* the same one twice is fatal.                                            *)
Verify ==
  /\ ctl.op = "verify"
  /\ \/ ~plan.differs /\ StepDone([row EXCEPT !.mismatch = FALSE])
     \/ /\ ~row.mismatch /\ plan.differs
        /\ Save([row EXCEPT !.mismatch = TRUE], [ctl EXCEPT !.op = "waited"])
     \/ /\ ~plan.differs /\ On(Sources, {"written"}) # {}
        /\ Save([row EXCEPT !.mismatch = FALSE], [ctl EXCEPT !.op = "waited"])
     \/ row.mismatch /\ plan.differs /\ ctl' = LiftThen("fatal") /\ UNCHANGED row
  /\ UNCHANGED <<cat, shardVars, envVars>>

(* The reverse subscriptions are created disabled, from the targets'       *)
(* present position.                                                       *)
ReverseStep ==
  /\ ctl.op = "reverse"
  /\ rev' = [s \in Sources |-> IF rev[s] = "none" THEN "off" ELSE rev[s]]
  /\ StepDone(row)
  /\ UNCHANGED <<cat, paused, fwd, fwdAt, revAt, carried, clientVars, envVars>>

(* quiesceSources: pause, drain the writers, then look for prepared        *)
(* transactions, then compare positions.  Having to wait lifts the pause.  *)
Quiesce ==
  /\ ctl.op = "quiesce"
  /\ ctl' = PauseThen("drainSources")
  /\ UNCHANGED <<row, cat, shardVars, envVars>>

DrainSources ==
  /\ ctl.op = "drainSources"
  /\ IF Drained(Sources) THEN Goto("drainPrepared") ELSE ctl' = LiftThen("waited")
  /\ UNCHANGED <<row, cat, shardVars, envVars>>

(* Mutant: prepared transactions are not looked for.                       *)
DrainPreparedBlind ==
  /\ ctl.op = "drainPrepared"
  /\ ctl' = [ctl EXCEPT !.op = "position", !.then = "quiesced"]
  /\ UNCHANGED <<row, cat, shardVars, envVars>>

DrainPrepared ==
  /\ ctl.op = "drainPrepared"
  /\ ctl' = IF NonePrepared THEN [ctl EXCEPT !.op = "position", !.then = "quiesced"]
                            ELSE LiftThen("waited")
  /\ UNCHANGED <<row, cat, shardVars, envVars>>

(* Positions and CaughtUp, as quiesce, flip and swap ask them.             *)
ReadPositions ==
  /\ ctl.op = "position"
  /\ ctl' = [ctl EXCEPT !.op = "caughtUp", !.pos = [s \in Shards |-> Len(log[s])]]
  /\ UNCHANGED <<row, cat, shardVars, envVars>>

CheckCaughtUp ==
  /\ ctl.op = "caughtUp"
  /\ ctl' = IF CaughtUp(ctl.pos) THEN [ctl EXCEPT !.op = ctl.then, !.pos = Idle.pos]
            ELSE IF ctl.then = "quiesced" THEN LiftThen("waited")
            ELSE [ctl EXCEPT !.op = "waited"]
  /\ UNCHANGED <<row, cat, shardVars, envVars>>

Quiesced ==
  /\ ctl.op = "quiesced"
  /\ IF row.step = "quiesce"
       THEN StepDone(row)
       ELSE /\ ctl' = [ctl EXCEPT !.op = "position", !.then = "flipMap"]
            /\ UNCHANGED row
  /\ UNCHANGED <<cat, shardVars, envVars>>

(* Sequences are set on the targets to the greater of both.                *)
CarrySequences ==
  /\ ctl.op = "sequences"
  /\ carried' = carried \union {"target"}
  /\ StepDone(row)
  /\ UNCHANGED <<cat, paused, replVars, clientVars, envVars>>

(* The journal id is saved before the rows that carry it are written.      *)
JournalID ==
  /\ ctl.op = "journal"
  /\ Save([row EXCEPT !.journal = TRUE], [ctl EXCEPT !.op = "journalRows"])
  /\ UNCHANGED <<cat, shardVars, envVars>>

Journal ==
  /\ ctl.op = "journalRows"
  /\ cat' = [cat EXCEPT !.journal = TRUE]
  /\ StepDone(row)
  /\ UNCHANGED <<shardVars, envVars>>

(* Mutant: a flip that finds its pause gone waits for it.                  *)
FlipPausedWaits ==
  /\ ctl.op = "flip"
  /\ Goto(IF SourcesPaused THEN "flipDrain" ELSE "waited")
  /\ UNCHANGED <<row, cat, shardVars, envVars>>

(* A pause that stood is drained under again; one that did not is quiesced *)
(* afresh.                                                                 *)
FlipPaused ==
  /\ ctl.op = "flip"
  /\ ctl' = IF SourcesPaused THEN [ctl EXCEPT !.op = "flipDrain"]
                             ELSE PauseThen("drainSources")
  /\ UNCHANGED <<row, cat, shardVars, envVars>>

FlipDrain ==
  /\ ctl.op = "flipDrain"
  /\ ctl' = IF Drained(Sources) THEN [ctl EXCEPT !.op = "position", !.then = "flipMap"]
                                ELSE [ctl EXCEPT !.op = "waited"]
  /\ UNCHANGED <<row, cat, shardVars, envVars>>

(* One catalog transaction: the targets serve, unfenced, and the map       *)
(* generation moves.  A target set that was dropped is an error.           *)
Flip ==
  /\ ctl.op = "flipMap"
  /\ IF cat.target
       THEN /\ cat' = IF cat.serving = "target" THEN cat
                      ELSE [cat EXCEPT !.serving = "target", !.gen = @ + 1,
                                       !.fence = @ \ {"target"}]
            /\ StepDone(row)
       ELSE Goto("waited") /\ UNCHANGED <<row, cat>>
  /\ UNCHANGED <<shardVars, envVars>>

Swap ==
  LET stood == SourcesPaused
      resuming == row.disabling /\ \E s \in Sources : fwd[s] = "off"
      c == [ctl EXCEPT !.stood = stood, !.resuming = resuming] IN
  /\ ctl.op = "swap"
  /\ ctl' = IF stood THEN [c EXCEPT !.op = "swapDrain"]
                     ELSE [c EXCEPT !.op = "claim", !.then = "swapDrain"]
  /\ UNCHANGED <<row, cat, shardVars, envVars>>

(* The comparison of positions is skipped when forward replication is      *)
(* already half off, since it can no longer come true.                     *)
SwapDrain ==
  /\ ctl.op = "swapDrain"
  /\ ctl' = IF Drained(Sources)
              THEN IF ctl.resuming THEN [ctl EXCEPT !.op = "swapSequences"]
                   ELSE [ctl EXCEPT !.op = "position", !.then = "swapSequences"]
            ELSE IF ~ctl.stood /\ ~ctl.resuming THEN LiftThen("waited")
            ELSE [ctl EXCEPT !.op = "waited"]
  /\ UNCHANGED <<row, cat, shardVars, envVars>>

SwapSequences ==
  /\ ctl.op = "swapSequences"
  /\ carried' = carried \union {"target"}
  /\ Goto("disabling")
  /\ UNCHANGED <<row, cat, paused, replVars, clientVars, envVars>>

(* Mutant: the sources take writes again before their replication is off.  *)
DisablingUnpaused ==
  /\ ctl.op = "disabling"
  /\ Save([row EXCEPT !.disabling = TRUE],
          [ctl EXCEPT !.op = "disable", !.todo = Sources])
  /\ paused' = paused \ Sources
  /\ UNCHANGED <<cat, replVars, carried, clientVars, envVars>>

Disabling ==
  /\ ctl.op = "disabling"
  /\ Save([row EXCEPT !.disabling = TRUE],
          [ctl EXCEPT !.op = "disable", !.todo = Sources])
  /\ UNCHANGED <<cat, shardVars, envVars>>

DisableForward(s) ==
  /\ ctl.op = "disable" /\ s \in ctl.todo
  /\ fwd' = [fwd EXCEPT ![s] = "off"]
  /\ ctl' = IF ctl.todo = {s} THEN LiftThen("enableReverse")
                              ELSE [ctl EXCEPT !.todo = @ \ {s}]
  /\ UNCHANGED <<row, cat, paused, fwdAt, rev, revAt, carried, clientVars,
                 envVars>>

EnableReverse ==
  /\ ctl.op = "enableReverse"
  /\ rev' = [s \in Sources |-> "on"]
  /\ StepDone(row)
  /\ UNCHANGED <<cat, paused, fwd, fwdAt, revAt, carried, clientVars, envVars>>

(* Release drops the fence on the sources and the DDL locks.               *)
Released(c) == [c EXCEPT !.fence = @ \ {"source"}, !.ddl = FALSE]

Release ==
  /\ ctl.op = "release"
  /\ cat' = Released(cat)
  /\ StepDone(row)
  /\ UNCHANGED <<shardVars, envVars>>

(* Mutant: an abort leaves the fence.                                      *)
AbortFenced == ctl.op = "abort" /\ Goto("aborted") /\ UNCHANGED <<row, cat, shardVars, envVars>>

(* abortSwitch: the pause is already lifted; release, then save.           *)
Abort ==
  /\ ctl.op = "abort"
  /\ cat' = Released(cat)
  /\ Goto("aborted")
  /\ UNCHANGED <<row, shardVars, envVars>>

Aborted ==
  /\ ctl.op = "aborted"
  /\ IF row.attempts + 1 >= MaxAttempts
       THEN Goto("fail") /\ UNCHANGED <<row, expired>>
       ELSE /\ Save([row EXCEPT !.stage = "awaiting", !.step = "none",
                                !.fenced = FALSE, !.attempts = @ + 1,
                                !.positions = [s \in Sources |-> 0]], Idle)
            /\ expired' = (row' = row /\ expired)
  /\ UNCHANGED <<cat, shardVars, plan, drift, mig, revert, faults, lost, swept>>

(* A fatal step releases the fence; then the workflow fails.               *)
Fatal ==
  /\ ctl.op = "fatal"
  /\ cat' = Released(cat)
  /\ Goto("fail")
  /\ UNCHANGED <<row, shardVars, envVars>>

(* fail: dropReplication in both directions, then the state.               *)
Fail ==
  /\ ctl.op = "fail"
  /\ fwd' = [s \in Sources |-> "gone"] /\ rev' = [s \in Sources |-> "gone"]
  /\ Save([row EXCEPT !.state = "failed", !.stage = "failed"], Idle)
  /\ UNCHANGED <<cat, paused, fwdAt, revAt, carried, clientVars, envVars>>

-----------------------------------------------------------------------------
(* After the switch: retirement, or rollback.                              *)

Retire ==
  /\ ctl.op = "idle" /\ row.stage = "switched"
  /\ Save([row EXCEPT !.stage = "completing"], Idle)
  /\ UNCHANGED <<cat, shardVars, envVars>>

AskRollback ==
  /\ ctl.op = "idle" /\ row.stage = "switched" /\ plan.rollback /\ ~row.refused
  /\ Save([row EXCEPT !.stage = "rolling_back"], Idle)
  /\ UNCHANGED <<cat, shardVars, envVars>>

(* Rollback: already flipped back, waiting for a migration, refused for a  *)
(* changed schema, or on to the fence of both sets.                        *)
StartRollback ==
  /\ ctl.op = "idle" /\ row.stage = "rolling_back"
  /\ \/ /\ cat.serving = "source"
        /\ ctl' = PauseThen("rbRelease") /\ UNCHANGED cat
     \/ /\ cat.serving = "target" /\ mig
        /\ Goto("rbRetry") /\ UNCHANGED cat
     \/ /\ cat.serving = "target" /\ ~mig /\ drift
        /\ cat' = [cat EXCEPT !.fence = {}]
        /\ ctl' = LiftThen("rbRefused")
     \/ /\ cat.serving = "target" /\ ~mig /\ ~drift
        /\ cat' = [cat EXCEPT !.fence = {"source", "target"}]
        /\ ctl' = PauseThen("rbDrain")
  /\ UNCHANGED <<row, shardVars, envVars>>

(* A drain that times out is an error of the pass, not a counted retry.    *)
RollbackDrain ==
  /\ ctl.op = "rbDrain"
  /\ ctl' = IF Drained({Target}) THEN [ctl EXCEPT !.op = "rbPosition"]
                                 ELSE LiftThen("idle")
  /\ UNCHANGED <<row, cat, shardVars, envVars>>

RollbackPosition ==
  /\ ctl.op = "rbPosition"
  /\ ctl' = [ctl EXCEPT !.op = "rbBehind", !.pos[Target] = Len(log[Target])]
  /\ UNCHANGED <<row, cat, shardVars, envVars>>

(* Mutant: the sources need not hold the targets' last writes.             *)
ReverseBehindIgnored ==
  /\ ctl.op = "rbBehind"
  /\ Goto("rbSequences")
  /\ UNCHANGED <<row, cat, shardVars, envVars>>

ReverseBehind ==
  /\ ctl.op = "rbBehind"
  /\ ctl' = IF \A s \in Sources : revAt[s] >= ctl.pos[Target]
              THEN [ctl EXCEPT !.op = "rbSequences"] ELSE LiftThen("rbRetry")
  /\ UNCHANGED <<row, cat, shardVars, envVars>>

RollbackSequences ==
  /\ ctl.op = "rbSequences"
  /\ carried' = carried \union {"source"}
  /\ Goto("rbFlip")
  /\ UNCHANGED <<row, cat, paused, replVars, clientVars, envVars>>

FlippedBack == [cat EXCEPT !.serving = "source", !.gen = @ + 1]

FlipBack ==
  /\ ctl.op = "rbFlip"
  /\ cat' = FlippedBack
  /\ Goto("rbRelease")
  /\ UNCHANGED <<row, shardVars, envVars>>

(* releaseRollback lifts the fence of both sets and the locks; Complete    *)
(* follows in the same pass.                                               *)
ReleaseRollback ==
  /\ ctl.op = "rbRelease"
  /\ cat' = [cat EXCEPT !.fence = {}, !.ddl = FALSE]
  /\ Goto("dropReverse")
  /\ UNCHANGED <<row, shardVars, envVars>>

(* errRetry is counted, and gives the rollback up at the limit.            *)
RollbackRetry ==
  /\ ctl.op = "rbRetry"
  /\ LET r == [row EXCEPT !.retries = @ + 1] IN
       Save(IF r.retries >= MaxAttempts
              THEN [r EXCEPT !.stage = "switched", !.refused = TRUE] ELSE r, Idle)
  /\ UNCHANGED <<cat, shardVars, envVars>>

RollbackRefused ==
  /\ ctl.op = "rbRefused"
  /\ Save([row EXCEPT !.stage = "switched", !.refused = TRUE], Idle)
  /\ UNCHANGED <<cat, shardVars, envVars>>

-----------------------------------------------------------------------------
(* Complete: the reverse subscriptions, the forward ones, then the         *)
(* retirement pause, which no one owns and which may not take.             *)
StartComplete ==
  /\ ctl.op = "idle" /\ row.stage = "completing"
  /\ Goto("dropReverse")
  /\ UNCHANGED <<row, cat, shardVars, envVars>>

DropReverse ==
  /\ ctl.op = "dropReverse"
  /\ rev' = [s \in Sources |-> "gone"]
  /\ Goto("dropForward")
  /\ UNCHANGED <<row, cat, paused, fwd, fwdAt, revAt, carried, clientVars,
                 envVars>>

DropForward ==
  /\ ctl.op = "dropForward"
  /\ fwd' = [s \in Sources |-> "gone"]
  /\ Goto("retirePause")
  /\ UNCHANGED <<row, cat, paused, fwdAt, rev, revAt, carried, clientVars,
                 envVars>>

RetirePause ==
  LET retired == Primaries(Other(cat.serving)) IN
  /\ ctl.op = "retirePause"
  /\ cat' = [cat EXCEPT !.claim = @ \ retired, !.instant = @ \ retired]
  /\ paused' \in {paused, paused \union retired}
  /\ Goto("finish")
  /\ UNCHANGED <<row, replVars, carried, clientVars, envVars>>

Finish ==
  /\ ctl.op = "finish"
  /\ Save(IF row.stage = "completing"
            THEN [row EXCEPT !.state = "completed", !.stage = "completed"]
            ELSE [row EXCEPT !.state = "cancelled", !.stage = "rolled_back"],
          Idle)
  /\ UNCHANGED <<cat, shardVars, envVars>>

-----------------------------------------------------------------------------
(* A reverted spec.shards: the operator reads the phase, then drops the    *)
(* target set in a transaction of its own, which nothing keeps from landing*)
(* after the journal; the reconciler marks the workflow of a set that      *)
(* vanished; the copier cleans up.                                         *)
RevertSeen ==
  /\ plan.revert /\ ~revert
  /\ row.stage = "awaiting" \/ row.state = "failed"
  /\ revert' = TRUE
  /\ UNCHANGED <<controlVars, cat, shardVars, expired, plan, drift, mig,
                 faults, lost, swept>>

RevertDrop ==
  /\ revert /\ cat.target
  /\ cat' = [cat EXCEPT !.target = FALSE]
  /\ UNCHANGED <<controlVars, shardVars, envVars>>

ReconcileCancel ==
  /\ ~cat.target /\ row.state = "running"
  /\ row' = [row EXCEPT !.state = "cancelled", !.stage = "cancelling"]
  /\ UNCHANGED <<ctl, cat, shardVars, envVars>>

Cancel ==
  /\ ctl.op = "idle" /\ row.stage = "cancelling"
  /\ fwd' = [s \in Sources |-> "gone"]
  /\ Goto("unwind")
  /\ UNCHANGED <<row, cat, paused, fwdAt, rev, revAt, carried, clientVars,
                 envVars>>

(* Mutant: the stage is asked, which the reconciler has overwritten.       *)
CutoverStartedByStage == row.stage \in {"switching", "switched", "rolling_back"}

(* cutoverStarted, from what the cutover recorded.                         *)
CutoverStarted == row.step # "none" \/ row.fenced

Unwind ==
  /\ ctl.op = "unwind"
  /\ rev' = IF CutoverStarted THEN [s \in Sources |-> "gone"] ELSE rev
  /\ cat' = [cat EXCEPT !.fence = {}, !.ddl = @ /\ ~CutoverStarted]
  /\ Goto("cancelled")
  /\ UNCHANGED <<row, paused, fwd, fwdAt, revAt, carried, clientVars, envVars>>

Cancelled ==
  /\ ctl.op = "cancelled"
  /\ row' = [row EXCEPT !.stage = "cancelled"]
  /\ ctl' = Idle
  /\ UNCHANGED <<cat, shardVars, envVars>>

-----------------------------------------------------------------------------
(* WritePauseSweep: one loop, which lifts a claimed pause whose workflow   *)
(* is over, the shard first and the claim second, and puts the retirement  *)
(* pause back where nothing replicates in.                                 *)
keptBySweep == <<controlVars, replVars, carried, clientVars, expired, plan,
                 drift, mig, revert, faults, lost>>

SweepUnpause(s) ==
  /\ swept = {} /\ s \in cat.claim /\ row.state \in Terminal
  /\ paused' = paused \ {s} /\ swept' = {s}
  /\ UNCHANGED <<cat, keptBySweep>>

(* The second statement, whatever became of the shard since; a sweep that  *)
(* dies or fails before it leaves the claim to the next one.               *)
SweepRelease(s) ==
  /\ s \in swept
  /\ \/ cat' = [cat EXCEPT !.claim = @ \ {s}, !.instant = @ \ {s}]
     \/ UNCHANGED cat
  /\ swept' = {}
  /\ UNCHANGED <<paused, keptBySweep>>

RetiredSet == IF row.stage = "rolled_back" THEN {Target}
              ELSE IF cat.serving = "target" THEN Sources ELSE {}

(* An enabled subscription on the primary.                                 *)
Subscribed(s) == IF s = Target THEN \E p \in Sources : fwd[p] = "on"
                               ELSE rev[s] = "on"

Reassert(s) ==
  /\ swept = {} /\ row.state \in Terminal
  /\ s \in RetiredSet \ (cat.claim \union paused) /\ ~Subscribed(s)
  /\ paused' = paused \union {s}
  /\ UNCHANGED <<controlVars, cat, replVars, carried, clientVars, envVars>>

-----------------------------------------------------------------------------
(* The environment of the pass.                                            *)

(* A migration starts when neither a DDL lock nor the workflow's stage     *)
(* holds it, and reaches the set that serves when it ends.                 *)
MigrationStarts ==
  /\ ~mig /\ ~drift /\ ~cat.ddl /\ row.stage = "switched" /\ plan.rollback
  /\ mig' = TRUE
  /\ UNCHANGED <<controlVars, cat, shardVars, expired, plan, drift,
                 revert, faults, lost, swept>>

MigrationEnds ==
  /\ mig
  /\ mig' = FALSE /\ drift' = TRUE
  /\ UNCHANGED <<controlVars, cat, shardVars, expired, plan, revert,
                 faults, lost, swept>>

Timeout ==
  /\ row.fenced /\ ~row.journal /\ ~expired /\ row.state = "running"
  /\ expired' = TRUE
  /\ UNCHANGED <<controlVars, cat, shardVars, plan, drift, mig, revert,
                 faults, lost, swept>>

Fault == faults < plan.faults /\ faults' = faults + 1

(* The controller dies, or the operation it is at fails: the next pass     *)
(* starts from the saved record.                                           *)
Crash ==
  /\ ctl.op # "idle" /\ Fault
  /\ ctl' = Idle
  /\ UNCHANGED <<row, cat, shardVars, expired, plan, drift, mig, revert,
                 lost, swept>>

(* An operation that fails while the pass lives, where the code then lifts *)
(* the pause: inside quiesceSources, and in Rollback before the flip back. *)
InQuiesce ==
  \/ ctl.op \in {"claim", "pause", "instants"} /\ ctl.then = "drainSources"
  \/ ctl.op \in {"drainSources", "drainPrepared"}
  \/ ctl.op \in {"position", "caughtUp"} /\ ctl.then = "quiesced"
InRollback == ctl.op \in {"rbDrain", "rbPosition", "rbBehind", "rbSequences",
                          "rbFlip"}

OperationFails ==
  /\ Fault
  /\ \/ InQuiesce /\ ctl' = LiftThen("waited")
     \/ InRollback /\ ctl' = LiftThen("idle")
  /\ UNCHANGED <<row, cat, shardVars, expired, plan, drift, mig, revert,
                 lost, swept>>

-----------------------------------------------------------------------------
SwitchStep ==
  \/ Gate \/ SwitchWrites \/ FenceLock \/ Fence \/ Drain \/ Sweep
  \/ RecordPositions \/ CatchUp \/ Verify \/ ReverseStep \/ Quiesce
  \/ DrainSources \/ DrainPrepared \/ ReadPositions \/ CheckCaughtUp
  \/ Quiesced \/ CarrySequences \/ JournalID \/ Journal \/ FlipPaused
  \/ FlipDrain \/ Flip \/ Swap \/ SwapDrain \/ SwapSequences \/ Disabling
  \/ (\E s \in Sources : DisableForward(s)) \/ EnableReverse \/ Release
PauseStep ==
  \/ PauseClaim \/ (\E s \in Shards : PauseOne(s)) \/ PauseInstants
  \/ (\E s \in Shards : LiftOne(s)) \/ LiftDrop \/ Waited
UndoStep ==
  Abort \/ Aborted \/ Fatal \/ Fail
RollbackStep ==
  \/ AskRollback \/ StartRollback \/ RollbackDrain \/ RollbackPosition
  \/ ReverseBehind \/ RollbackSequences \/ FlipBack
  \/ ReleaseRollback \/ RollbackRetry \/ RollbackRefused
CompleteStep ==
  Retire \/ StartComplete \/ DropReverse \/ DropForward \/ RetirePause \/ Finish
Controller == SwitchStep \/ PauseStep \/ UndoStep \/ RollbackStep \/ CompleteStep

Client(w) ==
  \/ (\E s \in Shards : Begin(w, s))
  \/ Write(w) \/ Commit(w) \/ Prepare(w) \/ CommitPrepared(w) \/ Abandon(w)
Replication == \E s \in Sources : Forward(s) \/ Reverse(s)
Reloads == (\E w \in Writers : RouterReload(w)) \/ (\E s \in Shards : PoolerReload(s))
Sweeps == \E s \in Shards : SweepUnpause(s) \/ SweepRelease(s) \/ Reassert(s)
Reverts == RevertSeen \/ RevertDrop
Cancels == ReconcileCancel \/ Cancel \/ Unwind \/ Cancelled
Environment ==
  \/ MigrationStarts \/ MigrationEnds \/ Timeout \/ Crash \/ OperationFails
  \/ (\E s \in Shards : LosePause(s))

Next == \/ Controller \/ Cancels \/ Replication \/ Reloads \/ Sweeps
        \/ Environment \/ Reverts \/ (\E w \in Writers : Client(w))
Spec == Init /\ [][Next]_vars

(* Fairness.  The controller runs its passes every tick, apply workers and *)
(* snapshot reloads run for good, a timeout comes, a migration ends.       *)
Fairness ==
  /\ WF_vars(Controller) /\ WF_vars(Cancels)
  /\ \A s \in Sources : WF_vars(Forward(s)) /\ WF_vars(Reverse(s))
  /\ \A w \in Writers : WF_vars(RouterReload(w))
  /\ \A s \in Shards : WF_vars(PoolerReload(s))
  /\ WF_vars(MigrationEnds) /\ WF_vars(Timeout)

(* That clients end their transactions is an assumption of its own: nothing*)
(* in the code ends one.  A drain polls until its timeout, so of endless   *)
(* chances to end one while a drain waits, a client takes some.            *)
Ends(w) == Commit(w) \/ CommitPrepared(w) \/ Abandon(w)
Draining == ctl.op \in {"drainSources", "flipDrain", "swapDrain", "rbDrain"}
TransactionsEnd ==
  \A w \in Writers : WF_vars(Ends(w)) /\ SF_vars(Draining /\ Ends(w))

-----------------------------------------------------------------------------
(* Properties.                                                             *)

(* The workflow record, the pass, the catalog and the clients hold values  *)
(* of their types.                                                         *)
TypeOK ==
  /\ row \in [state : {"running"} \union Terminal, stage : Stages,
              step : {Steps[i] : i \in DOMAIN Steps} \union {"none"},
              fenced : BOOLEAN, journal : BOOLEAN, disabling : BOOLEAN,
              mismatch : BOOLEAN, positions : [Sources -> Nat],
              attempts : 0..(MaxAttempts - 1), refused : BOOLEAN,
              retries : 0..MaxAttempts]
  /\ ctl \in [op : Ops, todo : SUBSET Shards, then : Ops, stood : BOOLEAN,
              resuming : BOOLEAN, pos : [Shards -> Nat]]
  /\ cat \in [serving : {"source", "target"}, gen : 1..3,
              fence : SUBSET {"source", "target"}, ddl : BOOLEAN,
              journal : BOOLEAN, claim : SUBSET Shards,
              instant : SUBSET cat.claim, target : BOOLEAN]
  /\ paused \in SUBSET Shards /\ carried \in SUBSET {"source", "target"}
  /\ log \in [Shards -> Seq(Writers)]
  /\ fwd \in [Sources -> {"on", "off", "gone"}]
  /\ rev \in [Sources -> {"none", "off", "on", "gone"}]
  /\ \A s \in Sources : fwdAt[s] \in 0..Len(log[s]) /\ revAt[s] \in 0..Len(log[Target])
  /\ tx \in [Writers -> [st : {"none", "open", "written", "prepared", "done"},
                         at : Shards, rw : BOOLEAN, early : BOOLEAN, pre : BOOLEAN]]
  /\ view \in [Writers -> [set : {"source", "target"}, gen : 1..3, fenced : BOOLEAN]]
  /\ pview \in [Shards -> [gen : 1..3, migrating : BOOLEAN]]
  /\ plan \in PlanType /\ {expired, drift, mig, revert} \subseteq BOOLEAN
  /\ faults \in 0..plan.faults /\ lost \in 0..plan.lost
  /\ swept \in SUBSET Shards

(* The transactions that can still commit a write on one of S.             *)
CanCommit(S) == On(S, {"written", "prepared"}) \union
                {w \in On(S, {"open"}) : tx[w].rw}

(* Nothing committed on a source reaches a target that already serves:     *)
(* quiesce leaves no transaction that could commit one, and flip finds     *)
(* the targets level.  A write carried after the flip would land on top of *)
(* newer ones.                                                             *)
ForwardStopsAtFlip == [][fwdAt' # fwdAt => cat.serving = "source"]_vars

(* swap_replication disables the subscription to a source only when all    *)
(* committed there is applied and no transaction can commit there any more,*)
(* so no acknowledged write stays on a retired source.                     *)
NothingLeftBehind ==
  [][\A s \in Sources : fwd[s] = "on" /\ fwd'[s] = "off" =>
       fwdAt[s] = Len(log[s]) /\ CanCommit({s}) = {}]_vars

(* A rollback that returned serving to the sources drops the reverse       *)
(* subscriptions only when the sources hold every write of the targets.    *)
RollbackKeepsWrites ==
  [][\A s \in Sources :
       rev[s] = "on" /\ rev'[s] = "gone" /\ cat.serving = "source" =>
         revAt[s] = Len(log[Target]) /\ CanCommit({Target}) = {}]_vars

(* A cancelled run leaves nothing on the sources, which go on serving: no  *)
(* fence, no DDL lock and no replication, wherever in a pass it came.  The *)
(* reverse subscriptions of a switch undone before do stay.                *)
CancelUndone ==
  row.stage = "cancelled" =>
    /\ cat.fence = {} /\ ~cat.ddl
    /\ \A s \in Sources : fwd[s] = "gone" /\ (row.attempts > 0 \/ rev[s] \in {"none", "gone"})

(* The set that starts to serve hands out no sequence value the other did. *)
SequencesCarried ==
  [][cat'.serving # cat.serving => cat'.serving \in carried]_vars

(* A switch ends, released or undone, also when a promotion drops the      *)
(* pause, and a rollback ends, flipped back, refused or given up: neither  *)
(* holds DDL and the fence for ever.                                       *)
Busy == row.stage \in {"switching", "rolling_back"}
StageEnds == Busy ~> ~Busy

(* A serving primary refusing writes takes them again, and a fenced        *)
(* serving set is released, but for the fence a rollback that gave up      *)
(* leaves behind.                                                          *)
WritesResume ==
  (paused \intersect Primaries(cat.serving) # {} \/ cat.serving \in cat.fence)
    ~> \/ paused \intersect Primaries(cat.serving) = {} /\ cat.serving \notin cat.fence
       \/ row.refused
====
