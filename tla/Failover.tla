------------------------------ MODULE Failover ------------------------------
(***************************************************************************)
(* The failover of one PostgreSQL group: the operator's reconcile pass     *)
(* (internal/operator/failover.go and the group pass of reconciler.go),    *)
(* the agents that supervise the members (internal/agent: run.go,          *)
(* server.go, instance.go, epoch.go, lease.go) and the objects they share  *)
(* (the Lease, the PgShardGroup status, the shard_status row, the role     *)
(* labels behind the -rw Service and the ConfigMap that names the primary).*)
(*                                                                         *)
(* A member's WAL is the sequence of the commits in it, each commit a      *)
(* number of its own, so that two histories of one length differ.  A       *)
(* commit is acknowledged once NumSync standbys that stream from its       *)
(* primary flushed it (synchronous_standby_names = ANY NumSync of every    *)
(* other member).                                                          *)
(*                                                                         *)
(* Time is abstracted: a Lease is expired or not.  One timing fact is      *)
(* assumed, at FencePod: when the wait for the old primary's Pod is over,  *)
(* its PostgreSQL is down, stopped by the kubelet or, on a cut-off node,   *)
(* by its own agent (15s Lease, 8s shutdown, against the 30s waits of      *)
(* quiesce and fencePod each).                                             *)
(*                                                                         *)
(* Abstracted: logical slots (a tie is broken any way, and stays broken    *)
(* that way through one failover), the barrier's write pause, connection   *)
(* exhaustion, volumes and rollouts.  One pass runs at a time, as          *)
(* controller-runtime guarantees for one object.                           *)
(***************************************************************************)
EXTENDS Naturals, Sequences, FiniteSets, SequencesExt

CONSTANTS
  Members,     \* the members of the group, by name
  First,       \* the member the group was created with as its primary
  None,        \* no member
  Operator,    \* FenceHolder, the identity the operator holds the Lease under
  Plans        \* what a behaviour may be about

(* A plan: spec.durability.minSyncStandbys, how many commits are written,  *)
(* the highest epoch the operator publishes, and how often something fails *)
(* or a switchover is asked for.                                           *)
PlanType == [sync : 1..(Cardinality(Members) - 1), writes : Nat, epochs : Nat,
             faults : Nat]

ASSUME MembersAssumption ==
  /\ IsFiniteSet(Members) /\ First \in Members
  /\ None \notin Members /\ Operator \notin Members /\ None # Operator

ASSUME BoundsAssumption == \A p \in Plans : p \in PlanType

VARIABLES
  wal,      \* wal[m]: the commits flushed in m's WAL
  written,  \* how many commits were written so far
  acked,    \* the commits some client was told of
  pod,      \* pod[m]: m has a Pod
  pg,       \* pg[m]: its PostgreSQL: "off", "standby" or "primary"
  signal,   \* signal[m]: standby.signal is in its PGDATA
  pending,  \* pending[m]: the pgshard_promotion_pending marker
  src,      \* src[m]: the member m streams from
  epoch,    \* epoch[m]: the last epoch m's agent accepted, on disk
  job,      \* job[m]: what m's agent is doing
  hold,     \* hold[m]: m's agent renews the Lease
  lease,    \* the group Lease: its holder, and whether it expired
  note,     \* the primary and epoch its annotations carry
  row,      \* the shard_status row: primary and epoch
  status,   \* PgShardGroup.status: primary and epoch
  seen,     \* the members status.members last recorded as Ready
  kept,     \* the synchronous set the annotation remembers
  rw,       \* the members labelled primary, which -rw selects
  conf,     \* the primary the ConfigMap names
  op,       \* the operator's pass
  faults,   \* how many faults have happened
  plan      \* the plan of this behaviour

walVars == <<wal, written, acked>>
agentVars == <<pod, pg, signal, pending, src, epoch, job, hold>>
recordVars == <<note, row, status, seen, kept, rw, conf>>
sharedVars == <<lease, recordVars>>
vars == <<walVars, agentVars, sharedVars, op, faults, plan>>

Running == {"standby", "primary"}
Jobs == {"none", "boot", "acquire", "turn", "setup", "follow"}
Steps == {"idle", "fence", "quiesce", "fencePod", "confirm", "publishRow",
          "publishStatus", "publishLease", "promote"}
Maybe == Members \union {None}

(* A pass: its step, the member it fails away from, the one a switchover   *)
(* asked for, the candidate and the epoch it is promoted with.             *)
Idle == [pc |-> "idle", old |-> None, planned |-> None, cand |-> None,
         epoch |-> 0]

(* Every component holds a value of its type.                              *)
TypeOK ==
  /\ wal \in [Members -> Seq(1..plan.writes)]
  /\ written \in 0..plan.writes
  /\ acked \subseteq 1..plan.writes
  /\ pod \in [Members -> BOOLEAN]
  /\ pg \in [Members -> Running \union {"off"}]
  /\ signal \in [Members -> BOOLEAN]
  /\ pending \in [Members -> BOOLEAN]
  /\ src \in [Members -> Maybe]
  /\ epoch \in [Members -> 0..plan.epochs]
  /\ job \in [Members -> Jobs]
  /\ hold \in [Members -> BOOLEAN]
  /\ lease \in [holder : Maybe \union {Operator}, expired : BOOLEAN]
  /\ note \in [primary : Maybe, epoch : 0..plan.epochs]
  /\ row \in [primary : Members, epoch : 0..plan.epochs]
  /\ status \in [primary : Members, epoch : 0..plan.epochs]
  /\ seen \subseteq Members
  /\ kept \subseteq Members
  /\ rw \subseteq Members
  /\ conf \in Members
  /\ op \in [pc : Steps, old : Maybe, planned : Maybe, cand : Maybe,
             epoch : 0..plan.epochs]
  /\ plan \in PlanType /\ faults \in 0..plan.faults

(* A group that came up: First serves, the others stream from it.          *)
Init ==
  /\ wal = [m \in Members |-> <<>>]
  /\ written = 0
  /\ acked = {}
  /\ pod = [m \in Members |-> TRUE]
  /\ pg = [m \in Members |-> IF m = First THEN "primary" ELSE "standby"]
  /\ signal = [m \in Members |-> m # First]
  /\ pending = [m \in Members |-> FALSE]
  /\ src = [m \in Members |-> IF m = First THEN None ELSE First]
  /\ epoch = [m \in Members |-> 0]
  /\ job = [m \in Members |-> "none"]
  /\ hold = [m \in Members |-> m = First]
  /\ lease = [holder |-> First, expired |-> FALSE]
  /\ note = [primary |-> None, epoch |-> 0]
  /\ row = [primary |-> First, epoch |-> 0]
  /\ status = [primary |-> First, epoch |-> 0]
  /\ seen = Members
  /\ kept = Members \ {First}
  /\ rw = {First}
  /\ conf = First
  /\ op = Idle
  /\ faults = 0 /\ plan \in Plans

Fault == faults < plan.faults /\ faults' = faults + 1 /\ UNCHANGED plan
NoFault == UNCHANGED <<faults, plan>>

Commits(m) == Range(wal[m])

-----------------------------------------------------------------------------
(* The Lease.                                                              *)

(* Lease.canTake: free, already one's own, or expired.                     *)
CanTake(m) == lease.holder \in {None, m} \/ lease.expired

(* leaseFenceable: the operator may also write over itself and over the    *)
(* members it names.                                                       *)
Fenceable(allowed) ==
  lease.holder \in allowed \union {None, Operator} \/ lease.expired

HeldBy(h) == [holder |-> h, expired |-> FALSE]

(* Lease.Release and ClusterReconciler.releaseLease: cleared only by the   *)
(* identity that holds it.                                                 *)
Released(h) == IF lease.holder = h THEN HeldBy(None) ELSE lease

(* Lease.Hold: a renewal, which also takes a Lease nobody holds any more.  *)
Renew(m) ==
  /\ hold[m] /\ CanTake(m) /\ lease # HeldBy(m)
  /\ lease' = HeldBy(m)
  /\ NoFault
  /\ UNCHANGED <<walVars, agentVars, recordVars, op>>

(* A Lease nobody renews runs out: its holder's agent is not renewing, or  *)
(* cannot reach the API server, or the operator's pass is over.            *)
Expire ==
  /\ ~lease.expired /\ lease.holder # None
  /\ \/ lease.holder = Operator /\ op.pc = "idle" /\ NoFault
     \/ lease.holder \in Members /\ ~hold[lease.holder] /\ NoFault
     \/ lease.holder \in Members /\ hold[lease.holder] /\ Fault
  /\ lease' = [lease EXCEPT !.expired = TRUE]
  /\ UNCHANGED <<walVars, agentVars, recordVars, op>>

-----------------------------------------------------------------------------
(* PostgreSQL and its replication.                                         *)

Unstream(m) == [n \in Members |-> IF m \in {n, src[n]} THEN None ELSE src[n]]

Write(m) ==
  /\ pg[m] = "primary" /\ written < plan.writes
  /\ written' = written + 1
  /\ wal' = [wal EXCEPT ![m] = Append(@, written + 1)]
  /\ NoFault
  /\ UNCHANGED <<acked, agentVars, sharedVars, op>>

(* A standby connects through -rw.  PostgreSQL refuses one whose WAL is    *)
(* not a prefix of the primary's.                                          *)
Connect(m, p) ==
  /\ pg[m] = "standby" /\ src[m] = None
  /\ p \in rw /\ pg[p] = "primary" /\ IsPrefix(wal[m], wal[p])
  /\ src' = [src EXCEPT ![m] = p]
  /\ NoFault
  /\ UNCHANGED <<walVars, pod, pg, signal, pending, epoch, job, hold,
                 sharedVars, op>>

Replicate(m) ==
  /\ src[m] # None /\ Len(wal[m]) < Len(wal[src[m]])
  /\ wal' = [wal EXCEPT ![m] = SubSeq(wal[src[m]], 1, Len(@) + 1)]
  /\ NoFault
  /\ UNCHANGED <<written, acked, agentVars, sharedVars, op>>

Acknowledgers(p, c) == {m \in Members : src[m] = p /\ c \in Commits(m)}

Ack(p, c) ==
  /\ pg[p] = "primary" /\ c \in Commits(p) \ acked
  /\ Cardinality(Acknowledgers(p, c)) >= plan.sync
  /\ acked' = acked \union {c}
  /\ NoFault
  /\ UNCHANGED <<wal, written, agentVars, sharedVars, op>>

-----------------------------------------------------------------------------
(* An agent outside its RPCs.                                              *)

(* What is left of m once its PostgreSQL stopped, its agent now at step j. *)
Stopped(m, j) ==
  /\ pg' = [pg EXCEPT ![m] = "off"]
  /\ src' = Unstream(m)
  /\ hold' = [hold EXCEPT ![m] = FALSE]
  /\ job' = [job EXCEPT ![m] = j]
  /\ UNCHANGED <<signal, pending, epoch>>

(* The agent or its PostgreSQL dies; the kubelet starts the container      *)
(* again.                                                                  *)
Crash(m) ==
  /\ pod[m] /\ (pg[m] # "off" \/ job[m] # "boot")
  /\ Fault
  /\ Stopped(m, "boot")
  /\ UNCHANGED <<walVars, pod, sharedVars, op>>

(* Lease.Hold fails: another holder, or no renewal within the duration.    *)
(* The agent stops PostgreSQL, hands back a Lease still its own and exits. *)
SelfFence(m) ==
  /\ hold[m] /\ lease # HeldBy(m)
  /\ Stopped(m, "boot")
  /\ lease' = Released(m)
  /\ NoFault
  /\ UNCHANGED <<walVars, pod, recordVars, op>>

(* m's data directory becomes a copy of p's (pg_rewind or a clone) and     *)
(* starts as a standby: Instance.follow, rebuild.                          *)
Rejoin(m, p) ==
  /\ p \in rw /\ pg[p] = "primary"
  /\ wal' = [wal EXCEPT ![m] = wal[p]]
  /\ signal' = [signal EXCEPT ![m] = TRUE]
  /\ pending' = [pending EXCEPT ![m] = FALSE]
  /\ pg' = [pg EXCEPT ![m] = "standby"]
  /\ job' = [job EXCEPT ![m] = "none"]
  /\ UNCHANGED <<written, acked, pod, src, epoch, hold, sharedVars>>

(* Run and Instance.Bootstrap: a standby starts as one, whatever its       *)
(* configured role; a former primary that is to be a standby waits for     *)
(* the primary and rejoins; one that is to be the primary needs the Lease. *)
BootStandby(m) ==
  /\ job[m] = "boot" /\ signal[m]
  /\ pg' = [pg EXCEPT ![m] = "standby"]
  /\ job' = [job EXCEPT ![m] = "none"]
  /\ NoFault
  /\ UNCHANGED <<walVars, pod, signal, pending, src, epoch, hold, sharedVars, op>>

BootRejoin(m, p) ==
  /\ job[m] = "boot" /\ ~signal[m] /\ conf # m
  /\ Rejoin(m, p)
  /\ NoFault
  /\ UNCHANGED op

BootPrimary(m) ==
  /\ job[m] = "boot" /\ ~signal[m] /\ conf = m /\ CanTake(m)
  /\ lease' = HeldBy(m)
  /\ hold' = [hold EXCEPT ![m] = TRUE]
  /\ pg' = [pg EXCEPT ![m] = "primary"]
  /\ job' = [job EXCEPT ![m] = "none"]
  /\ NoFault
  /\ UNCHANGED <<walVars, pod, signal, pending, src, epoch, recordVars, op>>

-----------------------------------------------------------------------------
(* The agent's Promote and Demote.  Server.mu lets one of them run at a    *)
(* time; a Promote goes on after the operator gave up on its answer.       *)

(* EpochStore.Accept *)
Newer(m, e) == e > epoch[m]

PromoteAccept(m) ==
  /\ op.pc = "promote" /\ op.cand = m
  /\ pod[m] /\ job[m] = "none" /\ Newer(m, op.epoch)
  /\ epoch' = [epoch EXCEPT ![m] = op.epoch]
  /\ job' = [job EXCEPT ![m] = "acquire"]
  /\ NoFault
  /\ UNCHANGED <<walVars, pod, pg, signal, pending, src, hold, sharedVars, op>>

(* Lease.Acquire, unless the hold renews it already, then startHold.       *)
PromoteAcquire(m) ==
  /\ job[m] = "acquire" /\ (hold[m] \/ CanTake(m))
  /\ lease' = IF hold[m] THEN lease ELSE HeldBy(m)
  /\ hold' = [hold EXCEPT ![m] = TRUE]
  /\ job' = [job EXCEPT ![m] = "turn"]
  /\ NoFault
  /\ UNCHANGED <<walVars, pod, pg, signal, pending, src, epoch, recordVars, op>>

(* Instance.Promote up to pg_ctl promote: the WAL receiver is stopped and  *)
(* the marker written before the member becomes writable.                  *)
PromoteTurn(m) ==
  /\ job[m] = "turn" /\ pg[m] # "off"
  /\ pg' = [pg EXCEPT ![m] = "primary"]
  /\ src' = [src EXCEPT ![m] = None]
  /\ pending' = [pending EXCEPT ![m] = pending[m] \/ signal[m]]
  /\ signal' = [signal EXCEPT ![m] = FALSE]
  /\ job' = [job EXCEPT ![m] = "setup"]
  /\ NoFault
  /\ UNCHANGED <<walVars, pod, epoch, hold, sharedVars, op>>

PromoteSetup(m) ==
  /\ job[m] = "setup"
  /\ pending' = [pending EXCEPT ![m] = FALSE]
  /\ job' = [job EXCEPT ![m] = "none"]
  /\ NoFault
  /\ UNCHANGED <<walVars, pod, pg, signal, src, epoch, hold, sharedVars, op>>

(* A step of Promote fails: the Lease is another's, or any other error.    *)
PromoteFails(m) ==
  /\ \/ job[m] = "acquire" /\ ~hold[m] /\ ~CanTake(m) /\ NoFault
     \/ job[m] \in {"acquire", "turn", "setup"} /\ Fault
  /\ job' = [job EXCEPT ![m] = "none"]
  /\ UNCHANGED <<walVars, pod, pg, signal, pending, src, epoch, hold,
                 sharedVars, op>>

(* Demote's Follow: the member stays down when it cannot rejoin.           *)
FollowDone(m, p) ==
  /\ job[m] = "follow" /\ Rejoin(m, p) /\ NoFault /\ UNCHANGED op

FollowFails(m) ==
  /\ job[m] = "follow"
  /\ \/ ~(\E p \in rw : pg[p] = "primary") /\ NoFault
     \/ Fault
  /\ job' = [job EXCEPT ![m] = "none"]
  /\ UNCHANGED <<walVars, pod, pg, signal, pending, src, epoch, hold,
                 sharedVars, op>>

-----------------------------------------------------------------------------
(* The operator's pass over the group.                                     *)

Old == status.primary

(* loadState: the standbys last recorded as Ready, or else remembered.     *)
SyncSet == IF seen \ {Old} # {} THEN seen \ {Old} ELSE kept

(* Probes.Ready, as the Pod's Ready condition reports it.                  *)
Ready(m) == pg[m] = "primary" \/ (pg[m] = "standby" /\ src[m] # None)

(* primaryHealthy: the Pod is Ready, or its agent answers as a primary.    *)
PrimaryHealthy == pod[Old] /\ Ready(Old)

(* observePod *)
Create(ms) ==
  /\ pod' = [m \in Members |-> pod[m] \/ m \in ms]
  /\ job' = [m \in Members |-> IF m \in ms /\ ~pod[m] THEN "boot" ELSE job[m]]

(* What every pass does first: the ConfigMap names the designated primary, *)
(* and missing Pods are created, the primary's own only when no standby    *)
(* could take over.                                                        *)
BeginPass ==
  /\ op.pc = "idle"
  /\ conf' = Old
  /\ Create(IF SyncSet = {} THEN Members ELSE Members \ {Old})

(* A pass that changes nothing else records which members are Ready, and,  *)
(* with a primary to ask, the standbys that stream.                        *)
Observe ==
  /\ BeginPass
  /\ seen' = {m \in Members : pod[m] /\ Ready(m)}
  /\ LET streaming == {m \in Members : src[m] = Old}
     IN  kept' = IF PrimaryHealthy /\ streaming # {} THEN streaming ELSE kept
  /\ NoFault
  /\ UNCHANGED <<walVars, pg, signal, pending, src, epoch, hold, lease, note,
                 row, status, rw, op>>

(* The members whose PostgreSQL runs.  Some of them may not answer.        *)
Up == {m \in Members : pod[m] /\ pg[m] # "off"}
Answer(R) == \/ R = Up /\ NoFault
             \/ R # Up /\ Fault

(* Mutants of Refuses: one missing standby too many, none at all.          *)
RefusesLate(R, listed) ==
  LET reached == Cardinality(R \intersect listed)
      n == Cardinality(listed)
  IN  reached < n /\ reached + plan.sync < n

RefusesAny(R, listed) == Cardinality(R \intersect listed) < Cardinality(listed)

(* chooseCandidate, given the members that answered.  It refuses when      *)
(* those of the listed standbys that did not answer could have             *)
(* acknowledged a commit on their own; the highest WAL position wins, the  *)
(* preferred member among equals.                                          *)
Refuses(R, listed) ==
  LET reached == Cardinality(R \intersect listed)
      n == Cardinality(listed)
  IN  reached < n /\ reached + plan.sync <= n

Eligible(R) == {m \in R : pg[m] = "standby"}

Leaders(R) ==
  {m \in Eligible(R) : \A n \in Eligible(R) : Len(wal[n]) <= Len(wal[m])}

ChooseCandidate(R, listed, preferred) ==
  IF Refuses(R, listed) THEN {}
  ELSE IF preferred \in Leaders(R) THEN {preferred} ELSE Leaders(R)

FailoverChoice(R) == ChooseCandidate(R \ {Old}, Members \ {Old}, op.planned)

(* The primary was unhealthy for the failover delay, or nobody reaches it. *)
StartFailover ==
  /\ BeginPass /\ SyncSet # {}
  /\ \/ ~PrimaryHealthy /\ NoFault
     \/ PrimaryHealthy /\ Fault
  /\ rw' = IF pod[Old] THEN rw \ {Old} ELSE rw
  /\ op' = [Idle EXCEPT !.pc = "fence", !.old = Old]
  /\ UNCHANGED <<walVars, pg, signal, pending, src, epoch, hold, lease, note,
                 row, status, seen, kept>>

(* switchover: the target was a standby at the last observation and is the *)
(* candidate now.  The primary's Pod is deleted, its agent releases the    *)
(* Lease, and failover runs with the target preferred.                     *)
Switchover(t) ==
  /\ op.pc = "idle" /\ t \in SyncSet \ {Old} /\ PrimaryHealthy
  /\ \A m \in Members : pod[m]
  /\ t \in ChooseCandidate(Up \ {Old}, Members \ {Old}, t)
  /\ Fault
  /\ rw' = rw \ {Old}
  /\ conf' = Old
  /\ lease' = Released(Old)
  /\ Stopped(Old, "none")
  /\ pod' = [pod EXCEPT ![Old] = FALSE]
  /\ op' = [Idle EXCEPT !.pc = "fence", !.old = Old, !.planned = t]
  /\ UNCHANGED <<walVars, note, row, status, seen, kept>>

(* fenceLease: taken for h, and annotated with the primary p and its epoch. *)
FenceLease(allowed, h, p, e) ==
  /\ Fenceable(allowed \union {h})
  /\ lease' = HeldBy(h)
  /\ note' = [primary |-> p, epoch |-> e]

Fence ==
  /\ op.pc = "fence" /\ FenceLease({Old}, Operator, None, status.epoch)
  /\ op' = [op EXCEPT !.pc = "quiesce"]
  /\ NoFault
  /\ UNCHANGED <<walVars, agentVars, row, status, seen, kept, rw, conf>>

(* fenceLease refuses: a third holder renews the Lease.                    *)
FenceRefused ==
  /\ \/ op.pc = "fence" /\ ~Fenceable({Old})
     \/ op.pc = "publishLease" /\ ~Fenceable({op.old, op.cand})
  /\ op' = Idle
  /\ NoFault
  /\ UNCHANGED <<walVars, agentVars, sharedVars>>

(* The pass ends and hands the Lease back, if it still holds it.           *)
Abandon == op' = Idle /\ lease' = Released(Operator)

(* quiesce: the old primary still answers as one.                          *)
StillLive(R) ==
  /\ op.pc = "quiesce"
  /\ Old \in R /\ pg[Old] = "primary"
  /\ Answer(R) /\ Abandon
  /\ UNCHANGED <<walVars, agentVars, recordVars>>

OldGone(R) == ~(Old \in R /\ pg[Old] = "primary")

(* No candidate: the primary is kept, its missing Pod created again.       *)
NoCandidate(R) ==
  /\ op.pc \in {"quiesce", "confirm"} /\ OldGone(R)
  /\ FailoverChoice(R) = {}
  /\ Answer(R) /\ Abandon
  /\ Create(IF op.planned = None THEN {Old} ELSE {})
  /\ UNCHANGED <<walVars, pg, signal, pending, src, epoch, hold, recordVars>>

(* The candidate is chosen, and asked for its epoch.                       *)
Quiesce(R, c) ==
  /\ op.pc = "quiesce" /\ OldGone(R) /\ c \in FailoverChoice(R)
  /\ \/ Answer(R) /\ op' = [op EXCEPT !.pc = "fencePod", !.cand = c,
                                     !.epoch = epoch[c]]
     \/ R = Up /\ Fault /\ op' = [op EXCEPT !.pc = "fencePod", !.cand = c]
  /\ UNCHANGED <<walVars, agentVars, sharedVars>>

(* A mutant of FencePod that takes an unreachable primary for a stopped one. *)
FencePodTrusting ==
  /\ op.pc = "fencePod"
  /\ op' = [op EXCEPT !.pc = "confirm"]
  /\ NoFault
  /\ UNCHANGED <<walVars, agentVars, sharedVars>>

(* fencePod, once its wait is over.                                        *)
FencePod ==
  /\ op.pc = "fencePod"
  /\ Stopped(Old, "none")
  /\ pod' = [pod EXCEPT ![Old] = FALSE]
  /\ op' = [op EXCEPT !.pc = "confirm"]
  /\ NoFault
  /\ UNCHANGED <<walVars, sharedVars>>

(* nextEpoch: above the group's epoch and above the candidate's.           *)
NextEpoch(e) == IF e > status.epoch THEN e + 1 ELSE status.epoch + 1

(* The positions are read again, and the same candidate must lead.         *)
Confirm(R) ==
  /\ op.pc = "confirm" /\ OldGone(R) /\ op.cand \in FailoverChoice(R)
  /\ NextEpoch(op.epoch) <= plan.epochs
  /\ Answer(R)
  /\ op' = [op EXCEPT !.pc = "publishRow", !.epoch = NextEpoch(op.epoch)]
  /\ UNCHANGED <<walVars, agentVars, sharedVars>>

LeaderChanged(R) ==
  /\ op.pc = "confirm" /\ OldGone(R)
  /\ FailoverChoice(R) # {} /\ op.cand \notin FailoverChoice(R)
  /\ Answer(R) /\ Abandon
  /\ UNCHANGED <<walVars, agentVars, recordVars>>

(* Mutant: a promotion before the status carries its epoch.                *)
PublishRowOnly ==
  /\ op.pc = "publishRow"
  /\ row' = [primary |-> op.cand, epoch |-> op.epoch]
  /\ op' = [op EXCEPT !.pc = "promote"]
  /\ NoFault
  /\ UNCHANGED <<walVars, agentVars, lease, note, status, seen, kept, rw, conf>>

(* publishFence, in its order: the catalog row, whose epoch never goes     *)
(* down, then the status, then the Lease, handed to the candidate.         *)
PublishRow ==
  /\ op.pc = "publishRow"
  /\ row' = IF row.epoch <= op.epoch
            THEN [primary |-> op.cand, epoch |-> op.epoch] ELSE row
  /\ op' = [op EXCEPT !.pc = "publishStatus"]
  /\ NoFault
  /\ UNCHANGED <<walVars, agentVars, lease, note, status, seen, kept, rw, conf>>

PublishStatus ==
  /\ op.pc = "publishStatus"
  /\ status' = [primary |-> op.cand, epoch |-> op.epoch]
  /\ op' = [op EXCEPT !.pc = "publishLease"]
  /\ NoFault
  /\ UNCHANGED <<walVars, agentVars, lease, note, row, seen, kept, rw, conf>>

PublishLease ==
  /\ op.pc = "publishLease" /\ FenceLease({op.old}, op.cand, op.cand, op.epoch)
  /\ op' = [op EXCEPT !.pc = "promote"]
  /\ NoFault
  /\ UNCHANGED <<walVars, agentVars, row, status, seen, kept, rw, conf>>

(* Promote answered: the candidate is labelled, the ConfigMap rewritten.   *)
Promoted ==
  /\ op.pc = "promote"
  /\ epoch[op.cand] = op.epoch /\ job[op.cand] = "none"
  /\ pg[op.cand] = "primary" /\ ~pending[op.cand]
  /\ rw' = rw \union {op.cand}
  /\ conf' = op.cand
  /\ op' = Idle
  /\ NoFault
  /\ UNCHANGED <<walVars, agentVars, lease, note, row, status, seen, kept>>

(* Promote was refused, failed, or cannot reach the agent.                 *)
PromoteRefused ==
  /\ op.pc = "promote"
  /\ ~(pod[op.cand] /\ Newer(op.cand, op.epoch))
  /\ job[op.cand] \in {"none", "boot"}
  /\ ~(pg[op.cand] = "primary" /\ ~pending[op.cand])
  /\ op' = Idle
  /\ NoFault
  /\ UNCHANGED <<walVars, agentVars, sharedVars>>

(* The pass fails at any other call, or the operator dies: the Lease stays *)
(* as it is, and a Promote under way goes on.                              *)
PassFails ==
  /\ op.pc # "idle"
  /\ Fault
  /\ op' = Idle
  /\ UNCHANGED <<walVars, agentVars, sharedVars>>

(* The status is lost (an etcd restore, a deleted object), and loadState   *)
(* reconstructs it from the Lease before it designates the first member.   *)
StatusLost ==
  /\ op.pc = "idle" /\ Fault
  /\ status' = [primary |-> IF note.primary = None THEN First ELSE note.primary,
                epoch |-> note.epoch]
  /\ seen' = {}
  /\ UNCHANGED <<walVars, agentVars, lease, note, row, kept, rw, conf, op>>

-----------------------------------------------------------------------------
(* converge, which runs while the primary is healthy.                      *)

(* admissiblePrimary *)
Admissible(R, p) ==
  /\ \A m \in R \ {p} : pg[m] = "standby"
  /\ p \in ChooseCandidate(R, SyncSet, p)

(* promotionEpoch *)
PromotionEpoch(p) ==
  IF epoch[p] >= status.epoch THEN epoch[p] + 1 ELSE status.epoch

(* The designated primary is a standby, or did not finish its promotion.   *)
Repromote(R) ==
  /\ op.pc = "idle" /\ PrimaryHealthy /\ Old \in R /\ job[Old] = "none"
  /\ \/ pg[Old] = "standby" /\ Admissible(R, Old)
     \/ pg[Old] = "primary" /\ pending[Old]
  /\ PromotionEpoch(Old) <= plan.epochs
  /\ Answer(R)
  /\ conf' = Old
  /\ op' = [Idle EXCEPT !.cand = Old, !.epoch = PromotionEpoch(Old),
               !.pc = IF PromotionEpoch(Old) = status.epoch
                      THEN "promote" ELSE "publishRow"]
  /\ UNCHANGED <<walVars, agentVars, lease, note, row, status, seen, kept, rw>>

Relabel ==
  /\ op.pc = "idle" /\ pg[Old] = "primary" /\ ~pending[Old] /\ Old \notin rw
  /\ rw' = rw \union {Old}
  /\ conf' = Old
  /\ NoFault
  /\ UNCHANGED <<walVars, agentVars, lease, note, row, status, seen, kept, op>>

(* A member that runs as a primary and is not the designated one.  Its     *)
(* agent refuses an epoch it already accepted.                             *)
Demote(m) ==
  /\ op.pc = "idle" /\ PrimaryHealthy /\ m # Old
  /\ pg[m] = "primary" /\ job[m] = "none"
  /\ rw' = rw \ {m}
  /\ conf' = Old
  /\ \/ /\ Newer(m, status.epoch)
        /\ epoch' = [epoch EXCEPT ![m] = status.epoch]
        /\ lease' = Released(m)
        /\ pg' = [pg EXCEPT ![m] = "off"]
        /\ src' = Unstream(m)
        /\ hold' = [hold EXCEPT ![m] = FALSE]
        /\ job' = [job EXCEPT ![m] = "follow"]
     \/ /\ ~Newer(m, status.epoch) /\ m \in rw
        /\ UNCHANGED <<epoch, lease, pg, src, hold, job>>
  /\ NoFault
  /\ UNCHANGED <<walVars, pod, signal, pending, note, row, status, seen,
                 kept, op>>

-----------------------------------------------------------------------------
Agent(m) ==
  \/ Renew(m) \/ SelfFence(m) \/ BootStandby(m) \/ BootPrimary(m)
  \/ \E p \in Members : BootRejoin(m, p)
  \/ PromoteAccept(m) \/ PromoteAcquire(m) \/ PromoteTurn(m)
  \/ PromoteSetup(m) \/ PromoteFails(m) \/ Crash(m)

Postgres ==
  \E m \in Members :
    \/ Write(m) \/ Replicate(m)
    \/ \E p \in Members : Connect(m, p)
    \/ \E c \in Commits(m) : Ack(m, c)

Pass ==
  \/ Observe \/ StartFailover \/ Fence \/ FencePod
  \/ \E R \in SUBSET Up :
       \/ StillLive(R) \/ NoCandidate(R) \/ Confirm(R) \/ LeaderChanged(R)
       \/ Repromote(R)
       \/ \E c \in Members : Quiesce(R, c)
  \/ PublishRow \/ PublishStatus \/ PublishLease
  \/ Promoted \/ PromoteRefused \/ PassFails \/ Relabel
  \/ \E m \in Members : Switchover(m)

Next ==
  \/ \E m \in Members : Agent(m)
  \/ Postgres \/ Pass \/ Expire

Spec == Init /\ [][Next]_vars

(* With a status that can be lost, a member the operator did not designate *)
(* can be the primary and hold the Lease, which is what the demotion and   *)
(* the refusal to fence are for.                                           *)
LossNext ==
  \/ Next \/ StatusLost \/ FenceRefused
  \/ \E m \in Members :
       \/ Demote(m) \/ FollowFails(m)
       \/ \E p \in Members : FollowDone(m, p)

(* The agents' loops, PostgreSQL, the operator's requeued passes and the   *)
(* Lease clock go on; nothing obliges a fault to happen.                   *)
Fairness ==
  /\ \A m \in Members : WF_vars(NoFault /\ Agent(m))
  /\ WF_vars(Postgres)
  /\ WF_vars(NoFault /\ Pass)
  /\ WF_vars(NoFault /\ Expire)

FairSpec == Spec /\ Fairness

-----------------------------------------------------------------------------
(* The properties.                                                         *)

(* Durability: the designated primary, once it serves under the published  *)
(* epoch, holds every commit a client was told of, whoever told it.        *)
AckedSurvive ==
  \A m \in Members :
    m = Old /\ pg[m] = "primary" /\ epoch[m] = status.epoch
      => acked \subseteq Commits(m)

(* No split brain: at most one member of the group is writable.            *)
OneWriter ==
  \A m, n \in Members : pg[m] = "primary" /\ pg[n] = "primary" => m = n

(* The convergence rule: a designated primary that runs as a standby is    *)
(* promoted, or another is designated and promoted in its place.  Of a     *)
(* group all of whose standbys acknowledge: with fewer, a failover from a  *)
(* designated standby can find no candidate for ever.                      *)
DesignatedPromoted ==
  plan.sync = Cardinality(Members) - 1 /\ pg[Old] = "standby" ~> pg[Old] = "primary"

(* The fence is published before anything is promoted under it: no agent   *)
(* has accepted an epoch that the status and the catalog row do not carry. *)
FencePublishedFirst ==
  /\ status.epoch <= row.epoch
  /\ \A m \in Members : epoch[m] <= status.epoch

=============================================================================
