------------------------------- MODULE Barrier -------------------------------
(***************************************************************************)
(* Certified restore points: controller/barrier.go, with what else touches *)
(* the write pause.  A run locks, reserves its name, raises the catalog's  *)
(* write fence, makes every shard refuse new writes, waits for two-phase   *)
(* commits and for older transactions, creates a named restore point on    *)
(* every group, waits for its archive, verifies and records.  It resumes   *)
(* the shards and releases the fence however it ended.                     *)
(*                                                                         *)
(* Beside the runs: client transactions through routers that may not have  *)
(* seen the fence, the resolver, workflows that claim a pause of their own,*)
(* agents that rewrite postgresql.auto.conf and so drop a pause, archivers,*)
(* and the pass that recovers from an interrupted run.                     *)
(***************************************************************************)
EXTENDS Integers, Sequences, FiniteSets, FiniteSetsExt, Functions

CONSTANTS
    Order,      \* the shard groups as List orders them, after the catalog
    Catalog,    \* the catalog group
    Runs,       \* the attempts, each with a name and a fence token of its own
    None,       \* nobody
    Txns,       \* the transactions clients run
    Plans,      \* what a behaviour may be about: the shards each transaction
                \* writes on, those prepared by hand, the attempts, the shards
                \* of a retired set, whether the operator passes by, and how
                \* many deaths, lost sessions and pauses and failed resumes
    Claimable   \* the shards a workflow pauses for its own switch

Shards == Range(Order)
Groups == Shards \cup {Catalog}

ASSUME BarrierAssumption ==
    /\ Order \in Seq(Shards) /\ IsInjective(Order) /\ Catalog \notin Shards
    /\ Plans \subseteq [foot : [Txns -> SUBSET Shards], foreign : SUBSET Txns,
                    runs : SUBSET Runs, retired : SUBSET Shards, operator : BOOLEAN, faults : Nat]
    /\ \A p \in Plans : p.retired # Shards
    /\ Claimable \subseteq Shards
    /\ None \notin Runs /\ Catalog \notin Runs \cup {None}
    /\ IsFiniteSet(Txns)

VARIABLES
    lock,       \* who holds the barrier's advisory lock
    fence,      \* whose token the catalog's write fence carries
    predates,   \* the catalog restarted since the fence was raised
    point,      \* restore_points: the row of each attempt
    run,        \* what each attempt's goroutine holds
    cut,        \* what a restore to each attempt's points brings back
    rec,        \* the recovery pass
    paused,     \* the shards whose new transactions are read only
    own,        \* the pause a workflow or a retirement has on a shard
    armed,      \* shards the operator has decided to pause again
    br,         \* br[t][s]: the branch of t on s
    row,        \* the decision row of t
    seen,       \* the transactions a client knew committed when t began
    plan,       \* the plan of this behaviour
    wal,        \* timeline and segment each primary writes to
    last,       \* pg_stat_archiver.last_archived_wal
    store,      \* the segments in the archive
    faults

control == <<lock, fence, predates, point, run, cut, rec>>
pauses == <<paused, own, armed>>
data == <<br, row, seen, plan>>
archive == <<wal, last, store>>
vars == <<control, pauses, data, archive, faults>>

-----------------------------------------------------------------------------
(* Transactions. *)

Foot == plan.foot
Foreign == plan.foreign
Coordinated == {t \in Txns : Cardinality(Foot[t]) > 1} \ Foreign

\* Transactions whose client has been told of the commit.
Acked == {t \in Txns : IF t \in Coordinated
                         THEN row[t] \in {"commit", "finished"}
                         ELSE Foot[t] # {} /\ \A s \in Foot[t] : br[t][s] = "committed"}

\* BEGIN reads default_transaction_read_only: a transaction that begins under
\* the pause writes nothing and is left out, as is one after the last run.
Begin(t, s) ==
    /\ \E r \in plan.runs : run[r].pc # "over"
    /\ s \in Foot[t] /\ br[t][s] = "none" /\ ~paused[s]
    /\ row[t] = "none"
    /\ br' = [br EXCEPT ![t][s] = "open"]
    /\ seen' = [seen EXCEPT ![t] = IF \A z \in Foot[t] : br[t][z] = "none"
                                     THEN Acked ELSE @]
    /\ UNCHANGED <<control, pauses, row, plan, archive, faults>>

\* The first write takes a transaction id.
Write(t, s) ==
    /\ br[t][s] = "open"
    /\ br' = [br EXCEPT ![t][s] = "wrote"]
    /\ UNCHANGED <<control, pauses, row, seen, plan, archive, faults>>

Commit(t, s) ==
    /\ Foot[t] = {s} /\ t \notin Foreign /\ br[t][s] = "wrote"
    /\ br' = [br EXCEPT ![t][s] = "committed"]
    /\ UNCHANGED <<control, pauses, row, seen, plan, archive, faults>>

\* The router's decision row; its sequence is the watermark.
LogPreparing(t) ==
    /\ t \in Coordinated /\ row[t] = "none"
    /\ \A s \in Foot[t] : br[t][s] = "wrote"
    /\ row' = [row EXCEPT ![t] = "preparing"]
    /\ UNCHANGED <<control, pauses, br, seen, plan, archive, faults>>

\* After PREPARE no backend holds the transaction.
Prepare(t, s) ==
    /\ br[t][s] = "wrote"
    /\ t \in Foreign \/ row[t] = "preparing"
    /\ br' = [br EXCEPT ![t][s] = "prepared"]
    /\ UNCHANGED <<control, pauses, row, seen, plan, archive, faults>>

Decide(t) ==
    /\ row[t] = "preparing"
    /\ \A s \in Foot[t] : br[t][s] = "prepared"
    /\ row' = [row EXCEPT ![t] = "commit"]
    /\ UNCHANGED <<control, pauses, br, seen, plan, archive, faults>>

\* COMMIT PREPARED, which a read-only default does not stop: the router or the
\* resolver for a coordinated transaction, its owner for a foreign one.
CommitPrepared(t, s) ==
    /\ br[t][s] = "prepared"
    /\ IF t \in Foreign THEN \A z \in Foot[t] : br[t][z] \in {"prepared", "committed"}
                        ELSE row[t] = "commit"
    /\ br' = [br EXCEPT ![t][s] = "committed"]
    /\ UNCHANGED <<control, pauses, row, seen, plan, archive, faults>>

Forget(t) ==
    /\ row[t] = "commit"
    /\ \A s \in Foot[t] : br[t][s] = "committed"
    /\ row' = [row EXCEPT ![t] = "finished"]
    /\ UNCHANGED <<control, pauses, br, seen, plan, archive, faults>>

\* A router rolls back what lost a branch, or the resolver aborts the row of a
\* router that died.
Abort(t) ==
    /\ row[t] \in {"none", "preparing"}
    /\ \A s \in Foot[t] : br[t][s] # "committed"
    /\ row[t] = "preparing" \/ \E s \in Foot[t] : br[t][s] = "gone"
    /\ \E s \in Foot[t] : br[t][s] \notin {"none", "gone"}
    /\ br' = [br EXCEPT ![t] = [s \in Shards |-> IF s \in Foot[t] THEN "gone" ELSE @[s]]]
    /\ row' = [row EXCEPT ![t] = IF @ = "preparing" THEN "aborted" ELSE @]
    /\ UNCHANGED <<control, pauses, seen, plan, archive, faults>>

Client ==
    \E t \in Txns :
        \/ LogPreparing(t) \/ Decide(t) \/ Forget(t) \/ Abort(t)
        \/ \E s \in Foot[t] : Begin(t, s) \/ Write(t, s) \/ Commit(t, s)
                                \/ Prepare(t, s) \/ CommitPrepared(t, s)

-----------------------------------------------------------------------------
(* What a primary and its surroundings do. *)

\* The archiver sends the complete segments of the timeline in order.  What it
\* sends is looked at by a run that waits for it, and it is let loose then.
Awaited(g) ==
    \E r \in Runs : run[r].pc = "archive" /\ g = IF run[r].k = 0 THEN Catalog ELSE Order[run[r].k]

ArchiveSegment(g) ==
    LET due == {n \in wal[g].from .. wal[g].seg - 1 : <<wal[g].tl, n>> \notin store[g]}
    IN /\ Awaited(g) /\ due # {}
       /\ store' = [store EXCEPT ![g] = @ \cup {<<wal[g].tl, Min(due)>>}]
       /\ last' = [last EXCEPT ![g] = [kind |-> "segment", tl |-> wal[g].tl, seg |-> Min(due)]]
       /\ UNCHANGED <<control, pauses, data, wal, faults>>

\* The agent rewrites postgresql.auto.conf when it starts and when it promotes,
\* and the pause goes with it.  A new primary reports its history file first,
\* and never archives what the old one had not.
LosePause(s, promoted) ==
    /\ faults < plan.faults
    /\ paused[s]
    /\ paused' = [paused EXCEPT ![s] = FALSE]
    /\ br' = [t \in Txns |-> [br[t] EXCEPT ![s] = IF @ \in {"open", "wrote"} THEN "gone" ELSE @]]
    /\ IF promoted
         THEN /\ wal' = [wal EXCEPT ![s] = [tl |-> @.tl + 1, from |-> @.seg, seg |-> @.seg]]
              /\ last' = [last EXCEPT ![s] = [kind |-> "history", tl |-> wal[s].tl + 1, seg |-> 0]]
         ELSE UNCHANGED <<wal, last>>
    /\ faults' = faults + 1
    /\ UNCHANGED <<control, own, armed, row, seen, plan, store>>

\* reapplyWritePause and pauseIfFenced: the operator finds a primary that takes
\* writes under a raised fence, and pauses it a moment later.
SeeUnpaused(s) ==
    /\ plan.operator /\ ~armed[s] /\ ~paused[s] /\ fence # None
    /\ armed' = [armed EXCEPT ![s] = TRUE]
    /\ UNCHANGED <<control, paused, own, data, archive, faults>>

ReapplyWritePause(s) ==
    /\ armed[s]
    /\ armed' = [armed EXCEPT ![s] = FALSE]
    /\ paused' = [paused EXCEPT ![s] = TRUE]
    /\ UNCHANGED <<control, own, data, archive, faults>>

\* A switch claims the pause, then sets it; it gives both back, or Complete
\* leaves the pause on a set it retires while another serves.
Claim(s) ==
    /\ s \in Claimable /\ own[s] = "free"
    /\ own' = [own EXCEPT ![s] = "claimed"]
    /\ UNCHANGED <<control, paused, armed, data, archive, faults>>

PauseClaimed(s) ==
    /\ own[s] = "claimed"
    /\ own' = [own EXCEPT ![s] = "held"]
    /\ paused' = [paused EXCEPT ![s] = TRUE]
    /\ UNCHANGED <<control, armed, data, archive, faults>>

GiveBack(s) ==
    /\ own[s] = "held"
    /\ own' = [own EXCEPT ![s] = "returned"]
    /\ paused' = [paused EXCEPT ![s] = FALSE]
    /\ UNCHANGED <<control, armed, data, archive, faults>>

Retire(s) ==
    /\ own[s] = "held" /\ paused[s]
    /\ \E z \in Shards \ {s} : own[z] # "retired"
    /\ own' = [own EXCEPT ![s] = "retired"]
    /\ UNCHANGED <<control, paused, armed, data, archive, faults>>

\* The catalog's primary restarts: every lock session ends, and a raised fence
\* is from then on older than the postmaster.
CatalogRestart ==
    /\ faults < plan.faults /\ fence # None
    /\ lock' = None
    /\ predates' = TRUE
    /\ faults' = faults + 1
    /\ UNCHANGED <<fence, point, run, cut, rec, pauses, data, archive>>

Surroundings ==
    \/ CatalogRestart
    \/ \E g \in Groups : ArchiveSegment(g)
    \/ \E s \in Shards : \/ SeeUnpaused(s) \/ ReapplyWritePause(s)
                         \/ Claim(s) \/ PauseClaimed(s) \/ GiveBack(s) \/ Retire(s)
                         \/ \E promoted \in BOOLEAN : LosePause(s, promoted)

-----------------------------------------------------------------------------
(* A run.  It walks the groups it listed in every phase: k = 0 is the       *)
(* catalog's turn, k > 0 that of the k-th shard.                            *)

Idle == [pc |-> "idle", k |-> 0, groups |-> {}, at |-> [s \in Shards |-> {}],
         mark |-> -1, stuck |-> FALSE]

NoCut == [done |-> {}, prep |-> {}, decided |-> {}, at |-> [g \in Groups |-> None]]

Active == {s \in Shards : own[s] # "retired"}

\* The shards of gs that come after the k-th, and the first of all.
Ahead(gs, k) == {i \in (k + 1) .. Len(Order) : Order[i] \in gs}
Lead(gs) == Min(Ahead(gs, 0))

DecisionWatermark == Cardinality({t \in Txns : row[t] # "none"})
PreparingCount == Cardinality({t \in Txns : row[t] = "preparing"})

\* Mutant: only what a router coordinated is looked for, as the resolver does.
PreparedGIDsCoordinated(s) == {t \in Coordinated : s \in Foot[t] /\ br[t][s] = "prepared"}

PreparedGIDs(s) == {t \in Txns : s \in Foot[t] /\ br[t][s] = "prepared"}

\* Backends with a transaction id, and those whose transaction began by since.
WritersSince(s, since) ==
    {t \in Txns : s \in Foot[t] /\ \/ br[t][s] = "wrote"
                                   \/ br[t][s] = "open" /\ t \in since}

\* Mutant: the names of two files are compared as they are.
ArchivedByName(report, want) ==
    report.tl > want[1] \/ (report.tl = want[1] /\ report.seg >= want[2])

\* The archiver's report names a segment, or is the backup label of one, of the
\* point's timeline and not before the point's.
Archived(report, want) ==
    /\ report.kind = "segment"
    /\ report.tl = want[1] /\ report.seg >= want[2]

Turn(r) == Order[run[r].k]

\* The run goes on to the next group, and after the last one to phase next.
Onward(r, next) ==
    LET ahead == Ahead(run[r].groups, run[r].k)
    IN IF ahead # {} THEN [run[r] EXCEPT !.k = Min(ahead)]
       ELSE [run[r] EXCEPT !.pc = next, !.k = IF next = "writers" THEN Lead(run[r].groups) ELSE 0]

Goto(r, next) == [run[r] EXCEPT !.pc = next, !.k = 0]

\* Lock, Exists, Reserve and List.
Starting(r) ==
    /\ r \in plan.runs
    /\ run[r].pc = "idle" /\ point[r] = "none" /\ lock = None
    /\ lock' = r
    /\ point' = [point EXCEPT ![r] = "reserved"]
    /\ run' = [run EXCEPT ![r] = [@ EXCEPT !.pc = "fence", !.groups = Active]]
    /\ UNCHANGED <<fence, predates, cut, rec, pauses, data, archive, faults>>

\* A raise that reports an error ends the run, whether or not the fence is up.
RaiseFence(r) ==
    /\ run[r].pc = "fence"
    /\ \/ /\ fence' = r
          /\ run' = [run EXCEPT ![r] = [@ EXCEPT !.pc = "pause", !.k = Lead(run[r].groups)]]
          /\ UNCHANGED faults
       \/ /\ faults < plan.faults
          /\ faults' = faults + 1
          /\ fence' \in {fence, r}
          /\ run' = [run EXCEPT ![r] = Goto(r, "finish")]
    /\ predates' = (predates /\ fence' # r)
    /\ UNCHANGED <<lock, point, cut, rec, pauses, data, archive>>

\* PauseWrites: since is the clock of a backend that started read only.
PauseAll(r) ==
    /\ run[r].pc = "pause"
    /\ paused' = [paused EXCEPT ![Turn(r)] = TRUE]
    /\ run' = [run EXCEPT ![r] = [Onward(r, "fenced") EXCEPT
                 !.at[Turn(r)] = {t \in Txns : br[t][Turn(r)] # "none"}]]
    /\ UNCHANGED <<lock, fence, predates, point, cut, rec, own, armed, data, archive, faults>>

\* FencedAt: somebody's fence has to be up.
Fenced(r) ==
    /\ run[r].pc = "fenced" /\ fence # None
    /\ run' = [run EXCEPT ![r] = Goto(r, "drain")]
    /\ UNCHANGED <<lock, fence, predates, point, cut, rec, pauses, data, archive, faults>>

\* One question of a poll; a poll that finds something starts again.
Drain(r) ==
    /\ run[r].pc = "drain"
    /\ run' = [run EXCEPT ![r] =
                 IF IF run[r].k = 0 THEN PreparingCount = 0 ELSE PreparedGIDs(Turn(r)) = {}
                   THEN Onward(r, "writers") ELSE Goto(r, "drain")]
    /\ UNCHANGED <<lock, fence, predates, point, cut, rec, pauses, data, archive, faults>>

DrainWriters(r) ==
    /\ run[r].pc = "writers"
    /\ run' = [run EXCEPT ![r] =
                 IF WritersSince(Turn(r), run[r].at[Turn(r)]) = {}
                   THEN Onward(r, IF run[r].mark < 0 THEN "mark" ELSE "points")
                   ELSE [@ EXCEPT !.k = Lead(run[r].groups)]]
    /\ UNCHANGED <<lock, fence, predates, point, cut, rec, pauses, data, archive, faults>>

Mark(r) ==
    /\ run[r].pc = "mark"
    /\ run' = [run EXCEPT ![r] = [Goto(r, "drain") EXCEPT !.mark = DecisionWatermark]]
    /\ UNCHANGED <<lock, fence, predates, point, cut, rec, pauses, data, archive, faults>>

\* A restore point, and the segment that holds it is closed.
CreateRestorePoint(r) ==
    LET g == IF run[r].k = 0 THEN Catalog ELSE Turn(r)
        In(state) == {<<t, g>> : t \in {u \in Txns : g \in Foot[u] /\ br[u][g] = state}}
    IN /\ run[r].pc = "points"
       /\ cut' = [cut EXCEPT ![r] =
            [done |-> @.done \cup In("committed"), prep |-> @.prep \cup In("prepared"),
             decided |-> IF g = Catalog THEN {t \in Txns : row[t] = "commit"} ELSE @.decided,
             at |-> [@.at EXCEPT ![g] = <<wal[g].tl, wal[g].seg>>]]]
       /\ wal' = [wal EXCEPT ![g].seg = @ + 1]
       /\ run' = [run EXCEPT ![r] = Onward(r, "archive")]
       /\ UNCHANGED <<lock, fence, predates, point, rec, pauses, data, last, store, faults>>

AwaitArchived(r) ==
    LET g == IF run[r].k = 0 THEN Catalog ELSE Turn(r)
    IN /\ run[r].pc = "archive"
       /\ Archived(last[g], cut[r].at[g])
       /\ run' = [run EXCEPT ![r] = Onward(r, "remark")]
       /\ UNCHANGED <<lock, fence, predates, point, cut, rec, pauses, data, archive, faults>>

Remark(r) ==
    /\ run[r].pc = "remark"
    /\ DecisionWatermark = run[r].mark
    /\ run' = [run EXCEPT ![r] = Goto(r, "verify")]
    /\ UNCHANGED <<lock, fence, predates, point, cut, rec, pauses, data, archive, faults>>

Verify(r) ==
    /\ run[r].pc = "verify"
    /\ IF run[r].k = 0 THEN fence = r
       ELSE paused[Turn(r)] /\ WritersSince(Turn(r), run[r].at[Turn(r)]) = {}
    /\ run' = [run EXCEPT ![r] = Onward(r, "record")]
    /\ UNCHANGED <<lock, fence, predates, point, cut, rec, pauses, data, archive, faults>>

\* What a run holds once the points are certified or given up.
Leaving(r) == [Idle EXCEPT !.pc = "resume", !.k = Lead(run[r].groups), !.groups = run[r].groups]

Record(r) ==
    /\ run[r].pc = "record"
    /\ point' = [point EXCEPT ![r] = "certified"]
    /\ run' = [run EXCEPT ![r] = Leaving(r)]
    /\ UNCHANGED <<lock, fence, predates, cut, rec, pauses, data, archive, faults>>

\* A check that does not hold, a timeout of a drain or of the archive, a
\* subscription on a group, a call that fails, a context that ends.  A pause
\* that reports an error may stand.
Failing(r) ==
    /\ run[r].pc \in {"pause", "fenced", "drain", "writers", "mark", "points", "archive", "remark", "verify", "record"}
    /\ run' = [run EXCEPT ![r] = Leaving(r)]
    /\ cut' = [cut EXCEPT ![r] = NoCut]
    /\ paused' \in {paused} \cup {[paused EXCEPT ![s] = TRUE] :
                                  s \in {z \in Shards : run[r].pc = "pause" /\ z = Turn(r)}}
    /\ UNCHANGED <<lock, fence, predates, point, rec, own, armed, data, archive, faults>>

\* Mutant: every group a barrier paused is resumed.
ResumedAnyway(s) == [paused EXCEPT ![s] = FALSE]

\* PauseWrites(false): a claimed pause is its workflow's, a retired set's stays.
Resumed(s) == [paused EXCEPT ![s] = own[s] \in {"claimed", "held", "retired"} /\ @]

ResumeAll(r) ==
    /\ run[r].pc = "resume"
    /\ \/ /\ paused' = Resumed(Turn(r))
          /\ run' = [run EXCEPT ![r] = Onward(r, "release")]
          /\ UNCHANGED faults
       \/ /\ faults < plan.faults
          /\ faults' = faults + 1
          /\ run' = [run EXCEPT ![r] = [Onward(r, "release") EXCEPT !.stuck = TRUE]]
          /\ paused' \in {paused, Resumed(Turn(r))}
    /\ UNCHANGED <<lock, fence, predates, point, cut, rec, own, armed, data, archive>>

\* Mutant: the fence is released though a group is still paused.
ReleaseFenceAnyway(r) ==
    /\ run[r].pc = "release"
    /\ \/ /\ fence' = IF fence = r THEN None ELSE fence
          /\ UNCHANGED faults
       \/ /\ faults < plan.faults
          /\ faults' = faults + 1
          /\ UNCHANGED fence
    /\ predates' = (predates /\ fence' # None)
    /\ run' = [run EXCEPT ![r] = Goto(r, "finish")]
    /\ UNCHANGED <<lock, point, cut, rec, pauses, data, archive>>

\* A group left paused keeps the fence up; the release clears a fence of its
\* own only.
ReleaseFence(r) ==
    /\ run[r].pc = "release"
    /\ \/ /\ fence' = IF fence = r /\ ~run[r].stuck THEN None ELSE fence
          /\ UNCHANGED faults
       \/ /\ faults < plan.faults
          /\ faults' = faults + 1
          /\ UNCHANGED fence
    /\ predates' = (predates /\ fence' # None)
    /\ run' = [run EXCEPT ![r] = Goto(r, "finish")]
    /\ UNCHANGED <<lock, point, cut, rec, pauses, data, archive>>

\* Fail marks a row that was not certified; then the lock is released.
Finish(r) ==
    /\ run[r].pc = "finish"
    /\ point' = [point EXCEPT ![r] = IF @ = "reserved" THEN "failed" ELSE @]
    /\ lock' = IF lock = r THEN None ELSE lock
    /\ run' = [run EXCEPT ![r] = [Idle EXCEPT !.pc = "over"]]
    /\ UNCHANGED <<fence, predates, cut, rec, pauses, data, archive, faults>>

\* The controller dies, and its sessions with it.
Die(r) ==
    /\ faults < plan.faults
    /\ run[r].pc \notin {"idle", "over"}
    /\ lock' = IF lock = r THEN None ELSE lock
    /\ run' = [run EXCEPT ![r] = [Idle EXCEPT !.pc = "over"]]
    /\ cut' = [cut EXCEPT ![r] = IF point[r] = "certified" THEN @ ELSE NoCut]
    /\ faults' = faults + 1
    /\ UNCHANGED <<fence, predates, point, rec, pauses, data, archive>>

\* The lock's connection breaks and the run goes on.
LoseLock(r) ==
    /\ faults < plan.faults
    /\ lock = r
    /\ lock' = None
    /\ faults' = faults + 1
    /\ UNCHANGED <<fence, predates, point, run, cut, rec, pauses, data, archive>>

RunStep(r) ==
    \/ RaiseFence(r) \/ PauseAll(r) \/ Fenced(r) \/ Drain(r) \/ DrainWriters(r) \/ Mark(r)
    \/ CreateRestorePoint(r) \/ AwaitArchived(r) \/ Remark(r) \/ Verify(r) \/ Record(r)
    \/ Failing(r) \/ ResumeAll(r) \/ ReleaseFence(r) \/ Finish(r)

Barriers == \E r \in Runs : Starting(r) \/ RunStep(r) \/ Die(r) \/ LoseLock(r)

-----------------------------------------------------------------------------
(* Recover, on the leader's ticker.                                        *)

\* Recover waits until the fence is maxRunTime old, four minutes by default; by
\* then the drains of the run that raised it, 30 seconds each, are over.
FenceIsOld ==
    \A r \in Runs : fence = r => run[r].pc \notin {"pause", "fenced", "drain", "writers", "mark", "points"}

NoPass == [pc |-> "idle", k |-> 0, groups |-> {}, stuck |-> FALSE]

RecoverDue ==
    /\ rec.pc = "idle" /\ fence # None /\ FenceIsOld
    /\ rec' = [NoPass EXCEPT !.pc = "lock"]
    /\ UNCHANGED <<lock, fence, predates, point, run, cut, pauses, data, archive, faults>>

\* A lock that is taken is a live run's, which is left alone.
RecoverLock ==
    /\ rec.pc = "lock"
    /\ IF lock = None
         THEN /\ lock' = Catalog
              /\ rec' = [NoPass EXCEPT !.pc = "check", !.k = Lead(Active), !.groups = Active]
         ELSE rec' = NoPass /\ UNCHANGED lock
    /\ UNCHANGED <<fence, predates, point, run, cut, pauses, data, archive, faults>>

RecoverCheck ==
    /\ rec.pc = "check"
    /\ rec' = [rec EXCEPT !.pc = IF \E s \in rec.groups : paused[s] THEN "resume" ELSE "clear"]
    /\ UNCHANGED <<lock, fence, predates, point, run, cut, pauses, data, archive, faults>>

\* resumeAll goes on when a group fails, and its error ends the pass after the
\* last one.
RecoverResume ==
    /\ rec.pc = "resume"
    /\ \E fails \in BOOLEAN :
         LET ahead == Ahead(rec.groups, rec.k)
             over == ahead = {} /\ (fails \/ rec.stuck)
         IN /\ fails => faults < plan.faults
            /\ faults' = IF fails THEN faults + 1 ELSE faults
            /\ paused' \in {Resumed(Order[rec.k])} \cup IF fails THEN {paused} ELSE {}
            /\ rec' = IF over THEN NoPass
                      ELSE IF ahead = {} THEN [rec EXCEPT !.pc = "clear"]
                      ELSE [rec EXCEPT !.k = Min(ahead), !.stuck = fails \/ @]
            /\ lock' = IF over /\ lock = Catalog THEN None ELSE lock
    /\ UNCHANGED <<fence, predates, point, run, cut, own, armed, data, archive>>

\* ClearStaleBarrierFence leaves a fence that is older than the postmaster.
RecoverClear ==
    /\ rec.pc = "clear"
    /\ fence' = IF predates THEN fence ELSE None
    /\ lock' = IF lock = Catalog THEN None ELSE lock
    /\ rec' = NoPass
    /\ UNCHANGED <<predates, point, run, cut, pauses, data, archive, faults>>

\* A read fails, or the controller dies: the next tick starts over.
RecoverFails ==
    /\ faults < plan.faults
    /\ rec.pc # "idle"
    /\ lock' = IF lock = Catalog THEN None ELSE lock
    /\ rec' = NoPass
    /\ faults' = faults + 1
    /\ UNCHANGED <<fence, predates, point, run, cut, pauses, data, archive>>

RecoverStep == RecoverDue \/ RecoverLock \/ RecoverCheck \/ RecoverResume \/ RecoverClear

Recover == RecoverStep \/ RecoverFails

-----------------------------------------------------------------------------
Init ==
    /\ plan \in Plans
    /\ lock = None /\ fence = None /\ predates = FALSE
    /\ point = [r \in Runs |-> "none"]
    /\ run = [r \in Runs |-> Idle]
    /\ cut = [r \in Runs |-> NoCut]
    /\ rec = NoPass
    /\ paused = [s \in Shards |-> s \in plan.retired]
    /\ own = [s \in Shards |-> IF s \in plan.retired THEN "retired" ELSE "free"]
    /\ armed = [s \in Shards |-> FALSE]
    /\ br = [t \in Txns |-> [s \in Shards |-> "none"]]
    /\ row = [t \in Txns |-> "none"]
    /\ seen = [t \in Txns |-> {}]
    /\ wal = [g \in Groups |-> [tl |-> 1, from |-> 1, seg |-> 1]]
    /\ last = [g \in Groups |-> [kind |-> "none", tl |-> 1, seg |-> 0]]
    /\ store = [g \in Groups |-> {}]
    /\ faults = 0

Next == Client \/ Surroundings \/ Barriers \/ Recover

Spec == Init /\ [][Next]_vars

\* A run goes on, its waits time out, and the leader's ticker fires.
Fairness ==
    /\ \A r \in Runs : WF_vars(RunStep(r)) /\ WF_vars(Failing(r))
    /\ WF_vars(RecoverStep)
    /\ \A s \in Shards : WF_vars(ReapplyWritePause(s))

FairSpec == Spec /\ Fairness

-----------------------------------------------------------------------------
(* Properties. *)

\* Every variable has its type, and a run's turn is one of its groups.
TypeOK ==
    /\ lock \in Runs \cup {None, Catalog}
    /\ fence \in Runs \cup {None}
    /\ predates \in BOOLEAN
    /\ point \in [Runs -> {"none", "reserved", "failed", "certified"}]
    /\ \A r \in Runs :
          /\ run[r].pc \in {"idle", "fence", "pause", "fenced", "drain", "writers", "mark", "points", "archive",
                            "remark", "verify", "record", "resume", "release", "finish", "over"}
          /\ run[r].k \in 0 .. Len(Order)
          /\ run[r].at \in [Shards -> SUBSET Txns]
          /\ cut[r].done \cup cut[r].prep \subseteq Txns \X Shards
          /\ DOMAIN cut[r].at = Groups
    /\ rec.pc \in {"idle", "lock", "check", "resume", "clear"}
    /\ paused \in [Shards -> BOOLEAN] /\ armed \in [Shards -> BOOLEAN]
    /\ own \in [Shards -> {"free", "claimed", "held", "returned", "retired"}]
    /\ br \in [Txns -> [Shards -> {"none", "open", "wrote", "prepared", "committed", "gone"}]]
    /\ row \in [Txns -> {"none", "preparing", "commit", "finished", "aborted"}]
    /\ faults \in 0 .. plan.faults

\* The branch of t on s after a restore to r's points and the reconciliation of
\* its prepared transactions against the restored decision log.
Restored(r, t, s) == \/ <<t, s>> \in cut[r].done
                     \/ <<t, s>> \in cut[r].prep /\ t \in cut[r].decided

\* A restore to a point that was certified brings back a state clients could
\* have seen: a transaction that comes back on one shard comes back on all it
\* wrote on, and with it every transaction that was acknowledged before it
\* began.  The points are taken one after another while the drains, the
\* watermark and Barrier.verify are all that tells the run what else happened.
ConsistentCut ==
    \A r \in Runs : point[r] = "certified" =>
        \A t \in Txns : (\E s \in Foot[t] : Restored(r, t, s)) =>
            \A u \in seen[t] \cup {t} : \A s \in Foot[u] : Restored(r, u, s)

\* The segment that holds a certified point is in the archive of every group,
\* whatever the archiver reported last and whoever was promoted meanwhile
\* (archivedSegment).
CertifiedRestorable ==
    \A r \in Runs : point[r] = "certified" =>
        \A g \in Groups : cut[r].at[g] # None => cut[r].at[g] \in store[g]

\* No run and no recovery lifts the pause that a switch holds on its sources or
\* that a retired set keeps: only a primary that lost it does
\* (PauseWrites(false), PGS-844 and PGS-822 in its comments).
StandingPauseKept ==
    [][\A s \in Shards : own[s] \in {"held", "retired"} /\ own'[s] = own[s] /\ paused[s] /\ ~paused'[s]
          => faults' = faults + 1]_vars

\* Whatever run died, lost its lock or could not resume a group, in the end the
\* fence is down, unless the catalog restarted under it, and every shard takes
\* writes that no workflow keeps paused (Barrier.run, Recover).
WritesResume ==
    /\ <>[](fence = None \/ predates)
    /\ \A s \in Shards : <>[](~paused[s] \/ own[s] \in {"claimed", "held", "retired"})
===============================================================================
