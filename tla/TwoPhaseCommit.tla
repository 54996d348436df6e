--------------------------- MODULE TwoPhaseCommit ---------------------------
(***************************************************************************)
(* Two-phase commit across shards: the router's coordinator                *)
(* (internal/router/txn.go), the decision log it keeps in the catalog      *)
(* (internal/router/decisions.go), the prepared transactions of the shards *)
(* and the controller's resolver (internal/controller/resolver.go).        *)
(*                                                                         *)
(* A router session that wrote on several shards ends its transaction by   *)
(* inserting a decision row, preparing every writer, flipping the row to   *)
(* "commit" and committing the prepared transactions.  Passes of the       *)
(* resolver run beside it: the leader's loop, the passes a barrier's drain *)
(* or a copy starts, and the rest of a pass whose controller lost the      *)
(* lead.  Statements of either side can be lost, executed without their    *)
(* answer arriving, or executed after the sender gave up on them.          *)
(*                                                                         *)
(* Abstracted: the rows a transaction writes, its transaction ids, time    *)
(* (a preparing row is fresh or stale), the order a pass takes its gids in *)
(* and the shards that only read, which are rolled back before the         *)
(* protocol starts.                                                        *)
(***************************************************************************)
EXTENDS Naturals, FiniteSets

CONSTANTS
  Txns,        \* global transactions, by gid
  Shards,      \* shard primaries
  Writers,     \* Writers[t]: the shards transaction t wrote on
  Lead,        \* Lead[t]: the writer that is told to commit first
  Resolvers,   \* resolver passes that may run side by side
  Scope,       \* Scope[r]: the shards a pass of r lists
  MaxFaults    \* how often something fails: a statement, a process, a beat

ASSUME TxnsAssumption == Txns # {}

ASSUME WritersAssumption ==
  /\ Writers \in [Txns -> SUBSET Shards]
  /\ Lead \in [Txns -> Shards]
  /\ \A t \in Txns : Lead[t] \in Writers[t]

ASSUME ScopeAssumption == Scope \in [Resolvers -> SUBSET Shards]

ASSUME FaultsAssumption == MaxFaults \in Nat

VARIABLES
  row,      \* row[t]: the decision row, "none" when there is none
  stale,    \* stale[t]: the row's heartbeat is older than preparingTimeout
  part,     \* part[t][s]: the transaction of t on shard s
  pc,       \* pc[t]: where the coordinator of t is
  ack,      \* ack[t][s]: what the coordinator knows of its last statement on s
  broken,   \* broken[t]: shards whose stream the coordinator lost
  reply,    \* reply[t]: what the client was told
  net,      \* statements sent to shards and not yet executed
  late,     \* catalog statements whose caller gave up on them
  verdict,  \* verdict[t]: the decision that became durable (history)
  rpc, rseen, runscanned, rheld, rfull, rtodo, rcur, rstate, rkeep,
            \* a resolver pass: its step, the decisions it read, the shards
            \* it has yet to scan, the prepared transactions it found,
            \* whether the whole topology was searched, the decisions left,
            \* the gid in hand, its state, and whether its row must stay
  faults    \* how many faults have happened

coordVars == <<pc, ack, broken, reply>>
logVars   == <<row, stale, late, verdict>>
passVars  == <<rpc, rseen, runscanned, rheld, rfull, rtodo, rcur, rstate, rkeep>>
vars == <<row, stale, part, pc, ack, broken, reply, net, late, verdict,
          rpc, rseen, runscanned, rheld, rfull, rtodo, rcur, rstate, rkeep, faults>>

Decisions == {"commit", "abort"}
RowStates == {"none", "preparing"} \cup Decisions
PartStates == {"active", "prepared", "committed", "aborted"}
Verbs == {"prepare", "rollback", "commitPrepared", "rollbackPrepared"}
LogStatements == {"begin", "commit", "abort", "delete", "expire",
                  "deleteCommit", "deleteAbort"}
CoordSteps == {"running", "begin", "quit", "prepare", "undo", "logAbort",
               "decide", "retract", "applyLead", "applyRest", "deleteAbort",
               "deleteCommit", "done", "crashed"}
Acks == {"ok", "wait", "failed", "lost"}
Replies == {"none", "commit", "retry", "error", "inDoubt"}
Messages == [txn : Txns, shard : Shards, verb : Verbs, by : {"router", "resolver"}]

Fault == faults < MaxFaults /\ faults' = faults + 1
NoFault == UNCHANGED faults

Msg(t, s, v, by) == [txn |-> t, shard |-> s, verb |-> v, by |-> by]
FinishVerb(commit) == IF commit THEN "commitPrepared" ELSE "rollbackPrepared"

LogTypes ==
  /\ row \in [Txns -> RowStates]
  /\ stale \in [Txns -> BOOLEAN]
  /\ late \subseteq Txns \X LogStatements
  /\ verdict \in [Txns -> {"none"} \cup Decisions]

ShardTypes ==
  /\ part \in [Txns -> [Shards -> PartStates]]
  /\ net \subseteq Messages

CoordTypes ==
  /\ pc \in [Txns -> CoordSteps]
  /\ ack \in [Txns -> [Shards -> Acks]]
  /\ broken \in [Txns -> SUBSET Shards]
  /\ reply \in [Txns -> Replies]

PassTypes ==
  /\ rpc \in [Resolvers -> {"idle", "pass", "reread", "finish", "sweep"}]
  /\ rseen \in [Resolvers -> [Txns -> RowStates \cup {"stale"}]]
  /\ runscanned \in [Resolvers -> SUBSET Shards]
  /\ rheld \in [Resolvers -> SUBSET (Txns \X Shards)]
  /\ rfull \in [Resolvers -> BOOLEAN]
  /\ rtodo \in [Resolvers -> SUBSET Txns]
  /\ rcur \in [Resolvers -> Txns]
  /\ rstate \in [Resolvers -> Decisions]
  /\ rkeep \in [Resolvers -> BOOLEAN]

(* The decision log, the shards, the coordinators and the resolver passes
   hold values of their types. *)
TypeOK == LogTypes /\ ShardTypes /\ CoordTypes /\ PassTypes /\ faults \in 0 .. MaxFaults

(* COMMIT has arrived: every writer holds its open transaction, and the
   shards that only read have been rolled back. *)
Init ==
  /\ row = [t \in Txns |-> "none"]
  /\ stale = [t \in Txns |-> FALSE]
  /\ part = [t \in Txns |-> [s \in Shards |-> IF s \in Writers[t] THEN "active" ELSE "aborted"]]
  /\ pc = [t \in Txns |-> "running"]
  /\ ack = [t \in Txns |-> [s \in Shards |-> "ok"]]
  /\ broken = [t \in Txns |-> {}]
  /\ reply = [t \in Txns |-> "none"]
  /\ net = {}
  /\ late = {}
  /\ verdict = [t \in Txns |-> "none"]
  /\ rpc = [r \in Resolvers |-> "idle"]
  /\ rseen = [r \in Resolvers |-> [t \in Txns |-> "none"]]
  /\ runscanned = [r \in Resolvers |-> {}]
  /\ rheld = [r \in Resolvers |-> {}]
  /\ rfull = [r \in Resolvers |-> FALSE]
  /\ rtodo = [r \in Resolvers |-> {}]
  /\ rcur = [r \in Resolvers |-> CHOOSE t \in Txns : TRUE]
  /\ rstate = [r \in Resolvers |-> "abort"]
  /\ rkeep = [r \in Resolvers |-> TRUE]
  /\ faults = 0

-----------------------------------------------------------------------------
(***************************************************************************)
(* The decision log.  Each statement is one durable catalog transaction.   *)
(***************************************************************************)

(* The WHERE clause of a statement, met by a row in state r. *)
Matches(stmt, r, isStale) ==
  \/ stmt = "begin" /\ r = "none"
  \/ stmt \in {"commit", "abort"} /\ r = "preparing"
  \/ stmt = "expire" /\ r = "preparing" /\ isStale
  \/ stmt = "delete"
  \/ stmt = "deleteCommit" /\ r = "commit"
  \/ stmt = "deleteAbort" /\ r = "abort"

Leaves(stmt) ==
  IF stmt = "begin" THEN "preparing"
  ELSE IF stmt = "commit" THEN "commit"
  ELSE IF stmt \in {"abort", "expire"} THEN "abort" ELSE "none"

(* The row a statement leaves behind when it runs against row r. *)
RowAfter(stmt, r, isStale) ==
  IF Matches(stmt, r, isStale) THEN Leaves(stmt) ELSE r

(* stmt runs on t's row; a decision it takes is recorded in verdict. *)
RunStatement(t, stmt) ==
  LET after == RowAfter(stmt, row[t], stale[t]) IN
  /\ row' = [row EXCEPT ![t] = after]
  /\ stale' = [stale EXCEPT ![t] = @ /\ after = "preparing"]
  /\ verdict' = [verdict EXCEPT ![t] = IF after \in Decisions THEN after ELSE @]

(* The statement runs and its caller learns so. *)
LogRun(t, stmt) == RunStatement(t, stmt) /\ UNCHANGED late /\ NoFault

(* The caller got an error or no answer: the statement may still run. *)
LogLost(t, stmt) ==
  /\ Fault
  /\ late' = late \cup {<<t, stmt>>}
  /\ UNCHANGED <<row, stale, verdict>>

(* A statement whose caller gave up reaches the catalog after all ... *)
LateLog(t, stmt) ==
  /\ <<t, stmt>> \in late
  /\ RunStatement(t, stmt)
  /\ late' = late \ {<<t, stmt>>}
  /\ UNCHANGED <<part, net, coordVars, passVars, faults>>

(* ... or never does. *)
LateLogDropped(t, stmt) ==
  /\ <<t, stmt>> \in late
  /\ late' = late \ {<<t, stmt>>}
  /\ UNCHANGED <<row, stale, verdict, part, net, coordVars, passVars, faults>>

-----------------------------------------------------------------------------
(***************************************************************************)
(* Shards.                                                                 *)
(***************************************************************************)

(* The transaction's state after PostgreSQL ran verb on it. *)
PartAfter(verb, p) ==
  IF p = "active" /\ verb \in {"prepare", "rollback"}
    THEN IF verb = "prepare" THEN "prepared" ELSE "aborted"
  ELSE IF p = "prepared" /\ verb \in {"commitPrepared", "rollbackPrepared"}
    THEN IF verb = "commitPrepared" THEN "committed" ELSE "aborted"
  ELSE p

(* Whether PostgreSQL answers verb without an error. *)
Succeeds(verb, p) ==
  verb = "rollback" \/ p = (IF verb = "prepare" THEN "active" ELSE "prepared")

Awaited(m) == m.by = "router" /\ ack[m.txn][m.shard] = "wait"

(* A shard runs a statement and its answer reaches the sender, if that still waits. *)
Execute(m) ==
  /\ m \in net
  /\ net' = net \ {m}
  /\ part' = [part EXCEPT ![m.txn][m.shard] = PartAfter(m.verb, @)]
  /\ ack' = IF Awaited(m)
              THEN [ack EXCEPT ![m.txn][m.shard] =
                      IF Succeeds(m.verb, part[m.txn][m.shard]) THEN "ok" ELSE "failed"]
              ELSE ack
  /\ UNCHANGED <<logVars, pc, broken, reply, passVars, faults>>

(* PREPARE TRANSACTION fails on the shard (a deferred constraint, no slot
   left): PostgreSQL rolls the transaction back. *)
PrepareRefused(m) ==
  /\ m \in net /\ m.verb = "prepare"
  /\ part[m.txn][m.shard] = "active"
  /\ net' = net \ {m}
  /\ part' = [part EXCEPT ![m.txn][m.shard] = "aborted"]
  /\ ack' = IF Awaited(m) THEN [ack EXCEPT ![m.txn][m.shard] = "failed"] ELSE ack
  /\ UNCHANGED <<logVars, pc, broken, reply, passVars, faults>>

StreamLost(t, s) ==
  /\ ack' = [ack EXCEPT ![t][s] = "lost"]
  /\ broken' = [broken EXCEPT ![t] = @ \cup {s}]

(* The statement runs and the stream dies before its answer. *)
AnswerLost(m) ==
  /\ Fault
  /\ m \in net /\ Awaited(m)
  /\ net' = net \ {m}
  /\ part' = [part EXCEPT ![m.txn][m.shard] = PartAfter(m.verb, @)]
  /\ StreamLost(m.txn, m.shard)
  /\ UNCHANGED <<logVars, pc, reply, passVars>>

(* The statement never reaches PostgreSQL. *)
StatementLost(m) ==
  /\ m \in net
  /\ net' = net \ {m}
  /\ IF Awaited(m) THEN Fault /\ StreamLost(m.txn, m.shard)
                  ELSE NoFault /\ UNCHANGED <<ack, broken>>
  /\ UNCHANGED <<logVars, part, pc, reply, passVars>>

(* The coordinator stops waiting -- the client left and cancelGrace passed,
   decisionDeadline passed, the stream broke -- while the statement lives on. *)
GiveUp(t, s) ==
  /\ Fault
  /\ ack[t][s] = "wait"
  /\ StreamLost(t, s)
  /\ UNCHANGED <<logVars, part, net, pc, reply, passVars>>

(* A backend dies, or the pooler resets it once its session is over, and its
   open transaction rolls back.  A prepared transaction outlives both. *)
BackendEnds(t, s) ==
  /\ part[t][s] = "active"
  /\ IF pc[t] \in {"done", "crashed"} \/ s \in broken[t] THEN NoFault ELSE Fault
  /\ part' = [part EXCEPT ![t][s] = "aborted"]
  /\ UNCHANGED <<logVars, net, coordVars, passVars>>

-----------------------------------------------------------------------------
(***************************************************************************)
(* The coordinator: Executor.twoPhaseCommit.                               *)
(***************************************************************************)

(* Send verb[s] to every shard s of S whose stream is alive, all at once. *)
Issue(t, step, S, verb) ==
  /\ pc' = [pc EXCEPT ![t] = step]
  /\ ack' = [ack EXCEPT ![t] =
       [s \in Shards |-> IF s \notin S THEN ack[t][s]
                         ELSE IF s \in broken[t] THEN "lost" ELSE "wait"]]
  /\ net' = net \cup {Msg(t, s, verb[s], "router") : s \in S \ broken[t]}

All(verb) == [s \in Shards |-> verb]
Waiting(t) == \E s \in Writers[t] : ack[t][s] = "wait"
AllOk(t) == \A s \in Writers[t] : ack[t][s] = "ok"

(* The client hears a; the session lets go of its streams. *)
Answer(t, a) ==
  /\ pc' = [pc EXCEPT ![t] = "done"]
  /\ reply' = [reply EXCEPT ![t] = a]
  /\ ack' = [ack EXCEPT ![t] = All("ok")]
  /\ broken' = [broken EXCEPT ![t] = {}]

(* Reading every writer's transaction id; an error rolls all of them back. *)
CollectXids(t) ==
  /\ pc[t] = "running"
  /\ \/ /\ \A s \in Writers[t] : part[t][s] = "active"
        /\ pc' = [pc EXCEPT ![t] = "begin"]
        /\ NoFault /\ UNCHANGED <<ack, net>>
     \/ /\ IF \E s \in Writers[t] : part[t][s] # "active" THEN NoFault ELSE Fault
        /\ Issue(t, "quit", Writers[t], All("rollback"))
  /\ UNCHANGED <<logVars, part, broken, reply, passVars>>

(* DecisionLog.Begin, then PREPARE TRANSACTION on every writer. *)
LogBegin(t) ==
  /\ pc[t] = "begin"
  /\ \/ LogRun(t, "begin") /\ Issue(t, "prepare", Writers[t], All("prepare"))
     \/ LogLost(t, "begin") /\ Issue(t, "quit", Writers[t], All("rollback"))
  /\ UNCHANGED <<part, broken, reply, passVars>>

(* Every writer was rolled back before the protocol wrote anything. *)
QuitDone(t) ==
  /\ pc[t] = "quit" /\ ~Waiting(t)
  /\ Answer(t, "error")
  /\ UNCHANGED <<logVars, part, net, passVars, faults>>

(* Mutant of PrepareDone: a lost answer is taken for a prepared writer. *)
PrepareDoneOptimist(t) ==
  /\ pc[t] = "prepare" /\ ~Waiting(t)
  /\ \A s \in Writers[t] : ack[t][s] # "failed"
  /\ pc' = [pc EXCEPT ![t] = "decide"]
  /\ UNCHANGED <<logVars, part, net, ack, broken, reply, passVars, faults>>

(* Every PREPARE answered; one error undoes them all. *)
PrepareDone(t) ==
  /\ pc[t] = "prepare" /\ ~Waiting(t)
  /\ \/ /\ AllOk(t)
        /\ pc' = [pc EXCEPT ![t] = "decide"]
        /\ UNCHANGED <<ack, net>>
     \/ /\ ~AllOk(t)
        /\ Issue(t, "undo", Writers[t],
             [s \in Shards |-> IF ack[t][s] = "ok" THEN "rollbackPrepared" ELSE "rollback"])
  /\ UNCHANGED <<logVars, part, broken, reply, passVars, faults>>

UndoDone(t) ==
  /\ pc[t] = "undo" /\ ~Waiting(t)
  /\ pc' = [pc EXCEPT ![t] = "logAbort"]
  /\ UNCHANGED <<logVars, part, net, ack, broken, reply, passVars, faults>>

(* DecisionLog.Abort; the row is deleted only if no writer reported an error. *)
LogAbort(t) ==
  /\ pc[t] = "logAbort"
  /\ \/ /\ LogRun(t, "abort")
        /\ IF AllOk(t) /\ row[t] # "commit"
             THEN pc' = [pc EXCEPT ![t] = "deleteAbort"] /\ UNCHANGED <<reply, ack, broken>>
             ELSE Answer(t, "error")
     \/ LogLost(t, "abort") /\ Answer(t, "error")
  /\ UNCHANGED <<part, net, passVars>>

(* DecisionLog.Commit: one guarded update decides.  Losing its answer leaves
   the transaction in doubt; finding the row no longer preparing undoes it. *)
LogCommit(t) ==
  /\ pc[t] = "decide"
  /\ \/ /\ LogRun(t, "commit") /\ UNCHANGED <<reply, broken>>
        /\ IF row[t] = "preparing"
             THEN Issue(t, "applyLead", {Lead[t]}, All("commitPrepared"))
             ELSE Issue(t, "retract", Writers[t], All("rollbackPrepared"))
     \/ LogLost(t, "commit") /\ Answer(t, "inDoubt") /\ UNCHANGED net
  /\ UNCHANGED <<part, passVars>>

RetractDone(t) ==
  /\ pc[t] = "retract" /\ ~Waiting(t)
  /\ Answer(t, "retry")
  /\ UNCHANGED <<logVars, part, net, passVars, faults>>

(* The first writer's COMMIT PREPARED answered: send the others. *)
ApplyLeadDone(t) ==
  /\ pc[t] = "applyLead" /\ ack[t][Lead[t]] # "wait"
  /\ Issue(t, "applyRest", Writers[t] \ {Lead[t]}, All("commitPrepared"))
  /\ UNCHANGED <<logVars, part, broken, reply, passVars, faults>>

(* The client hears COMMIT whatever the participants answered; the row is
   deleted only if all of them committed. *)
ApplyDone(t) ==
  /\ pc[t] = "applyRest" /\ ~Waiting(t)
  /\ IF AllOk(t)
       THEN pc' = [pc EXCEPT ![t] = "deleteCommit"] /\ UNCHANGED <<reply, ack, broken>>
       ELSE Answer(t, "commit")
  /\ UNCHANGED <<logVars, part, net, passVars, faults>>

(* DecisionLog.Delete, whose failure is only logged. *)
LogDelete(t) ==
  /\ pc[t] \in {"deleteAbort", "deleteCommit"}
  /\ LogRun(t, "delete") \/ LogLost(t, "delete")
  /\ Answer(t, IF pc[t] = "deleteCommit" THEN "commit" ELSE "error")
  /\ UNCHANGED <<part, net, passVars>>

(* The coordinator beats between the row's insert and its decision. *)
Beating(t) == pc[t] \in {"prepare", "undo", "logAbort", "decide"}

(* heartbeatUntilDecided: a beat refreshes a row that is still preparing. *)
Heartbeat(t) ==
  /\ Beating(t) /\ row[t] = "preparing" /\ stale[t]
  /\ stale' = [stale EXCEPT ![t] = FALSE]
  /\ UNCHANGED <<row, late, verdict, part, net, coordVars, passVars, faults>>

(* No beat for preparingTimeout: the coordinator is gone, or its beats are lost. *)
Age(t) ==
  /\ row[t] = "preparing" /\ ~stale[t]
  /\ IF Beating(t) THEN Fault ELSE NoFault
  /\ stale' = [stale EXCEPT ![t] = TRUE]
  /\ UNCHANGED <<row, late, verdict, part, net, coordVars, passVars>>

(* The catalog statement a coordinator has in flight at a step. *)
InFlight(step) ==
  IF step = "begin" THEN {"begin"}
  ELSE IF step = "logAbort" THEN {"abort"}
  ELSE IF step = "decide" THEN {"commit"}
  ELSE IF step \in {"deleteAbort", "deleteCommit"} THEN {"delete"} ELSE {}

(* The router dies at any of the crashpoints and between them. *)
Crash(t) ==
  /\ Fault
  /\ pc[t] \notin {"done", "crashed"}
  /\ pc' = [pc EXCEPT ![t] = "crashed"]
  /\ ack' = [ack EXCEPT ![t] = All("ok")]
  /\ broken' = [broken EXCEPT ![t] = {}]
  /\ late' = late \cup ({t} \X InFlight(pc[t]))
  /\ UNCHANGED <<row, stale, verdict, part, net, reply, passVars>>

-----------------------------------------------------------------------------
(***************************************************************************)
(* The resolver: one pass of Resolver.Resolve.                             *)
(***************************************************************************)

(* Mutant of StartPass: a pass over one shard set counts as complete. *)
StartPassComplete(r) ==
  /\ rpc[r] = "idle"
  /\ rpc' = [rpc EXCEPT ![r] = "pass"]
  /\ rseen' = [rseen EXCEPT ![r] =
       [t \in Txns |-> IF row[t] = "preparing" /\ stale[t] THEN "stale" ELSE row[t]]]
  /\ rtodo' = [rtodo EXCEPT ![r] = {t \in Txns : row[t] # "none"}]
  /\ runscanned' = [runscanned EXCEPT ![r] = Scope[r]]
  /\ rheld' = [rheld EXCEPT ![r] = {}]
  /\ rfull' = [rfull EXCEPT ![r] = TRUE]
  /\ UNCHANGED <<logVars, part, net, coordVars, rcur, rstate, rkeep, faults>>

(* Read the decision log, then list the shards in scope. *)
StartPass(r) ==
  /\ rpc[r] = "idle"
  /\ rpc' = [rpc EXCEPT ![r] = "pass"]
  /\ rseen' = [rseen EXCEPT ![r] =
       [t \in Txns |-> IF row[t] = "preparing" /\ stale[t] THEN "stale" ELSE row[t]]]
  /\ rtodo' = [rtodo EXCEPT ![r] = {t \in Txns : row[t] # "none"}]
  /\ runscanned' = [runscanned EXCEPT ![r] = Scope[r]]
  /\ rheld' = [rheld EXCEPT ![r] = {}]
  /\ rfull' = [rfull EXCEPT ![r] = (Scope[r] = Shards)]
  /\ UNCHANGED <<logVars, part, net, coordVars, rcur, rstate, rkeep, faults>>

(* listPrepared on one shard; the shards are scanned concurrently. *)
ScanShard(r, s) ==
  /\ rpc[r] = "pass" /\ s \in runscanned[r]
  /\ runscanned' = [runscanned EXCEPT ![r] = @ \ {s}]
  /\ \/ /\ rheld' = [rheld EXCEPT ![r] =
             @ \cup {<<t, s>> : t \in {u \in Txns : part[u][s] = "prepared"}}]
        /\ NoFault /\ UNCHANGED rfull
     \/ /\ Fault
        /\ rfull' = [rfull EXCEPT ![r] = FALSE]
        /\ UNCHANGED rheld
  /\ UNCHANGED <<logVars, part, net, coordVars, rpc, rseen, rtodo, rcur, rstate, rkeep>>

Scanned(r) == rpc[r] = "pass" /\ runscanned[r] = {}

HeldOn(r, t) == {s \in Shards : <<t, s>> \in rheld[r]}

(* t's decision is dealt with in this pass: on to the next one. *)
NextDecision(r, t) ==
  /\ rpc' = [rpc EXCEPT ![r] = "pass"]
  /\ rtodo' = [rtodo EXCEPT ![r] = @ \ {t}]
  /\ rstate' = [rstate EXCEPT ![r] = "abort"]
  /\ rkeep' = [rkeep EXCEPT ![r] = TRUE]
  /\ UNCHANGED rcur

(* Finish t as d says, keeping its row when keep holds. *)
FinishAs(r, t, d, keep) ==
  /\ rpc' = [rpc EXCEPT ![r] = "finish"]
  /\ rcur' = [rcur EXCEPT ![r] = t]
  /\ rstate' = [rstate EXCEPT ![r] = d]
  /\ rkeep' = [rkeep EXCEPT ![r] = keep]
  /\ UNCHANGED rtodo

(* A preparing row with a recent heartbeat is left alone. *)
SkipFresh(r, t) ==
  /\ Scanned(r) /\ t \in rtodo[r] /\ rseen[r][t] = "preparing"
  /\ NextDecision(r, t)
  /\ UNCHANGED <<logVars, part, net, coordVars, rseen, runscanned, rheld, rfull, faults>>

(* A stale preparing row: the update re-checks staleness and decides abort. *)
ExpireRow(r, t) ==
  /\ Scanned(r) /\ t \in rtodo[r] /\ rseen[r][t] = "stale"
  /\ \/ /\ LogRun(t, "expire")
        /\ IF row[t] = "preparing" /\ stale[t]
             THEN FinishAs(r, t, "abort", ~rfull[r])
             ELSE /\ rpc' = [rpc EXCEPT ![r] = "reread"]
                  /\ rcur' = [rcur EXCEPT ![r] = t]
                  /\ UNCHANGED <<rtodo, rstate, rkeep>>
     \/ LogLost(t, "expire") /\ NextDecision(r, t)
  /\ UNCHANGED <<part, net, coordVars, rseen, runscanned, rheld, rfull>>

(* Mutant of Reread: the older scan is trusted for the newer decision. *)
RereadTrusting(r) ==
  LET t == rcur[r] IN
  /\ rpc[r] = "reread" /\ NoFault
  /\ \/ row[t] \in Decisions /\ FinishAs(r, t, row[t], ~rfull[r])
     \/ row[t] \notin Decisions /\ NextDecision(r, t)
  /\ UNCHANGED <<logVars, part, net, coordVars, rseen, runscanned, rheld, rfull>>

(* The update matched nothing: read the row again.  A decision found now was
   taken after the scan began, so its row is kept for the next pass. *)
Reread(r) ==
  LET t == rcur[r] IN
  /\ rpc[r] = "reread"
  /\ \/ row[t] \in Decisions /\ FinishAs(r, t, row[t], TRUE) /\ NoFault
     \/ row[t] \notin Decisions /\ NextDecision(r, t) /\ NoFault
     \/ row[t] \in Decisions /\ NextDecision(r, t) /\ Fault
  /\ UNCHANGED <<logVars, part, net, coordVars, rseen, runscanned, rheld, rfull>>

(* A decided row is finished as read. *)
TakeDecided(r, t) ==
  /\ Scanned(r) /\ t \in rtodo[r] /\ rseen[r][t] \in Decisions
  /\ FinishAs(r, t, rseen[r][t], ~rfull[r])
  /\ UNCHANGED <<logVars, part, net, coordVars, rseen, runscanned, rheld, rfull, faults>>

(* finishOn runs on the shard; a transaction already gone counts as finished. *)
FinishRuns(r, s) ==
  LET t == rcur[r] IN
  /\ part' = [part EXCEPT ![t][s] = PartAfter(FinishVerb(rstate[r] = "commit"), @)]
  /\ rheld' = [rheld EXCEPT ![r] = @ \ {<<t, s>>}]
  /\ NoFault /\ UNCHANGED net

(* finishOn fails or times out: the statement may yet run. *)
FinishLost(r, s) ==
  /\ Fault
  /\ net' = net \cup {Msg(rcur[r], s, FinishVerb(rstate[r] = "commit"), "resolver")}
  /\ UNCHANGED part

(* Finish the decision in hand on one holder; an error ends this decision
   and leaves its remaining holders to the sweep. *)
FinishHolder(r, s) ==
  /\ rpc[r] = "finish" /\ s \in HeldOn(r, rcur[r])
  /\ \/ FinishRuns(r, s) /\ UNCHANGED <<rpc, rtodo, rcur, rstate, rkeep>>
     \/ FinishLost(r, s) /\ UNCHANGED rheld /\ NextDecision(r, rcur[r])
  /\ UNCHANGED <<logVars, coordVars, rseen, runscanned, rfull>>

(* No holder is left: delete the row in the state it was finished in, unless
   part of the topology went unsearched. *)
FinishDecision(r) ==
  LET t == rcur[r]
      stmt == IF rstate[r] = "commit" THEN "deleteCommit" ELSE "deleteAbort" IN
  /\ rpc[r] = "finish" /\ HeldOn(r, t) = {}
  /\ \/ rkeep[r] /\ NoFault /\ UNCHANGED logVars
     \/ ~rkeep[r] /\ LogRun(t, stmt)
     \/ ~rkeep[r] /\ LogLost(t, stmt)
  /\ NextDecision(r, t)
  /\ UNCHANGED <<part, net, coordVars, rseen, runscanned, rheld, rfull>>

Forget(r, t) == rheld' = [rheld EXCEPT ![r] = {h \in @ : h[1] # t}]

(* Mutant of SweepGid: a prepared transaction without a row is left alone. *)
SweepGidRowed(r, t) ==
  /\ Scanned(r) /\ rtodo[r] = {} /\ HeldOn(r, t) # {} /\ NoFault
  /\ \/ /\ row[t] \in Decisions
        /\ rpc' = [rpc EXCEPT ![r] = "sweep"]
        /\ rcur' = [rcur EXCEPT ![r] = t]
        /\ rstate' = [rstate EXCEPT ![r] = row[t]]
        /\ UNCHANGED rheld
     \/ /\ row[t] \notin Decisions
        /\ Forget(r, t)
        /\ UNCHANGED <<rpc, rcur, rstate>>
  /\ UNCHANGED <<logVars, part, net, coordVars, rseen, runscanned, rfull, rtodo, rkeep>>

(* sweepOrphans: a gid still held is finished by the row it has now, rolled
   back when it has none, and left alone while it is preparing. *)
SweepGid(r, t) ==
  /\ Scanned(r) /\ rtodo[r] = {} /\ HeldOn(r, t) # {}
  /\ \/ /\ row[t] # "preparing"
        /\ rpc' = [rpc EXCEPT ![r] = "sweep"]
        /\ rcur' = [rcur EXCEPT ![r] = t]
        /\ rstate' = [rstate EXCEPT ![r] = IF row[t] = "none" THEN "abort" ELSE row[t]]
        /\ NoFault /\ UNCHANGED rheld
     \/ /\ IF row[t] = "preparing" THEN NoFault ELSE Fault
        /\ Forget(r, t)
        /\ UNCHANGED <<rpc, rcur, rstate>>
  /\ UNCHANGED <<logVars, part, net, coordVars, rseen, runscanned, rfull, rtodo, rkeep>>

(* An error on one holder does not stop the sweep. *)
SweepHolder(r, s) ==
  /\ rpc[r] = "sweep" /\ s \in HeldOn(r, rcur[r])
  /\ \/ FinishRuns(r, s)
     \/ FinishLost(r, s) /\ rheld' = [rheld EXCEPT ![r] = @ \ {<<rcur[r], s>>}]
  /\ UNCHANGED <<logVars, coordVars, rpc, rseen, runscanned, rfull, rtodo, rcur, rstate, rkeep>>

SweepGidDone(r) ==
  /\ rpc[r] = "sweep" /\ HeldOn(r, rcur[r]) = {}
  /\ rpc' = [rpc EXCEPT ![r] = "pass"]
  /\ rstate' = [rstate EXCEPT ![r] = "abort"]
  /\ UNCHANGED <<logVars, part, net, coordVars, rseen, runscanned, rheld, rfull,
                 rtodo, rcur, rkeep, faults>>

(* The pass ends, or is abandoned part-way: its controller lost the lead,
   was stopped, or the request that started it was cancelled. *)
EndPass(r) ==
  /\ \/ Scanned(r) /\ rtodo[r] = {} /\ rheld[r] = {} /\ NoFault
     \/ rpc[r] # "idle" /\ Fault
  /\ rpc' = [rpc EXCEPT ![r] = "idle"]
  /\ runscanned' = [runscanned EXCEPT ![r] = {}]
  /\ rheld' = [rheld EXCEPT ![r] = {}]
  /\ rtodo' = [rtodo EXCEPT ![r] = {}]
  /\ rseen' = [rseen EXCEPT ![r] = [t \in Txns |-> "none"]]
  /\ rfull' = [rfull EXCEPT ![r] = FALSE]
  /\ rstate' = [rstate EXCEPT ![r] = "abort"]
  /\ rkeep' = [rkeep EXCEPT ![r] = TRUE]
  /\ UNCHANGED <<logVars, part, net, coordVars, rcur>>

-----------------------------------------------------------------------------
Coordinate(t) ==
  \/ CollectXids(t) \/ LogBegin(t) \/ QuitDone(t) \/ PrepareDone(t)
  \/ UndoDone(t) \/ LogAbort(t) \/ LogCommit(t) \/ RetractDone(t)
  \/ ApplyLeadDone(t) \/ ApplyDone(t) \/ LogDelete(t)

Resolve(r) ==
  \/ StartPass(r) \/ Reread(r) \/ FinishDecision(r) \/ SweepGidDone(r) \/ EndPass(r)
  \/ \E s \in Shards : ScanShard(r, s) \/ FinishHolder(r, s) \/ SweepHolder(r, s)
  \/ \E t \in Txns : SkipFresh(r, t) \/ ExpireRow(r, t) \/ TakeDecided(r, t) \/ SweepGid(r, t)

ShardStep ==
  \/ \E m \in net : Execute(m) \/ PrepareRefused(m) \/ AnswerLost(m) \/ StatementLost(m)
  \/ \E t \in Txns, s \in Shards : GiveUp(t, s) \/ BackendEnds(t, s)

Next ==
  \/ \E t \in Txns : Coordinate(t) \/ Heartbeat(t) \/ Age(t) \/ Crash(t)
  \/ \E t \in Txns, stmt \in LogStatements : LateLog(t, stmt) \/ LateLogDropped(t, stmt)
  \/ \E r \in Resolvers : Resolve(r)
  \/ ShardStep

Spec == Init /\ [][Next]_vars

(* Goroutines run, shards and the catalog answer, a silent coordinator's row
   ages and every resolver is ticked.  Faults are finite in number. *)
Fairness ==
  /\ WF_vars(ShardStep)
  /\ WF_vars(\E t \in Txns, stmt \in LogStatements : LateLog(t, stmt) \/ LateLogDropped(t, stmt))
  /\ \A t \in Txns : WF_vars(Coordinate(t)) /\ WF_vars(Age(t))
  /\ \A r \in Resolvers : WF_vars(Resolve(r))

FairSpec == Spec /\ Fairness

-----------------------------------------------------------------------------
(* A transaction never ends committed on one writer and rolled back on
   another, whatever the coordinator, its lost statements and the resolver
   passes beside it do. *)
Atomic ==
  \A t \in Txns : \A s, u \in Writers[t] :
    ~(part[t][s] = "committed" /\ part[t][u] = "aborted")

(* A client told COMMIT keeps its writes: no writer has been rolled back,
   although the answer leaves before every COMMIT PREPARED has succeeded. *)
CommitHonoured ==
  \A t \in Txns : reply[t] = "commit" =>
    \A s \in Writers[t] : part[t][s] # "aborted"

(* A client told that the transaction failed, or to retry it ("no participant
   committed"), never finds its writes committed. *)
RetrySafe ==
  \A t \in Txns : reply[t] \in {"retry", "error"} =>
    \A s \in Writers[t] : part[t][s] # "committed"

(* The row of a commit decision outlives every participant that still holds
   its prepared transaction: once it is gone the orphan sweep would roll the
   holder back. *)
CommitRowOutlivesHolders ==
  \A t \in Txns : verdict[t] = "commit" /\ row[t] = "none" =>
    \A s \in Writers[t] : part[t][s] = "committed"

(* A durable decision is never replaced by the other one, however late a
   statement of the router or of an abandoned pass arrives. *)
DecisionStable ==
  [][\A t \in Txns : verdict[t] # "none" => verdict'[t] = verdict[t]]_vars

(* Once nothing fails any more every transaction is answered or its router gone,
   no participant stays prepared or open, and its decision row is deleted. *)
Settles ==
  <>[](\A t \in Txns :
        /\ pc[t] \in {"done", "crashed"}
        /\ row[t] = "none"
        /\ \A s \in Writers[t] : part[t][s] \in {"committed", "aborted"})

-----------------------------------------------------------------------------
(***************************************************************************)
(* The refinement of AtomicCommit.  An abort that was answered but never   *)
(* reached the decision log counts as decided when it is answered.         *)
(***************************************************************************)
Told ==
  [t \in Txns |-> CASE reply[t] = "none" -> "none"
                   [] reply[t] = "commit" -> "commit"
                   [] reply[t] = "inDoubt" -> "unknown"
                   [] OTHER -> "abort"]

Outcome ==
  [t \in Txns |-> IF verdict[t] = "none" /\ Told[t] = "abort" THEN "abort" ELSE verdict[t]]

State == [t \in Txns |-> [s \in Writers[t] |-> part[t][s]]]

AC == INSTANCE AtomicCommit
        WITH Participants <- Writers, state <- State, outcome <- Outcome, told <- Told

(* The coordinator, the decision log and the resolver together keep the
   promise of AtomicCommit: one decision, taken with every writer prepared,
   participants that end as decided, and a client told only what can no
   longer change. *)
ImplementsAtomicCommit == AC!ASpec
=============================================================================
