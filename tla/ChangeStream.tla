---------------------------- MODULE ChangeStream ----------------------------
(***************************************************************************)
(* One change stream, from the logical slot of each shard to the consumer: *)
(* the pooler that reads the slot, the router's reader of the shard, the   *)
(* merger that puts the shards on one stream, the acks that move the slot, *)
(* the initial copy, and a consumer that keeps what it is sent and resumes *)
(* from the last VGtid it saved.                                           *)
(*                                                                         *)
(* An LSN is the index of a transaction in its shard's WAL. A transaction  *)
(* writes one row, or nothing the publication carries (Unpublished); the   *)
(* value of a row is the LSN that wrote it. A published transaction comes  *)
(* in two batches, as one streamed before its commit does. A shard has one *)
(* table, copied one row at a time.                                        *)
(***************************************************************************)
EXTENDS Integers, FiniteSets, Sequences

CONSTANTS
    Shards,      \* the shards of the serving set
    Keys,        \* the primary keys of a shard's table, positive integers
    Plans,       \* the workloads: what a shard's transactions write, whether the
                 \* consumer copies first, whether the table has no primary key,
                 \* whether the slot exists, which acks are sent, and how many
                 \* calls are lost, streams ended and primaries deposed
    BufferUnits, \* assembled units a reader may run ahead (Server.BufferUnits)
    SlotLost     \* the phases in which a promotion may find no synchronized
                 \* slot: a subset of {"streaming", "copying"}

ASSUME StreamAssumption ==
    /\ Keys \subseteq Nat \ {0} /\ Keys # {}
    /\ Plans \subseteq [script : Seq(Keys \cup {0}), copy : BOOLEAN, keyless : BOOLEAN, made : BOOLEAN,
                        acks : SUBSET {"stream", "unary"}, faults : Nat]
    /\ BufferUnits \in Nat \ {0}
    /\ SlotLost \subseteq {"streaming", "copying"}

VARIABLES
    wal,      \* per shard, the keys its transactions wrote
    slot,     \* per shard and member, the slot's confirmed_flush_lsn; 0: no slot
    status,   \* per shard, the standby statuses its primary has not read yet
    epoch,    \* per shard, the member that is primary (its primary_epoch)
    cut,      \* per shard, where the WAL of the deposed primary stops
    topo,     \* per shard, the epoch in the router's snapshot
    up,       \* whether the stream is open
    rd,       \* per shard, the router's reader: delivered, its copyPhase, its assembler
    conn,     \* per shard, the reader's call on a pooler
    queue,    \* per shard, the units between the reader and the merger
    pool,     \* per shard, the pooler's streamReader of the slot
    mrg,      \* per shard, the merger: position, emitted, copying
    acker,    \* per shard, the acker: want, done, wake
    una,      \* the unary Ack in flight
    saved,    \* the last vector the consumer saved, which it resumes from
    replica,  \* per shard and key, what the consumer holds
    high,     \* per shard, how far everything was sent to the consumer
    copy,     \* whether the consumer starts with START_FROM_COPY
    plan, faults

primary == <<wal, slot, status, epoch, cut>>
stream == <<up, rd, conn, queue, mrg, acker>>
consumer == <<saved, replica, high, copy>>
vars == <<primary, topo, stream, pool, una, consumer, plan, faults>>

-----------------------------------------------------------------------------
Unpublished == 0
Members == 1..2
Max2(a, b) == IF a > b THEN a ELSE b
Min2(a, b) == IF a < b THEN a ELSE b

(* How far the WAL of member e of shard s goes. *)
End(s, e) == IF e < epoch[s] THEN cut[s] ELSE Len(wal[s])

(* The LSN that last wrote key k at or before lsn n; 0: none. *)
LastWrite(s, k, n) ==
    LET at == {i \in 1..n : wal[s][i] = k}
    IN  IF at = {} THEN 0 ELSE CHOOSE i \in at : \A j \in at : j <= i

(* A VCopyState: the last key delivered and whether the table is done. *)
NoCopy == [on |-> FALSE, last |-> 0, done |-> FALSE]
NewCopy == [on |-> TRUE, last |-> 0, done |-> FALSE]

(* A shard's entry of a VPosition. *)
Empty == [lsn |-> 0, cp |-> NoCopy]

NoConn == [kind |-> "off", ep |-> 0, at |-> 0, begun |-> FALSE, rows |-> <<>>]
NoReader == [ep |-> 0, delivered |-> 0, acked |-> 0, sent |-> 0, ask |-> 0, got |-> 0]
NoAck == [want |-> 0, done |-> 0, wake |-> FALSE]
Idle == [delivered |-> 0, cp |-> NoCopy, asm |-> <<>>]

Unit(kind) == [kind |-> kind, lsn |-> 0, key |-> 0, ver |-> 0, cp |-> NoCopy, parts |-> <<>>]

(* What the merger's position and copy state of shard s are, as a vector's entry. *)
Vector(m) == [t \in Shards |-> [lsn |-> m[t].position, cp |-> m[t].copying]]

(***************************************************************************)
(* streamFence: a new call is served by the primary only, and the request  *)
(* names its epoch. A deposed primary was stopped before the promotion; of *)
(* a call already open on it the batches under way may still arrive.       *)
(***************************************************************************)
Serves(s, e) == e = epoch[s]

-----------------------------------------------------------------------------
(* The shard: its transactions, its slots and its promotion. *)

Commit(s) ==
    /\ Len(wal[s]) <= Len(plan.script)
    /\ wal' = [wal EXCEPT ![s] = Append(@, plan.script[Len(@)])]
    /\ UNCHANGED <<slot, status, epoch, cut, topo, stream, pool, una, consumer, plan, faults>>

(* sync_replication_slots: the standby takes over the primary's slot position. *)
SyncSlot(s) ==
    /\ epoch[s] = 1 /\ slot[s][1] # slot[s][2]
    /\ slot' = [slot EXCEPT ![s][2] = slot[s][1]]
    /\ UNCHANGED <<wal, status, epoch, cut, topo, stream, pool, una, consumer, plan, faults>>

(* A copy of shard s is running, or the consumer's next stream would run one. *)
CopyDue(s) == rd[s].cp.on \/ saved[s].cp.on \/ (copy /\ saved[s].lsn = 0)

(***************************************************************************)
(* The standby is promoted. It has all the WAL a walsender of a failover   *)
(* slot has sent (synchronized_standby_slots), but the slot itself may not *)
(* have been synchronized yet, and what the old primary had not read of    *)
(* its connections is lost.                                                *)
(***************************************************************************)
Promote(s) ==
    /\ epoch[s] = 1 /\ faults < plan.faults
    /\ slot[s][1] # 0 /\ slot[s][2] = 0 =>
          (IF CopyDue(s) THEN "copying" ELSE "streaming") \in SlotLost
    /\ epoch' = [epoch EXCEPT ![s] = 2]
    /\ cut' = [cut EXCEPT ![s] = Len(wal[s])]
    /\ status' = [status EXCEPT ![s] = {}]
    /\ faults' = faults + 1
    /\ UNCHANGED <<wal, slot, topo, stream, pool, una, consumer, plan>>

(* The router reads the new epoch. *)
Reload(s) ==
    /\ topo[s] # epoch[s]
    /\ topo' = [topo EXCEPT ![s] = epoch[s]]
    /\ UNCHANGED <<primary, stream, pool, una, consumer, plan, faults>>

-----------------------------------------------------------------------------
(* The stream opens and ends. *)

(* Server.Stream: a reader per shard from the position the consumer saved. *)
Open ==
    /\ ~up
    /\ up' = TRUE
    /\ LET phase(s) == IF saved[s].cp.on THEN saved[s].cp
                       ELSE IF copy /\ saved[s].lsn = 0 THEN NewCopy ELSE NoCopy
       IN  /\ rd' = [s \in Shards |-> [Idle EXCEPT !.delivered = saved[s].lsn, !.cp = phase(s)]]
           /\ mrg' = [s \in Shards |-> [position |-> saved[s].lsn, emitted |-> 0, copying |-> phase(s)]]
    /\ UNCHANGED <<primary, topo, conn, queue, acker, pool, una, consumer, plan, faults>>

(***************************************************************************)
(* The stream's context ends: its goroutines and what they buffered are    *)
(* gone. The poolers' readers notice later. A unary Ack holds on to the    *)
(* emitted of the stream it was checked against, which no longer changes.  *)
(***************************************************************************)
Close ==
    /\ up' = FALSE
    /\ rd' = [s \in Shards |-> Idle]
    /\ conn' = [s \in Shards |-> NoConn]
    /\ queue' = [s \in Shards |-> <<>>]
    /\ mrg' = [s \in Shards |-> [position |-> 0, emitted |-> 0, copying |-> NoCopy]]
    /\ acker' = [s \in Shards |-> NoAck]
    /\ pool' = [s \in Shards |-> [pool[s] EXCEPT !.ask = 0, !.got = 0]]
    /\ una' = {[a EXCEPT !.free = TRUE] : a \in {b \in una : b.free \/ ~mrg[b.sh].copying.on}}

StreamEnd ==
    /\ up /\ faults < plan.faults
    /\ faults' = faults + 1
    /\ Close
    /\ UNCHANGED <<primary, topo, consumer, plan>>

-----------------------------------------------------------------------------
(* The router's reader of one shard. *)

(* The reader still runs: it has not pushed the error that ends it. *)
Reading(s) == up /\ \A i \in DOMAIN queue[s] : queue[s][i].kind # "gone"

Push(s, u) ==
    /\ Len(queue[s]) < BufferUnits
    /\ queue' = [queue EXCEPT ![s] = Append(@, u)]

(* The call on the pooler ends; the reader keeps its place and calls again. *)
Hangup(s) == conn' = [conn EXCEPT ![s] = NoConn]

Break(s) ==
    /\ conn[s].kind # "off" /\ faults < plan.faults
    /\ faults' = faults + 1
    /\ Hangup(s)
    /\ UNCHANGED <<primary, topo, up, rd, queue, mrg, acker, pool, una, consumer, plan>>

(* Mutant: the epoch is looked at only when a batch has arrived. *)
EpochMovedSeen(s) ==
    /\ conn[s].kind # "off" /\ topo[s] # conn[s].ep
    /\ \E i \in (conn[s].at + 1)..End(s, conn[s].ep) : wal[s][i] # Unpublished
    /\ Hangup(s)
    /\ UNCHANGED <<primary, topo, up, rd, queue, mrg, acker, pool, una, consumer, plan, faults>>

(* watchEpoch, and the check after Recv: the shard was promoted under the call. *)
EpochMoved(s) ==
    /\ conn[s].kind # "off" /\ topo[s] # conn[s].ep
    /\ Hangup(s)
    /\ UNCHANGED <<primary, topo, up, rd, queue, mrg, acker, pool, una, consumer, plan, faults>>

(* runStream ends: its PostgreSQL is gone, or its own fence says the shard moved. *)
Fenced(s) ==
    /\ conn[s].kind = "stream" /\ ~Serves(s, conn[s].ep)
    /\ Hangup(s)
    /\ pool' = [pool EXCEPT ![s] = NoReader]
    /\ UNCHANGED <<primary, topo, up, rd, queue, mrg, acker, una, consumer, plan, faults>>

(***************************************************************************)
(* exportSnapshot: the stream's slot is created at the snapshot's point    *)
(* when the member has none; otherwise a temporary slot exports it.        *)
(***************************************************************************)
ExportSnapshot(s, e) ==
    slot' = IF slot[s][e] = 0 THEN [slot EXCEPT ![s][e] = End(s, e)] ELSE slot

(* The rows of a copy from checkpoint cp, each once: in key order after the   *)
(* last key, or for a table without a primary key all of them, in any order. *)
CopyRows(s, cp, point) ==
    LET due == {k \in Keys : LastWrite(s, k, point) > 0 /\ (plan.keyless \/ k > cp.last)}
    IN  IF cp.done THEN {<<>>}
        ELSE {rows \in UNION {[1..n -> due] : n \in 0..point} :
                /\ \A k \in due : \E i \in DOMAIN rows : rows[i] = k
                /\ \A i, j \in DOMAIN rows : i < j => IF plan.keyless THEN rows[i] # rows[j] ELSE rows[i] < rows[j]}

MayCopy(s) == Reading(s) /\ rd[s].cp.on /\ conn[s].kind = "off" /\ Serves(s, topo[s])

(* Mutant: every snapshot of the copy moves the position, not only the first. *)
CopyOpenMoves(s) ==
    /\ MayCopy(s)
    /\ LET e == topo[s]
           point == End(s, e)
       IN  /\ ExportSnapshot(s, e)
           /\ \E rows \in CopyRows(s, rd[s].cp, point) :
                 conn' = [conn EXCEPT ![s] = [NoConn EXCEPT !.kind = "copy", !.ep = e, !.at = point, !.rows = rows]]
           /\ Push(s, [Unit("snap") EXCEPT !.lsn = point, !.cp = rd[s].cp])
           /\ rd' = [rd EXCEPT ![s].delivered = Max2(@, point)]
    /\ UNCHANGED <<wal, status, epoch, cut, topo, up, mrg, acker, pool, una, consumer, plan, faults>>

(* copyOnce, up to the Snapshot message: a first snapshot is where streaming starts. *)
CopyOpen(s) ==
    /\ MayCopy(s)
    /\ LET e == topo[s]
           point == End(s, e)
           start == IF rd[s].delivered = 0 THEN point ELSE 0
       IN  /\ ExportSnapshot(s, e)
           /\ \E rows \in CopyRows(s, rd[s].cp, point) :
                 conn' = [conn EXCEPT ![s] = [NoConn EXCEPT !.kind = "copy", !.ep = e, !.at = point, !.rows = rows]]
           /\ Push(s, [Unit("snap") EXCEPT !.lsn = start, !.cp = rd[s].cp])
           /\ rd' = [rd EXCEPT ![s].delivered = Max2(@, start)]
    /\ UNCHANGED <<wal, status, epoch, cut, topo, up, mrg, acker, pool, una, consumer, plan, faults>>

(* The same call lost after the slot was made and before the Snapshot arrived. *)
CopyOpenLost(s) ==
    /\ MayCopy(s) /\ slot[s][topo[s]] = 0 /\ faults < plan.faults
    /\ faults' = faults + 1
    /\ ExportSnapshot(s, topo[s])
    /\ UNCHANGED <<wal, status, epoch, cut, topo, stream, pool, una, consumer, plan>>

(* The checkpoint after key k: a table without a primary key has none. *)
Checkpoint(cp, k) == IF plan.keyless THEN [cp EXCEPT !.last = 0] ELSE [cp EXCEPT !.last = k]

(* One message of CopyTables: the unit it becomes and the checkpoint after it. *)
CopyMessage(s, u, cp) ==
    /\ Push(s, [u EXCEPT !.cp = cp])
    /\ rd' = [rd EXCEPT ![s].cp = cp]
    /\ UNCHANGED <<primary, topo, up, mrg, acker, pool, una, consumer, plan, faults>>

CopyTableBegin(s) ==
    /\ conn[s].kind = "copy" /\ ~conn[s].begun /\ ~rd[s].cp.done
    /\ conn' = [conn EXCEPT ![s].begun = TRUE]
    /\ CopyMessage(s, Unit("begin"), Checkpoint(rd[s].cp, rd[s].cp.last))

CopyRow(s) ==
    /\ conn[s].kind = "copy" /\ conn[s].begun /\ conn[s].rows # <<>>
    /\ conn' = [conn EXCEPT ![s].rows = Tail(@)]
    /\ LET k == Head(conn[s].rows)
       IN  CopyMessage(s, [Unit("row") EXCEPT !.key = k, !.ver = LastWrite(s, k, conn[s].at)], Checkpoint(rd[s].cp, k))

CopyTableDone(s) ==
    /\ conn[s].kind = "copy" /\ conn[s].begun /\ conn[s].rows = <<>> /\ ~rd[s].cp.done
    /\ conn' = conn
    /\ CopyMessage(s, Unit("tabledone"), [rd[s].cp EXCEPT !.last = 0, !.done = TRUE])

CopyDone(s) ==
    /\ conn[s].kind = "copy" /\ rd[s].cp.done
    /\ Hangup(s)
    /\ CopyMessage(s, Unit("done"), NoCopy)

(***************************************************************************)
(* reader.once and runStream: the fence, the slot's one seat, and          *)
(* START_REPLICATION from what was delivered. PostgreSQL starts no lower   *)
(* than confirmed_flush_lsn. The assembler starts empty, and the walsender *)
(* of the slot's last reader has ended.                                    *)
(***************************************************************************)
MayStream(s) == Reading(s) /\ ~rd[s].cp.on /\ conn[s].kind = "off" /\ Serves(s, topo[s]) /\ pool[s].ep # topo[s]

(* Mutant: the assembler keeps what the last call left in it. *)
StreamOpenKeeps(s) ==
    LET e == topo[s] IN
    /\ MayStream(s) /\ slot[s][e] # 0
    /\ conn' = [conn EXCEPT ![s] = [NoConn EXCEPT !.kind = "stream", !.ep = e, !.at = Max2(rd[s].delivered, slot[s][e])]]
    /\ pool' = [pool EXCEPT ![s] = [NoReader EXCEPT !.ep = e, !.delivered = rd[s].delivered]]
    /\ status' = [status EXCEPT ![s] = {}]
    /\ UNCHANGED <<wal, slot, epoch, cut, topo, up, rd, queue, mrg, acker, una, consumer, plan, faults>>

StreamOpen(s) ==
    LET e == topo[s] IN
    /\ MayStream(s) /\ slot[s][e] # 0
    /\ conn' = [conn EXCEPT ![s] = [NoConn EXCEPT !.kind = "stream", !.ep = e, !.at = Max2(rd[s].delivered, slot[s][e])]]
    /\ pool' = [pool EXCEPT ![s] = [NoReader EXCEPT !.ep = e, !.delivered = rd[s].delivered]]
    /\ rd' = [rd EXCEPT ![s].asm = <<>>]
    /\ status' = [status EXCEPT ![s] = {}]
    /\ UNCHANGED <<wal, slot, epoch, cut, topo, up, queue, mrg, acker, una, consumer, plan, faults>>

(* There is no slot: POSITION_TOO_OLD, which fatal makes the reader's last unit. *)
StreamRefused(s) ==
    /\ MayStream(s) /\ slot[s][topo[s]] = 0
    /\ Push(s, Unit("gone"))
    /\ UNCHANGED <<primary, topo, up, rd, conn, mrg, acker, pool, una, consumer, plan, faults>>

(* The next published transaction after lsn n on member e, and the last lsn before it. *)
NextTxn(s, e, n) == {i \in (n + 1)..End(s, e) : wal[s][i] # Unpublished /\ \A j \in (n + 1)..(i - 1) : wal[s][j] = Unpublished}
QuietEnd(s, e, n) == IF NextTxn(s, e, n) = {} THEN End(s, e) ELSE (CHOOSE i \in NextTxn(s, e, n) : TRUE) - 1

(* A batch of the call reaches a reader whose epoch still stands. *)
Delivers(s) == conn[s].kind = "stream" /\ topo[s] = conn[s].ep

(* The first batch of a transaction: the assembler holds it. *)
RecvSegment(s) ==
    /\ Delivers(s) /\ ~conn[s].begun
    /\ NextTxn(s, conn[s].ep, conn[s].at) # {}
    /\ conn' = [conn EXCEPT ![s].begun = TRUE]
    /\ rd' = [rd EXCEPT ![s].asm = Append(@, 1)]
    /\ UNCHANGED <<primary, topo, up, queue, mrg, acker, pool, una, consumer, plan, faults>>

(* The unit at lsn i goes to the merger unless it was delivered before. *)
Deliver(s, i, u) ==
    /\ IF i > rd[s].delivered THEN Push(s, u) ELSE queue' = queue
    /\ rd' = [rd EXCEPT ![s].delivered = Max2(@, i), ![s].asm = <<>>]
    /\ conn' = [conn EXCEPT ![s].at = i, ![s].begun = FALSE]
    /\ pool' = [pool EXCEPT ![s].delivered = Max2(@, i)]
    /\ UNCHANGED <<primary, topo, up, mrg, acker, una, consumer, plan, faults>>

(* The batch with the commit completes the unit. *)
RecvCommit(s) ==
    /\ Delivers(s) /\ conn[s].begun
    /\ \E i \in NextTxn(s, conn[s].ep, conn[s].at) :
          Deliver(s, i, [Unit("txn") EXCEPT !.lsn = i, !.key = wal[s][i], !.ver = i, !.parts = Append(rd[s].asm, 2)])

(* An idle stream's Keepalive advances the position and carries nothing. *)
RecvKeepalive(s) ==
    /\ Delivers(s) /\ rd[s].asm = <<>> /\ ~conn[s].begun
    /\ LET e == QuietEnd(s, conn[s].ep, conn[s].at)
       IN  /\ e > rd[s].delivered
           /\ Deliver(s, e, [Unit("mark") EXCEPT !.lsn = e])

-----------------------------------------------------------------------------
(* The merger. *)

(* The merger's state of a shard after unit u. *)
After(m, u) ==
    LET moves == u.lsn > m.position
    IN  [position |-> IF moves THEN u.lsn ELSE m.position,
         emitted  |-> IF moves THEN Max2(m.emitted, u.lsn) ELSE m.emitted,
         copying  |-> IF u.cp.on THEN u.cp ELSE IF u.kind = "done" THEN NoCopy ELSE m.copying]

(***************************************************************************)
(* merger.emit: the unit's events go out whole, the shard's position       *)
(* moves, and a unit that carried events is followed by a VGtid. A unit of *)
(* the copy is everything up to its point only once the copy is done.      *)
(***************************************************************************)
Emit(s) ==
    /\ up /\ queue[s] # <<>> /\ Head(queue[s]).kind # "gone"
    /\ LET u == Head(queue[s])
           m == [mrg EXCEPT ![s] = After(@, u)]
       IN  /\ queue' = [queue EXCEPT ![s] = Tail(@)]
           /\ mrg' = m
           /\ replica' = IF u.kind \in {"txn", "row"} THEN [replica EXCEPT ![s][u.key] = u.ver] ELSE replica
           /\ IF u.kind \in {"mark", "snap"} THEN saved' = saved ELSE saved' \in {saved, Vector(m)}
           /\ high' = IF u.kind \in {"txn", "mark", "done"} THEN [high EXCEPT ![s] = Max2(@, m[s].position)] ELSE high
    /\ UNCHANGED <<primary, topo, up, rd, conn, acker, pool, una, copy, plan, faults>>

(* POSITION_TOO_OLD ends the stream: the consumer drops its checkpoints and copies again. *)
EmitGone(s) ==
    /\ up /\ queue[s] # <<>> /\ Head(queue[s]).kind = "gone"
    /\ Close
    /\ saved' = [t \in Shards |-> Empty]
    /\ copy' = TRUE
    /\ UNCHANGED <<primary, topo, replica, high, plan, faults>>

Heartbeat ==
    /\ up /\ saved # Vector(mrg)
    /\ saved' = Vector(mrg)
    /\ UNCHANGED <<primary, topo, stream, pool, una, replica, high, copy, plan, faults>>

-----------------------------------------------------------------------------
(* Acks. A consumer may ack any position, its own or one read out of band. *)

(* Mutant: an ack counts for what it says. *)
Unclamped(s, lsn) == lsn

(* forwardAck's clamp: nothing above what this stream has emitted. *)
Clamped(s, lsn) == Min2(lsn, mrg[s].emitted)

(* An ack in the stream: merger.forwardAck and ackers.request. *)
ForwardAck(s, lsn) ==
    /\ up /\ "stream" \in plan.acks /\ ~mrg[s].copying.on
    /\ Clamped(s, lsn) > acker[s].want
    /\ acker' = [acker EXCEPT ![s].want = Clamped(s, lsn), ![s].wake = TRUE]
    /\ UNCHANGED <<primary, topo, up, rd, conn, queue, mrg, pool, una, consumer, plan, faults>>

(* Pooler.Ack: the fence, the slot's reader, and the clamp to what it delivered. *)
Admits(s) == Serves(s, topo[s]) /\ pool[s].ep = topo[s]
Acked(p, lsn) == [p EXCEPT !.acked = Max2(@, Min2(lsn, p.delivered))]

(***************************************************************************)
(* ackers.loop: one call at a time for the newest position wanted. A call  *)
(* the pooler refuses is not made again before the next request.           *)
(***************************************************************************)
AckerCall(s) ==
    /\ up /\ acker[s].wake /\ pool[s].ask = 0
    /\ acker' = [acker EXCEPT ![s].wake = FALSE]
    /\ pool' = IF acker[s].want > acker[s].done /\ Admits(s)
               THEN [pool EXCEPT ![s] = [Acked(@, acker[s].want) EXCEPT
                        !.ask = acker[s].want, !.got = Min2(acker[s].want, pool[s].delivered)]]
               ELSE pool
    /\ UNCHANGED <<primary, topo, up, rd, conn, queue, mrg, una, consumer, plan, faults>>

(* The pooler answers with what it confirmed, and only that is recorded. *)
AckerDone(s) ==
    /\ up /\ pool[s].ask # 0 /\ pool[s].sent >= pool[s].got
    /\ acker' = [acker EXCEPT ![s].done = pool[s].got, ![s].wake = @ \/ pool[s].got = pool[s].ask]
    /\ pool' = [pool EXCEPT ![s].ask = 0, ![s].got = 0]
    /\ UNCHANGED <<primary, topo, up, rd, conn, queue, mrg, una, consumer, plan, faults>>

(* awaitSent gives up, or the answer is lost: what was asked for stays asked for. *)
AckerFails(s) ==
    /\ up /\ pool[s].ask # 0 /\ faults < plan.faults
    /\ faults' = faults + 1
    /\ pool' = [pool EXCEPT ![s].ask = 0, ![s].got = 0]
    /\ UNCHANGED <<primary, topo, stream, una, consumer, plan>>

(***************************************************************************)
(* sendStatus writes a standby status and then notes it as sent, which is  *)
(* all awaitSent waits for: PostgreSQL answers no status. A write to a     *)
(* primary that is gone may succeed and reach nobody.                      *)
(***************************************************************************)
SendStatus(s) ==
    /\ pool[s].ep # 0 /\ pool[s].sent < pool[s].acked
    /\ status' = IF Serves(s, pool[s].ep) THEN [status EXCEPT ![s] = @ \cup {pool[s].acked}] ELSE status
    /\ pool' = [pool EXCEPT ![s].sent = pool[s].acked]
    /\ UNCHANGED <<wal, slot, epoch, cut, topo, stream, una, consumer, plan, faults>>

(* The walsender reads the statuses in order and moves its slot forward. *)
TakeStatus(s) ==
    /\ \E lsn \in status[s] :
          /\ \A l \in status[s] : lsn <= l
          /\ slot' = [slot EXCEPT ![s][epoch[s]] = Max2(@, lsn)]
          /\ status' = [status EXCEPT ![s] = @ \ {lsn}]
    /\ UNCHANGED <<wal, epoch, cut, topo, stream, pool, una, consumer, plan, faults>>

(* releaseSlot: the pooler notices that its caller has gone. *)
ReleaseSlot(s) ==
    /\ pool[s].ep # 0 /\ conn[s].kind # "stream"
    /\ pool' = [pool EXCEPT ![s] = NoReader]
    /\ UNCHANGED <<primary, topo, stream, una, consumer, plan, faults>>

(***************************************************************************)
(* Server.Ack runs beside the merger: it reads what was emitted, then      *)
(* whether the shard is still copying, then calls the pooler. The flag     *)
(* only ever goes down, so reading it with the call loses no behaviour.    *)
(***************************************************************************)
UnaryAck(s, lsn) ==
    /\ up /\ "unary" \in plan.acks /\ una = {} /\ Clamped(s, lsn) > 0
    /\ una' = {[sh |-> s, lsn |-> Clamped(s, lsn), free |-> FALSE]}
    /\ UNCHANGED <<primary, topo, stream, pool, consumer, plan, faults>>

UnaryCall(a) ==
    /\ una' = una \ {a}
    /\ pool' = IF (a.free \/ ~mrg[a.sh].copying.on) /\ Admits(a.sh)
               THEN [pool EXCEPT ![a.sh] = Acked(@, a.lsn)] ELSE pool
    /\ UNCHANGED <<primary, topo, stream, consumer, plan, faults>>

-----------------------------------------------------------------------------
(* A stream either starts with a copy, or follows a slot that was created with it. *)
Init ==
    /\ plan \in Plans
    /\ wal = [s \in Shards |-> <<CHOOSE k \in Keys : \A j \in Keys : k <= j>>]
    /\ slot = [s \in Shards |-> <<IF plan.made THEN 1 ELSE 0, 0>>]
    /\ status = [s \in Shards |-> {}]
    /\ copy = plan.copy
    /\ epoch = [s \in Shards |-> 1] /\ cut = [s \in Shards |-> 0]
    /\ topo = epoch
    /\ up = FALSE
    /\ rd = [s \in Shards |-> Idle]
    /\ conn = [s \in Shards |-> NoConn]
    /\ queue = [s \in Shards |-> <<>>]
    /\ pool = [s \in Shards |-> NoReader]
    /\ mrg = [s \in Shards |-> [position |-> 0, emitted |-> 0, copying |-> NoCopy]]
    /\ acker = [s \in Shards |-> NoAck]
    /\ una = {}
    /\ saved = [s \in Shards |-> Empty]
    /\ replica = [s \in Shards |-> [k \in Keys |-> IF copy THEN 0 ELSE LastWrite(s, k, 1)]]
    /\ high = [s \in Shards |-> IF copy THEN 0 ELSE 1]
    /\ faults = 0

Read(s) ==
    \/ CopyOpen(s) \/ CopyTableBegin(s) \/ CopyRow(s) \/ CopyTableDone(s) \/ CopyDone(s)
    \/ StreamOpen(s) \/ StreamRefused(s)
    \/ RecvSegment(s) \/ RecvCommit(s) \/ RecvKeepalive(s)
    \/ EpochMoved(s)

Next ==
    \/ Open \/ StreamEnd \/ Heartbeat
    \/ \E a \in una : UnaryCall(a)
    \/ \E s \in Shards :
          \/ Commit(s) \/ SyncSlot(s) \/ Promote(s) \/ Reload(s)
          \/ Read(s)
          \/ Break(s) \/ CopyOpenLost(s) \/ Fenced(s)
          \/ Emit(s) \/ EmitGone(s)
          \/ \E lsn \in 1..Len(wal[s]) : ForwardAck(s, lsn) \/ UnaryAck(s, lsn)
          \/ AckerCall(s) \/ AckerDone(s) \/ AckerFails(s) \/ SendStatus(s) \/ TakeStatus(s) \/ ReleaseSlot(s)

Fairness ==
    /\ WF_vars(Open)
    /\ \A s \in Shards :
          /\ WF_vars(Reload(s))
          /\ WF_vars(Read(s))
          /\ WF_vars(Emit(s) \/ EmitGone(s))
          /\ WF_vars(ReleaseSlot(s))

Spec == Init /\ [][Next]_vars /\ Fairness

-----------------------------------------------------------------------------
(* Type correctness. *)
Lsns == 0..(Len(plan.script) + 1)
Copies == [on : BOOLEAN, last : Keys \cup {0}, done : BOOLEAN]
Entries == [lsn : Lsns, cp : Copies]

TypeOK ==
    /\ \A s \in Shards : wal[s] \in Seq(Keys \cup {Unpublished}) /\ Len(wal[s]) \in Lsns \ {0}
    /\ slot \in [Shards -> [Members -> Lsns]] /\ status \in [Shards -> SUBSET Lsns]
    /\ epoch \in [Shards -> Members] /\ topo \in [Shards -> Members]
    /\ cut \in [Shards -> Lsns]
    /\ saved \in [Shards -> Entries]
    /\ \A s \in Shards :
          /\ rd[s].delivered \in Lsns /\ rd[s].cp \in Copies
          /\ conn[s].kind \in {"off", "copy", "stream"} /\ conn[s].at \in Lsns
          /\ Len(queue[s]) <= BufferUnits
          /\ pool[s] \in [ep : Members \cup {0}, delivered : Lsns, acked : Lsns, sent : Lsns, ask : Lsns, got : Lsns]
          /\ mrg[s] \in [position : Lsns, emitted : Lsns, copying : Copies]
          /\ acker[s] \in [want : Lsns, done : Lsns, wake : BOOLEAN]
    /\ replica \in [Shards -> [Keys -> Lsns]] /\ high \in [Shards -> Lsns]

(***************************************************************************)
(* A position covers what the consumer holds: for the merger's vector and  *)
(* the saved one alike, every row write at or below the shard's LSN, of a  *)
(* row the copy is past, is in the replica or overtaken there.             *)
(* Resuming from a VGtid therefore skips nothing, whatever was acked,      *)
(* dropped, promoted or copied again in between (merger.emit, copyOnce,    *)
(* reader.once, forwardAck).                                               *)
(***************************************************************************)
Past(cp, k) == ~cp.on \/ cp.done \/ k <= cp.last
Holds(s, c) == \A k \in Keys : c.lsn > 0 /\ Past(c.cp, k) => replica[s][k] >= LastWrite(s, k, c.lsn)

NothingLost ==
    \A s \in Shards :
        /\ Holds(s, saved[s])
        /\ up => Holds(s, [lsn |-> mrg[s].position, cp |-> mrg[s].copying])

(***************************************************************************)
(* A shard's transactions go out once per stream, in commit order and      *)
(* whole: what waits for the merger is above its position, increasing, and *)
(* no batch of an interrupted call is in it (reader.once, assembler.reset).*)
(***************************************************************************)
OnceInOrder ==
    \A s \in Shards :
        LET txns == {i \in DOMAIN queue[s] : queue[s][i].kind \in {"txn", "mark"}}
        IN  \A i \in txns :
               /\ queue[s][i].lsn > mrg[s].position
               /\ \A j \in txns : i < j => queue[s][i].lsn < queue[s][j].lsn
               /\ queue[s][i].kind = "txn" => queue[s][i].parts = <<1, 2>>

(***************************************************************************)
(* No ack is believed too far. A slot never moves past what the consumer   *)
(* was sent, nor into a copy still running, whichever stream, call or      *)
(* member the ack went through and however late its status is read:        *)
(* PostgreSQL would not send that again (merger.forwardAck, Server.Ack,    *)
(* Pooler.Ack, sendStatus).                                                *)
(***************************************************************************)
AcksTrue ==
    [][\A s \in Shards : \A e \in 1..epoch[s] :
          slot[s][e] # 0 /\ slot'[s][e] > slot[s][e] => slot'[s][e] <= high[s]]_vars

(***************************************************************************)
(* While the shards answer and the consumer comes back, the stream reaches *)
(* the end of every shard's WAL, across promotions and lost slots          *)
(* (reader.run, watchEpoch, claimSlot).                                    *)
(***************************************************************************)
CatchesUp ==
    <>[](up /\ \A s \in Shards : mrg[s].position = Len(wal[s]) /\ ~mrg[s].copying.on)
=============================================================================
