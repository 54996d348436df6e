----------------------------- MODULE Placement -----------------------------
(***************************************************************************)
(* A table placement workflow (controller/placement.go, placementpg.go,    *)
(* placementfence.go, placementroute.go): a table moves between one shard  *)
(* and all of them while clients write to it.  A shadow is built on every  *)
(* shard of the new placement, filled by a copy and by the replay of a     *)
(* slot on every source, and swapped for the table under a fence.          *)
(*                                                                         *)
(* Around it: the controller replicas that claim the workflow and hand it  *)
(* back (workflowowner.go, loop.go), the reconciler that cancels it when   *)
(* the desired placement is reverted (reconcile.go), a router whose view   *)
(* of the catalog lags (router/fence.go), and transactions on the shards.  *)
(***************************************************************************)
EXTENDS Integers, Sequences, FiniteSets

CONSTANTS
    Ids,             \* the serving set, in the order of its ranges
    Keys, Owner,     \* the table's keys, and the shard a key hashes to
    Writers, Writes, \* clients, and the row each of them writes or deletes
    Replicas,        \* controller processes
    Gone,            \* the token of a process that died
    Base, None,      \* the row a key starts with, and no row
    BufferAttempts,  \* the released pauses that fail the workflow
    Stalls,          \* where a pass may hang past its lease
    Plans

Shards == {Ids[i]: i \in DOMAIN Ids}

(* A plan: the placements moved between, the database's home shard, the    *)
(* clients that write, the shards where some other table has the name the  *)
(* old table is to be retired under, whether the desired placement is      *)
(* reverted, how many faults strike, and whether a replica may list a      *)
(* workflow that another one is still driving.                             *)
ASSUME PlacementConstants ==
    /\ Owner \in [Keys -> Shards]
    /\ Writes \in [Writers -> [key: Keys, val: Writers \cup {None}]]
    /\ {Gone, Base, None} \cap (Writers \cup Replicas \cup Shards) = {}
    /\ BufferAttempts \in Nat \ {0}
    /\ Plans \subseteq [from: {"unsharded", "sharded"}, to: {"unsharded", "sharded"},
                        home: Shards, writers: SUBSET Writers, taken: SUBSET Shards,
                        cancel: BOOLEAN, faults: Nat, overlap: BOOLEAN]

VARIABLES
    cat,      \* table_status: the effective placement, and migrating
    row,      \* the workflow: state, stage, status, owner, aged, leaked
    lock,     \* workflow_locks has the table's lock
    live, shadow, old,   \* the relations under the three names, per shard
    slot,     \* slot[s]: the confirmed position of the slot on s
    wal,      \* wal[s]: the committed changes of the table on s
    txn,      \* what a client has in hand
    truth,    \* the row last committed under each key
    view,     \* the snapshot the router plans with
    leader,   \* the replica that holds the advisory lock
    ctl,      \* ctl[r]: what the pass of r has in hand
    faults,   \* how many faults have struck
    plan

tables == <<live, shadow, old>>
data == <<slot, wal, truth>>
clients == <<txn, view>>
vars == <<cat, row, lock, tables, data, clients, leader, ctl, faults, plan>>

-----------------------------------------------------------------------------
(* placementRouter *)

Holders(p) == IF p = "unsharded" THEN {plan.home} ELSE Shards
Sources == Holders(plan.from)
Targets == Holders(plan.to)
IsNext(s, S) == \E i \in DOMAIN Ids: s = Ids[i] /\ s \in S /\ \A j \in 1..i-1: Ids[j] \notin S
Route(p, k) == IF p = "unsharded" THEN plan.home ELSE Owner[k]

(* A relation: its rows, the placement fence, whether its replica identity *)
(* is FULL, and whether it was built by the workflow.                      *)
Rows == [Keys -> Writers \cup {Base, None}]
Empty == [k \in Keys |-> None]
Relation(rows, new) == [rows |-> rows, fence |-> FALSE, full |-> FALSE, new |-> new]
Fenced(rel, on) == IF rel = None THEN None ELSE [rel EXCEPT !.fence = on]

(* placementState, and a workflow nothing has driven yet *)
Fresh == [copied |-> {}, full |-> {}, fenced |-> FALSE, quiet |-> 0, attempts |-> 0,
          swapped |-> {}, swappedAt |-> FALSE]
Idle == [pc |-> "idle", mode |-> "none", wf |-> None, fence |-> "none", todo |-> {},
         src |-> None, left |-> {}, from |-> 0, upto |-> 0, snap |-> Empty, busy |-> FALSE, failed |-> FALSE,
         lagged |-> None]

Active == {"pending", "running"}
Ended == {"completed", "cancelled", "failed"}
Over == row.state \in Ended /\ row.stage = row.state

-----------------------------------------------------------------------------
(* Clients.  The pooler refuses a request planned under another generation *)
(* of the shard map, which only a publish changes here: its own view is    *)
(* taken to be current by the time the shards' fences come off.            *)

At(w) == Route(txn[w].placement, Writes[w].key)
Open(w) == txn[w].pc = "open"
NoWriter(s) == \A w \in Writers: Open(w) => At(w) # s
Admitted(w) == /\ txn[w].placement = cat.placement
               /\ live[At(w)] # None /\ ~live[At(w)].fence

(* A snapshot that no client has yet to plan with is not told apart. *)
Refresh ==
    /\ view # cat /\ \E w \in plan.writers: txn[w].pc = "idle"
    /\ view' = cat
    /\ UNCHANGED <<cat, row, lock, tables, data, txn, leader, ctl, faults, plan>>

(* gateWrite: a write waits while the router's view says migrating. *)
Send(w) ==
    /\ w \in plan.writers /\ txn[w].pc = "idle" /\ ~view.migrating
    /\ txn' = [txn EXCEPT ![w] = [pc |-> "sent", placement |-> view.placement]]
    /\ UNCHANGED <<cat, row, lock, tables, data, view, leader, ctl, faults, plan>>

(* The statement runs and the transaction stays open, or it is refused; a  *)
(* row another transaction is writing is waited for.                       *)
Land(w) ==
    /\ txn[w].pc = "sent"
    /\ \/ /\ Admitted(w)
          /\ \A x \in Writers: Open(x) => Writes[x].key # Writes[w].key
          /\ txn' = [txn EXCEPT ![w].pc = "open"]
       \/ ~Admitted(w) /\ txn' = [txn EXCEPT ![w].pc = "done"]
    /\ UNCHANGED <<cat, row, lock, tables, data, view, leader, ctl, faults, plan>>

Commit(w) ==
    /\ Open(w)
    /\ LET c == Writes[w]  s == At(w) IN
         /\ live' = [live EXCEPT ![s].rows[c.key] = c.val]
         /\ wal' = IF live[s].new THEN wal ELSE [wal EXCEPT ![s] = Append(@, c)]
         /\ truth' = [truth EXCEPT ![c.key] = c.val]
    /\ txn' = [txn EXCEPT ![w].pc = "done"]
    /\ UNCHANGED <<cat, row, lock, shadow, old, slot, view, leader, ctl, faults, plan>>

-----------------------------------------------------------------------------
(* Claims and saves *)

Fault == faults < plan.faults /\ faults' = faults + 1
NoFault == UNCHANGED faults

Claimable(r) == row.owner \in {None, r, Gone} \/ row.aged

(* Mutant: the record goes out on the claim alone. *)
MineByOwner(r) == row.owner = r
Mine(r) == row.owner = r /\ row.state = ctl[r].fence

Goes(r, c) == ctl' = [ctl EXCEPT ![r] = IF c.pc = "idle" THEN Idle ELSE c]
Ends(r) == ctl' = [ctl EXCEPT ![r] = Idle]

(* holdClaim of a replica that still owns the workflow *)
Holds(r) == row.owner = r /\ row' = [row EXCEPT !.aged = FALSE]

(* save: the record goes to the catalog if the claim and the state the     *)
(* pass started from both hold; otherwise the pass is over.                *)
Save(r, c) ==
    IF Mine(r)
    THEN /\ row' = [row EXCEPT !.state = c.wf.state, !.stage = c.wf.stage, !.st = c.wf.st]
         /\ Goes(r, [c EXCEPT !.fence = c.wf.state])
    ELSE row' = row /\ Ends(r)

Advance(r, stage) == Save(r, [ctl[r] EXCEPT !.pc = "idle", !.wf.stage = stage])

(* The steps that check the claim before anything else *)
Checked == {"shadow", "snap", "arm", "abort", "release", "repl", "drop", "unlock"}

-----------------------------------------------------------------------------
(* Pass: list, claim, and one stage *)

List(r) ==
    /\ leader = r /\ ctl[r].pc = "idle"
    /\ row.state \in Active \/ row.stage = "cancelling"
    /\ Goes(r, [Idle EXCEPT !.pc = "listed",
                            !.wf = [state |-> row.state, stage |-> row.stage, st |-> row.st]])
    /\ UNCHANGED <<cat, row, lock, tables, data, clients, leader, faults, plan>>

(* Mutant: a swap whose placement is live already is driven from the top. *)
ResumeSwapAgain(c) == [c EXCEPT !.pc = "arm", !.mode = "swap", !.todo = Shards]

(* What committed decides: once published, only the giving back is left. *)
ResumeSwap(c) ==
    IF c.wf.st.swappedAt THEN [c EXCEPT !.pc = "release", !.mode = "publish", !.todo = Shards]
    ELSE [c EXCEPT !.pc = "arm", !.mode = "swap", !.todo = Shards]

(* drive: where the pass of a stage begins *)
Driving(c) ==
    LET at(pc, mode, todo) == [c EXCEPT !.pc = pc, !.mode = mode, !.todo = todo]
        stage == c.wf.stage
    IN CASE stage = "preparing" -> at("start", "none", {})
         [] stage = "shadow" -> at("shadow", "none", Targets)
         [] stage = "copying" -> at("copy", "none", {})
         [] stage = "catch_up" -> at("peek", "catch", Sources)
         [] stage = "buffering" -> at(IF c.wf.st.fenced THEN "peek" ELSE "fence", "buffer", Sources)
         [] stage = "swapping" -> ResumeSwap(c)
         [] stage = "retiring" -> at("retire", "none", Shards)
         [] stage = "cancelling" -> at("release", "cancel", Shards)

Claim(r) ==
    /\ ctl[r].pc = "listed"
    /\ LET wf == ctl[r].wf
           current == row.st = wf.st /\ row.stage \in {wf.stage, "cancelling"}
       IN IF Claimable(r) /\ (plan.overlap \/ current)
          THEN row' = [row EXCEPT !.owner = r, !.aged = FALSE] /\ Goes(r, Driving([ctl[r] EXCEPT !.fence = wf.state]))
          ELSE row' = row /\ Ends(r)
    /\ UNCHANGED <<cat, lock, tables, data, clients, leader, faults, plan>>

(* start: the lock and the record in one transaction *)
Start(r) ==
    /\ ctl[r].pc = "start"
    /\ Save(r, [ctl[r] EXCEPT !.pc = "idle", !.wf.state = "running", !.wf.stage = "shadow"])
    /\ lock' = (lock \/ Mine(r))
    /\ UNCHANGED <<cat, tables, data, clients, leader, faults, plan>>

(* ensureShadows: a shadow that is there carries this workflow's marker. *)
CreateShadow(r, s) ==
    /\ ctl[r].pc = "shadow" /\ IsNext(s, ctl[r].todo)
    /\ Holds(r)
    /\ shadow' = [shadow EXCEPT ![s] = IF @ = None THEN Relation(Empty, TRUE) ELSE @]
    /\ Goes(r, [ctl[r] EXCEPT !.todo = @ \ {s}])
    /\ UNCHANGED <<cat, lock, live, old, data, clients, leader, faults, plan>>

ShadowsBuilt(r) ==
    /\ ctl[r].pc = "shadow" /\ ctl[r].todo = {}
    /\ Advance(r, "copying")
    /\ UNCHANGED <<cat, lock, tables, data, clients, leader, faults, plan>>

(* ensureReplication: the widened identity is recorded before the ALTER. *)
CopySource(r, s) ==
    /\ ctl[r].pc = "copy" /\ IsNext(s, Sources \ ctl[r].wf.st.copied) /\ live[s] # None
    /\ LET c == [ctl[r] EXCEPT !.src = s] IN
         IF live[s].full THEN row' = row /\ Goes(r, [c EXCEPT !.pc = "slot"])
         ELSE IF s \in c.wf.st.full THEN row' = row /\ Goes(r, [c EXCEPT !.pc = "widen"])
         ELSE Save(r, [c EXCEPT !.pc = "widen", !.wf.st.full = @ \cup {s}, !.busy = TRUE])
    /\ UNCHANGED <<cat, lock, tables, data, clients, leader, faults, plan>>

(* The ALTER waits a bounded time for the writers; a record this pass made *)
(* is taken back when it fails.                                            *)
Widen(r) ==
    /\ ctl[r].pc = "widen"
    /\ LET c == ctl[r] IN
         \/ /\ NoWriter(c.src)
            /\ live' = [live EXCEPT ![c.src].full = TRUE]
            /\ Goes(r, [c EXCEPT !.pc = "slot", !.busy = FALSE]) /\ row' = row
         \/ /\ ~NoWriter(c.src)
            /\ live' = live
            /\ Save(r, [c EXCEPT !.pc = "idle", !.wf.st.full = IF c.busy THEN @ \ {c.src} ELSE @])
    /\ UNCHANGED <<cat, lock, shadow, old, data, clients, leader, faults, plan>>

CreateSlot(r) ==
    /\ ctl[r].pc = "slot"
    /\ slot' = [slot EXCEPT ![ctl[r].src] = IF @ = None THEN Len(wal[ctl[r].src]) ELSE @]
    /\ Goes(r, [ctl[r] EXCEPT !.pc = "snap"])
    /\ UNCHANGED <<cat, row, lock, tables, wal, truth, clients, leader, faults, plan>>

(* copySource: one snapshot, upserted into the shadow of every row's shard *)
Snapshot(r) ==
    /\ ctl[r].pc = "snap"
    /\ Holds(r)
    /\ Goes(r, [ctl[r] EXCEPT !.pc = "fill", !.snap = live[ctl[r].src].rows, !.left = Targets])
    /\ UNCHANGED <<cat, lock, tables, data, clients, leader, faults, plan>>

Fill(r, d) ==
    /\ ctl[r].pc = "fill" /\ d \in ctl[r].left /\ shadow[d] # None
    /\ LET snap == ctl[r].snap IN
         shadow' = [shadow EXCEPT ![d].rows =
                      [k \in Keys |-> IF snap[k] # None /\ Route(plan.to, k) = d THEN snap[k] ELSE @[k]]]
    /\ Goes(r, [ctl[r] EXCEPT !.left = @ \ {d}])
    /\ UNCHANGED <<cat, row, lock, live, old, data, clients, leader, faults, plan>>

Copied(r) ==
    /\ ctl[r].pc = "fill" /\ ctl[r].left = {}
    /\ Save(r, [ctl[r] EXCEPT !.pc = "copy", !.wf.st.copied = @ \cup {ctl[r].src},
                              !.src = None, !.snap = Empty])
    /\ UNCHANGED <<cat, lock, tables, data, clients, leader, faults, plan>>

CopyDone(r) ==
    /\ ctl[r].pc = "copy" /\ Sources \subseteq ctl[r].wf.st.copied
    /\ Advance(r, "catch_up")
    /\ UNCHANGED <<cat, lock, tables, data, clients, leader, faults, plan>>

-----------------------------------------------------------------------------
(* catchUp: in the catch-up stage, while buffering, and before the swap *)

(* The changes after the confirmed position, and where they end: nothing   *)
(* that commits from here on is confirmed by this round.                   *)
Peek(r, s) ==
    /\ ctl[r].pc = "peek" /\ IsNext(s, ctl[r].todo)
    /\ IF slot[s] = None THEN Save(r, [ctl[r] EXCEPT !.pc = "idle"])
       ELSE /\ Goes(r, [ctl[r] EXCEPT !.pc = "apply", !.todo = @ \ {s}, !.src = s, !.left = Targets,
                                      !.from = slot[s], !.upto = Len(wal[s])])
            /\ row' = row
    /\ UNCHANGED <<cat, lock, tables, data, clients, leader, faults, plan>>

(* routeChange and applyOps: the last change of a key wins on its shard. *)
Replayed(rows, c, d) ==
    [k \in Keys |->
       LET hits == {i \in c.from + 1 .. c.upto: wal[c.src][i].key = k} IN
         IF hits = {} \/ Route(plan.to, k) # d THEN rows[k]
         ELSE wal[c.src][CHOOSE i \in hits: \A j \in hits: j <= i].val]

Apply(r, d) ==
    /\ ctl[r].pc = "apply" /\ d \in ctl[r].left
    /\ LET c == ctl[r] IN
         IF shadow[d] = None
         THEN IF \A k \in Keys: Replayed(Empty, c, d)[k] = None
              THEN shadow' = shadow /\ Goes(r, [c EXCEPT !.left = @ \ {d}]) /\ row' = row
              ELSE shadow' = shadow /\ Save(r, [c EXCEPT !.pc = "idle"])
         ELSE /\ shadow' = [shadow EXCEPT ![d].rows = Replayed(@, c, d)]
              /\ Goes(r, [c EXCEPT !.left = @ \ {d}]) /\ row' = row
    /\ UNCHANGED <<cat, lock, live, old, data, clients, leader, faults, plan>>

(* The slot moves to what was applied; busy notes a change or a lag. *)
Confirm(r) ==
    /\ ctl[r].pc = "apply" /\ ctl[r].left = {} /\ slot[ctl[r].src] # None
    /\ LET c == ctl[r] IN
         /\ slot' = [slot EXCEPT ![c.src] = IF c.upto > @ THEN c.upto ELSE @]
         /\ Goes(r, [c EXCEPT !.pc = IF c.todo = {} THEN "caught" ELSE "peek",
                              !.src = None, !.from = 0, !.upto = 0,
                              !.busy = @ \/ Len(wal[c.src]) > c.from])
    /\ UNCHANGED <<cat, row, lock, tables, wal, truth, clients, leader, faults, plan>>

CaughtUp(r) ==
    /\ ctl[r].pc = "caught" /\ ctl[r].mode = "catch"
    /\ \/ Advance(r, "buffering")
       \/ ctl[r].busy /\ Save(r, [ctl[r] EXCEPT !.pc = "idle"])
    /\ UNCHANGED <<cat, lock, tables, data, clients, leader, faults, plan>>

(* buffer: the catalog's flag, then its record, then the drain *)
RaiseFence(r) ==
    /\ ctl[r].pc = "fence"
    /\ cat' = [cat EXCEPT !.migrating = TRUE]
    /\ Goes(r, [ctl[r] EXCEPT !.pc = "fenced"])
    /\ UNCHANGED <<row, lock, tables, data, clients, leader, faults, plan>>

FenceRaised(r) ==
    /\ ctl[r].pc = "fenced"
    /\ Save(r, [ctl[r] EXCEPT !.pc = "peek", !.wf.st.fenced = TRUE, !.wf.st.quiet = 0])
    /\ UNCHANGED <<cat, lock, tables, data, clients, leader, faults, plan>>

(* Two rounds in a row that found nothing end the drain; the timeout of    *)
(* the pause may pass at any other round.                                  *)
Drained(r) ==
    /\ ctl[r].pc = "caught" /\ ctl[r].mode = "buffer"
    /\ LET quiet == IF ctl[r].busy THEN 0 ELSE ctl[r].wf.st.quiet + 1
           c == [ctl[r] EXCEPT !.wf.st.quiet = quiet, !.busy = FALSE]
       IN IF quiet >= 2 THEN Save(r, [c EXCEPT !.pc = "idle", !.wf.stage = "swapping"])
          ELSE /\ \/ Goes(r, [c EXCEPT !.pc = "peek", !.todo = Sources])
                  \/ Goes(r, [c EXCEPT !.pc = "abort"])
               /\ row' = row
    /\ UNCHANGED <<cat, lock, tables, data, clients, leader, faults, plan>>

abortBuffer(r) ==
    /\ ctl[r].pc = "abort"
    /\ Holds(r)
    /\ Goes(r, [ctl[r] EXCEPT !.pc = "release", !.mode = "abort", !.todo = Shards])
    /\ UNCHANGED <<cat, lock, tables, data, clients, leader, faults, plan>>

-----------------------------------------------------------------------------
(* The swap *)

Failing(c) == [c EXCEPT !.pc = "release", !.mode = "fail", !.todo = Shards, !.src = None,
                        !.left = {}, !.from = 0, !.upto = 0, !.snap = Empty, !.busy = FALSE, !.lagged = None]

(* Mutant: the shadow gets no fence. *)
ArmLiveFence(r, s) ==
    /\ ctl[r].pc = "arm" /\ IsNext(s, ctl[r].todo)
    /\ Holds(r) /\ NoWriter(s)
    /\ live' = [live EXCEPT ![s] = Fenced(@, TRUE)]
    /\ LET c == [ctl[r] EXCEPT !.todo = @ \ {s}] IN
         Goes(r, IF c.todo = {} THEN [c EXCEPT !.pc = "peek", !.todo = Sources] ELSE c)
    /\ UNCHANGED <<cat, lock, shadow, old, data, clients, leader, faults, plan>>

(* fenceShards: the trigger waits for the transactions that wrote already. *)
ArmFence(r, s) ==
    /\ ctl[r].pc = "arm" /\ IsNext(s, ctl[r].todo)
    /\ Holds(r) /\ NoWriter(s)
    /\ live' = [live EXCEPT ![s] = Fenced(@, TRUE)]
    /\ shadow' = [shadow EXCEPT ![s] = Fenced(@, TRUE)]
    /\ LET c == [ctl[r] EXCEPT !.todo = @ \ {s}] IN
         Goes(r, IF c.todo = {} THEN [c EXCEPT !.pc = "peek", !.todo = Sources] ELSE c)
    /\ UNCHANGED <<cat, lock, old, data, clients, leader, faults, plan>>

(* verifyPlacement: the shadows add up to the sources.  A shadow that is   *)
(* missing must be one whose swap had begun, and then that is all; else a  *)
(* source that is not there is an error of the pass.                       *)
Count(rels, S, k, v) == Cardinality({s \in S: rels[s] # None /\ rels[s].rows[k] = v})
Matches == \A k \in Keys, v \in Writers \cup {Base}:
             Count(shadow, Targets, k, v) = Count(live, Sources, k, v)

verifyPlacement(r) ==
    /\ ctl[r].pc = "caught" /\ ctl[r].mode = "swap" /\ ctl[r].lagged = None
    /\ LET c == ctl[r]
           missing == {d \in Targets: shadow[d] = None}
           fine == IF missing = {} THEN Matches ELSE missing \subseteq c.wf.st.swapped
       IN IF missing = {} /\ \E s \in Sources: live[s] = None THEN Save(r, [c EXCEPT !.pc = "idle"])
          ELSE /\ Goes(r, IF fine THEN [c EXCEPT !.pc = "swap", !.todo = Shards, !.busy = FALSE]
                          ELSE Failing(c))
               /\ row' = row
    /\ UNCHANGED <<cat, lock, tables, data, clients, leader, faults, plan>>

(* swapAll: the marker is saved before the first rename on a shard. *)
MarkSwap(r, s) ==
    /\ ctl[r].pc = "swap" /\ IsNext(s, ctl[r].todo)
    /\ LET c == [ctl[r] EXCEPT !.pc = "rename", !.src = s, !.busy = s \in ctl[r].wf.st.swapped] IN
         IF c.busy THEN Goes(r, c) /\ row' = row
         ELSE Save(r, [c EXCEPT !.wf.st.swapped = @ \cup {s}])
    /\ UNCHANGED <<cat, lock, tables, data, clients, leader, faults, plan>>

(* swapOn: the renames of one shard, in one transaction.  Only a marker of *)
(* an earlier pass makes a missing shadow a finished swap.  A slot that    *)
(* still lags is caught up with and the shard tried again, six times at    *)
(* most; another table under the retired name is a refusal.                *)
Tries == 6

SwapOn(r) ==
    /\ ctl[r].pc = "rename"
    /\ LET c == ctl[r]  s == c.src
           next == [c EXCEPT !.todo = @ \ {s}, !.src = None, !.busy = FALSE, !.lagged = None,
                             !.pc = IF c.todo = {s} THEN "publish" ELSE "swap"]
           again == [shard |-> s, todo |-> c.todo, busy |-> c.busy,
                     tries |-> IF c.lagged = None THEN 1 ELSE c.lagged.tries + 1]
           lost == s \in Targets /\ shadow[s] = None
           done == s \notin Targets /\ live[s] = None
           clash == live[s] # None /\ s \in plan.taken
           lags == live[s] # None /\ s \in Sources /\ (slot[s] # None => Len(wal[s]) > slot[s])
       IN IF lost \/ done
          THEN /\ Goes(r, IF done \/ (c.busy /\ live[s] # None) THEN next ELSE Failing(c))
               /\ UNCHANGED <<row, tables>>
          ELSE /\ NoWriter(s)
               /\ \/ /\ lags /\ (slot[s] = None \/ again.tries = Tries)
                     /\ Save(r, [c EXCEPT !.pc = "idle"]) /\ UNCHANGED tables
                  \/ /\ lags /\ slot[s] # None /\ again.tries < Tries
                     /\ Goes(r, [c EXCEPT !.pc = "peek", !.todo = Sources, !.src = None, !.busy = FALSE, !.lagged = again])
                     /\ UNCHANGED <<row, tables>>
                  \/ /\ ~lags /\ clash
                     /\ Goes(r, Failing(c)) /\ UNCHANGED <<row, tables>>
                  \/ /\ ~lags /\ ~clash
                     /\ old' = IF live[s] = None THEN old ELSE [old EXCEPT ![s] = live[s]]
                     /\ live' = [live EXCEPT ![s] = IF s \in Targets THEN shadow[s] ELSE None]
                     /\ shadow' = [shadow EXCEPT ![s] = None]
                     /\ Goes(r, next) /\ row' = row
    /\ UNCHANGED <<cat, lock, data, clients, leader, faults, plan>>

(* The catch-up before another try *)
TryAgain(r) ==
    /\ ctl[r].pc = "caught" /\ ctl[r].mode = "swap" /\ ctl[r].lagged # None
    /\ LET again == ctl[r].lagged IN
         Goes(r, [ctl[r] EXCEPT !.pc = "rename", !.todo = again.todo, !.src = again.shard, !.busy = again.busy])
    /\ UNCHANGED <<cat, row, lock, tables, data, clients, leader, faults, plan>>

(* publish: placement, flag, lock and record in one transaction *)
publish(r) ==
    /\ ctl[r].pc = "publish"
    /\ LET c == [ctl[r] EXCEPT !.pc = "release", !.mode = "publish", !.todo = Shards,
                               !.wf.st.swappedAt = TRUE]
       IN /\ Save(r, c)
          /\ IF Mine(r) THEN cat' = [placement |-> plan.to, migrating |-> FALSE] /\ lock' = FALSE
             ELSE UNCHANGED <<cat, lock>>
    /\ UNCHANGED <<tables, data, clients, leader, faults, plan>>

-----------------------------------------------------------------------------
(* Giving the table back: after the publish, and in cleanup, fail and      *)
(* abortBuffer.  Every shard is tried; one that cannot be reached is a     *)
(* fault, and what it kept is this pass's failure.                         *)

releaseShardFence(r, s) ==
    /\ ctl[r].pc = "release" /\ IsNext(s, ctl[r].todo)
    /\ Holds(r)
    /\ \/ /\ live' = [live EXCEPT ![s] = Fenced(@, FALSE)]
          /\ shadow' = [shadow EXCEPT ![s] = Fenced(@, FALSE)]
          /\ old' = [old EXCEPT ![s] = Fenced(@, FALSE)]
          /\ Goes(r, [ctl[r] EXCEPT !.todo = @ \ {s}]) /\ NoFault
       \/ UNCHANGED tables /\ Goes(r, [ctl[r] EXCEPT !.todo = @ \ {s}, !.failed = TRUE]) /\ Fault
    /\ UNCHANGED <<cat, lock, data, clients, leader, plan>>

Released(r) ==
    /\ ctl[r].pc = "release" /\ ctl[r].todo = {}
    /\ LET c == ctl[r] IN
         Goes(r, IF c.failed THEN Idle
                 ELSE IF c.mode = "publish" THEN [c EXCEPT !.pc = "repl", !.todo = Sources]
                 ELSE [c EXCEPT !.pc = "lower"])
    /\ UNCHANGED <<cat, row, lock, tables, data, clients, leader, faults, plan>>

(* releaseFence's last statement, with no check of the claim *)
LowerFence(r) ==
    /\ ctl[r].pc = "lower"
    /\ cat' = [cat EXCEPT !.migrating = FALSE]
    /\ Goes(r, IF ctl[r].mode = "abort" THEN [ctl[r] EXCEPT !.pc = "aborted"]
               ELSE [ctl[r] EXCEPT !.pc = "repl", !.todo = Sources])
    /\ UNCHANGED <<row, lock, tables, data, clients, leader, faults, plan>>

(* The rest of abortBuffer *)
Aborted(r) ==
    /\ ctl[r].pc = "aborted"
    /\ LET c == [ctl[r] EXCEPT !.wf.st.attempts = @ + 1, !.wf.st.fenced = FALSE, !.wf.st.quiet = 0] IN
         IF c.wf.st.attempts >= BufferAttempts THEN Goes(r, Failing(c)) /\ row' = row
         ELSE Save(r, [c EXCEPT !.pc = "idle", !.wf.stage = "catch_up"])
    /\ UNCHANGED <<cat, lock, tables, data, clients, leader, faults, plan>>

(* The identity an undone move had widened on s is to be put back. *)
(* Mutant: only a cancelled move puts it back. *)
RestoresCancelled(c, s) == c.mode = "cancel" /\ s \in c.wf.st.full
Restores(c, s) == c.mode \in {"cancel", "fail"} /\ s \in c.wf.st.full

(* dropSourceReplication: the slot, and the identity while it is still     *)
(* FULL.  Its ALTER waits a bounded time for the writers; a table that is  *)
(* not there is an error.                                                  *)
dropReplication(r, s) ==
    /\ ctl[r].pc = "repl" /\ IsNext(s, ctl[r].todo)
    /\ Holds(r)
    /\ LET c == [ctl[r] EXCEPT !.todo = @ \ {s}]
           alters == Restores(c, s) /\ live[s] # None /\ live[s].full
           errs == Restores(c, s) /\ (live[s] = None \/ (live[s].full /\ ~NoWriter(s)))
       IN \/ /\ slot' = [slot EXCEPT ![s] = None] /\ NoFault
             /\ live' = IF alters /\ ~errs THEN [live EXCEPT ![s].full = FALSE] ELSE live
             /\ Goes(r, IF errs THEN [c EXCEPT !.failed = TRUE] ELSE c)
          \/ UNCHANGED <<slot, live>> /\ Goes(r, [c EXCEPT !.failed = TRUE]) /\ Fault
    /\ UNCHANGED <<cat, lock, shadow, old, wal, truth, clients, leader, plan>>

ReplicationDropped(r) ==
    /\ ctl[r].pc = "repl" /\ ctl[r].todo = {}
    /\ LET c == ctl[r] IN
         IF c.mode = "fail"
         THEN /\ Goes(r, IF c.wf.st.swapped = {} THEN [c EXCEPT !.pc = "drop", !.todo = Targets]
                         ELSE [c EXCEPT !.pc = "unlock"])
              /\ row' = row
         ELSE IF c.failed THEN Ends(r) /\ row' = row
         ELSE IF c.mode = "publish" THEN Advance(r, "retiring")
         ELSE Goes(r, [c EXCEPT !.pc = "drop", !.todo = Targets]) /\ row' = row
    /\ UNCHANGED <<cat, lock, tables, data, clients, leader, faults, plan>>

dropShadows(r, s) ==
    /\ ctl[r].pc = "drop" /\ IsNext(s, ctl[r].todo)
    /\ Holds(r)
    /\ \/ shadow' = [shadow EXCEPT ![s] = None] /\ Goes(r, [ctl[r] EXCEPT !.todo = @ \ {s}]) /\ NoFault
       \/ UNCHANGED shadow /\ Goes(r, [ctl[r] EXCEPT !.todo = @ \ {s}, !.failed = TRUE]) /\ Fault
    /\ UNCHANGED <<cat, lock, live, old, data, clients, leader, plan>>

ShadowsDropped(r) ==
    /\ ctl[r].pc = "drop" /\ ctl[r].todo = {}
    /\ Goes(r, IF ctl[r].mode = "cancel" /\ ctl[r].failed THEN Idle ELSE [ctl[r] EXCEPT !.pc = "unlock"])
    /\ UNCHANGED <<cat, row, lock, tables, data, clients, leader, faults, plan>>

unlock(r) ==
    /\ ctl[r].pc = "unlock"
    /\ Holds(r)
    /\ lock' = FALSE
    /\ Goes(r, [ctl[r] EXCEPT !.pc = "finish",
                              !.wf.state = IF ctl[r].mode = "fail" THEN "failed" ELSE @,
                              !.wf.stage = IF ctl[r].mode = "fail" THEN "failed" ELSE "cancelled"])
    /\ UNCHANGED <<cat, tables, data, clients, leader, faults, plan>>

(* dropOld, which does not look at the claim *)
dropOld(r, s) ==
    /\ ctl[r].pc = "retire" /\ IsNext(s, ctl[r].todo)
    /\ \/ old' = [old EXCEPT ![s] = None] /\ Goes(r, [ctl[r] EXCEPT !.todo = @ \ {s}]) /\ NoFault
       \/ UNCHANGED old /\ Goes(r, [ctl[r] EXCEPT !.todo = @ \ {s}, !.failed = TRUE]) /\ Fault
    /\ UNCHANGED <<cat, row, lock, live, shadow, data, clients, leader, plan>>

Retired(r) ==
    /\ ctl[r].pc = "retire" /\ ctl[r].todo = {}
    /\ Goes(r, IF ctl[r].failed THEN Idle
               ELSE [ctl[r] EXCEPT !.pc = "finish", !.wf.state = "completed", !.wf.stage = "completed"])
    /\ UNCHANGED <<cat, row, lock, tables, data, clients, leader, faults, plan>>

(* The final record; what fail could not undo is named in it. *)
finish(r) ==
    /\ ctl[r].pc = "finish"
    /\ Ends(r)
    /\ row' = IF Mine(r) THEN [row EXCEPT !.state = ctl[r].wf.state, !.stage = ctl[r].wf.stage,
                                          !.st = ctl[r].wf.st, !.leaked = ctl[r].failed]
              ELSE row
    /\ UNCHANGED <<cat, lock, tables, data, clients, leader, faults, plan>>

-----------------------------------------------------------------------------
(* The reconciler, leadership, and faults *)

(* cancelPlacement: the desired placement was reverted before the swap. *)
cancelPlacement ==
    /\ plan.cancel
    /\ row.state \in Active /\ row.stage \notin {"swapping", "retiring"}
    /\ row' = [row EXCEPT !.state = "cancelled", !.stage = "cancelling"]
    /\ UNCHANGED <<cat, lock, tables, data, clients, leader, ctl, faults, plan>>

(* holdClaim of a pass that lost the workflow *)
NotOwner(r) ==
    /\ ctl[r].pc \in Checked /\ row.owner # r
    /\ ctl[r].todo # {} \/ ctl[r].pc \in {"snap", "abort", "unlock"}
    /\ Ends(r)
    /\ UNCHANGED <<cat, row, lock, tables, data, clients, leader, faults, plan>>

(* ReleaseClaims, once the pass of a deposed leader has returned *)
ReleaseClaims(r) ==
    /\ leader # r /\ ctl[r].pc = "idle" /\ row.owner = r
    /\ row' = [row EXCEPT !.owner = None]
    /\ UNCHANGED <<cat, lock, tables, data, clients, leader, ctl, faults, plan>>

(* A statement or a connection fails: Pass saves what it holds. *)
Incomplete(r) ==
    /\ ctl[r].pc \in {"shadow", "slot", "snap", "fill", "fence", "fenced", "peek", "apply",
                      "arm", "rename", "publish"}
    /\ Save(r, [ctl[r] EXCEPT !.pc = "idle"])
    /\ Fault
    /\ UNCHANGED <<cat, lock, tables, data, clients, leader, plan>>

(* A refusal: a shape that cannot move, or one that changed under the move *)
(* and shows in a row to copy or a change to replay                        *)
Fatal(r) ==
    /\ \/ ctl[r].pc \in {"start", "shadow", "snap"}
       \/ ctl[r].pc = "apply" /\ ctl[r].from < ctl[r].upto
       \/ ctl[r].pc = "swap" /\ ctl[r].wf.st.swapped = {}
    /\ Goes(r, Failing(ctl[r]))
    /\ Fault
    /\ UNCHANGED <<cat, row, lock, tables, data, clients, leader, plan>>

(* A process dies in its pass; another one takes the lock it led by. *)
Crash(r) ==
    /\ ctl[r].pc # "idle"
    /\ Ends(r)
    /\ row' = IF row.owner = r THEN [row EXCEPT !.owner = Gone] ELSE row
    /\ leader' \in Replicas \ {r}
    /\ Fault
    /\ UNCHANGED <<cat, lock, tables, data, clients, plan>>

(* A pass that hangs past its lease, and past its leadership *)
Stall(r) ==
    /\ ctl[r].pc \in Stalls /\ row.owner = r
    /\ row' = [row EXCEPT !.aged = TRUE]
    /\ leader' \in Replicas \ {r}
    /\ Fault
    /\ UNCHANGED <<cat, lock, tables, data, clients, ctl, plan>>

(* The session that held the lock ends; the pass goes on to its end. *)
Depose(r) ==
    /\ leader = r
    /\ leader' \in Replicas \ {r}
    /\ Fault
    /\ UNCHANGED <<cat, row, lock, tables, data, clients, ctl, plan>>

-----------------------------------------------------------------------------
Pass(r) ==
    \/ List(r) \/ Claim(r) \/ Start(r) \/ ShadowsBuilt(r) \/ Widen(r) \/ CreateSlot(r) \/ Snapshot(r)
    \/ Copied(r) \/ CopyDone(r) \/ Confirm(r) \/ CaughtUp(r) \/ RaiseFence(r) \/ FenceRaised(r)
    \/ Drained(r) \/ abortBuffer(r) \/ verifyPlacement(r) \/ SwapOn(r) \/ TryAgain(r) \/ publish(r) \/ Released(r)
    \/ LowerFence(r) \/ Aborted(r) \/ ReplicationDropped(r) \/ ShadowsDropped(r) \/ unlock(r)
    \/ Retired(r) \/ finish(r) \/ NotOwner(r)
    \/ \E s \in Shards:
         \/ CreateShadow(r, s) \/ CopySource(r, s) \/ Fill(r, s) \/ Peek(r, s) \/ Apply(r, s)
         \/ ArmFence(r, s) \/ MarkSwap(r, s) \/ releaseShardFence(r, s) \/ dropReplication(r, s)
         \/ dropShadows(r, s) \/ dropOld(r, s)

Init ==
    /\ plan \in Plans
    /\ cat = [placement |-> plan.from, migrating |-> FALSE]
    /\ row = [state |-> "pending", stage |-> "preparing", st |-> Fresh, owner |-> None,
              aged |-> FALSE, leaked |-> FALSE]
    /\ lock = FALSE
    /\ truth = [k \in Keys |-> Base]
    /\ live = [s \in Shards |-> IF s \notin Sources THEN None
                 ELSE Relation([k \in Keys |-> IF Route(plan.from, k) = s THEN Base ELSE None], FALSE)]
    /\ shadow = [s \in Shards |-> None] /\ old = [s \in Shards |-> None]
    /\ slot = [s \in Shards |-> None] /\ wal = [s \in Shards |-> <<>>]
    /\ txn = [w \in Writers |-> [pc |-> "idle", placement |-> plan.from]]
    /\ view = cat
    /\ leader = CHOOSE r \in Replicas: TRUE
    /\ ctl = [r \in Replicas |-> Idle]
    /\ faults = 0

Next ==
    \/ Refresh \/ cancelPlacement
    \/ \E w \in Writers: Send(w) \/ Land(w) \/ Commit(w)
    \/ \E r \in Replicas: Pass(r) \/ ReleaseClaims(r) \/ Incomplete(r) \/ Fatal(r) \/ Crash(r)
                          \/ Stall(r) \/ Depose(r)

Spec == Init /\ [][Next]_vars

(* The passes keep ticking, an open transaction ends, and a statement that *)
(* was sent is answered.                                                   *)
Fairness ==
    /\ \A r \in Replicas: WF_vars(NoFault /\ Pass(r)) /\ WF_vars(ReleaseClaims(r))
    /\ \A w \in Writers: WF_vars(Land(w)) /\ WF_vars(Commit(w))
FairSpec == Spec /\ Fairness

-----------------------------------------------------------------------------
(* No row is lost or left behind by the move: until the first rename       *)
(* (swapOn) the old placement has every key's last committed row, after    *)
(* publish the new one has, and in between every key's row is on the shard *)
(* that will serve it, in the swapped table or in the shadow that is still *)
(* to be.  When a swap that had begun is given up (fail) and clients write *)
(* again, every key's last row is still in some relation of the move.      *)
Placed(rels, p) == \A k \in Keys: LET rel == rels[Route(p, k)] IN rel # None /\ rel.rows[k] = truth[k]
Upcoming == [s \in Shards |-> IF shadow[s] # None THEN shadow[s] ELSE live[s]]
Relations(s) == {live[s], shadow[s], old[s]} \ {None}
Renamed == \E s \in Shards: old[s] # None \/ (live[s] # None /\ live[s].new)
Held == /\ \A s \in Shards: \A rel \in {live[s], shadow[s]} \ {None}: rel.fence
        /\ \A s \in Sources: slot[s] = Len(wal[s])
RowsKept ==
    IF cat.placement = plan.to THEN Placed(live, plan.to)
    ELSE IF ~Renamed THEN Placed(live, plan.from)
    ELSE IF Held THEN Placed(Upcoming, plan.to)
    ELSE \A k \in Keys: \E s \in Shards: \E rel \in Relations(s): rel.rows[k] = truth[k]

(* A workflow that ended left nothing behind it, whatever it was doing     *)
(* when it was cancelled, failed or crashed: no shard fence, no catalog    *)
(* flag, no lock, no slot pinning WAL, no shadow or retired table, and no  *)
(* widened replica identity.  A failed one may name in its record what it  *)
(* could not reach (fail's residue), never a fence or the lock; and one    *)
(* that had begun to swap keeps its shadows and what it renamed, which may *)
(* be the only copy of what a shard should hold.                           *)
EndsClean ==
    Over => /\ ~cat.migrating /\ ~lock
            /\ \A s \in Shards: \A rel \in Relations(s): ~rel.fence
            /\ row.leaked \/ \A s \in Shards:
                  /\ slot[s] = None /\ (live[s] # None => ~live[s].full)
                  /\ (shadow[s] = None /\ old[s] = None) \/ (row.state = "failed" /\ row.st.swapped # {})

(* Once the reconciler has cancelled the move, no pass that was under way  *)
(* (cancelPlacement against the saves of Pass) revives it, renames a table *)
(* or publishes the placement it was cancelled from.                       *)
CancelledNeverSwaps ==
    [][row.state = "cancelled" =>
         /\ row'.state = "cancelled"
         /\ old' = old /\ cat'.placement = cat.placement]_vars

(* Writes to the table are refused only for a while: a catalog flag or a   *)
(* shard fence that is up comes down, whatever fails.  The exceptions are  *)
(* a swap no pass can finish or give up, because a pass that died in fail  *)
(* had dropped a slot the next catchUp needs, or because a source was      *)
(* renamed away and verifyPlacement finds every shadow still in its place. *)
Refused == cat.migrating \/ \E s \in Shards: live[s] # None /\ live[s].fence
Stranded ==
    /\ row.stage = "swapping" /\ ~row.st.swappedAt
    /\ \/ \E s \in Sources: slot[s] = None
       \/ (\A d \in Targets: shadow[d] # None) /\ \E s \in Sources: live[s] = None
FencesLift == (Refused ~> ~Refused) \/ <>[]Stranded

=============================================================================
