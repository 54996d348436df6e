------------------------------ MODULE Applier ------------------------------
(***************************************************************************)
(* The controller's DDL applier: leader election by an advisory lock and a *)
(* leader term (controller/leader.go, controller/loop.go), the pass that   *)
(* drives one migration over the shards (controller/applier.go), and the   *)
(* online rewrite of a column (controller/rewrite.go).                     *)
(*                                                                         *)
(* Several controller processes run; one holds the lock.  A migration is a *)
(* row of the catalog, read once at the start of a pass and written back   *)
(* after every step, and a schema on every shard.  A process can crash     *)
(* between any two steps, its lock session can end under it while it goes  *)
(* on running, and a statement can fail with its effect kept or lost.      *)
(***************************************************************************)
EXTENDS Integers

CONSTANTS
    Controllers,  \* controller processes
    NumShards,    \* the shards of the serving set are 1..NumShards
    MaxTries,     \* attempts at one step within a pass before it gives up
    Plans,        \* the statement of a behaviour and the faults it may meet
    MaxFlips,     \* the most cutovers of the serving set in a plan
    NoOne         \* the holder of a free lock

(* A plan bounds the processes that die (crash), the lock sessions that end *)
(* under a live process (lost), the dials, statements and catalog writes    *)
(* that fail (fault) and the cutovers of the serving set (flip).            *)
Statements == {"create", "drop", "existing", "alter", "role", "index", "multistep", "rewrite"}

ASSUME ApplierConstants ==
    /\ NumShards \in Nat \ {0}
    /\ MaxTries \in Nat
    /\ Plans \subseteq [kind: Statements, crash: Nat, lost: Nat, fault: Nat, flip: Nat]
    /\ MaxFlips \in Nat /\ \A p \in Plans: p.flip <= MaxFlips
    /\ NoOne \notin Controllers

VARIABLES
    kind,       \* the statement of this behaviour's migration
    row,        \* its row in pgshard.migrations
    gate,       \* what its start waits for in the operation queue
    serving,    \* the serving shard set
    obj,        \* obj[set][key]: the statement's object on that database
    tab,        \* tab[set][shard]: the table an online rewrite changes
    term,       \* pgshard.leader_term
    lock,       \* the holder of LeaderLockKey
    published,  \* published[c]: the term c believes it leads under, 0 for none
    pass,       \* pass[c]: the term c's pass latched
    mem,        \* mem[c]: the migration as c's pass holds it
    loc,        \* loc[c]: where c's pass stands in the loops below
    pc,         \* pc[c]: its next step
    handover,   \* how leadership has passed so far (an observation)
    budget      \* what is left of the bounds on faults

vars == <<kind, row, gate, serving, obj, tab, term, lock, published, pass, handover, mem, loc, pc, budget>>

catalogVars == <<kind, gate, serving, term, lock, published>>

----------------------------------------------------------------------------
(* Statements, databases and rows *)

(* A plain statement is sent whole; "existing" is a DROP of scope existing, *)
(* "alter" names no object a resume can look for, "role" runs on the        *)
(* catalog group too.                                                       *)
PlainKinds == {"create", "drop", "existing", "alter", "role", "index"}
DropKinds == {"drop", "existing"}

Sets == 1 .. (1 + MaxFlips)
Shards == 1 .. NumShards
catalogKey == NumShards + 1
Keys == IF kind = "role" THEN Shards \cup {catalogKey} ELSE Shards

(* The phases of an online rewrite, tracked per shard in Step. *)
rewriteAdd == 0
rewriteTrigger == 1
rewriteBackfill == 2
rewriteCutover == 3
rewriteValidate == 4
rewriteDone == 5

(* An object is there, not there, or there and not usable: an invalid index *)
(* or, in a multistep migration, a constraint that is NOT VALID yet.        *)
Objects == {"no", "bad", "yes"}
Goal == IF kind \in DropKinds THEN "no" ELSE "yes"

(* The table of a rewrite: the column is old, has its hidden twin beside    *)
(* it, or has been swapped for it; the dual-write trigger; and whether      *)
(* every row there is has its hidden value, as when there are no rows.      *)
Tables == [col: {"old", "both", "new"}, trig: BOOLEAN, full: BOOLEAN]
Untouched == [col |-> "old", trig |-> FALSE, full |-> TRUE]

Entries == [state: {"pending", "running", "retrying", "applied", "skipped", "failed"},
            step: 0 .. rewriteDone, ran: BOOLEAN]
Pending == [state |-> "pending", step |-> 0, ran |-> FALSE]
Ended == {"applied", "skipped", "failed"}
Final == {"complete", "failed"}

NoRow == [state |-> "none", per |-> [k \in {} |-> Pending], set |-> 0, settled |-> FALSE, degraded |-> FALSE]

Idle == [key |-> 1, phase |-> rewriteAdd, tries |-> 0, resumed |-> FALSE, err |-> "none", left |-> {}]

Steps == 2     \* the steps of the multistep migration: ADD ... NOT VALID, VALIDATE

touched(per) == \E k \in DOMAIN per: per[k].state # "pending"
anyFailed(per) == \E k \in DOMAIN per: per[k].state = "failed"

----------------------------------------------------------------------------
(* Writing the row *)

(* Mutant: the term is read at each write, and none is none. *)
Fenced_PerWrite(c) == published[c] # 0 /\ published[c] # term

(* leaderTermPredicate: a write that carries a term is refused once another *)
(* leadership has been recorded; a pass that latched no term writes freely. *)
Fenced(c) == pass[c] # 0 /\ pass[c] # term

(* The guards of the statement that starts a queued migration. *)
Held(r) == row.state = "queued" /\ r.state = "running" /\ (gate # "clear" \/ r.set # serving)

(* SaveQueuedMigrationProgress writes the state, the progress and the shard *)
(* set; the rest of the meta stays as it is.                                *)
Saved(c, r) == IF Fenced(c) \/ Held(r) THEN row ELSE [r EXCEPT !.settled = row.settled]

lostLeadership(c) == published[c] = 0

Fault(f) == budget[f] > 0 /\ budget' = [budget EXCEPT ![f] = @ - 1]

Goto(c, label) == pc' = [pc EXCEPT ![c] = label]
SetLoc(c, l) == loc' = [loc EXCEPT ![c] = l]
SetMem(c, r) == mem' = [mem EXCEPT ![c] = r]
WithState(r, k, s) == [r EXCEPT !.per[k].state = s]

EndPass(c) == Goto(c, "idle") /\ SetLoc(c, Idle) /\ SetMem(c, NoRow)

----------------------------------------------------------------------------
(* Leadership *)

Init ==
    /\ budget \in Plans
    /\ kind = budget.kind
    /\ row = NoRow
    /\ gate \in {"clear", "held"}
    /\ serving = 1
    /\ \E have \in SUBSET Shards:
         /\ kind = "drop" => have = Shards
         /\ kind \notin DropKinds => have = {}
         /\ obj = [s \in Sets |-> [k \in 1 .. catalogKey |-> IF k \in have THEN "yes" ELSE "no"]]
    /\ \E empty \in BOOLEAN:
         /\ kind # "rewrite" => empty
         /\ tab = [s \in Sets |-> [k \in Shards |-> [Untouched EXCEPT !.full = empty]]]
    /\ term = 0
    /\ lock = NoOne
    /\ published = [c \in Controllers |-> 0]
    /\ pass = [c \in Controllers |-> 0]
    /\ handover = "clean"
    /\ mem = [c \in Controllers |-> NoRow]
    /\ loc = [c \in Controllers |-> Idle]
    /\ pc = [c \in Controllers |-> "idle"]

(* lead: take the lock, then a term nobody had, then publish both. *)
lead(c) ==
    /\ lock = NoOne
    /\ published[c] = 0
    /\ lock' = c
    /\ term' = term + 1
    /\ published' = [published EXCEPT ![c] = term + 1]
    /\ UNCHANGED <<kind, row, gate, serving, obj, tab, pass, handover, mem, loc, pc, budget>>

(* The session that holds the lock ends: the process has not noticed yet. *)
LoseLock(c) ==
    /\ lock = c
    /\ Fault("lost")
    /\ lock' = NoOne
    /\ handover' = IF handover = "clean" THEN "lost" ELSE handover
    /\ UNCHANGED <<kind, row, gate, serving, obj, tab, term, published, pass, mem, loc, pc>>

(* OnLeader(false, 0): the reconciler finds its connection closed. *)
Notice(c) ==
    /\ lock # c
    /\ published[c] # 0
    /\ published' = [published EXCEPT ![c] = 0]
    /\ UNCHANGED <<kind, row, gate, serving, obj, tab, term, lock, pass, handover, mem, loc, pc, budget>>

(* The process dies; its sessions end with it and it starts again. *)
Crash(c) ==
    /\ published[c] # 0 \/ pc[c] # "idle"
    /\ Fault("crash")
    /\ lock' = IF lock = c THEN NoOne ELSE lock
    /\ published' = [published EXCEPT ![c] = 0]
    /\ pass' = [pass EXCEPT ![c] = 0]
    /\ EndPass(c)
    /\ UNCHANGED <<kind, row, gate, serving, obj, tab, term, handover>>

(* watchPass cancels a pass whose loop no longer leads.  The reads of the   *)
(* columns and the settling wait return an error to driveRewrite, which     *)
(* fails the rewrite; failRewrite's own work is not cancelled, only its     *)
(* last write is.                                                           *)
Abandon(c) ==
    /\ lostLeadership(c)
    /\ pc[c] \notin {"idle", "tick", "probe", "revert"}
    /\ IF pc[c] = "settle" \/ (pc[c] = "columns" /\ ~mem[c].settled)
       THEN Goto(c, "probe") /\ UNCHANGED <<mem, loc>>
       ELSE EndPass(c)
    /\ UNCHANGED <<catalogVars, row, obj, tab, pass, handover, budget>>

----------------------------------------------------------------------------
(* The pass *)

(* loop: a tick reaches the applier only while leader() says so ... *)
Tick(c) ==
    /\ pc[c] = "idle"
    /\ published[c] # 0
    /\ Goto(c, "tick")
    /\ UNCHANGED <<catalogVars, row, obj, tab, pass, handover, mem, loc, budget>>

(* ... and RunOnce then latches the published term and reads what is        *)
(* pending.  With nothing pending it sweeps.                                *)
RunOnce(c) ==
    /\ pc[c] = "tick"
    /\ pass' = [pass EXCEPT ![c] = published[c]]
    /\ handover' = IF published[c] = 0 THEN "unstamped" ELSE handover
    /\ IF row.state \in {"queued", "running"}
       THEN SetMem(c, row) /\ Goto(c, "drive")
       ELSE Goto(c, "sweep") /\ UNCHANGED mem
    /\ UNCHANGED <<catalogVars, row, obj, tab, loc, budget>>

(* A table without the trigger and the hidden column of a rewrite. *)
Swept(t) == IF t.col = "new" THEN [t EXCEPT !.trig = FALSE] ELSE [Untouched EXCEPT !.full = FALSE]

(* Mutant: the sweep stops short of the last shard. *)
SweepRewriteArtifacts_Short(c) ==
    /\ pc[c] = "sweep"
    /\ tab' = [tab EXCEPT ![serving][loc[c].key] = Swept(@)]
    /\ EndPass(c)
    /\ UNCHANGED <<catalogVars, row, obj, pass, handover, budget>>

(* SweepRewriteArtifacts, one shard of the serving set at a time.  A shard  *)
(* that cannot be swept is logged and passed over.                          *)
SweepRewriteArtifacts(c) ==
    /\ pc[c] = "sweep"
    /\ LET k == loc[c].key IN
         /\ \/ /\ tab' = [tab EXCEPT ![serving][k] = Swept(@)]
               /\ UNCHANGED budget
            \/ Fault("fault") /\ UNCHANGED tab
         /\ IF k = NumShards THEN EndPass(c)
            ELSE SetLoc(c, [loc[c] EXCEPT !.key = k + 1]) /\ UNCHANGED <<pc, mem>>
    /\ UNCHANGED <<catalogVars, row, obj, pass, handover>>

(* Mutant: the placement is not read again at the start. *)
drive_NoDrift(c) ==
    /\ pc[c] = "drive"
    /\ IF mem[c].state = "queued"
       THEN /\ SetMem(c, [mem[c] EXCEPT !.state = "running", !.set = serving, !.per = [k \in Keys |-> Pending]])
            /\ Goto(c, "start")
       ELSE Goto(c, IF kind = "rewrite" THEN "columns" ELSE "next") /\ UNCHANGED mem
    /\ UNCHANGED <<catalogVars, row, loc, obj, tab, pass, handover, budget>>

(* drive, up to the write that starts the migration.  A running migration   *)
(* pinned to a set that no longer serves fails when it has touched a shard  *)
(* and is planned again when it has not; a queued one whose placement moved *)
(* while it waited fails.                                                   *)
drive(c) ==
    /\ pc[c] = "drive"
    /\ LET straddled == mem[c].state = "running" /\ mem[c].set # serving
           failed == \/ straddled /\ touched(mem[c].per)
                     \/ (mem[c].state = "queued" \/ straddled) /\ gate = "moved"
           r == [mem[c] EXCEPT !.state = "failed", !.degraded = straddled]
       IN CASE failed ->
                 row' = Saved(c, r) /\ EndPass(c)
            [] ~failed /\ (mem[c].state = "queued" \/ straddled) ->
                 /\ SetMem(c, [mem[c] EXCEPT !.state = "running", !.set = serving,
                                             !.per = [k \in Keys |-> Pending]])
                 /\ Goto(c, "start")
                 /\ UNCHANGED <<row, loc>>
            [] OTHER ->
                 /\ Goto(c, IF kind = "rewrite" THEN "columns" ELSE "next")
                 /\ UNCHANGED <<row, loc, mem>>
    /\ UNCHANGED <<catalogVars, obj, tab, pass, handover, budget>>

(* The start: ErrMigrationHeld and ErrNotLeaderTerm both end the pass with  *)
(* the row as it was.                                                       *)
Start(c) ==
    /\ pc[c] = "start"
    /\ row' = Saved(c, mem[c])
    /\ IF Fenced(c) \/ Held(mem[c]) THEN EndPass(c)
       ELSE Goto(c, IF kind = "rewrite" THEN "columns" ELSE "next") /\ UNCHANGED <<mem, loc>>
    /\ UNCHANGED <<catalogVars, obj, tab, pass, handover, budget>>

(* The loop over the sorted keys, for every statement but a rewrite: the    *)
(* catalog group comes last and only when no shard failed.                  *)
NextKey(c) ==
    /\ pc[c] = "next"
    /\ LET ahead == {k \in Keys: k >= loc[c].key /\ mem[c].per[k].state \notin Ended}
       IN \/ /\ ahead = {}
             /\ Goto(c, "finish")
             /\ UNCHANGED <<mem, loc>>
          \/ \E k \in ahead:
               /\ \A j \in ahead: k <= j
               /\ LET e == mem[c].per[k]
                  IN CASE k = catalogKey /\ anyFailed(mem[c].per) ->
                            SetMem(c, WithState(mem[c], k, "failed")) /\ Goto(c, "finish") /\ UNCHANGED loc
                       [] OTHER ->
                            IF lostLeadership(c) THEN EndPass(c)
                            ELSE /\ SetLoc(c, [Idle EXCEPT !.key = k,
                                      !.resumed = e.state = "running" \/ (e.state = "retrying" /\ e.ran)])
                                 /\ Goto(c, "mark")
                                 /\ UNCHANGED mem
    /\ UNCHANGED <<catalogVars, row, obj, tab, pass, handover, budget>>

(* driveRewrite's loops: phase by phase, every shard in each. *)
NextPhase(c) ==
    /\ pc[c] = "phase"
    /\ LET todo == {w \in (rewriteAdd .. rewriteValidate) \X Shards:
                      /\ w[1] > loc[c].phase \/ (w[1] = loc[c].phase /\ w[2] >= loc[c].key)
                      /\ mem[c].per[w[2]].state # "failed"
                      /\ mem[c].per[w[2]].step <= w[1]}
       IN \/ /\ todo = {}
             /\ Goto(c, "finish")
             /\ UNCHANGED <<mem, loc>>
          \/ /\ todo # {} /\ lostLeadership(c)
             /\ EndPass(c)
          \/ /\ ~lostLeadership(c)
             /\ \E w \in todo:
                  /\ \A y \in todo: w[1] < y[1] \/ (w[1] = y[1] /\ w[2] <= y[2])
                  /\ SetLoc(c, [Idle EXCEPT !.phase = w[1], !.key = w[2]])
             /\ Goto(c, "mark")
             /\ UNCHANGED mem
    /\ UNCHANGED <<catalogVars, row, obj, tab, pass, handover, budget>>

(* retrying, top of the loop: the shard is recorded running before the step *)
(* is sent.  Refused by the term the entry goes back to what it was; not    *)
(* recorded for any other reason, the step is not run.                      *)
Mark(c) ==
    /\ pc[c] = "mark"
    /\ LET r == WithState(mem[c], loc[c].key, "running")
       IN \/ /\ Fenced(c)
             /\ Goto(c, "record")
             /\ UNCHANGED <<row, mem, loc, budget>>
          \/ /\ ~Fenced(c)
             /\ row' = Saved(c, r)
             /\ SetMem(c, r)
             /\ Goto(c, "check")
             /\ UNCHANGED <<loc, budget>>
          \/ /\ ~Fenced(c)
             /\ Fault("fault")
             /\ SetMem(c, r)
             /\ SetLoc(c, [loc[c] EXCEPT !.err = "save"])
             /\ Goto(c, "after")
             /\ UNCHANGED row
    /\ UNCHANGED <<catalogVars, obj, tab, pass, handover>>

Here(c) == obj[mem[c].set][loc[c].key]
SetHere(c, o) == obj' = [obj EXCEPT ![mem[c].set][loc[c].key] = o]
Step(c) == mem[c].per[loc[c].key].step

(* Mutant: an invalid index passes for the one to build. *)
AlreadyDone_Invalid(c) ==
    CASE kind = "multistep" -> Here(c) = "yes" \/ (Here(c) = "bad" /\ Step(c) = 0)
      [] kind \in {"alter", "rewrite"} -> FALSE
      [] OTHER -> loc[c].resumed /\ (Here(c) = "no") = (Goal = "no")

(* What a step finds done before it sends anything: a resumed statement     *)
(* looks for its object, a step of a multistep migration always evaluates   *)
(* its skip check.                                                          *)
AlreadyDone(c) ==
    CASE kind = "multistep" -> Here(c) = "yes" \/ (Here(c) = "bad" /\ Step(c) = 0)
      [] kind \in {"alter", "rewrite"} -> FALSE
      [] OTHER -> loc[c].resumed /\ Here(c) = Goal

(* prepare and the resume checks of step and runStep.  A resumed CREATE     *)
(* INDEX drops an index an interrupted build left invalid; a resumed DROP   *)
(* of scope existing that finds nothing is counted skipped.                 *)
Check(c) ==
    /\ pc[c] = "check"
    /\ \/ /\ Fault("fault")
          /\ SetLoc(c, [loc[c] EXCEPT !.err = "dial"])
          /\ Goto(c, "after")
          /\ UNCHANGED obj
       \/ /\ AlreadyDone(c)
          /\ SetLoc(c, [loc[c] EXCEPT !.err = IF kind = "existing" THEN "skip" ELSE "none"])
          /\ Goto(c, "after")
          /\ UNCHANGED <<obj, budget>>
       \/ /\ ~AlreadyDone(c)
          /\ IF kind = "index" /\ loc[c].resumed /\ Here(c) = "bad" THEN SetHere(c, "no") ELSE UNCHANGED obj
          /\ Goto(c, "exec")
          /\ UNCHANGED <<loc, budget>>
    /\ UNCHANGED <<catalogVars, row, tab, pass, handover, mem>>

(* What sending the statement once can do when nothing goes wrong on the    *)
(* way: the object after it, and the error it answers with.                 *)
Answer(c) ==
    LET o == Here(c) IN
    CASE kind \in DropKinds ->
           IF o = "yes" THEN <<"no", "none">>
           ELSE IF kind = "existing" THEN <<o, "skip">>
           ELSE IF loc[c].resumed THEN <<o, "none">> ELSE <<o, "hard">>
      [] kind = "multistep" /\ Step(c) = 0 -> <<"bad", "none">>
      [] kind = "multistep" /\ Step(c) = 1 -> IF o = "bad" THEN <<"yes", "none">> ELSE <<o, "hard">>
      [] OTHER -> IF o = "no" THEN <<"yes", "none">> ELSE <<o, "hard">>

(* ... and when something does.  A transaction refused a lock or failed has *)
(* no effect; one whose connection was lost may have committed.  A          *)
(* concurrent index build leaves an invalid index behind whatever it        *)
(* answers.  A VALIDATE that fails runs its OnFail, which drops the         *)
(* constraint.                                                              *)
Faulty(c) ==
    LET o == Here(c) IN
    CASE kind = "index" ->
           IF o # "no" THEN {o} \X {"lock", "conn"}
           ELSE {<<"no", "hard">>, <<"bad", "hard">>, <<"bad", "lock">>} \cup (Objects \X {"conn"})
      [] kind = "multistep" /\ Step(c) = 1 -> {<<o, "lock">>, <<o, "conn">>, <<"yes", "conn">>, <<"no", "hard">>}
      [] OTHER -> {<<o, "lock">>, <<o, "hard">>, <<o, "conn">>, <<Answer(c)[1], "conn">>}

Exec(c) ==
    /\ pc[c] = "exec"
    /\ kind # "rewrite"
    /\ \E a \in {Answer(c)} \cup Faulty(c):
         /\ IF a = Answer(c) THEN UNCHANGED budget ELSE Fault("fault")
         /\ SetHere(c, a[1])
         /\ SetLoc(c, [loc[c] EXCEPT !.err = a[2]])
    /\ Goto(c, "after")
    /\ UNCHANGED <<catalogVars, row, tab, pass, handover, mem>>

(* Mutant: the rows are converted before the trigger is made. *)
PhaseAnswer_Swapped(t, phase) ==
    CASE phase = rewriteAdd -> <<[t EXCEPT !.col = "both"], "none">>
      [] phase = rewriteTrigger -> <<[t EXCEPT !.full = TRUE], "none">>
      [] phase = rewriteBackfill -> <<[t EXCEPT !.trig = TRUE], "none">>
      [] phase = rewriteCutover -> IF t.col = "both" THEN <<[t EXCEPT !.col = "new", !.trig = FALSE], "none">>
                                   ELSE <<t, "none">>
      [] phase = rewriteValidate -> <<t, "none">>

(* rewritePhase on one shard's table: the table after the phase and the     *)
(* error it answers with.  The cutover takes a hidden column that is gone   *)
(* for a cutover an earlier attempt committed.                              *)
PhaseAnswer(t, phase) ==
    CASE phase = rewriteAdd -> <<[t EXCEPT !.col = "both"], "none">>
      [] phase = rewriteTrigger -> <<[t EXCEPT !.trig = TRUE], "none">>
      [] phase = rewriteBackfill -> IF t.col = "both" THEN <<[t EXCEPT !.full = TRUE], "none">> ELSE <<t, "hard">>
      [] phase = rewriteCutover -> IF t.col = "both" THEN <<[t EXCEPT !.col = "new", !.trig = FALSE], "none">>
                                   ELSE <<t, "none">>
      [] phase = rewriteValidate -> <<t, "none">>

(* rewriteTriggerSQL drops a trigger before it creates it, so a failure of  *)
(* any kind between the two can leave the table without one.                *)
PhaseFaulty(t, phase) ==
    {<<t, "lock">>, <<t, "hard">>, <<t, "conn">>, <<PhaseAnswer(t, phase)[1], "conn">>}
       \cup IF phase = rewriteTrigger THEN {<<[t EXCEPT !.trig = FALSE], e>> : e \in {"lock", "hard", "conn"}} ELSE {}

rewritePhase(c) ==
    /\ pc[c] = "exec"
    /\ kind = "rewrite"
    /\ LET t == tab[mem[c].set][loc[c].key]
           good == PhaseAnswer(t, loc[c].phase)
       IN \E a \in {good} \cup PhaseFaulty(t, loc[c].phase):
            /\ IF a = good THEN UNCHANGED budget ELSE Fault("fault")
            /\ tab' = [tab EXCEPT ![mem[c].set][loc[c].key] = a[1]]
            /\ SetLoc(c, [loc[c] EXCEPT !.err = a[2]])
    /\ Goto(c, "after")
    /\ UNCHANGED <<catalogVars, row, obj, pass, handover, mem>>

transient(err) == err \in {"dial", "save", "lock", "conn"}

(* mayHaveRun: whether the attempt could have reached the server and        *)
(* committed.  A statement outside a transaction leaves work behind         *)
(* whatever it answers.                                                     *)
mayHaveRun(err) == err \notin {"dial", "save"} /\ (kind = "index" \/ err # "lock")

Return(c, r) == SetMem(c, r) /\ Goto(c, "record") /\ UNCHANGED <<row, loc, budget>>

(* retrying, the rest of the loop: the outcome is kept in memory; a         *)
(* transient failure is recorded, or not when that write fails too, and     *)
(* retried until the budget of time is spent, which can be after any        *)
(* attempt.                                                                 *)
After(c) ==
    /\ pc[c] = "after"
    /\ LET k == loc[c].key
           err == loc[c].err
           ran == [mem[c] EXCEPT !.per[k].ran = @ \/ (err # "none" /\ mayHaveRun(err))]
       IN \/ err = "none" /\ Return(c, WithState(ran, k, "applied"))
          \/ err = "skip" /\ Return(c, WithState(ran, k, "skipped"))
          \/ (err = "hard" \/ transient(err)) /\ Return(c, WithState(ran, k, "failed"))
          \/ /\ transient(err)
             /\ loc[c].tries < MaxTries
             /\ LET r == WithState(ran, k, "retrying") IN
                  /\ SetMem(c, r)
                  /\ \/ row' = Saved(c, r) /\ UNCHANGED budget
                     \/ ~Fenced(c) /\ Fault("fault") /\ UNCHANGED row
                  /\ Goto(c, IF Fenced(c) THEN "record" ELSE "sleep")
             /\ SetLoc(c, [loc[c] EXCEPT !.tries = @ + 1, !.err = "none", !.resumed = @ \/ mayHaveRun(err)])
    /\ UNCHANGED <<catalogVars, obj, tab, pass, handover>>

(* The wait between attempts ends: a pass that no longer leads returns the  *)
(* entry as it stands.                                                      *)
Wake(c) ==
    /\ pc[c] = "sleep"
    /\ Goto(c, IF lostLeadership(c) THEN "record" ELSE "mark")
    /\ UNCHANGED <<catalogVars, row, obj, tab, pass, handover, mem, loc, budget>>

(* A step of a multistep migration that others follow on the same shard. *)
StepsLeft(c) ==
    LET e == mem[c].per[loc[c].key]
    IN kind = "multistep" /\ e.state = "applied" /\ e.step + 1 < Steps

(* The write that follows a step.  A statement's entry is saved and the     *)
(* loop moves to the next key; a step of a multistep migration is saved     *)
(* with the step advanced and the next step begins; a phase of a rewrite is *)
(* saved with the phase advanced unless it failed, and a failure goes to    *)
(* failRewrite.  A refused write ends the pass, a failed one between two    *)
(* steps does not.                                                          *)
Record(c) ==
    /\ pc[c] = "record"
    /\ LET k == loc[c].key
           e == mem[c].per[k]
           next ==
             IF kind = "rewrite"
             THEN [e EXCEPT !.state = IF @ = "applied" /\ loc[c].phase < rewriteValidate THEN "running" ELSE @,
                            !.step = IF e.state = "failed" THEN @ ELSE loc[c].phase + 1]
             ELSE [e EXCEPT !.step = IF kind = "multistep" /\ e.state = "applied" THEN @ + 1 ELSE @]
           r == [mem[c] EXCEPT !.per[k] = next]
       IN /\ \/ row' = Saved(c, r) /\ UNCHANGED budget
             \/ StepsLeft(c) /\ ~Fenced(c) /\ Fault("fault") /\ UNCHANGED row
          /\ IF Fenced(c) THEN EndPass(c)
             ELSE /\ SetMem(c, r)
                  /\ IF kind = "rewrite"
                     THEN /\ Goto(c, IF e.state = "failed" THEN "probe" ELSE "phase")
                          /\ SetLoc(c, IF k < NumShards THEN [loc[c] EXCEPT !.key = k + 1]
                                       ELSE [loc[c] EXCEPT !.key = 1, !.phase = @ + 1])
                     ELSE IF StepsLeft(c)
                     THEN Goto(c, "mark") /\ SetLoc(c, [Idle EXCEPT !.key = k])
                     ELSE Goto(c, "next") /\ SetLoc(c, [Idle EXCEPT !.key = k + 1])
    /\ UNCHANGED <<catalogVars, obj, tab, pass, handover>>

(* The end of drive and of driveRewrite.  A statement is complete when no   *)
(* shard failed and at least one applied; a rewrite that ran out of phases  *)
(* is complete.                                                             *)
Finish(c) ==
    /\ pc[c] = "finish"
    /\ LET per == mem[c].per
           failed == \/ kind # "rewrite" /\ anyFailed(per)
                     \/ kind # "rewrite" /\ \A k \in Keys: per[k].state # "applied"
       IN row' = Saved(c, [mem[c] EXCEPT !.state = IF failed THEN "failed" ELSE "complete"])
    /\ EndPass(c)
    /\ UNCHANGED <<catalogVars, obj, tab, pass, handover, budget>>

----------------------------------------------------------------------------
(* Online rewrite: what surrounds the phases *)

(* recordRewriteColumns: a migration that has settled goes on; otherwise    *)
(* every shard is inspected and the visible columns published, and any      *)
(* error there, a refused write included, fails the migration.              *)
recordRewriteColumns(c) ==
    /\ pc[c] = "columns"
    /\ \/ mem[c].settled /\ Goto(c, "phase") /\ UNCHANGED budget
       \/ ~mem[c].settled /\ Goto(c, IF Fenced(c) THEN "probe" ELSE "settle") /\ UNCHANGED budget
       \/ ~mem[c].settled /\ Fault("fault") /\ Goto(c, "probe")
    /\ UNCHANGED <<catalogVars, row, obj, tab, pass, handover, mem, loc>>

(* settleColumns: the wait for every router to reload, then its record. *)
settleColumns(c) ==
    /\ pc[c] = "settle"
    /\ IF Fenced(c) THEN Goto(c, "probe") /\ UNCHANGED <<row, mem>>
       ELSE /\ row' = [row EXCEPT !.settled = TRUE, !.set = mem[c].set]
            /\ SetMem(c, [mem[c] EXCEPT !.settled = TRUE])
            /\ Goto(c, "phase")
    /\ UNCHANGED <<catalogVars, obj, tab, pass, handover, loc, budget>>

(* Mutant: the recorded step is believed. *)
cutOverShards_Recorded(c) == {k \in Shards: mem[c].per[k].step > rewriteCutover}

(* cutOverShards: past the cutover by its step, or standing at it with the  *)
(* hidden column gone; one that cannot be asked counts too.                 *)
cutOverShards(c) ==
    {k \in Shards: \/ mem[c].per[k].step > rewriteCutover
                   \/ /\ mem[c].per[k].step = rewriteCutover
                      /\ tab[mem[c].set][k].col # "both"}

(* failRewrite, up to its reverts: every entry becomes failed, and the      *)
(* error says DEGRADED when some shard may have cut over.                   *)
failRewrite(c) ==
    /\ pc[c] = "probe"
    /\ \E unknown \in SUBSET {k \in Shards: mem[c].per[k].step = rewriteCutover}:
         /\ IF unknown = {} THEN UNCHANGED budget ELSE Fault("fault")
         /\ LET left == cutOverShards(c) \cup unknown IN
              /\ SetMem(c, [mem[c] EXCEPT !.state = "failed", !.degraded = left # {},
                                          !.per = [k \in Shards |-> [@[k] EXCEPT !.state = "failed"]]])
              /\ SetLoc(c, [Idle EXCEPT !.left = left])
    /\ Goto(c, "revert")
    /\ UNCHANGED <<catalogVars, row, obj, tab, pass, handover>>

(* revertRewrite on one shard, or past it when it was left alone or could   *)
(* not be reverted; then the write.                                         *)
revertRewrite(c) ==
    /\ pc[c] = "revert"
    /\ LET k == loc[c].key IN
         \/ /\ k \in Shards
            /\ \/ /\ k \notin loc[c].left
                  /\ tab' = [tab EXCEPT ![mem[c].set][k] = Swept(@)]
                  /\ UNCHANGED budget
               \/ k \notin loc[c].left /\ Fault("fault") /\ UNCHANGED tab
               \/ k \in loc[c].left /\ UNCHANGED <<tab, budget>>
            /\ SetLoc(c, [loc[c] EXCEPT !.key = k + 1])
            /\ UNCHANGED pc
         \/ /\ k \notin Shards
            /\ Goto(c, "failed")
            /\ UNCHANGED <<tab, loc, budget>>
    /\ UNCHANGED <<catalogVars, row, obj, pass, handover, mem>>

FailSave(c) ==
    /\ pc[c] = "failed"
    /\ row' = Saved(c, mem[c])
    /\ EndPass(c)
    /\ UNCHANGED <<catalogVars, obj, tab, pass, handover, budget>>

(* Any other write that fails for a reason of its own ends the pass. *)
SaveFails(c) ==
    /\ \/ pc[c] \in {"start", "finish", "failed"}
       \/ pc[c] = "record" /\ ~StepsLeft(c)
    /\ Fault("fault")
    /\ EndPass(c)
    /\ UNCHANGED <<catalogVars, row, obj, tab, pass, handover>>

----------------------------------------------------------------------------
(* What goes on around the applier *)

processVars == <<term, lock, published, pass, handover, mem, loc, pc>>

(* A router queues the statement. *)
Enqueue ==
    /\ row.state = "none"
    /\ row' = [NoRow EXCEPT !.state = "queued"]
    /\ UNCHANGED <<kind, gate, serving, obj, tab, processVars, budget>>

(* The operations in front of it finish, and may have moved its table. *)
QueueMoves ==
    /\ row.state = "queued"
    /\ \/ gate = "held" /\ gate' = "clear"
       \/ gate # "moved" /\ gate' = "moved"
    /\ UNCHANGED <<kind, row, serving, obj, tab, processVars, budget>>

(* A cutover makes another shard set serve. *)
Flip ==
    /\ row.state \in {"queued", "running"}
    /\ Fault("flip")
    /\ serving' = serving + 1
    /\ UNCHANGED <<kind, row, gate, obj, tab, processVars>>

(* A client inserts a row, or changes one, while no trigger is there to     *)
(* convert it.                                                              *)
ClientWrite(s, k) ==
    /\ tab[s][k].col = "both"
    /\ tab[s][k].full
    /\ ~tab[s][k].trig
    /\ tab' = [tab EXCEPT ![s][k].full = FALSE]
    /\ UNCHANGED <<kind, row, gate, serving, obj, processVars, budget>>

Work(c) ==
    \/ Tick(c) \/ RunOnce(c) \/ SweepRewriteArtifacts(c) \/ drive(c) \/ Start(c)
    \/ NextKey(c) \/ NextPhase(c) \/ Mark(c) \/ Check(c) \/ Exec(c) \/ rewritePhase(c)
    \/ After(c) \/ Wake(c) \/ Record(c) \/ Finish(c)
    \/ recordRewriteColumns(c) \/ settleColumns(c) \/ failRewrite(c) \/ revertRewrite(c) \/ FailSave(c)

Next ==
    \/ \E c \in Controllers:
         Work(c) \/ lead(c) \/ LoseLock(c) \/ Notice(c) \/ Crash(c) \/ Abandon(c) \/ SaveFails(c)
    \/ Enqueue \/ QueueMoves \/ Flip
    \/ \E s \in Sets, k \in Shards: ClientWrite(s, k)

(* The loops tick and their statements end, a free lock is campaigned for,  *)
(* and what stands in front in the queue finishes.                          *)
Fairness ==
    /\ \A c \in Controllers: WF_vars(Work(c))
    /\ WF_vars(\E c \in Controllers: lead(c))
    /\ WF_vars(QueueMoves)

Spec == Init /\ [][Next]_vars /\ Fairness

----------------------------------------------------------------------------
(* Properties *)

TypeOK ==
    /\ kind \in Statements
    /\ row.state \in {"none", "queued", "running", "complete", "failed"}
    /\ \A k \in DOMAIN row.per: row.per[k] \in Entries
    /\ obj \in [Sets -> [1 .. catalogKey -> Objects]]
    /\ tab \in [Sets -> [Shards -> Tables]]
    /\ lock \in Controllers \cup {NoOne}
    /\ handover \in {"clean", "lost", "unstamped"}
    /\ \A c \in Controllers: {published[c], pass[c]} \subseteq 0 .. term

(* Leadership has passed from one process to the next only when the first   *)
(* one died.                                                                *)
NoZombie == handover = "clean"

(* A migration recorded complete is applied on every database it was        *)
(* planned for: the statement's object is as the statement leaves it, and a *)
(* rewritten column is the converted one.                                   *)
CompleteIsDone ==
    row.state = "complete" =>
        \A k \in Keys: IF kind = "rewrite" THEN tab[row.set][k].col = "new"
                       ELSE obj[row.set][k] = Goal

(* That holds of every statement sent whole, whatever crashes and failures  *)
(* fall between its steps and their records.                                *)
StatementCompleteIsDone == kind \in PlainKinds /\ NoZombie => CompleteIsDone

(* A shard is cut over only when every one of its rows has been converted:  *)
(* the old column is gone by then, and so is a value that was not.          *)
CutoverKeepsRows ==
    NoZombie => \A s \in Sets, k \in Shards: tab[s][k].col = "new" => tab[s][k].full

(* A rewrite that failed and does not say DEGRADED left no shard cut over:  *)
(* nobody looks for a schema that diverged behind a clean failure.          *)
CleanFailureIsClean ==
    kind = "rewrite" /\ NoZombie /\ row.state = "failed" /\ ~row.degraded =>
        \A k \in DOMAIN row.per: tab[row.set][k].col # "new"

(* A finished migration is never written again, however many controllers    *)
(* are driving it, as long as every pass carries a term: the terms of all   *)
(* but the newest are refused.                                              *)
FinishedStays == [][row.state \in Final /\ handover # "unstamped" => row' = row]_vars

(* A queued migration ends, complete or failed, once the crashes and faults *)
(* stop.                                                                    *)
MigrationEnds == (row.state = "queued") ~> (row.state \in Final)

(* And in the end the serving shards carry no trigger and no hidden column  *)
(* of a rewrite: a revert that failed or a process that died before it is   *)
(* made good by the sweep.                                                  *)
ArtifactsGo == <>[](\A k \in Shards: tab[serving][k].col # "both" /\ ~tab[serving][k].trig)
=============================================================================
